---------------------------- MODULE AutostartProofs ----------------------------
(***************************************************************************)
(* The button of AutostartView does what it says, for any entries and      *)
(* whatever other programs do to the directory in between.                 *)
(***************************************************************************)
EXTENDS Autostart, TLAPS

\* The label of a button that can be clicked is that of the selected row, and it
\* still is when the file is renamed.
LabelInv == /\ sensitive /\ selected # None => label = selected.enabled
            /\ renaming # None => label = renaming.enabled

Inv == TypeOK /\ LabelInv

LEMMA InitInv == Init => Inv
<1> SUFFICES ASSUME Init PROVE Inv
  OBVIOUS
<1>1. PICK list \in SUBSET Paths : files \in [list -> Contents]
  BY DEF Init
<1>2. TypeOK
  BY <1>1 DEF Init, TypeOK
<1>3. LabelInv
  BY DEF Init, LabelInv
<1> QED
  BY <1>2, <1>3 DEF Inv

\* LoadData after the files have become others.
LEMMA LoadDataType ==
  ASSUME LoadData, DOMAIN files' \subseteq Paths
  PROVE  rows' \subseteq Paths /\ selected' \in rows' \cup {None} /\ sensitive' \in BOOLEAN
  BY DEF LoadData

LEMMA ToggledType ==
  ASSUME NEW path \in Paths
  PROVE  Toggled(path) \in Paths /\ Toggled(path) # path
<1>1. Toggled(path) = [path EXCEPT !.enabled = ~path.enabled]
  BY DEF Toggled
<1>2. path.enabled \in BOOLEAN /\ path.name \in Names
  BY DEF Paths
<1>3. Toggled(path) = [name |-> path.name, enabled |-> ~path.enabled]
  BY <1>1 DEF Paths
<1>4. Toggled(path) \in Paths
  BY <1>2, <1>3 DEF Paths
<1>5. Toggled(path).enabled = ~path.enabled
  BY <1>3
<1> QED
  BY <1>2, <1>4, <1>5

LEMMA SelectStep == ASSUME Inv, NEW path \in Paths, OnRowSelected(path) PROVE Inv'
<1> USE DEF Inv, OnRowSelected, TypeOK
<1>1. TypeOK'
  <2>1. path.enabled \in BOOLEAN
    BY DEF Paths
  <2>2. label' \in BOOLEAN
    BY <2>1
  <2>3. sensitive' \in BOOLEAN
    OBVIOUS
  <2> QED
    BY <2>2, <2>3
<1>2. LabelInv'
  BY DEF LabelInv, Idle
<1> QED
  BY <1>1, <1>2

LEMMA OutsideStep == ASSUME Inv, NEW path \in Paths, Outside(path) PROVE Inv'
<1> USE DEF Inv, Outside, TypeOK, view
<1>1. DOMAIN files' \subseteq Paths /\ \A p \in DOMAIN files' : files'[p] \in Contents
  <2>1. CASE \E c \in Contents :
               files' = [other \in DOMAIN files \cup {path} |-> IF other = path THEN c ELSE files[other]]
    BY <2>1
  <2>2. CASE files' = [other \in DOMAIN files \ {path} |-> files[other]]
    BY <2>2
  <2> QED
    BY <2>1, <2>2
<1>2. TypeOK'
  BY <1>1
<1>3. LabelInv'
  BY DEF LabelInv
<1> QED
  BY <1>2, <1>3

LEMMA ClickStep == ASSUME Inv, OnEnableClick PROVE Inv'
<1> USE DEF Inv, OnEnableClick, TypeOK, view
<1>1. TypeOK'
  OBVIOUS
<1>2. LabelInv'
  BY DEF LabelInv, Idle
<1> QED
  BY <1>1, <1>2

\* What rename does to the directory.
LEMMA RenameFiles ==
  ASSUME Inv, Rename
  PROVE  /\ renaming \in Paths
         /\ DOMAIN files' = (DOMAIN files \ {renaming}) \cup {Toggled(renaming)}
         /\ files'[Toggled(renaming)] = files[renaming]
         /\ \A path \in DOMAIN files \ {renaming, Toggled(renaming)} : files'[path] = files[path]
<1>1. renaming \in Paths
  BY DEF Inv, TypeOK, Rename
<1> QED
  BY <1>1 DEF Rename

LEMMA RenameStep == ASSUME Inv, Rename PROVE Inv'
<1>1. /\ DOMAIN files' \subseteq Paths
      /\ \A path \in DOMAIN files' : files'[path] \in Contents
  <2>1. Toggled(renaming) \in Paths
    BY RenameFiles, ToggledType
  <2>2. renaming \in DOMAIN files
    BY DEF Rename
  <2> QED
    BY <2>1, <2>2, RenameFiles DEF Inv, TypeOK
<1>2. rows' \subseteq Paths /\ selected' \in rows' \cup {None} /\ sensitive' \in BOOLEAN
  BY <1>1, LoadDataType DEF Rename
<1>3. TypeOK'
  BY <1>1, <1>2 DEF Inv, TypeOK, Rename
<1>4. LabelInv'
  BY DEF LabelInv, Rename, LoadData
<1> QED
  BY <1>3, <1>4 DEF Inv

LEMMA FailStep == ASSUME Inv, RenameFails PROVE Inv'
<1> USE DEF Inv, RenameFails, TypeOK, view
<1>1. TypeOK'
  OBVIOUS
<1>2. LabelInv'
  BY DEF LabelInv
<1> QED
  BY <1>1, <1>2

LEMMA StepInv == Inv /\ [Next]_vars => Inv'
<1> SUFFICES ASSUME Inv, [Next]_vars PROVE Inv'
  OBVIOUS
<1>1. CASE UNCHANGED vars
  BY <1>1 DEF vars, view, Inv, TypeOK, LabelInv
<1>2. CASE \E path \in Paths : OnRowSelected(path) \/ Outside(path)
  BY <1>2, SelectStep, OutsideStep
<1> QED
  BY <1>1, <1>2, ClickStep, RenameStep, FailStep DEF Next

LEMMA Invariance == Spec => []Inv
<1>1. Init => Inv
  BY InitInv
<1>2. Inv /\ [Next]_vars => Inv'
  BY StepInv
<1> QED
  BY <1>1, <1>2, PTL DEF Spec

\* Paths, rows, selection and files have their types, and the selected row is one
\* of those loaded: the variables of Autostart.
THEOREM TypeCorrect == Spec => []TypeOK
<1>1. Inv => TypeOK
  BY DEF Inv
<1> QED
  BY <1>1, Invariance, PTL

\* A click does what the label says, for any number of entries (OnRowSelected,
\* OnEnableClick).
THEOREM LabelTells == Spec => ClickDoesWhatLabelSays
<1>1. Inv => (renaming # None /\ renaming' = None => label = renaming.enabled)
  BY DEF Inv, LabelInv
<1>2. Inv => [renaming # None /\ renaming' = None => label = renaming.enabled]_vars
  BY <1>1
<1> QED
  BY <1>2, Invariance, PTL DEF ClickDoesWhatLabelSays

\* A click moves one entry and takes away none but one that is in its way
\* (SetEntryEnabled).
THEOREM EntriesKept == Spec => ClickKeepsEntries
<1> DEFINE Kept ==
             renaming' = None /\ renaming \in DOMAIN files =>
               /\ renaming \notin DOMAIN files'
               /\ files'[Toggled(renaming)] = files[renaming]
               /\ \A path \in DOMAIN files \ {renaming, Toggled(renaming)} :
                    path \in DOMAIN files' /\ files'[path] = files[path]
<1>1. Inv /\ [Next]_vars => [Kept]_vars
  <2> SUFFICES ASSUME Inv, Next, renaming' = None, renaming \in DOMAIN files PROVE Kept
    BY DEF vars
  <2>1. renaming \in Paths /\ renaming # None
    BY NoneAssumption DEF Inv, TypeOK
  <2>2. Rename
    BY <2>1 DEF Next, OnRowSelected, Outside, OnEnableClick, RenameFails, Idle
  <2> QED
    BY <2>1, <2>2, RenameFiles, ToggledType
<1> QED
  BY <1>1, Invariance, PTL DEF Spec, ClickKeepsEntries
=============================================================================
