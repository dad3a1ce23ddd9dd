-------------------------- MODULE ProcessListProofs --------------------------
(***************************************************************************)
(* From the files of /proc to the rows of the view, for any number of      *)
(* processes and pids: the scan lists what survives it, and its parents    *)
(* form no cycle; the caches partition what was scanned and own the nodes  *)
(* that exist; a scan without cycles makes trees that are complete; and    *)
(* each process of such a tree gets one row, below its parent and in order *)
(* where the code promises so.                                             *)
(***************************************************************************)
EXTENDS ProcessesApi, ProcessManager, ProcessesView, FiniteSetTheorems, WellFoundedInduction,
        TLAPS

-----------------------------------------------------------------------------
(* Numbers. *)

\* A set of natural numbers has a least one.
LEMMA LeastNumber ==
  ASSUME NEW T, T \subseteq Nat, T # {}
  PROVE  \E x \in T : \A y \in T : ~(y < x)
<1>1. PICK x \in T : \A y \in T : ~(<<y, x>> \in OpToRel(<, Nat))
  BY NatLessThanWellFounded, WFMin
<1>2. \A y \in T : y < x => <<y, x>> \in OpToRel(<, Nat)
  BY DEF OpToRel
<1> QED
  BY <1>1, <1>2

\* A finite set of numbers can be listed in ascending order: a number is listed at
\* the place that says how many are not above it.
LEMMA SortedListing ==
  ASSUME NEW S, S \subseteq Nat, IsFiniteSet(S)
  PROVE  \E list \in [1..Cardinality(S) -> S] :
           \A m, n \in 1..Cardinality(S) : m < n => list[m] < list[n]
  <1> DEFINE UpTo(c) == {d \in S : d <= c}
             rank == [c \in S |-> Cardinality(UpTo(c))]
             places == 1..Cardinality(S)
  <1>1. Cardinality(S) \in Nat
    BY FS_CardinalityType
  <1>2. ASSUME NEW c \in S PROVE IsFiniteSet(UpTo(c)) /\ Cardinality(UpTo(c)) \in places
    <2>1. IsFiniteSet(UpTo(c)) /\ Cardinality(UpTo(c)) <= Cardinality(S)
      BY FS_Subset
    <2>2. c \in UpTo(c)
      OBVIOUS
    <2>3. Cardinality(UpTo(c)) \in Nat \ {0}
      BY <2>1, <2>2, FS_CardinalityType, FS_EmptySet
    <2> QED
      BY <1>1, <2>1, <2>3
  <1>3. ASSUME NEW c \in S, NEW d \in S, c < d PROVE rank[c] < rank[d]
    <2>3. c \in Int /\ d \in Int /\ \A e \in S : e \in Int
      OBVIOUS
    <2>4. UpTo(c) \subseteq UpTo(d)
      <3> SUFFICES ASSUME NEW e \in S, e <= c PROVE e <= d
        OBVIOUS
      <3> QED
        BY <1>3, <2>3
    <2>1. UpTo(c) \subseteq UpTo(d) /\ d \in UpTo(d) /\ d \notin UpTo(c)
      BY <1>3, <2>3, <2>4
    <2>2. Cardinality(UpTo(c)) < Cardinality(UpTo(d))
      <3>1. Cardinality(UpTo(c)) <= Cardinality(UpTo(d))
        BY <1>2, <2>1, FS_Subset
      <3>2. Cardinality(UpTo(c)) # Cardinality(UpTo(d))
        BY <1>2, <2>1, FS_Subset
      <3>3. Cardinality(UpTo(c)) \in Int /\ Cardinality(UpTo(d)) \in Int
        BY <1>1, <1>2
      <3> QED
        BY <3>1, <3>2, <3>3
    <2> QED
      BY <2>2
  <1>4. rank \in [S -> places]
    BY <1>2
  <1>5. \A c, d \in S : rank[c] = rank[d] => c = d
    <2> SUFFICES ASSUME NEW c \in S, NEW d \in S, rank[c] = rank[d] PROVE c = d
      OBVIOUS
    <2>1. rank[c] \in Int /\ c \in Int /\ d \in Int
      BY <1>1, <1>4
    <2>2. ~(c < d) /\ ~(d < c)
      BY <1>3, <2>1
    <2> QED
      BY <2>1, <2>2
  <1>6. rank \in Injection(S, places)
    BY <1>4, <1>5 DEF Injection, IsInjective
  <1>7. IsFiniteSet(places) /\ Cardinality(places) = Cardinality(S)
    BY <1>1, FS_Interval
  <1>8. rank \in Surjection(S, places)
    BY <1>6, <1>7, FS_Injection
  <1>9. \A n \in places : \E c \in S : rank[c] = n
    BY <1>8 DEF Surjection
  <1> DEFINE list == [n \in places |-> CHOOSE c \in S : rank[c] = n]
  <1>10. \A n \in places : list[n] \in S /\ rank[list[n]] = n
    BY <1>9
  <1>11. ASSUME NEW m \in places, NEW n \in places, m < n PROVE list[m] < list[n]
    <2> HIDE DEF rank, list
    <2>1. list[m] \in S /\ list[n] \in S /\ rank[list[m]] = m /\ rank[list[n]] = n
      BY <1>10
    <2>5. \A e \in S : e \in Int
      OBVIOUS
    <2>6. m \in Int /\ n \in Int
      BY <1>1
    <2>2. list[m] \in Int /\ list[n] \in Int /\ m \in Int /\ n \in Int
      BY <2>1, <2>5, <2>6
    <2>3. list[m] # list[n]
      BY <1>11, <2>1, <2>2
    <2>4. ~(list[n] < list[m])
      BY <1>3, <1>11, <2>1, <2>2
    <2> QED
      BY <2>2, <2>3, <2>4
  <1>12. list \in [places -> S]
    BY <1>10
  <1> QED
    BY <1>11, <1>12

-----------------------------------------------------------------------------
(* The scan. *)

\* A process is younger than its parent, and all are younger than init.
FamilyInv ==
  /\ InitPid \in Alive
  /\ \A p \in Alive \ {InitPid} : procs[InitPid].life < procs[p].life
  /\ \A p \in Alive : procs[p].parent # Root => procs[procs[p].parent].life < procs[p].life

InBody == step \in Steps \ {"stat", "done"}

\* The entries that were read, the one in the body of the loop included.
Read == ToSet(result) \cup {e \in {proc} : InBody}

\* While no pid was used again, a pid that was read names the process it named then,
\* or no process at all.
StillNames(e) ==
  \E life \in 1..lives :
    /\ e.read = {life}
    /\ e.pid \in gone \/ (e.pid \in Alive /\ procs[e.pid].life = life)
    /\ \/ e.parentPid \in gone \cup {Root}
       \/ e.parentPid \in Alive /\ procs[e.parentPid].life < life

\* A parent among the entries is older than its child, although it may have been
\* read before the child was started, or after it was adopted.
Older(e, f) == e.parentPid = f.pid => \A m \in e.read, n \in f.read : n < m

AncestryInv ==
  ~reused => /\ gone \cap Alive = {}
             /\ \A e \in Read : StillNames(e)
             /\ \A e, f \in Read : Older(e, f)

\* The scan has been at p.
Passed(p) == step = "done" \/ p <= cursor

\* The entry at i is that of p and of no other process.
EntryOf(i, p) == result[i].pid = p /\ result[i].read = {procs[p].life}

SteadyInv ==
  \A p \in steady :
    /\ p \in Alive
    /\ procs[p].program \notin Spaced
    /\ Passed(p) => \/ InBody /\ cursor = p /\ proc.read = {procs[p].life}
                    \/ \E i \in DOMAIN result : EntryOf(i, p)

\* The entries are in the order of the directory.
OrderInv ==
  /\ \A i, j \in DOMAIN result : i < j => result[i].pid < result[j].pid
  /\ step # "done" => \A i \in DOMAIN result : result[i].pid <= cursor
  /\ InBody => \A i \in DOMAIN result : result[i].pid < cursor

ScanInv == ScanTypeOK /\ FamilyInv /\ AncestryInv /\ SteadyInv /\ OrderInv

LEMMA ScanInitInv == ScanInit => ScanInv
<1> SUFFICES ASSUME ScanInit PROVE ScanInv
  OBVIOUS
<1> USE ProcessesAssumption DEF ScanInit
<1>1. Alive = {InitPid} /\ procs[InitPid].life = 1 /\ procs[InitPid].parent = Root
  BY DEF Alive
<1>2. ScanTypeOK
  <2>1. procs \in [Alive -> [life : 1..lives, parent : Alive \cup {Root}, program : Programs]]
    <3>1. procs[InitPid] \in [life : {1}, parent : {Root}, program : Programs]
      OBVIOUS
    <3>2. procs[InitPid] \in [life : 1..lives, parent : Alive \cup {Root}, program : Programs]
      BY <3>1
    <3> QED
      BY <1>1, <3>2 DEF Alive
  <2>2. Alive \subseteq Pids /\ lives \in 1..MaxLives /\ step \in Steps /\ result \in Seq(ProcessInfo)
    BY <1>1 DEF Steps
  <2> QED
    BY <2>1, <2>2 DEF ScanTypeOK
<1>3. FamilyInv
  BY <1>1 DEF FamilyInv
<1>4. AncestryInv /\ SteadyInv /\ OrderInv
  BY DEF AncestryInv, SteadyInv, OrderInv, Read, InBody, Steps, ToSet
<1> QED
  BY <1>2, <1>3, <1>4 DEF ScanInv

-----------------------------------------------------------------------------
(* Types. *)

LEMMA PidsAreNumbers == \A p \in Pids : p \in Int /\ p \in Nat /\ p # 0
BY ProcessesAssumption

\* Every process in use has a record.
LEMMA ProcsType ==
  ASSUME ScanTypeOK, NEW p \in Alive
  PROVE  /\ p \in Pids
         /\ procs[p].life \in 1..lives
         /\ procs[p].parent \in Alive \cup {Root}
         /\ procs[p].program \in Programs
         /\ procs[p] \in [life : 1..lives, parent : Alive \cup {Root}, program : Programs]
BY DEF ScanTypeOK

LEMMA ForkType ==
  ASSUME ScanTypeOK, NEW p \in Alive, NEW pid \in Pids, Fork(p, pid)
  PROVE  ScanTypeOK'
<1> USE DEF Fork, scan
<1>1. Alive' = Alive \cup {pid} /\ lives' \in 1..MaxLives /\ 1..lives \subseteq 1..lives' /\ lives' \in 1..lives'
  BY ProcessesAssumption DEF ScanTypeOK, Alive
<1>2. ASSUME NEW q \in Alive'
      PROVE  procs'[q] \in [life : 1..lives', parent : Alive' \cup {Root}, program : Programs]
  <2>1. CASE q = pid
    BY <1>1, <2>1, ProcsType
  <2>2. CASE q # pid
    BY <1>1, <2>2, ProcsType
  <2> QED
    BY <2>1, <2>2
<1>3. procs' \in [Alive' -> [life : 1..lives', parent : Alive' \cup {Root}, program : Programs]]
  BY <1>1, <1>2 DEF Alive
<1>4. ProcessInfo \subseteq ProcessInfo'
  BY <1>1 DEF ProcessInfo
<1>5. result' \in Seq(ProcessInfo')
  BY <1>4 DEF ScanTypeOK
<1>6. reused' \in BOOLEAN
  BY DEF ScanTypeOK
<1> QED
  BY <1>1, <1>3, <1>4, <1>5, <1>6 DEF ScanTypeOK

LEMMA ExecType ==
  ASSUME ScanTypeOK, NEW p \in Alive, NEW program \in Programs, Exec(p, program)
  PROVE  ScanTypeOK'
<1> USE DEF Exec, scan
<1>1. Alive' = Alive
  BY DEF Alive, ScanTypeOK
<1>2. procs' \in [Alive -> [life : 1..lives, parent : Alive \cup {Root}, program : Programs]]
  BY ProcsType DEF ScanTypeOK
<1> QED
  BY <1>1, <1>2 DEF ScanTypeOK, ProcessInfo

LEMMA ExitType ==
  ASSUME ScanTypeOK, FamilyInv, NEW p \in Alive, Exit(p)
  PROVE  ScanTypeOK'
<1> USE DEF Exit, scan
<1>1. Alive' = Alive \ {p} /\ InitPid \in Alive'
  BY DEF Alive, FamilyInv
<1>2. ASSUME NEW q \in Alive'
      PROVE  procs'[q] \in [life : 1..lives, parent : Alive' \cup {Root}, program : Programs]
  <2>1. CASE procs[q].parent = p
    BY <1>1, <2>1, ProcsType
  <2>2. CASE procs[q].parent # p
    BY <1>1, <2>2, ProcsType
  <2> QED
    BY <2>1, <2>2
<1>3. procs' \in [Alive' -> [life : 1..lives, parent : Alive' \cup {Root}, program : Programs]]
  BY <1>1, <1>2 DEF Alive
<1>4. p \in Pids
  BY ProcsType
<1> QED
  BY <1>1, <1>3, <1>4 DEF ScanTypeOK, ProcessInfo

\* What one more file leaves of the entry.
LEMMA WithFileType ==
  ASSUME ScanTypeOK, InBody, cursor \in Alive
  PROVE  /\ WithFile \in ProcessInfo
         /\ WithFile = [pid |-> proc.pid, parentPid |-> proc.parentPid, name |-> proc.name,
                        read |-> proc.read \cup {procs[cursor].life}]
<1>1. proc \in ProcessInfo /\ procs[cursor].life \in 1..lives
  BY ProcsType DEF ScanTypeOK, InBody
<1> QED
  BY <1>1 DEF WithFile, ProcessInfo

\* What a scan's step leaves of proc, in any of the steps.
LEMMA ScanType ==
  ASSUME ScanTypeOK,
         UNCHANGED <<procs, lives>>,
         step' \in Steps,
         cursor' \in Pids \cup {0},
         InBody' => proc' \in ProcessInfo /\ proc'.pid = cursor',
         result' \in Seq(ProcessInfo),
         gone' \cup steady' \subseteq Pids,
         reused' \in BOOLEAN
  PROVE  ScanTypeOK'
BY DEF ScanTypeOK, InBody, Alive, ProcessInfo

LEMMA ReadStatType ==
  ASSUME ScanTypeOK, NEW pid \in Pids, ReadStat(pid)
  PROVE  ScanTypeOK'
<1> USE DEF ReadStat, system
<1>1. InBody' => proc' \in ProcessInfo /\ proc'.pid = cursor'
  <2>1. CASE pid \in Alive /\ procs[pid].program \notin Spaced
    BY <2>1, ProcsType DEF ProcessInfo
  <2>2. CASE ~(pid \in Alive /\ procs[pid].program \notin Spaced)
    BY <2>2 DEF InBody
  <2> QED
    BY <2>1, <2>2
<1> QED
  BY <1>1, ScanType DEF ScanTypeOK, Steps

LEMMA ReadOrSkipType ==
  ASSUME ScanTypeOK, ReadStatus \/ ReadStatm
  PROVE  ScanTypeOK'
<1> USE DEF ReadStatus, ReadStatm, ReadOrSkip, system
<1>1. InBody
  BY DEF InBody, Steps
<1>2. InBody' => proc' \in ProcessInfo /\ proc'.pid = cursor'
  <2>1. CASE cursor \in Alive
    BY <1>1, <2>1, WithFileType DEF ScanTypeOK, InBody
  <2>2. CASE cursor \notin Alive
    BY <2>2 DEF Continue, InBody
  <2> QED
    BY <2>1, <2>2
<1>3. step' \in Steps
  BY DEF Continue, Steps
<1> QED
  BY <1>2, <1>3, ScanType DEF ScanTypeOK

LEMMA ReadCmdlineType ==
  ASSUME ScanTypeOK, ReadCmdline
  PROVE  ScanTypeOK'
<1> USE DEF ReadCmdline, system
<1>1. InBody
  BY DEF InBody, Steps
<1>2. proc' \in ProcessInfo /\ proc'.pid = cursor'
  <2>1. CASE cursor \in Alive /\ procs[cursor].program \notin Silent
    <3>1. procs[cursor].program \in Programs
      BY <2>1, ProcsType
    <3> QED
      BY <1>1, <2>1, <3>1, WithFileType DEF ScanTypeOK, InBody, ProcessInfo
  <2>2. CASE ~(cursor \in Alive /\ procs[cursor].program \notin Silent)
    BY <1>1, <2>2 DEF ScanTypeOK, InBody
  <2> QED
    BY <2>1, <2>2
<1> QED
  BY <1>2, ScanType DEF ScanTypeOK, Steps

LEMMA ReadIoType ==
  ASSUME ScanTypeOK, ReadIo
  PROVE  ScanTypeOK'
<1> USE DEF ReadIo, Continue, system
<1>1. InBody
  BY DEF InBody, Steps
<1>2. (IF cursor \in Alive THEN WithFile ELSE proc) \in ProcessInfo
  BY <1>1, WithFileType DEF ScanTypeOK, InBody
<1>3. result' \in Seq(ProcessInfo)
  BY <1>2 DEF ScanTypeOK
<1> QED
  BY <1>3, ScanType DEF ScanTypeOK, Steps, InBody

LEMMA TypeStep == ASSUME ScanTypeOK, FamilyInv, [ScanNext]_scanVars PROVE ScanTypeOK'
<1>1. CASE Begin
  <2>1. gone' \cup steady' \subseteq Pids
    BY <1>1, ProcsType DEF Begin
  <2>2. result' \in Seq(ProcessInfo) /\ step' \in Steps /\ ~InBody'
    BY <1>1 DEF Begin, Steps, InBody
  <2>3. reused' \in BOOLEAN
    BY <1>1 DEF Begin
  <2> QED
    BY <1>1, <2>1, <2>2, <2>3, ScanType DEF Begin, system
<1>2. CASE End
  BY <1>2, ScanType, ProcessesAssumption DEF End, ScanTypeOK, Steps, InBody, system
<1>3. CASE UNCHANGED scanVars
  BY <1>3 DEF scanVars, system, scan, ScanTypeOK, Alive, ProcessInfo
<1> QED
  BY <1>1, <1>2, <1>3, ReadStatType, ReadOrSkipType, ReadCmdlineType, ReadIoType,
     ForkType, ExecType, ExitType DEF ScanNext

-----------------------------------------------------------------------------
(* What the system does, in the terms of the invariants. *)

\* A pid of a living process goes on to name it, unless it ends.
LEMMA LifeAfterFork ==
  ASSUME ScanTypeOK, NEW p \in Alive, NEW pid \in Pids, Fork(p, pid)
  PROVE  /\ Alive' = Alive \cup {pid} /\ pid \notin Alive /\ lives \in Nat /\ lives' = lives + 1
         /\ procs'[pid].life = lives + 1 /\ procs'[pid].parent = p
         /\ \A q \in Alive : procs'[q] = procs[q]
BY DEF Fork, Alive, ScanTypeOK

LEMMA LifeAfterExec ==
  ASSUME ScanTypeOK, NEW p \in Alive, NEW program \in Programs, Exec(p, program)
  PROVE  /\ Alive' = Alive
         /\ \A q \in Alive : procs'[q].life = procs[q].life /\ procs'[q].parent = procs[q].parent
         /\ \A q \in Alive \ {p} : procs'[q].program = procs[q].program
         /\ procs'[p].program = program
<1>1. procs[p] \in [life : 1..lives, parent : Alive \cup {Root}, program : Programs]
  BY ProcsType
<1>2. \A q \in Alive : procs'[q] = IF q = p THEN [procs[p] EXCEPT !.program = program] ELSE procs[q]
  BY DEF Exec, Alive, ScanTypeOK
<1>3. [procs[p] EXCEPT !.program = program] =
        [life |-> procs[p].life, parent |-> procs[p].parent, program |-> program]
  BY <1>1
<1> QED
  BY <1>2, <1>3 DEF Exec, Alive, ScanTypeOK

LEMMA LifeAfterExit ==
  ASSUME ScanTypeOK, NEW p \in Alive, Exit(p)
  PROVE  /\ Alive' = Alive \ {p} /\ p # InitPid
         /\ \A q \in Alive' : /\ procs'[q].life = procs[q].life
                              /\ procs'[q].program = procs[q].program
                              /\ procs'[q].parent = IF procs[q].parent = p THEN InitPid
                                                                           ELSE procs[q].parent
<1>1. Alive' = Alive \ {p} /\ p # InitPid
  BY DEF Exit, Alive
<1>2. ASSUME NEW q \in Alive'
      PROVE  /\ procs'[q].life = procs[q].life
             /\ procs'[q].program = procs[q].program
             /\ procs'[q].parent = IF procs[q].parent = p THEN InitPid ELSE procs[q].parent
  <2>1. procs[q] \in [life : 1..lives, parent : Alive \cup {Root}, program : Programs]
    BY <1>1, ProcsType
  <2>2. procs'[q] = IF procs[q].parent = p THEN [procs[q] EXCEPT !.parent = InitPid] ELSE procs[q]
    BY <1>1 DEF Exit, Alive
  <2> QED
    BY <2>1, <2>2
<1> QED
  BY <1>1, <1>2

\* The steps of GetAllProcesses leave the system alone.
Scanning == \/ Begin \/ \E pid \in Pids : ReadStat(pid)
            \/ ReadStatus \/ ReadStatm \/ ReadCmdline \/ ReadIo \/ End

LEMMA ScanningLeavesSystem == ASSUME ScanTypeOK, Scanning PROVE UNCHANGED system /\ Alive' = Alive
BY DEF Scanning, Begin, ReadStat, ReadStatus, ReadStatm, ReadOrSkip, ReadCmdline, ReadIo, End, system, Alive

LEMMA FamilyStep == ASSUME ScanTypeOK, FamilyInv, [ScanNext]_scanVars PROVE FamilyInv'
<1>1. CASE Scanning
  BY <1>1, ScanningLeavesSystem DEF FamilyInv, system
<1>2. ASSUME NEW p \in Alive, NEW pid \in Pids, Fork(p, pid) PROVE FamilyInv'
  <2>1. /\ Alive' = Alive \cup {pid} /\ pid \notin Alive /\ lives \in Nat
        /\ procs'[pid].life = lives + 1 /\ procs'[pid].parent = p
        /\ \A q \in Alive : procs'[q] = procs[q]
    BY <1>2, LifeAfterFork
  <2>2. \A q \in Alive : procs[q].life \in 1..lives /\ procs[q].parent \in Alive \cup {Root}
    BY ProcsType
  <2> QED
    BY <2>1, <2>2 DEF FamilyInv
<1>3. ASSUME NEW p \in Alive, NEW program \in Programs, Exec(p, program) PROVE FamilyInv'
  <2>1. \A q \in Alive : procs[q].parent \in Alive \cup {Root}
    BY ProcsType
  <2> QED
    BY <1>3, <2>1, LifeAfterExec DEF FamilyInv
<1>4. ASSUME NEW p \in Alive, Exit(p) PROVE FamilyInv'
  <2>1. \A q \in Alive : procs[q].life \in 1..lives /\ procs[q].parent \in Alive \cup {Root}
    BY ProcsType
  <2>2. /\ Alive' = Alive \ {p} /\ p # InitPid
        /\ \A q \in Alive' : /\ procs'[q].life = procs[q].life
                             /\ procs'[q].parent = IF procs[q].parent = p THEN InitPid
                                                                          ELSE procs[q].parent
    BY <1>4, LifeAfterExit
  <2>3. lives \in Nat
    BY DEF ScanTypeOK
  <2>4. procs[InitPid].parent # p
    <3>1. p # Root
      BY ProcsType, RootAssumption
    <3>2. InitPid \in Alive /\ procs[InitPid].life < procs[p].life
      BY <2>2 DEF FamilyInv
    <3>3. procs[InitPid].life \in Int /\ procs[p].life \in Int
      BY <2>1, <2>3, <3>2
    <3> QED
      BY <3>1, <3>2, <3>3 DEF FamilyInv
  <2> QED
    BY <2>1, <2>2, <2>3, <2>4 DEF FamilyInv
<1>5. CASE UNCHANGED scanVars
  BY <1>5 DEF FamilyInv, Alive, scanVars, system
<1> QED
  BY <1>1, <1>2, <1>3, <1>4, <1>5 DEF ScanNext, Scanning

-----------------------------------------------------------------------------
(* The entries. *)

LEMMA ReadType ==
  ASSUME ScanTypeOK, NEW e \in Read
  PROVE  e \in ProcessInfo /\ e.pid \in Pids /\ e.parentPid \in Pids \cup {Root} /\ e.read \subseteq 1..lives
<1>1. e \in ProcessInfo
  <2>1. CASE e \in ToSet(result)
    BY <2>1 DEF ScanTypeOK, ToSet
  <2>2. CASE InBody /\ e = proc
    BY <2>2 DEF ScanTypeOK, InBody
  <2> QED
    BY <2>1, <2>2 DEF Read
<1> QED
  BY <1>1 DEF ProcessInfo

\* The end of a body moves the entry into the result, with one more file or without.
LEMMA AppendSet ==
  ASSUME NEW S, NEW seq \in Seq(S), NEW e
  PROVE  ToSet(Append(seq, e)) = ToSet(seq) \cup {e}
<1>1. DOMAIN Append(seq, e) = 1..Len(seq) + 1 /\ DOMAIN seq = 1..Len(seq) /\ Len(seq) \in Nat
  OBVIOUS
<1>2. \A i \in 1..Len(seq) : Append(seq, e)[i] = seq[i]
  OBVIOUS
<1>3. Append(seq, e)[Len(seq) + 1] = e
  OBVIOUS
<1>4. ToSet(seq) \cup {e} \subseteq ToSet(Append(seq, e))
  BY <1>1, <1>2, <1>3 DEF ToSet
<1>5. ToSet(Append(seq, e)) \subseteq ToSet(seq) \cup {e}
  <2> SUFFICES ASSUME NEW i \in DOMAIN Append(seq, e)
               PROVE  Append(seq, e)[i] \in ToSet(seq) \cup {e}
    BY DEF ToSet
  <2>1. CASE i = Len(seq) + 1
    BY <1>3, <2>1
  <2>2. CASE i # Len(seq) + 1
    <3>1. i \in 1..Len(seq)
      BY <1>1, <2>2
    <3> QED
      BY <1>1, <1>2, <3>1 DEF ToSet
  <2> QED
    BY <2>1, <2>2
<1> QED
  BY <1>4, <1>5

\* One more file of the entry in the body is a file of the same process, while no
\* pid was used again.
LEMMA SameFile ==
  ASSUME ScanInv, InBody, cursor \in Alive, ~reused
  PROVE  WithFile = proc
<1>1. proc \in Read /\ proc.pid = cursor
  BY DEF Read, ScanInv, ScanTypeOK, InBody
<1>2. PICK life \in 1..lives :
             proc.read = {life} /\ (cursor \in gone \/ procs[cursor].life = life)
  BY <1>1 DEF ScanInv, AncestryInv, StillNames
<1>3. proc.read \cup {procs[cursor].life} = proc.read
  BY <1>2 DEF ScanInv, AncestryInv
<1>4. proc \in ProcessInfo
  BY <1>1, ReadType DEF ScanInv
<1> QED
  BY <1>3, <1>4, WithFileType DEF ScanInv, ProcessInfo

\* The entry that ReadStat begins: its parent is alive, and older than it; and what
\* it is the parent of is younger.
LEMMA ReadStatAncestry ==
  ASSUME ScanInv, NEW pid \in Pids, ReadStat(pid)
  PROVE  AncestryInv'
<1> USE DEF ReadStat, system
<1> SUFFICES ASSUME ~reused
             PROVE  /\ gone \cap Alive = {}
                    /\ \A e \in Read' : StillNames(e)
                    /\ \A e, f \in Read' : Older(e, f)
  BY DEF AncestryInv, StillNames, Older, Alive
<1>1. /\ gone \cap Alive = {}
      /\ \A e \in ToSet(result) : StillNames(e)
      /\ \A e, f \in ToSet(result) : Older(e, f)
  BY DEF ScanInv, AncestryInv, Read
<1>2. CASE pid \in Alive /\ procs[pid].program \notin Spaced
  <2>1. Read' = ToSet(result) \cup {proc'}
    BY <1>2 DEF Read, InBody, Steps
  <2>2. /\ proc'.pid = pid /\ proc'.parentPid = procs[pid].parent
        /\ proc'.read = {procs[pid].life}
    BY <1>2
  <2>3. \A q \in Alive : /\ procs[q].life \in 1..lives
                         /\ procs[q].parent \in Alive \cup {Root}
                         /\ q # Root
    BY ProcsType, RootAssumption DEF ScanInv
  <2>4. lives \in Nat
    BY DEF ScanInv, ScanTypeOK
  <2>5. StillNames(proc')
    BY <1>2, <2>2, <2>3 DEF StillNames, ScanInv, FamilyInv
  <2>8. \A q \in Alive : procs[q].parent # Root => procs[procs[q].parent].life < procs[q].life
    BY DEF ScanInv, FamilyInv
  <2>6. ASSUME NEW e \in ToSet(result) PROVE Older(e, proc') /\ Older(proc', e)
    <3>1. PICK life \in 1..lives :
            /\ e.read = {life}
            /\ e.pid \in gone \/ (e.pid \in Alive /\ procs[e.pid].life = life)
            /\ \/ e.parentPid \in gone \cup {Root}
               \/ e.parentPid \in Alive /\ procs[e.parentPid].life < life
      BY <1>1, <2>6 DEF StillNames
    <3>2. Older(e, proc')
      BY <1>1, <1>2, <2>2, <2>3, <3>1 DEF Older
    <3>3. e.pid # Root
      BY <2>6, ReadType, RootAssumption DEF ScanInv, Read
    <3>4. Older(proc', e)
      <4> SUFFICES ASSUME procs[pid].parent = e.pid PROVE life < procs[pid].life
        BY <2>2, <3>1 DEF Older
      <4>1. procs[pid].parent \in Alive /\ procs[pid].parent \notin gone
        BY <1>1, <1>2, <2>3, <3>3
      <4> QED
        BY <1>2, <2>8, <3>1, <3>3, <4>1
    <3> QED
      BY <3>2, <3>4
  <2>7. Older(proc', proc')
    <3>1. procs[pid].life \in Int /\ pid # Root
      BY <1>2, <2>3, <2>4
    <3>2. procs[pid].parent # pid
      BY <1>2, <2>8, <3>1
    <3> QED
      BY <2>2, <3>2 DEF Older
  <2> QED
    BY <1>1, <2>1, <2>5, <2>6, <2>7
<1>3. CASE ~(pid \in Alive /\ procs[pid].program \notin Spaced)
  <2>1. Read' = ToSet(result)
    BY <1>3 DEF Read, InBody
  <2> QED
    BY <1>1, <2>1
<1> QED
  BY <1>2, <1>3

\* What the invariant looks at in an entry is not its name.
SameIn(e, f) == e.pid = f.pid /\ e.parentPid = f.parentPid /\ e.read = f.read

\* A step that reads no new entry and leaves the system alone.
LEMMA NoNewEntry ==
  ASSUME AncestryInv, UNCHANGED <<procs, lives, gone, reused>>,
         ~reused => \A e \in Read' : \E f \in Read : SameIn(e, f)
  PROVE  AncestryInv'
<1> SUFFICES ASSUME ~reused
             PROVE  /\ gone \cap Alive = {}
                    /\ \A e \in Read' : StillNames(e)
                    /\ \A e, f \in Read' : Older(e, f)
  BY DEF AncestryInv, StillNames, Older, Alive
<1>1. ASSUME NEW e \in Read' PROVE StillNames(e)
  <2>1. PICK f \in Read : SameIn(e, f)
    BY <1>1
  <2>2. StillNames(f)
    BY <2>1 DEF AncestryInv
  <2> QED
    BY <2>1, <2>2 DEF StillNames, SameIn
<1>2. ASSUME NEW e \in Read', NEW f \in Read' PROVE Older(e, f)
  <2>1. PICK d \in Read, g \in Read : SameIn(e, d) /\ SameIn(f, g)
    BY <1>2
  <2>2. Older(d, g)
    BY <2>1 DEF AncestryInv
  <2> QED
    BY <2>1, <2>2 DEF Older, SameIn
<1> QED
  BY <1>1, <1>2 DEF AncestryInv

LEMMA BodyAncestry ==
  ASSUME ScanInv, ReadStatus \/ ReadStatm \/ ReadCmdline \/ ReadIo
  PROVE  AncestryInv'
<1>1. InBody
  BY DEF ReadStatus, ReadStatm, ReadOrSkip, ReadCmdline, ReadIo, InBody, Steps
<1>2. UNCHANGED <<procs, lives, gone, reused>>
  BY DEF ReadStatus, ReadStatm, ReadOrSkip, ReadCmdline, ReadIo, system
<1>3. proc \in Read /\ proc \in ProcessInfo /\ ToSet(result) \subseteq Read
  BY <1>1 DEF Read, ScanInv, ScanTypeOK, InBody
<1>4. SUFFICES ASSUME ~reused, NEW e \in Read'
               PROVE  \E f \in Read : SameIn(e, f)
  BY <1>2, NoNewEntry DEF ScanInv
<1>5. cursor \in Alive => WithFile = proc
  BY <1>1, <1>4, SameFile
<1>6. CASE ReadStatus \/ ReadStatm
  <2>1. result' = result /\ (InBody' => proc' = proc)
    BY <1>5, <1>6 DEF ReadStatus, ReadStatm, ReadOrSkip, Continue, InBody
  <2> QED
    BY <1>1, <1>4, <2>1 DEF Read, SameIn
<1>7. CASE ReadCmdline
  <2>1. SameIn(proc', proc)
    BY <1>3, <1>5, <1>7 DEF ReadCmdline, ProcessInfo, SameIn
  <2>2. e \in ToSet(result) \/ e = proc'
    BY <1>4, <1>7 DEF ReadCmdline, Read
  <2> QED
    BY <1>3, <2>1, <2>2 DEF SameIn
<1>8. CASE ReadIo
  <2>1. result' = Append(result, proc) /\ ~InBody'
    BY <1>5, <1>8 DEF ReadIo, Continue, InBody
  <2>2. Read' = ToSet(result) \cup {proc}
    BY <2>1, AppendSet DEF Read, ScanInv, ScanTypeOK
  <2> QED
    BY <1>3, <1>4, <2>2 DEF SameIn
<1> QED
  BY <1>6, <1>7, <1>8

LEMMA EndAncestry ==
  ASSUME ScanInv, Begin \/ End
  PROVE  AncestryInv'
<1>1. CASE Begin
  <2>1. Read' = {} /\ gone' = {}
    BY <1>1 DEF Begin, Read, InBody, ToSet
  <2> QED
    BY <2>1 DEF AncestryInv
<1>2. CASE End
  <2>1. Read' \subseteq Read
    BY <1>2 DEF End, Read, InBody, Steps
  <2> QED
    BY <1>2, <2>1, NoNewEntry DEF End, system, ScanInv, SameIn
<1> QED
  BY <1>1, <1>2

\* A new process takes a pid that names no process of an entry: it is not in use,
\* and has not been given up.
LEMMA ForkAncestry ==
  ASSUME ScanInv, NEW p \in Alive, NEW pid \in Pids, Fork(p, pid)
  PROVE  AncestryInv'
<1> SUFFICES ASSUME ~reused'
             PROVE  /\ gone' \cap Alive' = {}
                    /\ \A e \in Read' : StillNames(e)'
                    /\ \A e, f \in Read' : Older(e, f)
  BY DEF AncestryInv, Older
<1>1. /\ Alive' = Alive \cup {pid} /\ pid \notin Alive /\ lives \in Nat /\ lives' = lives + 1
      /\ \A q \in Alive : procs'[q] = procs[q]
  BY LifeAfterFork DEF ScanInv
<1>2. ~reused /\ pid \notin gone /\ gone' = gone
  BY DEF Fork, ScanInv, ScanTypeOK
<1>3. Read' = Read
  BY DEF Fork, scan, Read, InBody
<1>4. gone' \cap Alive' = {}
  BY <1>1, <1>2 DEF ScanInv, AncestryInv
<1>5. ASSUME NEW e \in Read PROVE StillNames(e)'
  <2>1. StillNames(e)
    BY <1>2, <1>5 DEF ScanInv, AncestryInv
  <2> QED
    BY <1>1, <1>2, <2>1 DEF StillNames
<1> QED
  BY <1>2, <1>3, <1>4, <1>5 DEF ScanInv, AncestryInv

LEMMA ExecAncestry ==
  ASSUME ScanInv, NEW p \in Alive, NEW program \in Programs, Exec(p, program)
  PROVE  AncestryInv'
<1>1. Alive' = Alive /\ \A q \in Alive : procs'[q].life = procs[q].life
  BY LifeAfterExec DEF ScanInv
<1>2. UNCHANGED <<lives, gone, reused>> /\ Read' = Read
  BY DEF Exec, scan, Read, InBody
<1>3. \A e \in Read : StillNames(e) => StillNames(e)'
  BY <1>1, <1>2 DEF StillNames
<1> QED
  BY <1>1, <1>2, <1>3 DEF ScanInv, AncestryInv, Older

\* What an entry named has ended, or is still there.
LEMMA ExitAncestry ==
  ASSUME ScanInv, NEW p \in Alive, Exit(p)
  PROVE  AncestryInv'
<1>1. Alive' = Alive \ {p} /\ \A q \in Alive' : procs'[q].life = procs[q].life
  BY LifeAfterExit DEF ScanInv
<1>2. UNCHANGED <<lives, reused>> /\ gone' = gone \cup {p} /\ Read' = Read
  BY DEF Exit, scan, Read, InBody
<1>3. \A e \in Read : StillNames(e) => StillNames(e)'
  BY <1>1, <1>2 DEF StillNames
<1> QED
  BY <1>1, <1>2, <1>3 DEF ScanInv, AncestryInv, Older

LEMMA AncestryStep == ASSUME ScanInv, [ScanNext]_scanVars PROVE AncestryInv'
<1>1. CASE UNCHANGED scanVars
  BY <1>1 DEF scanVars, system, scan, ScanInv, AncestryInv, Read, InBody, StillNames, Older, Alive
<1> QED
  BY <1>1, ReadStatAncestry, BodyAncestry, EndAncestry, ForkAncestry, ExecAncestry, ExitAncestry DEF ScanNext

-----------------------------------------------------------------------------
(* The order of the entries. *)

LEMMA OrderStep == ASSUME ScanInv, [ScanNext]_scanVars PROVE OrderInv'
<1>1. CASE Begin
  BY <1>1 DEF Begin, OrderInv, InBody
<1>2. ASSUME NEW pid \in Pids, ReadStat(pid) PROVE OrderInv'
  <2>1. result' = result /\ step = "stat" /\ cursor' = pid /\ pid > cursor
    BY <1>2 DEF ReadStat, Entry
  <2>2. \A i \in DOMAIN result : result[i].pid < pid
    <3> SUFFICES ASSUME NEW i \in DOMAIN result PROVE result[i].pid < pid
      OBVIOUS
    <3>1. result[i].pid \in Pids
      BY ReadType DEF Read, ToSet, ScanInv
    <3>4. cursor \in Pids \cup {0}
      BY DEF ScanInv, ScanTypeOK
    <3>2. result[i].pid \in Int /\ pid \in Int /\ cursor \in Int
      BY <3>1, <3>4, PidsAreNumbers
    <3>3. result[i].pid <= cursor
      BY <2>1 DEF ScanInv, OrderInv
    <3> QED
      BY <2>1, <3>2, <3>3
  <2>3. \A i \in DOMAIN result : result[i].pid <= pid
    <3> SUFFICES ASSUME NEW i \in DOMAIN result PROVE result[i].pid <= pid
      OBVIOUS
    <3>1. result[i].pid \in Pids
      BY ReadType DEF Read, ToSet, ScanInv
    <3>2. result[i].pid \in Int /\ pid \in Int
      BY <3>1, PidsAreNumbers
    <3>3. result[i].pid < pid
      BY <2>2
    <3> QED
      BY <3>2, <3>3
  <2> QED
    BY <2>1, <2>2, <2>3 DEF ScanInv, OrderInv
<1>3. CASE ReadStatus \/ ReadStatm \/ ReadCmdline
  <2>1. result' = result /\ cursor' = cursor /\ InBody
    BY <1>3 DEF ReadStatus, ReadStatm, ReadOrSkip, ReadCmdline, InBody, Steps
  <2>2. step # "done"
    BY <2>1 DEF InBody
  <2> QED
    BY <2>1, <2>2 DEF ScanInv, OrderInv
<1>4. CASE ReadIo
  <2>1. InBody /\ cursor' = cursor /\ ~InBody'
    BY <1>4 DEF ReadIo, Continue, InBody, Steps
  <2>2. PICK e : result' = Append(result, e) /\ e.pid = cursor
    <3>1. proc.pid = cursor
      BY <2>1 DEF ScanInv, ScanTypeOK, InBody
    <3>2. cursor \in Alive => WithFile.pid = proc.pid
      BY <2>1, WithFileType DEF ScanInv
    <3> QED
      BY <1>4, <3>1, <3>2 DEF ReadIo
  <2>3. result \in Seq(ProcessInfo) /\ DOMAIN result = 1..Len(result) /\ Len(result) \in Nat
    BY DEF ScanInv, ScanTypeOK
  <2>4. /\ DOMAIN result' = 1..Len(result) + 1
        /\ \A i \in 1..Len(result) : result'[i] = result[i]
        /\ result'[Len(result) + 1] = e
    BY <2>2, <2>3
  <2>5. \A i \in 1..Len(result) : result[i].pid < cursor
    BY <2>1, <2>3 DEF ScanInv, OrderInv
  <2>6. cursor \in Int
    BY ProcessesAssumption DEF ScanInv, ScanTypeOK
  <2>7. ASSUME NEW i \in DOMAIN result', NEW j \in DOMAIN result', i < j
        PROVE  result'[i].pid < result'[j].pid
    <3>1. i \in 1..Len(result)
      BY <2>3, <2>4, <2>7
    <3>2. CASE j = Len(result) + 1
      BY <2>2, <2>4, <2>5, <3>1, <3>2
    <3>3. CASE j # Len(result) + 1
      <4>1. j \in 1..Len(result)
        BY <2>3, <2>4, <3>3
      <4> QED
        BY <2>3, <2>4, <2>7, <3>1, <4>1 DEF ScanInv, OrderInv
    <3> QED
      BY <3>2, <3>3
  <2>8. ASSUME NEW i \in DOMAIN result' PROVE result'[i].pid <= cursor
    <3>1. CASE i = Len(result) + 1
      BY <2>2, <2>4, <2>6, <3>1
    <3>2. CASE i # Len(result) + 1
      <4>1. i \in 1..Len(result)
        BY <2>3, <2>4, <3>2
      <4>2. result[i].pid \in Pids
        BY <2>3, <4>1, ReadType DEF Read, ToSet, ScanInv
      <4>3. result[i].pid \in Int
        BY <4>2, PidsAreNumbers
      <4>4. result'[i] = result[i] /\ result[i].pid < cursor
        BY <2>4, <2>5, <4>1
      <4> QED
        BY <2>6, <4>3, <4>4
    <3> QED
      BY <3>1, <3>2
  <2> QED
    BY <2>1, <2>7, <2>8 DEF OrderInv
<1>5. CASE End
  BY <1>5 DEF End, ScanInv, OrderInv, InBody
<1>6. ASSUME UNCHANGED scan PROVE OrderInv'
  BY <1>6 DEF scan, ScanInv, OrderInv, InBody
<1> QED
  BY <1>1, <1>2, <1>3, <1>4, <1>5, <1>6 DEF ScanNext, Fork, Exec, Exit, scanVars

-----------------------------------------------------------------------------
(* The processes that live throughout. *)

LEMMA SystemSteady ==
  ASSUME ScanInv,
         \/ \E p \in Alive, pid \in Pids : Fork(p, pid)
         \/ \E p \in Alive : Exit(p) \/ \E program \in Programs : Exec(p, program)
  PROVE  SteadyInv'
<1>1. UNCHANGED scan
  BY DEF Fork, Exec, Exit
<1>2. ASSUME NEW p \in steady'
      PROVE  p \in Alive' /\ procs'[p].program \notin Spaced /\ procs'[p].life = procs[p].life /\ p \in steady
  <2>1. p \in steady => p \in Alive /\ procs[p].program \notin Spaced
    BY DEF ScanInv, SteadyInv
  <2>2. CASE \E q \in Alive, pid \in Pids : Fork(q, pid)
    BY <1>2, <2>1, <2>2, LifeAfterFork DEF ScanInv, Fork
  <2>3. ASSUME NEW q \in Alive, Exit(q)
        PROVE  p \in Alive' /\ procs'[p].program \notin Spaced /\ procs'[p].life = procs[p].life /\ p \in steady
    BY <1>2, <2>1, <2>3, LifeAfterExit DEF ScanInv, Exit
  <2>4. ASSUME NEW q \in Alive, NEW program \in Programs, Exec(q, program)
        PROVE  p \in Alive' /\ procs'[p].program \notin Spaced /\ procs'[p].life = procs[p].life /\ p \in steady
    <3>1. p \in steady /\ (program \in Spaced => p # q)
      BY <1>2, <2>4 DEF Exec
    <3> QED
      BY <2>1, <2>4, <3>1, LifeAfterExec DEF ScanInv
  <2> QED
    BY <2>2, <2>3, <2>4
<1> QED
  BY <1>1, <1>2 DEF scan, ScanInv, SteadyInv, Passed, InBody, EntryOf

\* Later entries do not move an entry.
LEMMA EntryStays ==
  ASSUME ScanInv, UNCHANGED procs, NEW p \in steady,
         NEW i \in DOMAIN result, EntryOf(i, p),
         result' = result \/ \E e : result' = Append(result, e)
  PROVE  i \in DOMAIN result' /\ EntryOf(i, p)'
<1>1. result \in Seq(ProcessInfo)
  BY DEF ScanInv, ScanTypeOK
<1> QED
  BY <1>1 DEF EntryOf

LEMMA ReadStatSteady ==
  ASSUME ScanInv, NEW pid \in Pids, ReadStat(pid)
  PROVE  SteadyInv'
<1> USE DEF ReadStat, system
<1> SUFFICES ASSUME NEW p \in steady
             PROVE  /\ p \in Alive
                    /\ procs[p].program \notin Spaced
                    /\ Passed(p)' => \/ InBody' /\ cursor' = p /\ proc'.read = {procs[p].life}
                                     \/ \E i \in DOMAIN result : EntryOf(i, p)
  BY DEF SteadyInv, Alive, EntryOf
<1>1. p \in Alive /\ procs[p].program \notin Spaced
  BY DEF ScanInv, SteadyInv
<1>2. p \in Int /\ pid \in Int /\ cursor \in Int
  BY <1>1, ProcsType, ProcessesAssumption DEF ScanInv, ScanTypeOK
<1>3. CASE p = pid
  BY <1>1, <1>3 DEF InBody, Steps
<1>4. CASE p # pid
  <2>1. step' # "done"
    OBVIOUS
  <2>2. Passed(p)' => Passed(p)
    BY <1>2, <1>4, <2>1 DEF Passed, Entry
  <2> QED
    BY <1>1, <2>2 DEF ScanInv, SteadyInv, InBody
<1> QED
  BY <1>3, <1>4

LEMMA BodySteady ==
  ASSUME ScanInv, ReadStatus \/ ReadStatm \/ ReadCmdline \/ ReadIo
  PROVE  SteadyInv'
<1>1. UNCHANGED <<procs, cursor, steady>> /\ InBody /\ step # "done" /\ step' # "done"
  BY DEF ReadStatus, ReadStatm, ReadOrSkip, ReadCmdline, ReadIo, Continue, system, InBody, Steps
<1> SUFFICES ASSUME NEW p \in steady
             PROVE  /\ p \in Alive
                    /\ procs[p].program \notin Spaced
                    /\ Passed(p) => \/ InBody' /\ cursor = p /\ proc'.read = {procs[p].life}
                                    \/ \E i \in DOMAIN result' : EntryOf(i, p)'
  BY <1>1 DEF SteadyInv, Alive, EntryOf, Passed
<1>2. p \in Alive /\ procs[p].program \notin Spaced
  BY DEF ScanInv, SteadyInv
<1>3. SUFFICES ASSUME Passed(p)
               PROVE  \/ InBody' /\ cursor = p /\ proc'.read = {procs[p].life}
                      \/ \E i \in DOMAIN result' : EntryOf(i, p)'
  BY <1>2
<1>4. CASE \E i \in DOMAIN result : EntryOf(i, p)
  BY <1>1, <1>4, EntryStays DEF ReadStatus, ReadStatm, ReadOrSkip, ReadCmdline, ReadIo
<1>5. CASE cursor = p /\ proc.read = {procs[p].life}
  <2>1. WithFile.read = {procs[p].life} /\ WithFile.pid = p /\ proc.pid = p /\ proc \in ProcessInfo
    BY <1>1, <1>2, <1>5, WithFileType DEF ScanInv, ScanTypeOK, InBody
  <2>2. CASE ReadStatus \/ ReadStatm
    BY <1>2, <1>5, <2>1, <2>2 DEF ReadStatus, ReadStatm, ReadOrSkip, InBody, Steps
  <2>3. CASE ReadCmdline
    <3>1. proc'.read = {procs[p].life}
      BY <1>1, <1>2, <1>5, <2>1, <2>3, WithFileType DEF ReadCmdline, ScanInv
    <3>2. InBody'
      BY <2>3 DEF ReadCmdline, InBody, Steps
    <3> QED
      BY <1>5, <3>1, <3>2
  <2>4. CASE ReadIo
    <3>1. result' = Append(result, WithFile) /\ result \in Seq(ProcessInfo)
      BY <1>2, <1>5, <2>4 DEF ReadIo, ScanInv, ScanTypeOK
    <3>2. PICK k \in DOMAIN result' : result'[k] = WithFile
      BY <3>1
    <3>3. EntryOf(k, p)'
      BY <1>1, <2>1, <3>2 DEF EntryOf
    <3> QED
      BY <3>2, <3>3
  <2> QED
    BY <2>2, <2>3, <2>4
<1> QED
  BY <1>3, <1>4, <1>5 DEF ScanInv, SteadyInv

LEMMA SteadyStep == ASSUME ScanInv, [ScanNext]_scanVars PROVE SteadyInv'
<1>1. CASE Begin
  <2>1. ASSUME NEW p \in steady'
        PROVE  p \in Alive' /\ procs'[p].program \notin Spaced /\ ~Passed(p)'
    <3>1. p \in Alive /\ procs[p].program \notin Spaced /\ Alive' = Alive
      BY <1>1, <2>1 DEF Begin, system, Alive
    <3>2. p \in Nat \ {0}
      BY <3>1, ProcsType, ProcessesAssumption DEF ScanInv
    <3>3. ~Passed(p)'
      BY <1>1, <3>2 DEF Begin, Passed
    <3> QED
      BY <1>1, <3>1, <3>3 DEF Begin, system
  <2> QED
    BY <2>1 DEF SteadyInv
<1>2. CASE End
  BY <1>2 DEF End, system, ScanInv, SteadyInv, Passed, InBody, EntryOf, Alive
<1>3. CASE UNCHANGED scanVars
  BY <1>3 DEF scanVars, system, scan, ScanInv, SteadyInv, Passed, InBody, EntryOf, Alive
<1> QED
  BY <1>1, <1>2, <1>3, SystemSteady, ReadStatSteady, BodySteady DEF ScanNext

-----------------------------------------------------------------------------
(* The theorems. *)

THEOREM ScanInvariance == ScanSpec => []ScanInv
<1>1. ScanInv /\ [ScanNext]_scanVars => ScanInv'
  BY TypeStep, FamilyStep, AncestryStep, SteadyStep, OrderStep DEF ScanInv
<1> QED
  BY <1>1, ScanInitInv, PTL DEF ScanSpec

\* The entries, the processes and the steps of the scan are of their types.
THEOREM ScanTypeCorrect == ScanSpec => []ScanTypeOK
<1>1. ScanInv => ScanTypeOK
  BY DEF ScanInv
<1> QED
  BY <1>1, ScanInvariance, PTL

LEMMA InvSurvivors == ScanInv => SurvivorsAreListed
<1> SUFFICES ASSUME ScanInv, step = "done", NEW p \in steady
             PROVE  \E i \in DOMAIN result :
                      /\ result[i].pid = p
                      /\ result[i].read = {procs[p].life}
                      /\ \A j \in DOMAIN result : result[j].pid = p => j = i
  BY DEF SurvivorsAreListed
<1>1. PICK i \in DOMAIN result : EntryOf(i, p)
  BY DEF ScanInv, SteadyInv, Passed, InBody
<1>2. ASSUME NEW j \in DOMAIN result, result[j].pid = p PROVE j = i
  <2>1. i \in Nat /\ j \in Nat
    BY DEF ScanInv, ScanTypeOK
  <2>2. p \in Int
    BY ProcsType, PidsAreNumbers DEF ScanInv, SteadyInv
  <2>3. ~(i < j) /\ ~(j < i)
    BY <1>1, <1>2, <2>2 DEF ScanInv, OrderInv, EntryOf
  <2> QED
    BY <2>1, <2>3
<1> QED
  BY <1>1, <1>2 DEF EntryOf

\* Whatever starts and ends around a process that lives throughout the scan of
\* /proc, GetAllProcesses lists it exactly once, with its own files.
THEOREM Survivors == ScanSpec => []SurvivorsAreListed
BY ScanInvariance, InvSurvivors, PTL

\* The oldest process of a cycle would have an older parent in it.
LEMMA InvNoCycle == ScanInv => ParentsFormNoCycle
<1> SUFFICES ASSUME ScanInv, ~reused, NEW loop \in (SUBSET ToSet(result)) \ {{}},
                    \A p \in loop : p.parentPid \in {q.pid : q \in loop}
             PROVE  FALSE
  BY DEF ParentsFormNoCycle
<1> DEFINE Lives == UNION {e.read : e \in loop}
<1>1. loop \subseteq Read
  BY DEF Read
<1>2. \A e \in loop : e.read \subseteq Nat /\ e.read # {} /\ \A m, n \in e.read : m = n
  <2> SUFFICES ASSUME NEW e \in loop
               PROVE  e.read \subseteq Nat /\ e.read # {} /\ \A m, n \in e.read : m = n
    OBVIOUS
  <2>1. PICK life \in 1..lives : e.read = {life}
    BY <1>1 DEF ScanInv, AncestryInv, StillNames
  <2> QED
    BY <2>1
<1>3. PICK e \in loop : e \in loop
  OBVIOUS
<1>4. Lives \subseteq Nat /\ Lives # {}
  BY <1>2, <1>3
<1>5. PICK least \in Lives : \A m \in Lives : ~(m < least)
  BY <1>4, LeastNumber
<1>6. PICK oldest \in loop : least \in oldest.read
  BY <1>5
<1>7. PICK parent \in loop : oldest.parentPid = parent.pid
  BY <1>6
<1>8. PICK life \in parent.read : TRUE
  BY <1>2, <1>7
<1>9. life < least
  BY <1>1, <1>6, <1>7, <1>8 DEF ScanInv, AncestryInv, Older
<1> QED
  BY <1>5, <1>7, <1>8, <1>9

\* As long as no pid was used again during the scan, the parents of the entries
\* form no cycle for ProcessNode::BuildTree to build.
THEOREM NoCycle == ScanSpec => []ParentsFormNoCycle
BY ScanInvariance, InvNoCycle, PTL

-----------------------------------------------------------------------------
(* The caches of ProcessManager. *)

\* Categories are computed in their order, and none without a scan.
PriorityInv == \A c \in DOMAIN category : Before(c) \subseteq DOMAIN category
ScannedInv == all = Nothing => category = Nothing

\* A category is what its filter found less the categories before it.
FilteredInv ==
  \A c \in DOMAIN category :
    \E list \in FilteredProcesses(c, all) :
      category[c] = list \ UNION {category[d] : d \in Before(c)}

CachesInv == TypeOK /\ HeapIsOwned /\ PriorityInv /\ ScannedInv /\ FilteredInv

LEMMA NothingIsEmpty == DOMAIN Nothing = {}
BY DEF Nothing

\* The priorities of the categories.
LEMMA CategoryOrder ==
  /\ Categories = {"apps", "wine", "background", "system"}
  /\ \A c \in Categories : Category[c] \in Nat
  /\ \A c, d \in Categories : c = d \/ Category[c] < Category[d] \/ Category[d] < Category[c]
  /\ \A c \in Categories : Before(c) \subseteq Categories \ {c}
  /\ "all" \notin Categories /\ "none" \notin Categories
<1>1. Categories = {"apps", "wine", "background", "system"}
  BY DEF Categories, Category
<1>2. /\ Category["apps"] = 1 /\ Category["wine"] = 2
      /\ Category["background"] = 3 /\ Category["system"] = 4
  BY DEF Category
<1>3. \A c \in Categories : Category[c] \in Nat
  BY <1>1, <1>2
<1>4. \A c, d \in Categories : c = d \/ Category[c] < Category[d] \/ Category[d] < Category[c]
  BY <1>1, <1>2
<1>5. \A c \in Categories : Before(c) \subseteq Categories \ {c}
  BY <1>3 DEF Before
<1> QED
  BY <1>1, <1>3, <1>4, <1>5

-----------------------------------------------------------------------------
(* The trees. *)

LEMMA BuildTreeType ==
  ASSUME NEW table, NEW list
  PROVE  /\ BuildTree(table, list) \in [list -> list \cup {Root}]
         /\ BuildPackedFlatTree(table, list) \in [list -> list \cup {Root}]
BY DEF BuildTree, BuildPackedFlatTree

LEMMA FlatTreeBounds ==
  ASSUME NEW t, NEW p
  PROVE  FlatTree(t, p) \subseteq DOMAIN t \cup {p} /\ p \in FlatTree(t, p)
BY DEF FlatTree

\* Some process of any set of them has its parent outside of the set.
NoLoops(table) ==
  \A loop \in (SUBSET DOMAIN table) \ {{}} : \E p \in loop : table[p].ppid \notin loop

\* Without loops, a tree reaches each process of its list from the root: those it did
\* not reach would have their parents among themselves.
LEMMA RootReachesAll ==
  ASSUME NEW table, NoLoops(table), NEW list \in SUBSET DOMAIN table, Root \notin list,
         NEW built \in {BuildTree(table, list), BuildPackedFlatTree(table, list)}
  PROVE  FlatTree(built, Root) = list \cup {Root}
<1>1. DOMAIN built = list
  BY DEF BuildTree, BuildPackedFlatTree
<1>2. \A p \in list : built[p] = Root \/ (built[p] = table[p].ppid /\ built[p] \in list)
  BY DEF BuildTree, BuildPackedFlatTree
<1>3. ASSUME NEW C \in SUBSET (list \cup {Root}), Root \in C, Closed(built, C)
      PROVE  list \subseteq C
  <2>1. \A p \in list \ C : table[p].ppid \in list \ C
    BY <1>1, <1>2, <1>3 DEF Closed
  <2>2. CASE list \ C # {}
    <3>1. PICK p \in list \ C : table[p].ppid \notin list \ C
      BY <2>2 DEF NoLoops
    <3> QED
      BY <2>1, <3>1
  <2> QED
    BY <2>2
<1> QED
  BY <1>1, <1>3 DEF FlatTree

-----------------------------------------------------------------------------
(* The sums in a tree. *)

\* iter is what SumOf computes, set by set.
AddsUp(iter, f, nodes) ==
  iter = [s \in SUBSET nodes |->
            IF s = {} THEN 0 ELSE f[CHOOSE c \in s : TRUE] + iter[s \ {CHOOSE c \in s : TRUE}]]

\* Such a function exists as soon as one is known, and then SumOf is one of them.
LEMMA SumOfAddsUp ==
  ASSUME NEW f, NEW nodes, NEW known, AddsUp(known, f, nodes)
  PROVE  \E iter : AddsUp(iter, f, nodes) /\ SumOf(f, nodes) = iter[nodes]
<1>1. PICK iter : iter = CHOOSE g : AddsUp(g, f, nodes)
  OBVIOUS
<1>2. AddsUp(iter, f, nodes)
  BY <1>1
<1>3. SumOf(f, nodes) = iter[nodes]
  BY <1>1 DEF SumOf, MapThenSumSet, MapThenFoldSet, AddsUp
<1> QED
  BY <1>2, <1>3

\* What is in one of the parts that belong to the nodes of s.
Together(parts, s) == UNION {parts[c] : c \in s}

\* The sum of the sizes of sets without a common element is the size of all of them.
LEMMA SumOfSizes ==
  ASSUME NEW nodes, IsFiniteSet(nodes), NEW Universe, IsFiniteSet(Universe),
         NEW parts, \A c \in nodes : parts[c] \subseteq Universe,
         \A c, d \in nodes : c # d => parts[c] \cap parts[d] = {},
         NEW f, \A c \in nodes : f[c] = Cardinality(parts[c])
  PROVE  SumOf(f, nodes) = Cardinality(Together(parts, nodes))
<1> DEFINE sizes == [s \in SUBSET nodes |-> Cardinality(Together(parts, s))]
           first(s) == CHOOSE c \in s : TRUE
<1>1. \A s \in SUBSET nodes : s # {} => first(s) \in s /\ s \ {first(s)} \in SUBSET nodes
  OBVIOUS
<1>2. ASSUME NEW s \in SUBSET nodes
      PROVE  IsFiniteSet(Together(parts, s)) /\ Cardinality(Together(parts, s)) \in Nat
  <2>1. Together(parts, s) \in SUBSET Universe
    BY DEF Together
  <2>2. IsFiniteSet(Together(parts, s))
    BY <2>1, FS_Subset
  <2> QED
    BY <2>2, FS_CardinalityType
<1>3. ASSUME NEW s \in SUBSET nodes, NEW c \in s
      PROVE  Cardinality(Together(parts, s)) = f[c] + Cardinality(Together(parts, s \ {c}))
  <2>1. PICK rest : rest = Together(parts, s \ {c})
    OBVIOUS
  <2>2. Together(parts, s) = parts[c] \cup rest
    BY <2>1 DEF Together
  <2>3. parts[c] \cap rest = {}
    BY <2>1 DEF Together
  <2>4. IsFiniteSet(rest) /\ Cardinality(rest) \in Nat
    BY <1>2, <2>1
  <2>5. IsFiniteSet(parts[c])
    <3>1. parts[c] \in SUBSET Universe
      OBVIOUS
    <3> QED
      BY <3>1, FS_Subset
  <2>6. Cardinality(parts[c]) \in Nat
    BY <2>5, FS_CardinalityType
  <2>7. Cardinality(parts[c] \cup rest)
          = Cardinality(parts[c]) + Cardinality(rest) - Cardinality(parts[c] \cap rest)
    BY <2>4, <2>5, FS_Union
  <2>8. Cardinality(parts[c] \cap rest) = 0
    BY <2>3, FS_EmptySet
  <2>9. f[c] = Cardinality(parts[c])
    OBVIOUS
  <2> QED
    BY <2>1, <2>2, <2>4, <2>6, <2>7, <2>8, <2>9
<1>4. Together(parts, {}) = {}
  BY DEF Together
<1>5. AddsUp(sizes, f, nodes)
  <2>1. \A s \in SUBSET nodes :
          sizes[s] = IF s = {} THEN 0 ELSE f[first(s)] + sizes[s \ {first(s)}]
    <3> SUFFICES ASSUME NEW s \in SUBSET nodes
                 PROVE  sizes[s] = IF s = {} THEN 0 ELSE f[first(s)] + sizes[s \ {first(s)}]
      OBVIOUS
    <3>1. CASE s = {}
      BY <1>4, <3>1, FS_EmptySet
    <3>2. CASE s # {}
      <4>1. PICK c : c = first(s)
        OBVIOUS
      <4>2. c \in s /\ s \ {c} \in SUBSET nodes
        BY <1>1, <3>2, <4>1
      <4>3. sizes[s] = f[c] + sizes[s \ {c}]
        BY <1>3, <4>2
      <4> QED
        BY <3>2, <4>1, <4>3
    <3> QED
      BY <3>1, <3>2
  <2>2. sizes = [s \in SUBSET nodes |-> sizes[s]]
    OBVIOUS
  <2> HIDE DEF sizes
  <2> QED
    BY <2>1, <2>2 DEF AddsUp
<1>6. PICK iter : AddsUp(iter, f, nodes) /\ SumOf(f, nodes) = iter[nodes]
  BY <1>5, SumOfAddsUp
<1>7. \A s \in SUBSET nodes : iter[s] = IF s = {} THEN 0 ELSE f[first(s)] + iter[s \ {first(s)}]
  BY <1>6 DEF AddsUp
<1> DEFINE wrong == {s \in SUBSET nodes : iter[s] # Cardinality(Together(parts, s))}
           counts == {Cardinality(s) : s \in wrong}
<1>8. \A s \in SUBSET nodes : IsFiniteSet(s) /\ Cardinality(s) \in Nat
  BY FS_Subset, FS_CardinalityType
<1>9. wrong = {}
  <2> SUFFICES ASSUME wrong # {} PROVE FALSE
    OBVIOUS
  <2>1. counts \subseteq Nat /\ counts # {}
    BY <1>8
  <2>2. PICK least \in counts : \A y \in counts : ~(y < least)
    BY <2>1, LeastNumber
  <2>3. PICK s \in wrong : least = Cardinality(s)
    BY <2>2
  <2>4. s # {}
    BY <1>4, <1>7, FS_EmptySet
  <2>5. PICK c : c = first(s)
    OBVIOUS
  <2>6. c \in s /\ s \ {c} \in SUBSET nodes
    BY <1>1, <2>4, <2>5
  <2>7. Cardinality(s \ {c}) < least
    <3>1. Cardinality(s \ {c}) = Cardinality(s) - 1
      BY <1>8, <2>6, FS_RemoveElement
    <3>2. Cardinality(s) \in Nat
      BY <1>8
    <3> QED
      BY <2>3, <3>1, <3>2
  <2>8. s \ {c} \notin wrong
    BY <2>2, <2>7
  <2>9. iter[s \ {c}] = Cardinality(Together(parts, s \ {c}))
    BY <2>6, <2>8
  <2>10. iter[s] = f[c] + iter[s \ {c}]
    BY <1>7, <2>4, <2>5
  <2>11. iter[s] = Cardinality(Together(parts, s))
    BY <1>3, <2>6, <2>9, <2>10
  <2> QED
    BY <2>11
<1> QED
  BY <1>6, <1>9

\* What is below a node, and the node itself, has its children, and comes from the node.
LEMMA FlatTreeClosed ==
  ASSUME NEW t, NEW p PROVE Closed(t, FlatTree(t, p))
BY DEF Closed, FlatTree

LEMMA FlatTreeLeast ==
  ASSUME NEW t, NEW p, NEW C \in SUBSET (DOMAIN t \cup {p}), p \in C, Closed(t, C)
  PROVE  FlatTree(t, p) \subseteq C
BY DEF FlatTree

LEMMA FlatTreeParents ==
  ASSUME NEW t, NEW p, NEW q \in FlatTree(t, p) \ {p}
  PROVE  q \in DOMAIN t /\ t[q] \in FlatTree(t, p)
<1> DEFINE C == {r \in FlatTree(t, p) : r = p \/ t[r] \in FlatTree(t, p)}
<1>1. FlatTree(t, p) \subseteq DOMAIN t \cup {p} /\ p \in FlatTree(t, p)
  BY FlatTreeBounds
<1>2. Closed(t, C)
  BY FlatTreeClosed DEF Closed
<1>3. C \in SUBSET (DOMAIN t \cup {p}) /\ p \in C
  BY <1>1
<1>4. FlatTree(t, p) \subseteq C
  BY <1>2, <1>3, FlatTreeLeast
<1> QED
  BY <1>1, <1>4

LEMMA FlatTreeChildren ==
  ASSUME NEW t, NEW p
  PROVE  /\ \A c \in Children(t, p) : FlatTree(t, c) \subseteq FlatTree(t, p)
         /\ FlatTree(t, p) = {p} \cup UNION {FlatTree(t, c) : c \in Children(t, p)}
<1>1. FlatTree(t, p) \subseteq DOMAIN t \cup {p} /\ p \in FlatTree(t, p)
  BY FlatTreeBounds
<1>2. ASSUME NEW c \in Children(t, p) PROVE FlatTree(t, c) \subseteq FlatTree(t, p)
  <2> DEFINE C == FlatTree(t, p) \cap DOMAIN t
  <2>1. c \in DOMAIN t /\ t[c] = p
    BY DEF Children
  <2>2. Closed(t, C)
    BY FlatTreeClosed DEF Closed
  <2>3. C \in SUBSET (DOMAIN t \cup {c}) /\ c \in C
    BY <1>1, <2>1, FlatTreeClosed DEF Closed
  <2>4. FlatTree(t, c) \subseteq C
    BY <2>2, <2>3, FlatTreeLeast
  <2> QED
    BY <2>4
<1> DEFINE W == {p} \cup UNION {FlatTree(t, c) : c \in Children(t, p)}
<1>3. W \in SUBSET (DOMAIN t \cup {p}) /\ p \in W
  BY <1>1, <1>2
<1>4. Closed(t, W)
  <2> SUFFICES ASSUME NEW q \in DOMAIN t, t[q] \in W PROVE q \in W
    BY DEF Closed
  <2>1. CASE t[q] = p
    <3>1. q \in Children(t, p) /\ q \in FlatTree(t, q)
      BY <2>1, FlatTreeBounds DEF Children
    <3> QED
      BY <3>1
  <2>2. ASSUME NEW c \in Children(t, p), t[q] \in FlatTree(t, c) PROVE q \in W
    <3>1. q \in FlatTree(t, c)
      BY <2>2, FlatTreeClosed DEF Closed
    <3> QED
      BY <3>1
  <2> QED
    BY <2>1, <2>2
<1>5. FlatTree(t, p) \subseteq W
  BY <1>3, <1>4, FlatTreeLeast
<1> QED
  BY <1>1, <1>2, <1>5

\* The root reaches all of t.
ReachesAll(t) == /\ t \in [DOMAIN t -> DOMAIN t \cup {Root}]
                 /\ Root \notin DOMAIN t
                 /\ FlatTree(t, Root) = DOMAIN t \cup {Root}

\* No nodes have all of their parents among themselves then.
LEMMA NoLoopInTree ==
  ASSUME NEW t, ReachesAll(t), NEW loop \in SUBSET DOMAIN t, \A q \in loop : t[q] \in loop
  PROVE  loop = {}
<1> DEFINE C == (DOMAIN t \cup {Root}) \ loop
<1>1. Closed(t, C)
  BY DEF Closed
<1>2. C \in SUBSET (DOMAIN t \cup {Root}) /\ Root \in C
  BY DEF ReachesAll
<1>3. FlatTree(t, Root) \subseteq C
  BY <1>1, <1>2, FlatTreeLeast
<1> QED
  BY <1>3 DEF ReachesAll

\* What is below one child is not below another, and the parent is below none.
LEMMA ChildrenApart ==
  ASSUME NEW t, ReachesAll(t), NEW p, NEW c \in Children(t, p)
  PROVE  /\ p \notin FlatTree(t, c)
         /\ \A d \in Children(t, p) \ {c} : FlatTree(t, c) \cap FlatTree(t, d) = {}
<1>1. c \in DOMAIN t /\ t[c] = p /\ FlatTree(t, c) \subseteq DOMAIN t
  <2>1. c \in DOMAIN t /\ t[c] = p
    BY DEF Children
  <2> QED
    BY <2>1, FlatTreeBounds
<1>2. ASSUME NEW d \in Children(t, p) PROVE p \notin FlatTree(t, d)
  <2> DEFINE loop == {q \in FlatTree(t, d) : p \in FlatTree(t, q)}
  <2>1. d \in DOMAIN t /\ t[d] = p /\ FlatTree(t, d) \subseteq DOMAIN t /\ p \in FlatTree(t, p)
    <3>1. d \in DOMAIN t /\ t[d] = p
      BY DEF Children
    <3> QED
      BY <3>1, FlatTreeBounds
  <2> SUFFICES ASSUME p \in FlatTree(t, d) PROVE FALSE
    OBVIOUS
  <2>2. ASSUME NEW q \in loop PROVE t[q] \in loop
    <3>1. CASE q = d
      BY <2>1, <3>1
    <3>2. CASE q # d
      <4>1. q \in DOMAIN t /\ t[q] \in FlatTree(t, d)
        BY <2>2, <3>2, FlatTreeParents
      <4>2. q \in Children(t, t[q])
        BY <4>1 DEF Children
      <4>3. FlatTree(t, q) \subseteq FlatTree(t, t[q])
        BY <4>2, FlatTreeChildren
      <4> QED
        BY <2>2, <4>1, <4>3
    <3> QED
      BY <3>1, <3>2
  <2>3. loop \in SUBSET DOMAIN t /\ p \in loop
    BY <2>1
  <2>4. loop = {}
    <3> HIDE DEF loop
    <3> QED
      BY <2>2, <2>3, NoLoopInTree
  <2> QED
    BY <2>3, <2>4
<1>3. ASSUME NEW d \in Children(t, p) \ {c} PROVE FlatTree(t, c) \cap FlatTree(t, d) = {}
  <2> DEFINE loop == FlatTree(t, c) \cap FlatTree(t, d)
  <2>1. d \in DOMAIN t /\ t[d] = p /\ c # d
    BY DEF Children
  <2>2. ASSUME NEW q \in loop PROVE t[q] \in loop
    <3>1. CASE q = c
      <4>1. p \in FlatTree(t, d)
        BY <1>1, <2>1, <2>2, <3>1, FlatTreeParents
      <4> QED
        BY <1>2, <4>1
    <3>2. CASE q = d
      <4>1. p \in FlatTree(t, c)
        BY <1>1, <2>1, <2>2, <3>2, FlatTreeParents
      <4> QED
        BY <1>2, <4>1
    <3>3. CASE q # c /\ q # d
      BY <2>2, <3>3, FlatTreeParents
    <3> QED
      BY <3>1, <3>2, <3>3
  <2>3. loop \in SUBSET DOMAIN t
    BY <1>1
  <2> HIDE DEF loop
  <2>4. loop = {}
    BY <2>2, <2>3, NoLoopInTree
  <2> QED
    BY <2>4 DEF loop
<1> QED
  BY <1>2, <1>3

\* f follows the recursion of CalculateSums, with a usage of 1 for each process.
SumsUp(f, t) ==
  f = [p \in DOMAIN t \cup {Root} |-> (IF p = Root THEN 0 ELSE 1) + SumOf(f, Children(t, p))]

\* A node's children, whose sums are the sizes of their trees, make its sum that of its own.
LEMMA SumAtNode ==
  ASSUME NEW t, ReachesAll(t), IsFiniteSet(DOMAIN t), NEW p \in DOMAIN t \cup {Root},
         NEW f, \A c \in Children(t, p) : f[c] = Cardinality(FlatTree(t, c) \ {Root})
  PROVE  (IF p = Root THEN 0 ELSE 1) + SumOf(f, Children(t, p)) = Cardinality(FlatTree(t, p) \ {Root})
<1> DEFINE parts == [c \in Children(t, p) |-> FlatTree(t, c) \ {Root}]
<1>1. IsFiniteSet(Children(t, p)) /\ Children(t, p) \subseteq DOMAIN t
  <2>1. Children(t, p) \in SUBSET DOMAIN t
    BY DEF Children
  <2> QED
    BY <2>1, FS_Subset
<1>2. \A c \in Children(t, p) : parts[c] \subseteq DOMAIN t
  BY <1>1, FlatTreeBounds
<1>3. \A c, d \in Children(t, p) : c # d => parts[c] \cap parts[d] = {}
  BY ChildrenApart
<1>4. \A c \in Children(t, p) : f[c] = Cardinality(parts[c])
  OBVIOUS
<1>5. PICK below : below = Together(parts, Children(t, p))
  OBVIOUS
<1>6. SumOf(f, Children(t, p)) = Cardinality(below)
  <2> HIDE DEF parts
  <2> QED
    BY <1>1, <1>2, <1>3, <1>4, <1>5, SumOfSizes
<1>7. below = (UNION {FlatTree(t, c) : c \in Children(t, p)}) \ {Root}
  BY <1>5 DEF Together
<1>8. IsFiniteSet(below) /\ Cardinality(below) \in Nat
  <2>1. below \in SUBSET DOMAIN t
    BY <1>2, <1>5 DEF Together
  <2> QED
    BY <2>1, FS_Subset, FS_CardinalityType
<1>9. FlatTree(t, p) \ {Root} = ({p} \ {Root}) \cup below
  BY <1>7, FlatTreeChildren
<1>10. p \notin below
  BY <1>7, ChildrenApart
<1>11. CASE p = Root
  <2>1. FlatTree(t, p) \ {Root} = below
    BY <1>9, <1>11
  <2> QED
    BY <1>6, <1>8, <1>11, <2>1
<1>12. CASE p # Root
  <2>1. FlatTree(t, p) \ {Root} = below \cup {p}
    BY <1>9, <1>12
  <2>2. Cardinality(below \cup {p}) = Cardinality(below) + 1
    BY <1>8, <1>10, FS_AddElement
  <2> QED
    BY <1>6, <1>8, <1>12, <2>1, <2>2
<1> QED
  BY <1>11, <1>12

\* CalculateSums gives each node the number of processes below it and itself.
LEMMA SumsOfTree ==
  ASSUME NEW t, ReachesAll(t), IsFiniteSet(DOMAIN t),
         NEW sums, sums = CalculateSums(t, [p \in DOMAIN t \cup {Root} |-> IF p = Root THEN 0 ELSE 1])
  PROVE  /\ DOMAIN sums = DOMAIN t \cup {Root}
         /\ \A p \in DOMAIN t \cup {Root} : sums[p] = Cardinality(FlatTree(t, p) \ {Root})
<1> DEFINE nodes == DOMAIN t \cup {Root}
           sizes == [p \in nodes |-> Cardinality(FlatTree(t, p) \ {Root})]
<1>1. \A p \in nodes : Children(t, p) \subseteq nodes
  BY DEF Children
<1>2. SumsUp(sizes, t)
  <2>1. ASSUME NEW p \in nodes
        PROVE  sizes[p] = (IF p = Root THEN 0 ELSE 1) + SumOf(sizes, Children(t, p))
    <3>1. \A c \in Children(t, p) : sizes[c] = Cardinality(FlatTree(t, c) \ {Root})
      BY <1>1
    <3>2. sizes[p] = Cardinality(FlatTree(t, p) \ {Root})
      OBVIOUS
    <3> HIDE DEF sizes
    <3> QED
      BY <3>1, <3>2, SumAtNode
  <2>2. sizes = [p \in nodes |-> sizes[p]]
    OBVIOUS
  <2> HIDE DEF sizes
  <2> QED
    BY <2>1, <2>2 DEF SumsUp
<1>3. sums = CHOOSE f : SumsUp(f, t)
  <2> DEFINE own == [p \in nodes |-> IF p = Root THEN 0 ELSE 1]
  <2>1. \A f : SumsUp(f, t) <=> f = [p \in DOMAIN own |-> own[p] + SumOf(f, Children(t, p))]
    BY DEF SumsUp
  <2>2. sums = CHOOSE f : f = [p \in DOMAIN own |-> own[p] + SumOf(f, Children(t, p))]
    BY DEF CalculateSums
  <2> HIDE DEF own
  <2> QED
    BY <2>1, <2>2
<1>4. SumsUp(sums, t)
  <2> HIDE DEF sizes
  <2> QED
    BY <1>2, <1>3
<1>5. /\ DOMAIN sums = nodes
      /\ \A p \in nodes : sums[p] = (IF p = Root THEN 0 ELSE 1) + SumOf(sums, Children(t, p))
  BY <1>4 DEF SumsUp
<1> DEFINE wrong == {p \in nodes : sums[p] # Cardinality(FlatTree(t, p) \ {Root})}
           counts == {Cardinality(FlatTree(t, p)) : p \in wrong}
<1>6. ASSUME NEW p \in nodes
      PROVE  IsFiniteSet(FlatTree(t, p)) /\ Cardinality(FlatTree(t, p)) \in Nat
  <2>1. FlatTree(t, p) \in SUBSET nodes
    BY FlatTreeBounds
  <2>2. IsFiniteSet(nodes)
    BY FS_AddElement
  <2> QED
    BY <2>1, <2>2, FS_Subset, FS_CardinalityType
<1>7. wrong = {}
  <2> SUFFICES ASSUME wrong # {} PROVE FALSE
    OBVIOUS
  <2>1. counts \subseteq Nat /\ counts # {}
    BY <1>6
  <2>2. PICK least \in counts : \A y \in counts : ~(y < least)
    BY <2>1, LeastNumber
  <2>3. PICK p \in wrong : least = Cardinality(FlatTree(t, p))
    BY <2>2
  <2>4. PICK c \in Children(t, p) : sums[c] # Cardinality(FlatTree(t, c) \ {Root})
    BY <1>5, <2>3, SumAtNode
  <2>5. c \in wrong
    BY <1>1, <2>3, <2>4
  <2>6. ~(Cardinality(FlatTree(t, c)) < Cardinality(FlatTree(t, p)))
    BY <2>2, <2>3, <2>5
  <2>7. FlatTree(t, c) \subseteq FlatTree(t, p) /\ FlatTree(t, c) # FlatTree(t, p)
    BY <2>4, ChildrenApart, FlatTreeChildren, FlatTreeBounds
  <2>8. PICK m, n : m = Cardinality(FlatTree(t, c)) /\ n = Cardinality(FlatTree(t, p))
    OBVIOUS
  <2>9. m \in Nat /\ n \in Nat /\ m <= n /\ m # n
    <3>1. m <= n /\ m # n
      BY <1>6, <2>3, <2>7, <2>8, FS_Subset
    <3> QED
      BY <1>6, <2>3, <2>5, <2>8, <3>1
  <2> QED
    BY <2>6, <2>8, <2>9
<1> QED
  BY <1>5, <1>7

-----------------------------------------------------------------------------
(* What the filters find. *)

\* What a filter finds are processes of the scan.
LEMMA FilteredAreScanned ==
  ASSUME NEW table, NEW c \in Categories, NEW list \in FilteredProcesses(c, table)
  PROVE  list \subseteq DOMAIN table
<1>1. DOMAIN AllTree(table) = DOMAIN table
  BY DEF AllTree, BuildTree
<1>2. \A p \in DOMAIN table : FlatTree(AllTree(table), p) \subseteq DOMAIN table
  BY <1>1, FlatTreeBounds
<1>3. \A m : GetProcessesByFilter(table, m) \subseteq DOMAIN table
  BY <1>2 DEF GetProcessesByFilter
<1>4. ASSUME NEW real \in [Windows(table) -> DOMAIN table], NEW withChildren \in BOOLEAN
      PROVE  GetAppProcesses(table, real, withChildren) \subseteq DOMAIN table
  BY <1>2, <1>4 DEF GetAppProcesses
<1>5. CASE c = "apps"
  <2>1. PICK real \in [Windows(table) -> DOMAIN table], withChildren \in BOOLEAN :
               list = GetAppProcesses(table, real, withChildren)
    BY <1>5 DEF FilteredProcesses
  <2> QED
    BY <1>4, <2>1
<1>6. CASE c # "apps"
  <2>1. \E m : list = GetProcessesByFilter(table, m)
    BY <1>6, CategoryOrder DEF FilteredProcesses
  <2> QED
    BY <1>3, <2>1
<1> QED
  BY <1>5, <1>6

\* Each process of the user is in the background list, each other one in the system list.
LEMMA FilteredCover ==
  ASSUME NEW table, NEW list, NEW p \in DOMAIN table
  PROVE  /\ list \in FilteredProcesses("background", table) /\ table[p].mine => p \in list
         /\ list \in FilteredProcesses("system", table) /\ ~table[p].mine => p \in list
<1>1. ASSUME NEW m, m[p] PROVE p \in GetProcessesByFilter(table, m)
  BY <1>1, FlatTreeBounds DEF GetProcessesByFilter
<1>2. ASSUME list \in FilteredProcesses("background", table), table[p].mine PROVE p \in list
  <2>1. list = GetProcessesByFilter(table, [q \in DOMAIN table |-> table[q].mine])
    BY <1>2 DEF FilteredProcesses
  <2>2. PICK m : m = [q \in DOMAIN table |-> table[q].mine]
    OBVIOUS
  <2>3. m[p]
    BY <1>2, <2>2
  <2> QED
    BY <1>1, <2>1, <2>2, <2>3
<1>3. ASSUME list \in FilteredProcesses("system", table), ~table[p].mine PROVE p \in list
  <2>1. list = GetProcessesByFilter(table, [q \in DOMAIN table |-> ~table[q].mine])
    BY <1>3 DEF FilteredProcesses
  <2>2. PICK m : m = [q \in DOMAIN table |-> ~table[q].mine]
    OBVIOUS
  <2>3. m[p]
    BY <1>3, <2>2
  <2> QED
    BY <1>1, <2>1, <2>2, <2>3
<1> QED
  BY <1>2, <1>3

-----------------------------------------------------------------------------
(* Each call preserves the invariant. *)

LEMMA InitCaches == Init => CachesInv
<1> SUFFICES ASSUME Init PROVE CachesInv
  OBVIOUS
<1> USE NothingIsEmpty DEF Init
<1>1. TypeOK
  <2>1. all \in [DOMAIN all -> Processes]
    BY DEF Nothing
  <2> QED
    BY <2>1, CategoryOrder DEF TypeOK
<1>2. OwnedNodes = {}
  BY DEF OwnedNodes, NodesOf
<1> QED
  BY <1>1, <1>2 DEF CachesInv, HeapIsOwned, PriorityInv, ScannedInv, FilteredInv

LEMMA NodesOfType ==
  ASSUME NEW list \in Categories \cup {"all"}, NEW pids \in SUBSET (Pids \cup {Root})
  PROVE  NodesOf(list, pids) \subseteq Nodes
BY DEF NodesOf, Nodes

LEMMA ClearCacheStep == ASSUME CachesInv, ClearCache PROVE CachesInv'
<1> USE NothingIsEmpty DEF ClearCache
<1>1. TypeOK'
  <2>1. all' \in [DOMAIN all' -> Processes]
    BY DEF Nothing
  <2> QED
    BY <2>1 DEF CachesInv, TypeOK
<1>2. OwnedNodes' = {}
  BY DEF OwnedNodes, NodesOf
<1>3. heap' = {}
  BY DEF CachesInv, HeapIsOwned
<1> QED
  BY <1>1, <1>2, <1>3 DEF CachesInv, HeapIsOwned, PriorityInv, ScannedInv, FilteredInv

LEMMA CallStep == ASSUME CachesInv, NEW c \in Categories, Call(c) PROVE CachesInv'
<1> USE DEF Call
<1>1. TypeOK'
  BY DEF CachesInv, TypeOK
<1>2. HeapIsOwned'
  BY DEF CachesInv, HeapIsOwned, OwnedNodes
<1> QED
  BY <1>1, <1>2 DEF CachesInv, PriorityInv, ScannedInv, FilteredInv

LEMMA GetAllProcessesStep == ASSUME CachesInv, GetAllProcesses PROVE CachesInv'
<1> USE NothingIsEmpty DEF GetAllProcesses
<1>1. DOMAIN all = {} /\ DOMAIN category = {} /\ DOMAIN tree = {}
  BY DEF CachesInv, ScannedInv, TypeOK
<1>2. PICK list \in SUBSET Pids : list # {} /\ all' \in [list -> Processes]
  BY TablesAssumption
<1>3. DOMAIN all' \subseteq Pids /\ DOMAIN all' # {} /\ all' \in [DOMAIN all' -> Processes]
  BY <1>2
<1>4. TypeOK'
  <2>1. NodesOf("all", DOMAIN all') \subseteq Nodes
    BY <1>3, NodesOfType
  <2> QED
    BY <1>1, <1>3, <2>1 DEF CachesInv, TypeOK
<1>5. HeapIsOwned'
  <2>1. NodesOf("all", DOMAIN all) = {}
    BY <1>1 DEF NodesOf
  <2>2. heap = {}
    BY <1>1, <2>1 DEF CachesInv, HeapIsOwned, OwnedNodes
  <2> QED
    BY <1>1, <2>2 DEF HeapIsOwned, OwnedNodes
<1>6. PriorityInv' /\ ScannedInv' /\ FilteredInv'
  BY <1>1, <1>3 DEF PriorityInv, ScannedInv, FilteredInv
<1> QED
  BY <1>4, <1>5, <1>6 DEF CachesInv

LEMMA GetProcessesByCategoryStep ==
  ASSUME CachesInv, NEW c \in Categories, GetProcessesByCategory(c)
  PROVE  CachesInv'
<1> DEFINE others == UNION {category[d] : d \in Before(c)}
<1>1. PICK list \in FilteredProcesses(c, all) :
        /\ category' = Put(category, c, list \ (list \cap others))
        /\ heap' = (heap \cup NodesOf(c, list)) \ NodesOf(c, list \cap others)
  BY DEF GetProcessesByCategory, Reducers
<1>2. /\ UNCHANGED <<all, tree, usage, listed, calling>>
      /\ all # Nothing /\ c \notin DOMAIN category /\ Before(c) \subseteq DOMAIN category
  BY DEF GetProcessesByCategory
<1>3. /\ DOMAIN category' = DOMAIN category \cup {c}
      /\ category'[c] = list \ others
      /\ \A d \in DOMAIN category : category'[d] = category[d]
  <2>1. PICK value : value = list \ others
    OBVIOUS
  <2>2. list \ (list \cap others) = value
    BY <2>1
  <2>3. category' = Put(category, c, value)
    BY <1>1, <2>2
  <2>4. /\ DOMAIN category' = DOMAIN category \cup {c}
        /\ category'[c] = value
        /\ \A d \in DOMAIN category : d # c => category'[d] = category[d]
    BY <2>3 DEF Put
  <2> QED
    BY <1>2, <2>1, <2>4
<1>4. list \subseteq DOMAIN all
  BY FilteredAreScanned
<1>5. DOMAIN all \subseteq Pids /\ DOMAIN tree \subseteq DOMAIN category /\ heap \subseteq Nodes
  BY DEF CachesInv, TypeOK
<1>6. TypeOK'
  <2>1. heap' \subseteq Nodes
    <3>1. NodesOf(c, list) \subseteq Nodes
      BY <1>4, <1>5, NodesOfType
    <3> QED
      BY <1>1, <1>5, <3>1
  <2>2. \A d \in DOMAIN category' : category'[d] \subseteq DOMAIN all
    BY <1>3, <1>4 DEF CachesInv, TypeOK
  <2>3. \A d \in DOMAIN tree : tree[d] \in [category'[d] -> category'[d] \cup {Root}]
    BY <1>3 DEF CachesInv, TypeOK
  <2> QED
    BY <1>2, <1>3, <2>1, <2>2, <2>3 DEF CachesInv, TypeOK
<1>7. HeapIsOwned'
  <2>1. NodesOf(c, list) \ NodesOf(c, list \cap others) = NodesOf(c, list \ others)
    BY DEF NodesOf
  <2>2. heap \cap NodesOf(c, list \cap others) = {}
    <3>1. \A l, pids : \A x \in NodesOf(l, pids) : x.list = l
      BY DEF NodesOf
    <3>2. ASSUME NEW x \in OwnedNodes PROVE x.list \in {"all"} \cup DOMAIN category
      <4>1. CASE x \in NodesOf("all", DOMAIN all)
        BY <3>1, <4>1
      <4>2. ASSUME NEW d \in DOMAIN category, x \in NodesOf(d, category[d])
            PROVE  x.list \in DOMAIN category
        BY <3>1, <4>2
      <4>3. ASSUME NEW d \in DOMAIN tree, x = [list |-> d, pid |-> Root]
            PROVE  x.list \in DOMAIN category
        BY <1>5, <4>3
      <4> QED
        BY <4>1, <4>2, <4>3 DEF OwnedNodes
    <3> QED
      BY <3>1, <3>2, <1>2, CategoryOrder DEF CachesInv, HeapIsOwned
  <2>3. heap' = heap \cup NodesOf(c, category'[c])
    BY <1>1, <1>3, <2>1, <2>2
  <2>4. OwnedNodes' = OwnedNodes \cup NodesOf(c, category'[c])
    <3>1. UNION {NodesOf(d, category'[d]) : d \in DOMAIN category'}
            = (UNION {NodesOf(d, category[d]) : d \in DOMAIN category}) \cup NodesOf(c, category'[c])
      <4>1. \A d \in DOMAIN category : NodesOf(d, category'[d]) = NodesOf(d, category[d])
        BY <1>3
      <4>2. {NodesOf(d, category'[d]) : d \in DOMAIN category'}
              = {NodesOf(d, category[d]) : d \in DOMAIN category} \cup {NodesOf(c, category'[c])}
        BY <1>3, <4>1
      <4> QED
        BY <4>2
    <3>2. NodesOf("all", DOMAIN all') = NodesOf("all", DOMAIN all) /\ DOMAIN tree' = DOMAIN tree
      BY <1>2
    <3> QED
      BY <3>1, <3>2 DEF OwnedNodes
  <2> QED
    BY <2>3, <2>4 DEF CachesInv, HeapIsOwned
<1>8. PriorityInv'
  BY <1>2, <1>3 DEF CachesInv, PriorityInv
<1>9. FilteredInv'
  <2>1. ASSUME NEW e \in DOMAIN category', NEW found \in FilteredProcesses(e, all),
               category'[e] = found \ UNION {category[d] : d \in Before(e)},
               Before(e) \subseteq DOMAIN category
        PROVE  \E found_ \in FilteredProcesses(e, all') :
                 category'[e] = found_ \ UNION {category'[d] : d \in Before(e)}
    BY <1>2, <1>3, <2>1
  <2>2. CASE TRUE
    <3>1. ASSUME NEW e \in DOMAIN category
          PROVE  \E found \in FilteredProcesses(e, all') :
                   category'[e] = found \ UNION {category'[d] : d \in Before(e)}
      BY <1>3, <2>1 DEF CachesInv, FilteredInv, PriorityInv
    <3>2. \E found \in FilteredProcesses(c, all') :
            category'[c] = found \ UNION {category'[d] : d \in Before(c)}
      BY <1>2, <1>3, <2>1
    <3> QED
      BY <1>3, <3>1, <3>2 DEF FilteredInv
  <2> QED
    BY <2>2
<1>10. ScannedInv'
  BY <1>2 DEF ScannedInv
<1> QED
  BY <1>6, <1>7, <1>8, <1>9, <1>10 DEF CachesInv

LEMMA BuildCategoryTreeStep ==
  ASSUME CachesInv, NEW c \in Categories, BuildCategoryTree(c)
  PROVE  CachesInv'
<1>1. PICK built \in {BuildTree(all, category[c]), BuildPackedFlatTree(all, category[c])} :
        /\ tree' = Put(tree, c, built)
        /\ \E sums : usage' = Put(usage, c, sums)
        /\ listed' = listed \cup NodesOf(c, FlatTree(built, Root))
  BY DEF BuildCategoryTree
<1>2. /\ heap' = heap \cup {[list |-> c, pid |-> Root]}
      /\ calling' = "none" /\ UNCHANGED <<all, category>> /\ c \in DOMAIN category
  BY DEF BuildCategoryTree
<1>3. built \in [category[c] -> category[c] \cup {Root}]
  BY <1>1, BuildTreeType
<1>4. /\ DOMAIN tree' = DOMAIN tree \cup {c} /\ tree'[c] = built
      /\ \A d \in DOMAIN tree : d # c => tree'[d] = tree[d]
      /\ DOMAIN usage' = DOMAIN usage \cup {c}
  <2>1. PICK sums : usage' = Put(usage, c, sums)
    BY <1>1
  <2>2. tree' = Put(tree, c, built)
    BY <1>1
  <2>3. DOMAIN usage' = DOMAIN usage \cup {c}
    BY <2>1 DEF Put
  <2>4. /\ DOMAIN tree' = DOMAIN tree \cup {c} /\ tree'[c] = built
        /\ \A d \in DOMAIN tree : d # c => tree'[d] = tree[d]
    BY <2>2 DEF Put
  <2> QED
    BY <2>3, <2>4
<1>5. TypeOK'
  <2>1. listed' \subseteq Nodes
    <3>1. FlatTree(built, Root) \subseteq Pids \cup {Root}
      BY <1>2, <1>3, FlatTreeBounds DEF CachesInv, TypeOK
    <3>2. NodesOf(c, FlatTree(built, Root)) \subseteq Nodes
      BY <3>1, NodesOfType
    <3> QED
      BY <1>1, <3>2 DEF CachesInv, TypeOK
  <2>2. heap' \subseteq Nodes
    BY <1>2 DEF CachesInv, TypeOK, Nodes
  <2>3. \A d \in DOMAIN tree' : tree'[d] \in [category[d] -> category[d] \cup {Root}]
    BY <1>3, <1>4 DEF CachesInv, TypeOK
  <2> QED
    BY <1>2, <1>4, <2>1, <2>2, <2>3 DEF CachesInv, TypeOK
<1>6. HeapIsOwned'
  <2>1. OwnedNodes' = OwnedNodes \cup {[list |-> c, pid |-> Root]}
    <3>1. {[list |-> d, pid |-> Root] : d \in DOMAIN tree'}
            = {[list |-> d, pid |-> Root] : d \in DOMAIN tree} \cup {[list |-> c, pid |-> Root]}
      BY <1>4
    <3> QED
      BY <1>2, <3>1 DEF OwnedNodes
  <2> QED
    BY <1>2, <2>1 DEF CachesInv, HeapIsOwned
<1>7. PriorityInv' /\ ScannedInv' /\ FilteredInv'
  BY <1>2 DEF CachesInv, PriorityInv, ScannedInv, FilteredInv
<1> QED
  BY <1>5, <1>6, <1>7 DEF CachesInv

LEMMA CachesInvariance == Spec => []CachesInv
<1>1. CachesInv /\ [Next]_vars => CachesInv'
  <2> SUFFICES ASSUME CachesInv, [Next]_vars PROVE CachesInv'
    OBVIOUS
  <2>1. CASE UNCHANGED vars
    <3>1. TypeOK'
      BY <2>1 DEF vars, CachesInv, TypeOK
    <3>2. HeapIsOwned'
      BY <2>1 DEF vars, CachesInv, HeapIsOwned, OwnedNodes
    <3> QED
      BY <2>1, <3>1, <3>2 DEF vars, CachesInv, PriorityInv, ScannedInv, FilteredInv
  <2> QED
    BY <2>1, ClearCacheStep, CallStep, GetAllProcessesStep, GetProcessesByCategoryStep,
       BuildCategoryTreeStep DEF Next
<1> QED
  BY <1>1, InitCaches, PTL DEF Spec

-----------------------------------------------------------------------------

\* Nothing leaks over a refresh and nothing is deleted twice: the nodes that exist
\* are those the caches own, for any processes and whatever the categories take
\* from each other.
THEOREM HeapOwned == Spec => []HeapIsOwned
<1>1. CachesInv => HeapIsOwned
  BY DEF CachesInv
<1> QED
  BY <1>1, CachesInvariance, PTL

\* Each process of the scan is in one category.
THEOREM CategoriesPartition == Spec => []Partition
<1>1. CachesInv => Partition
  <2> SUFFICES ASSUME CachesInv PROVE Partition
    OBVIOUS
  <2>1. ASSUME NEW c \in DOMAIN category, NEW d \in DOMAIN category, d \in Before(c)
        PROVE  category[c] \cap category[d] = {}
    BY <2>1 DEF CachesInv, FilteredInv
  <2>2. \A c, d \in DOMAIN category : c # d => c \in Before(d) \/ d \in Before(c)
    BY CategoryOrder DEF Before, CachesInv, TypeOK
  <2>3. ASSUME DOMAIN category = Categories
        PROVE  DOMAIN all = UNION {category[c] : c \in Categories}
    <3>1. \A c \in Categories : category[c] \subseteq DOMAIN all
      BY <2>3 DEF CachesInv, TypeOK
    <3>2. ASSUME NEW c \in Categories, NEW p,
                 \A list \in FilteredProcesses(c, all) : p \in list
          PROVE  p \in UNION {category[d] : d \in Categories}
      <4>1. PICK list \in FilteredProcesses(c, all) :
              category[c] = list \ UNION {category[d] : d \in Before(c)}
        BY <2>3 DEF CachesInv, FilteredInv
      <4>2. p \in category[c] \/ p \in UNION {category[d] : d \in Before(c)}
        BY <3>2, <4>1
      <4>3. Before(c) \subseteq Categories
        BY CategoryOrder
      <4> QED
        BY <4>2, <4>3
    <3>3. ASSUME NEW p \in DOMAIN all
          PROVE  p \in UNION {category[d] : d \in Categories}
      <4>1. CASE all[p].mine
        BY <3>2, <4>1, FilteredCover, CategoryOrder
      <4>2. CASE ~all[p].mine
        BY <3>2, <4>2, FilteredCover, CategoryOrder
      <4> QED
        BY <4>1, <4>2
    <3> QED
      BY <3>1, <3>3
  <2> QED
    BY <2>1, <2>2, <2>3 DEF Partition
<1> QED
  BY <1>1, CachesInvariance, PTL

\* No process of a category is lost from its tree, and each node shows the usage of all
\* processes below it, each counted once, as long as the parents that the scan found form no loop.
THEOREM TreesComplete == Spec => [](NoLoops(all) => TreesAreComplete)
<1> DEFINE Finite == all = Nothing \/ IsFiniteSet(DOMAIN all)
           Complete == NoLoops(all) => TreesAreComplete
<1>1. Init => Finite /\ Complete
  BY NothingIsEmpty DEF Init, TreesAreComplete
<1>2. CachesInv /\ (Finite /\ Complete) /\ [Next]_vars => (Finite /\ Complete)'
  <2> SUFFICES ASSUME CachesInv, Finite, Complete, [Next]_vars
               PROVE  (Finite /\ Complete)'
    OBVIOUS
  <2>1. CASE ClearCache
    BY <2>1, NothingIsEmpty DEF ClearCache, TreesAreComplete
  <2>2. CASE GetAllProcesses
    <3>1. DOMAIN tree = {} /\ DOMAIN tree' = {}
      BY <2>2, NothingIsEmpty DEF GetAllProcesses, CachesInv, TypeOK, ScannedInv
    <3>2. all' \in Tables
      BY <2>2 DEF GetAllProcesses
    <3>3. IsFiniteSet(DOMAIN all')
      BY <3>2, TablesAssumption
    <3> QED
      BY <3>1, <3>3 DEF TreesAreComplete
  <2>3. ASSUME NEW c \in Categories, GetProcessesByCategory(c)
        PROVE  (Finite /\ Complete)'
    <3>1. \A d \in DOMAIN category : category'[d] = category[d]
      BY <2>3 DEF GetProcessesByCategory, Put
    <3>2. DOMAIN tree \subseteq DOMAIN category /\ UNCHANGED <<all, tree, usage>>
      BY <2>3 DEF GetProcessesByCategory, CachesInv, TypeOK
    <3> QED
      BY <3>1, <3>2 DEF TreesAreComplete, NoLoops
  <2>4. ASSUME NEW c \in Categories, BuildCategoryTree(c) PROVE (Finite /\ Complete)'
    <3>1. SUFFICES ASSUME NoLoops(all)
                   PROVE  TreesAreComplete'
      BY <2>4 DEF BuildCategoryTree, NoLoops
    <3>2. PICK built \in {BuildTree(all, category[c]), BuildPackedFlatTree(all, category[c])} :
            /\ tree' = Put(tree, c, built)
            /\ usage' = Put(usage, c, CalculateSums(built, [p \in category[c] \cup {Root} |->
                                                             IF p = Root THEN 0 ELSE 1]))
      BY <2>4 DEF BuildCategoryTree
    <3>3. UNCHANGED <<all, category>> /\ c \in DOMAIN category
      BY <2>4 DEF BuildCategoryTree
    <3>4. category[c] \in SUBSET DOMAIN all /\ Root \notin category[c]
      BY <3>3, RootAssumption DEF CachesInv, TypeOK
    <3>5. NoLoops(all) /\ IsFiniteSet(DOMAIN all)
      BY <3>1, <3>3, NothingIsEmpty DEF CachesInv, ScannedInv
    <3>6. FlatTree(built, Root) = category[c] \cup {Root}
      BY <3>4, <3>5, RootReachesAll
    <3>7. DOMAIN built = category[c] /\ built \in [category[c] -> category[c] \cup {Root}]
      BY <3>2, BuildTreeType
    <3>8. ReachesAll(built) /\ IsFiniteSet(DOMAIN built)
      BY <3>4, <3>5, <3>6, <3>7, FS_Subset DEF ReachesAll
    <3>9. PICK sums : sums = CalculateSums(built, [p \in DOMAIN built \cup {Root} |->
                                                     IF p = Root THEN 0 ELSE 1])
      OBVIOUS
    <3>10. /\ DOMAIN sums = category[c] \cup {Root}
          /\ \A p \in DOMAIN sums : sums[p] = Cardinality(FlatTree(built, p) \ {Root})
      <4>1. /\ DOMAIN sums = DOMAIN built \cup {Root}
            /\ \A p \in DOMAIN built \cup {Root} : sums[p] = Cardinality(FlatTree(built, p) \ {Root})
        BY <3>8, <3>9, SumsOfTree
      <4> QED
        BY <3>7, <4>1
    <3>11. usage' = Put(usage, c, sums)
      BY <3>2, <3>7, <3>9
    <3>12. /\ DOMAIN tree' = DOMAIN tree \cup {c} /\ tree'[c] = built /\ usage'[c] = sums
           /\ \A d \in DOMAIN tree : d # c => tree'[d] = tree[d] /\ usage'[d] = usage[d]
      BY <3>2, <3>11 DEF Put, CachesInv, TypeOK
    <3>13. ASSUME NEW d \in DOMAIN tree'
           PROVE  /\ FlatTree(tree'[d], Root) = category[d] \cup {Root}
                  /\ \A p \in DOMAIN usage'[d] :
                       usage'[d][p] = Cardinality(FlatTree(tree'[d], p) \ {Root})
      <4>1. CASE d = c
        BY <3>6, <3>10, <3>12, <4>1
      <4>2. CASE d # c
        BY <3>1, <3>12, <4>2 DEF TreesAreComplete
      <4> QED
        BY <4>1, <4>2
    <3> QED
      BY <3>3, <3>13 DEF TreesAreComplete
  <2>5. ASSUME NEW c \in Categories, Call(c) PROVE (Finite /\ Complete)'
    BY <2>5 DEF Call, NoLoops, TreesAreComplete
  <2>6. CASE UNCHANGED vars
    BY <2>6 DEF vars, NoLoops, TreesAreComplete
  <2> QED
    BY <2>1, <2>2, <2>3, <2>4, <2>5, <2>6 DEF Next
<1> QED
  BY <1>1, <1>2, CachesInvariance, PTL DEF Spec

\* The caches keep their types.
THEOREM CachesTypeCorrect == Spec => []TypeOK
<1>1. CachesInv => TypeOK
  BY DEF CachesInv
<1> QED
  BY <1>1, CachesInvariance, PTL

-----------------------------------------------------------------------------
(* From the scan to the trees. *)

\* The table that the entries of a scan make, as far as BuildTree looks at it.
TableOf(entries) ==
  [p \in {e.pid : e \in entries} |->
     [ppid |-> (CHOOSE e \in entries : e.pid = p).parentPid,
      name |-> (CHOOSE e \in entries : e.pid = p).name]]

\* Parents that form no cycle are the premise of TreesComplete.
LEMMA NoCycleNoLoops ==
  ASSUME ~reused, ParentsFormNoCycle
  PROVE  NoLoops(TableOf(ToSet(result)))
<1> DEFINE table == TableOf(ToSet(result))
           EntryFor(p) == CHOOSE e \in ToSet(result) : e.pid = p
<1> SUFFICES ASSUME NEW loop \in (SUBSET DOMAIN table) \ {{}}
             PROVE  \E p \in loop : table[p].ppid \notin loop
  BY DEF NoLoops
<1>1. \A p \in loop : /\ EntryFor(p) \in ToSet(result) /\ EntryFor(p).pid = p
                       /\ table[p].ppid = EntryFor(p).parentPid
  BY DEF TableOf
<1> HIDE DEF table, EntryFor
<1> DEFINE entries == {EntryFor(p) : p \in loop}
<1>2. {e.pid : e \in entries} = loop
  BY <1>1
<1>3. entries \in (SUBSET ToSet(result)) \ {{}}
  BY <1>1
<1>4. PICK e \in entries : e.parentPid \notin {f.pid : f \in entries}
  BY <1>3 DEF ParentsFormNoCycle
<1> QED
  BY <1>1, <1>2, <1>4

\* Unless a pid was used again during the scan, both trees that can be made of any
\* list of the processes it found reach all of the list, although the parents were
\* read at different moments: nothing is lost between /proc and the list on the
\* screen, and FlatTree returns.
THEOREM ScansMakeTrees ==
  ScanSpec => [](~reused =>
                   \A list \in SUBSET DOMAIN TableOf(ToSet(result)) :
                     \A built \in {BuildTree(TableOf(ToSet(result)), list),
                                   BuildPackedFlatTree(TableOf(ToSet(result)), list)} :
                       FlatTree(built, Root) = list \cup {Root})
<1> DEFINE Complete == ~reused =>
             \A list \in SUBSET DOMAIN TableOf(ToSet(result)) :
               \A built \in {BuildTree(TableOf(ToSet(result)), list),
                             BuildPackedFlatTree(TableOf(ToSet(result)), list)} :
                 FlatTree(built, Root) = list \cup {Root}
<1>1. ScanInv => Complete
  <2> SUFFICES ASSUME ScanInv, ~reused PROVE Complete
    OBVIOUS
  <2>1. PICK table : table = TableOf(ToSet(result))
    OBVIOUS
  <2>2. NoLoops(table)
    BY <2>1, InvNoCycle, NoCycleNoLoops
  <2>3. DOMAIN table \subseteq Pids
    <3>1. DOMAIN table = {e.pid : e \in ToSet(result)}
      BY <2>1 DEF TableOf
    <3>2. \A e \in ToSet(result) : e.pid \in Pids
      BY ReadType DEF ScanInv, Read
    <3> QED
      BY <3>1, <3>2
  <2>4. ASSUME NEW list \in SUBSET DOMAIN table,
               NEW built \in {BuildTree(table, list), BuildPackedFlatTree(table, list)}
        PROVE  FlatTree(built, Root) = list \cup {Root}
    <3>1. Root \notin list
      BY <2>3, RootAssumption
    <3> QED
      BY <2>2, <3>1, RootReachesAll
  <2> QED
    BY <2>1, <2>4
<1> QED
  BY <1>1, ScanInvariance, PTL

-----------------------------------------------------------------------------
(* The rows of a category. *)

Rows == [Pids \cup {Root} -> Seq(Pids)]

\* No process has two rows.
Unique(rows) ==
  \A x, y \in DOMAIN rows : \A i \in DOMAIN rows[x], j \in DOMAIN rows[y] :
    rows[x][i] = rows[y][j] => x = y /\ i = j

\* p may stand before its sibling q.
InOrder(p, q) == SortCompare(q, p) \/ ~SortCompare(p, q)

\* The siblings that are in the tree stand in order: the others are about to go.
Sorted(rows) ==
  \A x \in DOMAIN rows : \A i, j \in DOMAIN rows[x] :
    i < j /\ {rows[x][i], rows[x][j]} \subseteq DOMAIN procRoot => InOrder(rows[x][i], rows[x][j])

\* While UpdateCategory walks down the tree, there are rows for the processes it has been
\* at, and for no others that were not there before.
LoopInv ==
  /\ phase # "add" => updated = {}
  /\ phase \in {"remove", "add", "undefined"} => ~dirty
  /\ phase = "idle" => RowsOf(kids) = DOMAIN procRoot
  /\ phase = "add" => updated \subseteq RowsOf(kids) /\ RowsOf(kids) \subseteq DOMAIN procRoot

\* Rows that were cleared are made again below their parents.
PlacedInv ==
  cleared => /\ phase = "remove" => kids = NoRows
             /\ phase \in {"add", "idle"} =>
                  \A x \in DOMAIN kids : \A i \in DOMAIN kids[x] : procRoot[kids[x][i]] = x
             /\ phase = "add" => RowsOf(kids) \subseteq updated

SortedInv == ~dirty /\ ~renamed => Sorted(kids)

\* The selection is on a row, and on a label only if the user put it there or the row
\* he had selected was erased.
SelectionInv ==
  /\ selected \in RowsOf(kids) \cup {Root, None}
  /\ selected \notin Pids => chosen \in {Root, None}
  /\ sensitive = (selected \in Pids)

RowsInv == /\ RowsTypeOK
           /\ Unique(kids)
           /\ LoopInv
           /\ PlacedInv
           /\ SortedInv
           /\ SelectionInv
           /\ SignalsMeetProcesses

\* The rows there are.
LEMMA RowsOfRows ==
  ASSUME NEW rows, NEW p
  PROVE  p \in RowsOf(rows) <=> \E x \in DOMAIN rows : \E i \in DOMAIN rows[x] : rows[x][i] = p
  BY DEF RowsOf, ToSet

\* What is left of siblings comes from them, in their order.
LEMMA WithoutSiblings ==
  ASSUME NEW s \in Seq(Pids), NEW erased, NEW left, left = Without(s, erased)
  PROVE  /\ left \in Seq(Pids)
         /\ \A n \in DOMAIN left : left[n] \notin erased
         /\ \E from \in [DOMAIN left -> DOMAIN s] :
              /\ \A n \in DOMAIN left : left[n] = s[from[n]]
              /\ \A m, n \in DOMAIN left : m < n => from[m] < from[n]
<1> DEFINE kept == {i \in DOMAIN s : s[i] \notin erased}
           Ascending(indices) == \A m, n \in DOMAIN indices : m < n => indices[m] < indices[n]
<1>1. DOMAIN s = 1..Len(s) /\ Len(s) \in Nat /\ \A i \in DOMAIN s : s[i] \in Pids
  OBVIOUS
<1>2. IsFiniteSet(kept) /\ kept \subseteq Nat /\ Cardinality(kept) \in Nat
  <2>1. IsFiniteSet(DOMAIN s)
    BY <1>1, FS_Interval
  <2>2. IsFiniteSet(kept)
    BY <2>1, FS_Subset
  <2>3. kept \subseteq Nat
    BY <1>1
  <2> QED
    BY <2>2, <2>3, FS_CardinalityType
<1>3. PICK indices \in [1..Cardinality(kept) -> kept] : Ascending(indices)
  BY <1>2, SortedListing
<1>4. indices \in SetToSeqs(kept)
  <2> SUFFICES ASSUME NEW m \in 1..Cardinality(kept), NEW n \in 1..Cardinality(kept), m # n
               PROVE  indices[m] # indices[n]
    BY DEF SetToSeqs
  <2>1. indices[m] \in Int /\ indices[n] \in Int /\ m \in Int /\ n \in Int
    BY <1>2
  <2>2. m < n \/ n < m
    BY <2>1
  <2> QED
    BY <1>3, <2>1, <2>2
<1>5. PICK from : from = CHOOSE indices2 \in SetToSeqs(kept) : Ascending(indices2)
  OBVIOUS
<1>6. from \in SetToSeqs(kept) /\ Ascending(from)
  BY <1>3, <1>4, <1>5
<1>7. left = [n \in DOMAIN from |-> s[from[n]]]
  BY <1>5 DEF Without
<1>8. from \in [1..Cardinality(kept) -> kept]
  BY <1>6 DEF SetToSeqs
<1>9. left \in [1..Cardinality(kept) -> Pids]
  BY <1>1, <1>7, <1>8
<1>10. left \in Seq(Pids) /\ DOMAIN left = DOMAIN from
  <2>1. PICK count : count = Cardinality(kept)
    OBVIOUS
  <2>2. count \in Nat /\ left \in [1..count -> Pids]
    BY <1>2, <1>9, <2>1
  <2>3. left \in Seq(Pids)
    BY <2>2
  <2> QED
    BY <1>7, <2>3
<1>11. from \in [DOMAIN left -> DOMAIN s]
  BY <1>8, <1>10
<1> QED
  BY <1>6, <1>7, <1>8, <1>10, <1>11

\* Erasing rows leaves others as they are, in their order.
LEMMA ErasedRows ==
  ASSUME NEW rows \in Rows, Unique(rows), NEW erased, NEW new, new = Erase(rows, erased)
  PROVE  /\ new \in Rows
         /\ Unique(new)
         /\ RowsOf(new) \subseteq RowsOf(rows) \ erased
         /\ \A x \in DOMAIN rows : \A i, j \in DOMAIN new[x] :
              i < j => \E k, l \in DOMAIN rows[x] :
                         k < l /\ new[x][i] = rows[x][k] /\ new[x][j] = rows[x][l]
<1>1. DOMAIN new = DOMAIN rows /\ DOMAIN rows = Pids \cup {Root}
  BY DEF Erase, Rows
<1>2. ASSUME NEW x \in DOMAIN rows
      PROVE  /\ new[x] \in Seq(Pids)
             /\ \A n \in DOMAIN new[x] : new[x][n] \notin erased
             /\ \E from \in [DOMAIN new[x] -> DOMAIN rows[x]] :
                  /\ \A n \in DOMAIN new[x] : new[x][n] = rows[x][from[n]]
                  /\ \A m, n \in DOMAIN new[x] : m < n => from[m] < from[n]
  <2>1. rows[x] \in Seq(Pids)
    BY <1>2 DEF Rows
  <2>2. CASE x \in erased
    <3>1. new[x] = <<>>
      BY <1>2, <2>2 DEF Erase
    <3>2. DOMAIN new[x] = {} /\ new[x] \in Seq(Pids)
      BY <3>1
    <3>3. PICK from : from = [n \in DOMAIN new[x] |-> 1]
      OBVIOUS
    <3>4. from \in [DOMAIN new[x] -> DOMAIN rows[x]]
      BY <3>2, <3>3
    <3> QED
      BY <3>2, <3>4
  <2>3. CASE x \notin erased
    <3>1. new[x] = Without(rows[x], erased)
      BY <1>2, <2>3 DEF Erase
    <3> QED
      BY <2>1, <3>1, WithoutSiblings
  <2> QED
    BY <2>2, <2>3
<1>3. new \in Rows
  <2>1. new = [x \in DOMAIN rows |-> new[x]]
    BY DEF Erase
  <2> QED
    BY <1>1, <1>2, <2>1 DEF Rows
<1>4. Unique(new)
  <2> SUFFICES ASSUME NEW x \in DOMAIN rows, NEW y \in DOMAIN rows,
                      NEW i \in DOMAIN new[x], NEW j \in DOMAIN new[y], new[x][i] = new[y][j]
               PROVE  x = y /\ i = j
    BY <1>1 DEF Unique
  <2>1. PICK from \in [DOMAIN new[x] -> DOMAIN rows[x]] :
          /\ \A n \in DOMAIN new[x] : new[x][n] = rows[x][from[n]]
          /\ \A m, n \in DOMAIN new[x] : m < n => from[m] < from[n]
    BY <1>2
  <2>2. PICK from2 \in [DOMAIN new[y] -> DOMAIN rows[y]] :
          \A n \in DOMAIN new[y] : new[y][n] = rows[y][from2[n]]
    BY <1>2
  <2>3. x = y
    BY <2>1, <2>2 DEF Unique
  <2>4. from[i] = from[j]
    BY <2>1, <2>3 DEF Unique
  <2>5. i \in Int /\ j \in Int /\ from[i] \in Int /\ from[j] \in Int
    <3>1. new[x] \in Seq(Pids) /\ rows[x] \in Seq(Pids)
      BY <1>2 DEF Rows
    <3>2. DOMAIN new[x] \subseteq Int /\ DOMAIN rows[x] \subseteq Int
      BY <3>1
    <3> QED
      BY <2>1, <2>3, <3>2
  <2>6. ~(i < j) /\ ~(j < i)
    BY <2>1, <2>3, <2>4, <2>5
  <2> QED
    BY <2>3, <2>5, <2>6
<1>5. ASSUME NEW p \in RowsOf(new) PROVE p \in RowsOf(rows) \ erased
  <2>1. PICK x \in DOMAIN rows : \E i \in DOMAIN new[x] : new[x][i] = p
    BY <1>1, <1>5, RowsOfRows
  <2>2. PICK i \in DOMAIN new[x] : new[x][i] = p
    BY <2>1
  <2> QED
    BY <1>2, <2>2, RowsOfRows
<1>6. ASSUME NEW x \in DOMAIN rows, NEW i \in DOMAIN new[x], NEW j \in DOMAIN new[x], i < j
      PROVE  \E k, l \in DOMAIN rows[x] :
               k < l /\ new[x][i] = rows[x][k] /\ new[x][j] = rows[x][l]
  <2>1. PICK from \in [DOMAIN new[x] -> DOMAIN rows[x]] :
          /\ \A n \in DOMAIN new[x] : new[x][n] = rows[x][from[n]]
          /\ \A m, n \in DOMAIN new[x] : m < n => from[m] < from[n]
    BY <1>2
  <2> WITNESS from[i] \in DOMAIN rows[x]
  <2> WITNESS from[j] \in DOMAIN rows[x]
  <2> QED
    BY <1>6, <2>1
<1> QED
  BY <1>3, <1>4, <1>5, <1>6

\* A sibling is inserted.
LEMMA InsertSibling ==
  ASSUME NEW s \in Seq(Pids), NEW p \in Pids, NEW at \in 1..Len(s) + 1,
         NEW t, t = InsertAt(s, at, p)
  PROVE  /\ t \in Seq(Pids)
         /\ DOMAIN t = 1..Len(s) + 1
         /\ t[at] = p
         /\ \A i \in DOMAIN t : /\ i < at => i \in DOMAIN s /\ t[i] = s[i]
                                /\ i > at => i - 1 \in DOMAIN s /\ t[i] = s[i - 1]
         /\ \A i \in DOMAIN s : \E j \in DOMAIN t : t[j] = s[i]
<1>1. Len(s) \in Nat /\ at \in Nat /\ at >= 1 /\ at <= Len(s) + 1 /\ DOMAIN s = 1..Len(s)
  OBVIOUS
<1>2. PICK front, back : front = SubSeq(s, 1, at - 1) /\ back = SubSeq(s, at, Len(s))
  OBVIOUS
<1>3. /\ front \in Seq(Pids) /\ Len(front) = at - 1
      /\ \A i \in 1..at - 1 : front[i] = s[i]
  BY <1>1, <1>2
<1>4. /\ back \in Seq(Pids) /\ Len(back) = Len(s) - at + 1
      /\ \A i \in 1..Len(s) - at + 1 : back[i] = s[at + i - 1]
  BY <1>1, <1>2
<1>5. t = (front \o <<p>>) \o back
  BY <1>2 DEF InsertAt
<1>6. PICK first : first = front \o <<p>>
  OBVIOUS
<1>7. /\ first \in Seq(Pids) /\ Len(first) = at /\ first[at] = p
      /\ \A i \in 1..at - 1 : first[i] = s[i]
  BY <1>1, <1>3, <1>6
<1>8. /\ t \in Seq(Pids) /\ Len(t) = Len(s) + 1
      /\ \A i \in 1..at : t[i] = first[i]
      /\ \A i \in at + 1..Len(s) + 1 : t[i] = back[i - at]
  <2>1. t = first \o back /\ first \in Seq(Pids) /\ back \in Seq(Pids)
    BY <1>4, <1>5, <1>6, <1>7
  <2>2. t \in Seq(Pids) /\ Len(t) = Len(s) + 1
    <3>1. t \in Seq(Pids) /\ Len(t) = Len(first) + Len(back)
      BY <2>1
    <3> QED
      BY <1>1, <1>4, <1>7, <3>1
  <2>3. ASSUME NEW i \in 1..at PROVE t[i] = first[i]
    <3>1. i \in Int /\ 1 <= i /\ i <= Len(first)
      BY <1>1, <1>7
    <3> QED
      BY <2>1, <3>1
  <2>4. ASSUME NEW i \in at + 1..Len(s) + 1 PROVE t[i] = back[i - at]
    <3>1. i \in Int /\ i > Len(first) /\ i <= Len(first) + Len(back)
      BY <1>1, <1>4, <1>7
    <3>2. t[i] = back[i - Len(first)]
      BY <2>1, <3>1
    <3> QED
      BY <1>7, <3>2
  <2> QED
    BY <2>2, <2>3, <2>4
<1>9. DOMAIN t = 1..Len(s) + 1
  BY <1>8
<1>10. t[at] = p
  BY <1>1, <1>7, <1>8
<1>11. ASSUME NEW i \in DOMAIN t, i < at PROVE i \in DOMAIN s /\ t[i] = s[i]
  <2>1. i \in 1..at - 1 /\ i \in 1..at
    BY <1>1, <1>9, <1>11
  <2> QED
    BY <1>1, <1>7, <1>8, <2>1
<1>12. ASSUME NEW i \in DOMAIN t, i > at PROVE i - 1 \in DOMAIN s /\ t[i] = s[i - 1]
  <2>1. i \in at + 1..Len(s) + 1 /\ i - at \in 1..Len(s) - at + 1 /\ at + (i - at) - 1 = i - 1
    BY <1>1, <1>9, <1>12
  <2>2. t[i] = back[i - at] /\ back[i - at] = s[at + (i - at) - 1]
    BY <1>4, <1>8, <2>1
  <2> QED
    BY <1>1, <1>9, <2>1, <2>2
<1>13. ASSUME NEW i \in DOMAIN s PROVE \E j \in DOMAIN t : t[j] = s[i]
  <2>1. CASE i < at
    <3>1. i \in DOMAIN t
      BY <1>1, <1>9
    <3> QED
      BY <1>11, <2>1, <3>1
  <2>2. CASE i >= at
    <3>1. i + 1 \in DOMAIN t /\ i + 1 > at /\ (i + 1) - 1 = i
      BY <1>1, <1>9, <2>2
    <3>2. t[i + 1] = s[(i + 1) - 1]
      BY <1>12, <3>1
    <3> QED
      BY <3>1, <3>2
  <2> QED
    BY <1>1, <2>1, <2>2
<1> QED
  BY <1>8, <1>9, <1>10, <1>11, <1>12, <1>13

\* The place of a new row among its siblings.
LEMMA InsertionPlace ==
  ASSUME NEW s \in Seq(Pids), NEW p, NEW at, at = InsertionIndex(p, s)
  PROVE  /\ at \in 1..Len(s) + 1
         /\ \A i \in DOMAIN s : i >= at => ~SortCompare(p, s[i])
         /\ at > 1 => at - 1 \in DOMAIN s /\ SortCompare(p, s[at - 1])
<1> DEFINE Before2 == {0} \cup {i \in DOMAIN s : SortCompare(p, s[i])}
           Room == {Len(s) - i : i \in Before2}
<1>1. Len(s) \in Nat /\ DOMAIN s = 1..Len(s)
  OBVIOUS
<1>2. Room \subseteq Nat /\ Room # {} /\ Before2 \subseteq Int
  BY <1>1
<1>3. PICK least \in Room : \A y \in Room : ~(y < least)
  BY <1>2, LeastNumber
<1>4. PICK last \in Before2 : least = Len(s) - last
  BY <1>3
<1>5. ASSUME NEW i \in Before2 PROVE last >= i
  <2>1. Len(s) - i \in Room
    OBVIOUS
  <2> QED
    <3>1. ~(Len(s) - i < least)
      BY <1>3, <2>1
    <3>2. i \in Int /\ last \in Int
      BY <1>2
    <3> HIDE DEF Before2, Room
    <3> QED
      BY <1>1, <1>4, <3>1, <3>2
<1>6. Max(Before2) \in Before2 /\ \A i \in Before2 : Max(Before2) >= i
  BY <1>4, <1>5 DEF Max
<1>7. PICK most : most = Max(Before2)
  OBVIOUS
<1>8. at = most + 1
  BY <1>7 DEF InsertionIndex
<1>9. most \in Int /\ most >= 0 /\ most <= Len(s)
  BY <1>1, <1>2, <1>6, <1>7
<1>10. ASSUME NEW i \in DOMAIN s, i >= at PROVE ~SortCompare(p, s[i])
  <2>1. i \notin Before2
    <3> SUFFICES ASSUME i \in Before2 PROVE FALSE
      OBVIOUS
    <3>1. i \in Int /\ most >= i
      BY <1>2, <1>6, <1>7
    <3> HIDE DEF Before2, Room
    <3> QED
      BY <1>8, <1>9, <1>10, <3>1
  <2> QED
    BY <2>1
<1>11. at > 1 => at - 1 \in DOMAIN s /\ SortCompare(p, s[at - 1])
  <2>1. at - 1 = most /\ (at > 1 => most # 0)
    BY <1>8, <1>9
  <2> QED
    BY <1>6, <1>7, <2>1
<1> QED
  BY <1>1, <1>8, <1>9, <1>10, <1>11

\* new are rows, and one of p at a place below the row of x.
Inserted(rows, new, x, at, p) ==
  /\ DOMAIN new = DOMAIN rows /\ new = [y \in DOMAIN rows |-> new[y]]
  /\ new[x] = InsertAt(rows[x], at, p)
  /\ \A y \in DOMAIN rows \ {x} : new[y] = rows[y]

\* A row is added to others.
LEMMA AddedRow ==
  ASSUME NEW rows \in Rows, Unique(rows), NEW p \in Pids, p \notin RowsOf(rows),
         NEW x \in DOMAIN rows, NEW at \in 1..Len(rows[x]) + 1,
         NEW new, Inserted(rows, new, x, at, p)
  PROVE  /\ new \in Rows
         /\ Unique(new)
         /\ RowsOf(new) = RowsOf(rows) \cup {p}
         /\ \A y \in DOMAIN rows : \A i \in DOMAIN new[y] :
              /\ new[y][i] = p => y = x
              /\ new[y][i] # p => \E k \in DOMAIN rows[y] : new[y][i] = rows[y][k]
<1>0. \A q : q \in RowsOf(new) <=> \E y \in DOMAIN new : \E i \in DOMAIN new[y] : new[y][i] = q
  BY RowsOfRows
<1>1. DOMAIN new = DOMAIN rows /\ x \in Pids \cup {Root} /\ DOMAIN rows = Pids \cup {Root}
  BY DEF Rows, Inserted
<1>2. rows[x] \in Seq(Pids)
  BY DEF Rows
<1>3. PICK s, t : s = rows[x] /\ t = InsertAt(s, at, p)
  OBVIOUS
<1>4. new[x] = t /\ \A y \in DOMAIN rows \ {x} : new[y] = rows[y]
  BY <1>3 DEF Inserted
<1>5. /\ s \in Seq(Pids) /\ at \in 1..Len(s) + 1 /\ t \in Seq(Pids)
      /\ DOMAIN t = 1..Len(s) + 1 /\ at \in DOMAIN t
      /\ t[at] = p
      /\ \A i \in DOMAIN t : /\ i < at => i \in DOMAIN s /\ t[i] = s[i]
                             /\ i > at => i - 1 \in DOMAIN s /\ t[i] = s[i - 1]
      /\ \A i \in DOMAIN s : \E j \in DOMAIN t : t[j] = s[i]
  BY <1>2, <1>3, InsertSibling
<1>6. at \in Int /\ \A i \in DOMAIN t : i \in Int
  BY <1>5
<1>7. \A i \in DOMAIN t : i = at \/ \E k \in DOMAIN s : t[i] = s[k]
  BY <1>5, <1>6
<1>8. \A k \in DOMAIN s : s[k] # p
  BY <1>3, RowsOfRows
<1>9. ASSUME NEW i \in DOMAIN t, NEW j \in DOMAIN t, t[i] = t[j] PROVE i = j
  <2>1. \A k, l \in DOMAIN s : s[k] = s[l] => k = l
    BY <1>3 DEF Unique
  <2>2. CASE i = at \/ j = at
    BY <1>5, <1>7, <1>8, <1>9, <2>2
  <2>3. ASSUME NEW k \in DOMAIN t, k # at
        PROVE  \E l \in DOMAIN s : t[k] = s[l] /\ l = (IF k < at THEN k ELSE k - 1)
    <3>1. k < at \/ (k > at /\ ~(k < at))
      BY <1>6, <2>3
    <3> QED
      BY <1>5, <3>1
  <2>4. CASE i # at /\ j # at
    <3>1. (IF i < at THEN i ELSE i - 1) = (IF j < at THEN j ELSE j - 1)
      BY <1>9, <2>1, <2>3, <2>4
    <3>2. i \in Int /\ j \in Int /\ at \in Int
      BY <1>6
    <3> QED
      BY <2>4, <3>1, <3>2
  <2> QED
    BY <2>2, <2>4
<1>10. new \in Rows
  <2>1. new = [y \in DOMAIN rows |-> new[y]]
    BY DEF Inserted
  <2>2. \A y \in DOMAIN rows : new[y] \in Seq(Pids)
    BY <1>4, <1>5 DEF Rows
  <2> QED
    BY <1>1, <2>1, <2>2 DEF Rows
<1>11. ASSUME NEW y \in DOMAIN rows, NEW i \in DOMAIN new[y]
       PROVE  /\ new[y][i] = p => y = x
              /\ new[y][i] # p => \E k \in DOMAIN rows[y] : new[y][i] = rows[y][k]
  <2>1. CASE y = x
    <3>1. new[y] = t /\ i \in DOMAIN t /\ rows[y] = s
      BY <1>3, <1>4, <2>1
    <3>2. t[i] # p => \E k \in DOMAIN s : t[i] = s[k]
      BY <1>5, <1>7, <3>1
    <3> QED
      BY <2>1, <3>1, <3>2
  <2>2. CASE y # x
    <3>1. new[y] = rows[y]
      BY <1>4, <2>2
    <3>2. new[y][i] # p
      BY <3>1, RowsOfRows
    <3> QED
      BY <3>1, <3>2
  <2> QED
    BY <2>1, <2>2
<1>12. Unique(new)
  <2> SUFFICES ASSUME NEW y \in DOMAIN rows, NEW z \in DOMAIN rows,
                      NEW i \in DOMAIN new[y], NEW j \in DOMAIN new[z], new[y][i] = new[z][j]
               PROVE  y = z /\ i = j
    BY <1>1 DEF Unique
  <2>1. y = z
    <3>1. CASE new[y][i] = p
      BY <1>11, <3>1
    <3>2. CASE new[y][i] # p
      <4>1. PICK k \in DOMAIN rows[y] : new[y][i] = rows[y][k]
        BY <1>11, <3>2
      <4>2. PICK l \in DOMAIN rows[z] : new[z][j] = rows[z][l]
        BY <1>11, <3>2
      <4> QED
        BY <4>1, <4>2 DEF Unique
    <3> QED
      BY <3>1, <3>2
  <2>2. CASE y = x
    BY <1>4, <1>9, <2>1, <2>2
  <2>3. CASE y # x
    BY <1>4, <2>1, <2>3 DEF Unique
  <2> QED
    BY <2>1, <2>2, <2>3
<1>13. ASSUME NEW q PROVE q \in RowsOf(new) <=> q \in RowsOf(rows) \cup {p}
  <2>1. ASSUME q \in RowsOf(new) PROVE q \in RowsOf(rows) \cup {p}
    <3>1. PICK y \in DOMAIN new : \E i \in DOMAIN new[y] : new[y][i] = q
      BY <1>0, <2>1
    <3>2. PICK i \in DOMAIN new[y] : new[y][i] = q
      BY <3>1
    <3> QED
      BY <1>1, <1>11, <3>2, RowsOfRows
  <2>2. CASE q = p
    <3>1. x \in DOMAIN new /\ at \in DOMAIN new[x] /\ new[x][at] = q
      BY <1>1, <1>4, <1>5, <2>2
    <3> QED
      <4>1. \E i \in DOMAIN new[x] : new[x][i] = q
        BY <3>1
      <4> QED
        <5>1. \E y \in DOMAIN new : \E i \in DOMAIN new[y] : new[y][i] = q
          BY <3>1, <4>1
        <5>2. q \in RowsOf(new)
          BY <1>0, <5>1
        <5> QED
          BY <2>2, <5>2
  <2>3. ASSUME q \in RowsOf(rows) PROVE q \in RowsOf(new)
    <3>1. PICK y \in DOMAIN rows : \E i \in DOMAIN rows[y] : rows[y][i] = q
      BY <2>3, RowsOfRows
    <3>2. \E i \in DOMAIN new[y] : new[y][i] = q
      <4>1. CASE y = x
        <5>1. new[y] = t /\ rows[y] = s
          BY <1>3, <1>4, <4>1
        <5>2. PICK k \in DOMAIN s : s[k] = q
          BY <3>1, <5>1
        <5> QED
          BY <1>5, <5>1, <5>2
      <4>2. CASE y # x
        BY <1>4, <3>1, <4>2
      <4> QED
        BY <4>1, <4>2
    <3> QED
      BY <1>0, <1>1, <3>2
  <2> QED
    BY <2>1, <2>2, <2>3
<1> QED
  BY <1>10, <1>11, <1>12, <1>13

\* What the sort column shows are numbers, in whose order siblings stand.
LEMMA OrderOfKeys ==
  ASSUME RowsTypeOK
  PROVE  /\ \A p, q \in DOMAIN procRoot : InOrder(p, q) \/ InOrder(q, p)
         /\ \A p, q, r \in DOMAIN procRoot : InOrder(p, q) /\ InOrder(q, r) => InOrder(p, r)
<1>1. \A p \in DOMAIN procRoot : key[p] \in Int
  BY RowsAssumption DEF RowsTypeOK
<1>2. ASSUME NEW p \in DOMAIN procRoot, NEW q \in DOMAIN procRoot
      PROVE  InOrder(p, q) <=> IF sortOrder THEN key[p] >= key[q] ELSE key[p] <= key[q]
  <2>1. key[p] \in Int /\ key[q] \in Int
    BY <1>1
  <2> QED
    BY <2>1 DEF InOrder, SortCompare
<1>3. ASSUME NEW p \in DOMAIN procRoot, NEW q \in DOMAIN procRoot
      PROVE  InOrder(p, q) \/ InOrder(q, p)
  <2>1. key[p] \in Int /\ key[q] \in Int
    BY <1>1
  <2> QED
    BY <1>2, <2>1
<1>4. ASSUME NEW p \in DOMAIN procRoot, NEW q \in DOMAIN procRoot, NEW r \in DOMAIN procRoot,
             InOrder(p, q), InOrder(q, r)
      PROVE  InOrder(p, r)
  <2>1. key[p] \in Int /\ key[q] \in Int /\ key[r] \in Int
    BY <1>1
  <2> QED
    BY <1>2, <1>4, <2>1
<1> QED
  BY <1>3, <1>4

\* A row that GetSortedInsertionRow has found a place for leaves its siblings sorted.
LEMMA SortedRow ==
  ASSUME RowsTypeOK, NEW rows \in Rows, RowsOf(rows) \subseteq DOMAIN procRoot, Sorted(rows),
         NEW p \in DOMAIN procRoot, p \in Pids, NEW x \in DOMAIN rows,
         NEW new, Inserted(rows, new, x, InsertionIndex(p, rows[x]), p)
  PROVE  Sorted(new)
<1>1. rows[x] \in Seq(Pids)
  BY DEF Rows
<1>2. PICK s, at, t : s = rows[x] /\ at = InsertionIndex(p, s) /\ t = InsertAt(s, at, p)
  OBVIOUS
<1>3. new[x] = t /\ DOMAIN new = DOMAIN rows /\ \A y \in DOMAIN rows \ {x} : new[y] = rows[y]
  BY <1>2 DEF Inserted
<1>4. /\ at \in 1..Len(s) + 1
      /\ \A i \in DOMAIN s : i >= at => ~SortCompare(p, s[i])
      /\ at > 1 => at - 1 \in DOMAIN s /\ SortCompare(p, s[at - 1])
  BY <1>1, <1>2, InsertionPlace
<1>5. /\ DOMAIN t = 1..Len(s) + 1
      /\ t[at] = p
      /\ \A i \in DOMAIN t : /\ i < at => i \in DOMAIN s /\ t[i] = s[i]
                             /\ i > at => i - 1 \in DOMAIN s /\ t[i] = s[i - 1]
  BY <1>1, <1>2, <1>4, InsertSibling
<1>6. at \in Int /\ (\A i \in DOMAIN t : i \in Int) /\ Len(s) \in Nat /\ DOMAIN s = 1..Len(s)
  BY <1>1, <1>2, <1>4, <1>5
<1>7. \A i \in DOMAIN s : s[i] \in DOMAIN procRoot
  BY <1>2, RowsOfRows
<1>8. \A i, j \in DOMAIN s : i < j => InOrder(s[i], s[j])
  BY <1>2, <1>7 DEF Sorted
<1>9. ASSUME NEW i \in DOMAIN s, i < at PROVE InOrder(s[i], p)
  <2>1. at - 1 \in DOMAIN s /\ SortCompare(p, s[at - 1]) /\ i <= at - 1
    BY <1>4, <1>6, <1>9
  <2>2. InOrder(s[at - 1], p)
    BY <2>1 DEF InOrder
  <2>3. CASE i = at - 1
    BY <2>2, <2>3
  <2>4. CASE i < at - 1
    <3>1. InOrder(s[i], s[at - 1])
      BY <1>8, <2>1, <2>4
    <3> QED
      BY <1>7, <2>1, <2>2, <3>1, OrderOfKeys
  <2> QED
    BY <1>6, <2>1, <2>3, <2>4
<1>10. ASSUME NEW i \in DOMAIN s, i >= at PROVE InOrder(p, s[i])
  BY <1>4, <1>10 DEF InOrder
<1>11. ASSUME NEW i \in DOMAIN t, NEW j \in DOMAIN t, i < j PROVE InOrder(t[i], t[j])
  <2>0. i \in Int /\ j \in Int /\ at \in Int
    BY <1>6
  <2>1. CASE j < at
    <3>1. i < at
      BY <1>11, <2>0, <2>1
    <3> QED
      BY <1>5, <1>8, <1>11, <2>1, <3>1
  <2>2. CASE j = at
    <3>1. i < at
      BY <1>11, <2>2
    <3> QED
      BY <1>5, <1>9, <2>2, <3>1
  <2>3. CASE j > at /\ i < at
    <3>1. i \in DOMAIN s /\ t[i] = s[i] /\ j - 1 \in DOMAIN s /\ t[j] = s[j - 1]
      BY <1>5, <2>3
    <3>2. i < j - 1
      BY <2>0, <2>3
    <3> QED
      BY <1>8, <3>1, <3>2
  <2>4. CASE j > at /\ i = at
    <3>1. j - 1 \in DOMAIN s /\ t[j] = s[j - 1] /\ j - 1 >= at
      BY <1>5, <2>0, <2>4
    <3> QED
      BY <1>5, <1>10, <2>4, <3>1
  <2>5. CASE i > at
    <3>1. j > at /\ i - 1 < j - 1
      BY <1>11, <2>0, <2>5
    <3>2. i - 1 \in DOMAIN s /\ t[i] = s[i - 1] /\ j - 1 \in DOMAIN s /\ t[j] = s[j - 1]
      BY <1>5, <2>5, <3>1
    <3> QED
      BY <1>8, <3>1, <3>2
  <2> QED
    BY <1>11, <2>0, <2>1, <2>2, <2>3, <2>4, <2>5
<1> QED
  <2> SUFFICES ASSUME NEW y \in DOMAIN rows, NEW i \in DOMAIN new[y], NEW j \in DOMAIN new[y],
                      i < j, {new[y][i], new[y][j]} \subseteq DOMAIN procRoot
               PROVE  InOrder(new[y][i], new[y][j])
    BY <1>3 DEF Sorted
  <2>1. CASE y = x
    BY <1>3, <1>11, <2>1
  <2>2. CASE y # x
    BY <1>3, <2>2 DEF Sorted
  <2> QED
    BY <2>1, <2>2

-----------------------------------------------------------------------------
(* The steps of the rows. *)

LEMMA NoRowsThere ==
  /\ NoRows \in Rows
  /\ Unique(NoRows)
  /\ RowsOf(NoRows) = {}
  /\ \A x \in DOMAIN NoRows : DOMAIN NoRows[x] = {}
<1>1. NoRows \in Rows
  BY DEF NoRows, Rows
<1>2. \A x \in DOMAIN NoRows : DOMAIN NoRows[x] = {}
  BY DEF NoRows
<1> QED
  BY <1>1, <1>2, RowsOfRows DEF Unique

LEMMA InitRows == RowsInit => RowsInv
<1> SUFFICES ASSUME RowsInit PROVE RowsInv
  OBVIOUS
<1>1. /\ kids = NoRows /\ DOMAIN procRoot = {} /\ procRoot = <<>> /\ key = <<>>
      /\ key \in [DOMAIN procRoot -> Keys]
  BY DEF RowsInit
<1>2. RowsTypeOK
  BY <1>1, NoRowsThere DEF RowsInit, RowsTypeOK, Rows, Columns, IsInjective
<1>3. Unique(kids) /\ Sorted(kids)
  BY <1>1, NoRowsThere DEF Sorted
<1>4. LoopInv /\ PlacedInv
  BY <1>1, NoRowsThere DEF RowsInit, LoopInv, PlacedInv
<1>5. SelectionInv /\ SignalsMeetProcesses
  <2>1. selected = None /\ chosen = None /\ sensitive = FALSE /\ signal = None
    BY DEF RowsInit
  <2>2. selected \notin Pids
    BY <2>1, RowsAssumption
  <2>3. SelectionInv
    <3>1. sensitive = (selected \in Pids)
      <4>1. (selected \in Pids) = FALSE
        BY <2>2
      <4> QED
        BY <2>1, <4>1
    <3>2. selected \in RowsOf(kids) \cup {Root, None} /\ chosen \in {Root, None}
      BY <2>1
    <3> QED
      BY <3>1, <3>2 DEF SelectionInv
  <2> QED
    BY <2>1, <2>3 DEF SignalsMeetProcesses
<1> QED
  BY <1>2, <1>3, <1>4, <1>5 DEF RowsInv, SortedInv

\* The types of rows and that of the tree.
LEMMA RowsType ==
  ASSUME RowsTypeOK
  PROVE  /\ kids \in Rows
         /\ RowsOf(kids) \subseteq Pids
         /\ DOMAIN procRoot \subseteq Pids
         /\ \A p \in DOMAIN procRoot : procRoot[p] \in DOMAIN procRoot \cup {Root}
<1>1. kids \in Rows
  BY DEF RowsTypeOK, Rows
<1>2. \A x \in DOMAIN kids : kids[x] \in Seq(Pids)
  BY <1>1 DEF Rows
<1>3. RowsOf(kids) \subseteq Pids
  BY <1>2, RowsOfRows
<1>4. CASE procRoot \in Trees
  BY <1>1, <1>3, <1>4, RowsAssumption
<1>5. CASE procRoot = <<>>
  BY <1>1, <1>3, <1>5
<1> QED
  BY <1>4, <1>5 DEF RowsTypeOK

\* The selection stays on a row.
LEMMA SelectionStep ==
  ASSUME RowsTypeOK, SelectionInv, RowsOf(kids') \subseteq Pids, KeepSelection
  PROVE  /\ SelectionInv'
         /\ {selected', chosen'} \subseteq Pids \cup {Root, None}
         /\ sensitive' \in BOOLEAN
<1>1. sensitive' = (selected' \in Pids)
  BY DEF KeepSelection, OnRowSelected
<1>2. CASE selected \in RowsOf(kids) \ RowsOf(kids')
  <2>1. selected' \in RowsOf(kids') \cup {Root} /\ chosen' = None
    BY <1>2 DEF KeepSelection
  <2> QED
    BY <1>1, <2>1 DEF SelectionInv
<1>3. CASE selected \notin RowsOf(kids) \ RowsOf(kids')
  <2>1. selected' = selected /\ chosen' = chosen
    BY <1>3 DEF KeepSelection
  <2> QED
    BY <1>1, <1>3, <2>1 DEF SelectionInv, RowsTypeOK
<1> QED
  BY <1>2, <1>3

\* Rows without a twin are injective.
LEMMA UniqueInjective ==
  ASSUME NEW rows, Unique(rows) PROVE \A x \in DOMAIN rows : IsInjective(rows[x])
  BY DEF Unique, IsInjective

LEMMA BeginUpdateStep == ASSUME RowsInv, BeginUpdate, signal' = None PROVE RowsInv'
<1> USE DEF RowsInv
<1>1. kids \in Rows /\ RowsOf(kids) \subseteq Pids
  BY RowsType
<1>2. kids' = NoRows \/ kids' = kids
  BY DEF BeginUpdate
<1>3. kids' \in Rows /\ Unique(kids') /\ RowsOf(kids') \subseteq Pids
  BY <1>1, <1>2, NoRowsThere
<1>4. SelectionInv' /\ {selected', chosen'} \subseteq Pids \cup {Root, None} /\ sensitive' \in BOOLEAN
  BY <1>3, SelectionStep DEF BeginUpdate
<1>5. procRoot' \in Trees /\ key' \in [DOMAIN procRoot' -> Keys]
  BY DEF BeginUpdate, NewData
<1>6. updated' = {} /\ phase' = "remove" /\ ~dirty'
  BY DEF BeginUpdate, LoopInv
<1>7. cleared' \in BOOLEAN /\ renamed' \in BOOLEAN
  <2>1. cleared' \in BOOLEAN
    BY DEF BeginUpdate, RowsTypeOK
  <2>2. renamed' \in BOOLEAN
    BY <2>1 DEF BeginUpdate, RowsTypeOK, Renamed
  <2> QED
    BY <2>1, <2>2
<1>8. RowsTypeOK'
  <2>1. \A x \in DOMAIN kids' : IsInjective(kids'[x])
    BY <1>3, UniqueInjective
  <2>2. sortColumn' \in Columns /\ sortOrder' \in BOOLEAN /\ dirty' \in BOOLEAN
    BY DEF BeginUpdate, RowsTypeOK
  <2> QED
    BY <1>3, <1>4, <1>5, <1>6, <1>7, <2>1, <2>2 DEF RowsTypeOK, Rows
<1>9. LoopInv'
  BY <1>6 DEF LoopInv
<1>10. PlacedInv'
  BY <1>6 DEF PlacedInv, BeginUpdate, NoRows
<1>11. SortedInv'
  <2>1. CASE kids' = NoRows
    BY <2>1, NoRowsThere DEF SortedInv, Sorted
  <2>2. CASE ~cleared'
    <3> SUFFICES ASSUME ~renamed' PROVE Sorted(kids)'
      BY DEF SortedInv
    <3>1. kids' = kids /\ ~dirty /\ ~renamed /\ ~Renamed /\ phase = "idle"
      BY <2>2 DEF BeginUpdate
    <3> SUFFICES ASSUME NEW x \in DOMAIN kids, NEW i \in DOMAIN kids[x], NEW j \in DOMAIN kids[x],
                        i < j, NEW p, p = kids[x][i], NEW q, q = kids[x][j],
                        {p, q} \subseteq DOMAIN procRoot'
                 PROVE  InOrder(p, q)'
      BY <3>1 DEF Sorted
    <3>3. p \in DOMAIN procRoot /\ q \in DOMAIN procRoot
      BY <3>1, RowsOfRows DEF LoopInv
    <3>4. InOrder(p, q)
      BY <3>1, <3>3 DEF SortedInv, Sorted
    <3>5. key'[p] = key[p] /\ key'[q] = key[q] /\ sortColumn' = sortColumn /\ sortOrder' = sortOrder
      BY <3>1, <3>3 DEF Renamed, BeginUpdate
    <3> QED
      BY <3>4, <3>5 DEF InOrder, SortCompare
  <2> QED
    BY <2>1, <2>2 DEF BeginUpdate
<1>12. SignalsMeetProcesses'
  BY DEF SignalsMeetProcesses
<1> QED
  BY <1>3, <1>4, <1>8, <1>9, <1>10, <1>11, <1>12

LEMMA RemoveDeadStep == ASSUME RowsInv, RemoveDead, signal' = None PROVE RowsInv'
<1> USE DEF RowsInv
<1>1. kids \in Rows /\ RowsOf(kids) \subseteq Pids
  BY RowsType
<1>2. PICK erased : /\ kids' = Erase(kids, erased)
                    /\ RowsOf(kids) \ DOMAIN procRoot \subseteq erased
  <2> DEFINE dead2 == RowsOf(kids) \ DOMAIN procRoot
             erased2 == UNION {Subtree(kids, p) : p \in dead2}
  <2>1. kids' = Erase(kids, erased2)
    BY DEF RemoveDead
  <2>2. ASSUME NEW p \in dead2 PROVE p \in Subtree(kids, p)
    BY DEF Subtree, FlatTree
  <2>3. dead2 \subseteq erased2
    BY <2>2
  <2> QED
    BY <2>1, <2>3
<1>3. /\ kids' \in Rows
      /\ Unique(kids')
      /\ RowsOf(kids') \subseteq RowsOf(kids) \ erased
      /\ \A x \in DOMAIN kids : \A i, j \in DOMAIN kids'[x] :
           i < j => \E k, l \in DOMAIN kids[x] :
                      k < l /\ kids'[x][i] = kids[x][k] /\ kids'[x][j] = kids[x][l]
  BY <1>1, <1>2, ErasedRows
<1>4. RowsOf(kids') \subseteq DOMAIN procRoot /\ RowsOf(kids') \subseteq Pids
  BY <1>1, <1>2, <1>3
<1>5. SelectionInv' /\ {selected', chosen'} \subseteq Pids \cup {Root, None} /\ sensitive' \in BOOLEAN
  BY <1>4, SelectionStep DEF RemoveDead
<1>6. /\ UNCHANGED <<sortColumn, sortOrder, dirty, procRoot, key, updated, cleared, renamed>>
      /\ phase = "remove" /\ phase' \in {"add", "undefined"}
  BY DEF RemoveDead, data, history
<1>7. RowsTypeOK'
  <2>1. \A x \in DOMAIN kids' : IsInjective(kids'[x])
    BY <1>3, UniqueInjective
  <2> QED
    BY <1>3, <1>5, <1>6, <2>1 DEF RowsTypeOK, Rows
<1>8. LoopInv'
  BY <1>4, <1>6 DEF LoopInv
<1>9. PlacedInv'
  <2> SUFFICES ASSUME cleared
               PROVE  /\ \A x \in DOMAIN kids' : DOMAIN kids'[x] = {}
                      /\ RowsOf(kids') = {}
    BY <1>6 DEF PlacedInv
  <2>1. RowsOf(kids') = {}
    BY <1>3, <1>6, NoRowsThere DEF PlacedInv
  <2>2. PICK new : new = kids'
    OBVIOUS
  <2>3. \A x \in DOMAIN new : \A i \in DOMAIN new[x] : new[x][i] \in RowsOf(new)
    BY RowsOfRows
  <2> QED
    BY <2>1, <2>2, <2>3
<1>10. SortedInv'
  <2> SUFFICES ASSUME ~dirty, ~renamed PROVE Sorted(kids)'
    BY <1>6 DEF SortedInv
  <2> SUFFICES ASSUME NEW x \in DOMAIN kids', NEW i \in DOMAIN kids'[x], NEW j \in DOMAIN kids'[x],
                      i < j, NEW p, p = kids'[x][i], NEW q, q = kids'[x][j],
                      {p, q} \subseteq DOMAIN procRoot
               PROVE  InOrder(p, q)'
    BY <1>6 DEF Sorted
  <2>1. x \in DOMAIN kids
    BY <1>1, <1>3 DEF Rows
  <2>2. PICK k, l \in DOMAIN kids[x] : k < l /\ p = kids[x][k] /\ q = kids[x][l]
    BY <1>3, <2>1
  <2>3. InOrder(p, q)
    BY <2>1, <2>2 DEF SortedInv, Sorted
  <2> QED
    BY <1>6, <2>3 DEF InOrder, SortCompare
<1>11. SignalsMeetProcesses'
  BY DEF SignalsMeetProcesses
<1> QED
  BY <1>3, <1>5, <1>7, <1>8, <1>9, <1>10, <1>11

\* A process without a row gets one.
LEMMA AddProcessStep ==
  ASSUME RowsInv, phase = "add", NEW p \in DOMAIN procRoot, p \notin RowsOf(kids),
         NEW new, new = AddProcess(kids, p)
  PROVE  /\ new \in Rows
         /\ Unique(new)
         /\ RowsOf(new) = RowsOf(kids) \cup {p}
         /\ Sorted(kids) => Sorted(new)
         /\ \A y \in DOMAIN kids : \A i \in DOMAIN new[y] :
              IF new[y][i] = p
                THEN y = (IF procRoot[p] \in RowsOf(kids) THEN procRoot[p] ELSE Root)
                ELSE \E k \in DOMAIN kids[y] : new[y][i] = kids[y][k]
<1>1. kids \in Rows /\ RowsOf(kids) \subseteq Pids /\ p \in Pids /\ DOMAIN kids = Pids \cup {Root}
  BY RowsType DEF RowsInv, Rows
<1>2. PICK x : x = IF procRoot[p] \in RowsOf(kids) THEN procRoot[p] ELSE Root
  OBVIOUS
<1>3. x \in DOMAIN kids
  BY <1>1, <1>2
<1>4. PICK at : at = InsertionIndex(p, kids[x])
  OBVIOUS
<1>5. kids[x] \in Seq(Pids)
  BY <1>1, <1>3 DEF Rows
<1>6. at \in 1..Len(kids[x]) + 1
  BY <1>4, <1>5, InsertionPlace
<1>7. Inserted(kids, new, x, at, p)
  BY <1>2, <1>3, <1>4 DEF AddProcess, Inserted
<1>8. /\ new \in Rows
      /\ Unique(new)
      /\ RowsOf(new) = RowsOf(kids) \cup {p}
      /\ \A y \in DOMAIN kids : \A i \in DOMAIN new[y] :
           /\ new[y][i] = p => y = x
           /\ new[y][i] # p => \E k \in DOMAIN kids[y] : new[y][i] = kids[y][k]
  BY <1>1, <1>3, <1>6, <1>7, AddedRow DEF RowsInv
<1>9. Sorted(kids) => Sorted(new)
  BY <1>1, <1>3, <1>4, <1>7, SortedRow DEF RowsInv, LoopInv
<1> QED
  BY <1>2, <1>8, <1>9

LEMMA UpdateCategoryProcessStep ==
  ASSUME RowsInv, NEW p \in DOMAIN procRoot, UpdateCategoryProcess(p), signal' = None
  PROVE  RowsInv'
<1> USE DEF RowsInv
<1>1. /\ UNCHANGED <<sortColumn, sortOrder, dirty, procRoot, key, cleared, renamed>>
      /\ UNCHANGED <<selected, sensitive, chosen>>
      /\ phase = "add" /\ phase' = "add" /\ kids' = AddProcess(kids, p)
      /\ updated' = updated \cup {p} /\ procRoot[p] \in updated \cup {Root}
  BY DEF UpdateCategoryProcess, data, history, selection
<1>2. /\ kids \in Rows /\ RowsOf(kids) \subseteq Pids /\ p \in Pids
      /\ updated \subseteq RowsOf(kids) /\ RowsOf(kids) \subseteq DOMAIN procRoot
  BY <1>1, RowsType DEF LoopInv
<1>3. /\ kids' \in Rows
      /\ Unique(kids')
      /\ RowsOf(kids') = RowsOf(kids) \cup {p}
      /\ Sorted(kids) => Sorted(kids')
      /\ \A y \in DOMAIN kids : \A i \in DOMAIN kids'[y] :
              \/ kids'[y][i] = p /\ y = procRoot[p]
              \/ \E k \in DOMAIN kids[y] : kids'[y][i] = kids[y][k]
  <2>1. CASE p \in RowsOf(kids)
    <3>1. kids' = kids
      BY <1>1, <2>1 DEF AddProcess
    <3> QED
      BY <1>2, <2>1, <3>1
  <2>2. CASE p \notin RowsOf(kids)
    <3>1. PICK new : new = AddProcess(kids, p)
      OBVIOUS
    <3>2. /\ new \in Rows
          /\ Unique(new)
          /\ RowsOf(new) = RowsOf(kids) \cup {p}
          /\ Sorted(kids) => Sorted(new)
          /\ \A y \in DOMAIN kids : \A i \in DOMAIN new[y] :
               IF new[y][i] = p
                 THEN y = (IF procRoot[p] \in RowsOf(kids) THEN procRoot[p] ELSE Root)
                 ELSE \E k \in DOMAIN kids[y] : new[y][i] = kids[y][k]
      BY <1>1, <2>2, <3>1, AddProcessStep
    <3>3. (IF procRoot[p] \in RowsOf(kids) THEN procRoot[p] ELSE Root) = procRoot[p]
      BY <1>1, <1>2
    <3> QED
      BY <1>1, <3>1, <3>2, <3>3
  <2> QED
    BY <2>1, <2>2
<1>4. DOMAIN kids' = DOMAIN kids
  BY <1>2, <1>3 DEF Rows
<1>5. RowsTypeOK'
  <2>1. \A x \in DOMAIN kids' : IsInjective(kids'[x])
    BY <1>3, UniqueInjective
  <2>2. updated' \subseteq DOMAIN procRoot'
    BY <1>1 DEF RowsTypeOK
  <2> QED
    BY <1>1, <1>3, <2>1, <2>2 DEF RowsTypeOK, Rows
<1>6. LoopInv'
  BY <1>1, <1>2, <1>3 DEF LoopInv
<1>7. PlacedInv'
  <2> SUFFICES ASSUME cleared
               PROVE  /\ \A x \in DOMAIN kids' : \A i \in DOMAIN kids'[x] : procRoot[kids'[x][i]] = x
                      /\ RowsOf(kids') \subseteq updated'
    BY <1>1 DEF PlacedInv
  <2>1. \A x \in DOMAIN kids : \A i \in DOMAIN kids[x] : procRoot[kids[x][i]] = x
    BY <1>1 DEF PlacedInv
  <2>2. RowsOf(kids') \subseteq updated'
    BY <1>1, <1>3 DEF PlacedInv
  <2> QED
    BY <1>3, <1>4, <2>1, <2>2
<1>8. SortedInv'
  <2> SUFFICES ASSUME ~dirty, ~renamed PROVE Sorted(kids)'
    BY <1>1 DEF SortedInv
  <2>1. PICK new : new = kids'
    OBVIOUS
  <2>2. Sorted(new)
    BY <1>3, <2>1 DEF SortedInv
  <2>3. Sorted(kids)' <=> Sorted(new)
    BY <1>1, <2>1 DEF Sorted, InOrder, SortCompare
  <2> QED
    BY <2>2, <2>3
<1>9. SelectionInv'
  BY <1>1, <1>3 DEF SelectionInv
<1>10. SignalsMeetProcesses'
  BY DEF SignalsMeetProcesses
<1> QED
  BY <1>3, <1>5, <1>6, <1>7, <1>8, <1>9, <1>10

\* The walk has been at all of the tree when it can go no further.
LEMMA EndUpdateStep == ASSUME RowsInv, EndUpdate, signal' = None PROVE RowsInv'
<1> USE DEF RowsInv
<1>1. /\ UNCHANGED <<kids, sortColumn, sortOrder, dirty, procRoot, key, cleared, renamed>>
      /\ UNCHANGED <<selected, sensitive, chosen>>
      /\ phase = "add" /\ phase' = "idle" /\ updated' = {}
      /\ \A p \in DOMAIN procRoot \ updated : procRoot[p] \notin updated \cup {Root}
  BY DEF EndUpdate, data, history, selection
<1>2. /\ updated \subseteq RowsOf(kids) /\ RowsOf(kids) \subseteq DOMAIN procRoot
      /\ DOMAIN procRoot \subseteq Pids
  BY <1>1, RowsType DEF LoopInv
<1>3. DOMAIN procRoot \subseteq updated
  <2>1. CASE procRoot \in Trees
    <3>1. FlatTree(procRoot, Root) = DOMAIN procRoot \cup {Root}
      BY <2>1, RowsAssumption
    <3>2. Closed(procRoot, updated \cup {Root})
      BY <1>1 DEF Closed
    <3>3. updated \cup {Root} \in SUBSET (DOMAIN procRoot \cup {Root})
      BY <1>2
    <3>4. \A q \in FlatTree(procRoot, Root) : q \in updated \cup {Root}
      BY <3>2, <3>3 DEF FlatTree
    <3>5. Root \notin DOMAIN procRoot
      BY <1>2, RootAssumption
    <3> QED
      BY <3>1, <3>4, <3>5
  <2>2. CASE procRoot = <<>>
    BY <2>2
  <2> QED
    BY <2>1, <2>2 DEF RowsTypeOK
<1>4. RowsTypeOK'
  BY <1>1 DEF RowsTypeOK
<1>5. LoopInv'
  <2>1. RowsOf(kids)' = RowsOf(kids)
    BY <1>1
  <2> QED
    BY <1>1, <1>2, <1>3, <2>1 DEF LoopInv
<1>6. PlacedInv'
  BY <1>1 DEF PlacedInv
<1>7. SortedInv'
  BY <1>1 DEF SortedInv, Sorted, InOrder, SortCompare
<1>8. Unique(kids)' /\ SelectionInv' /\ SignalsMeetProcesses'
  BY <1>1 DEF SelectionInv, SignalsMeetProcesses
<1> QED
  BY <1>4, <1>5, <1>6, <1>7, <1>8

\* Both mark the tree dirty.
LEMMA DirtySteps ==
  ASSUME RowsInv, MarkDirty \/ \E column \in Columns : ClickHeader(column), signal' = None
  PROVE  RowsInv'
<1> USE DEF RowsInv
<1>1. /\ UNCHANGED <<kids, procRoot, key, phase, updated, cleared, renamed>>
      /\ UNCHANGED <<selected, sensitive, chosen>>
      /\ phase = "idle" /\ dirty' = TRUE
      /\ sortColumn' \in Columns /\ sortOrder' \in BOOLEAN
  BY DEF MarkDirty, ClickHeader, data, handler, history, selection, RowsTypeOK
<1>2. RowsTypeOK'
  BY <1>1 DEF RowsTypeOK
<1>3. LoopInv' /\ PlacedInv'
  BY <1>1 DEF LoopInv, PlacedInv
<1>4. SortedInv'
  BY <1>1 DEF SortedInv
<1>5. Unique(kids)' /\ SelectionInv' /\ SignalsMeetProcesses'
  BY <1>1 DEF SelectionInv, SignalsMeetProcesses
<1> QED
  BY <1>2, <1>3, <1>4, <1>5

LEMMA SelectStep ==
  ASSUME RowsInv, NEW p \in RowsOf(kids) \cup {Root}, Select(p), signal' = None
  PROVE  RowsInv'
<1> USE DEF RowsInv
<1>1. /\ UNCHANGED <<kids, sortColumn, sortOrder, dirty, procRoot, key, phase, updated>>
      /\ UNCHANGED <<cleared, renamed>>
      /\ selected' = p /\ chosen' = p /\ sensitive' = (selected' \in Pids)
  BY DEF Select, OnRowSelected, data, handler, history
<1>2. p \in Pids \cup {Root} /\ sensitive' \in BOOLEAN
  BY <1>1, RowsType
<1>3. RowsTypeOK'
  BY <1>1, <1>2 DEF RowsTypeOK
<1>4. SelectionInv'
  BY <1>1, <1>2 DEF SelectionInv
<1>5. LoopInv' /\ PlacedInv' /\ Unique(kids)'
  BY <1>1 DEF LoopInv, PlacedInv
<1>6. SortedInv'
  BY <1>1 DEF SortedInv, Sorted, InOrder, SortCompare
<1> QED
  BY <1>3, <1>4, <1>5, <1>6 DEF SignalsMeetProcesses

\* A button that can be clicked has a process selected, which has a row.
LEMMA KillSteps == ASSUME RowsInv, OnKillClick \/ OnActionEndTask PROVE RowsInv'
<1> USE DEF RowsInv
<1>1. PICK by \in {"button", "action"} : KillSelected(by) /\ (by = "button" => sensitive)
  BY DEF OnKillClick, OnActionEndTask
<1>2. /\ UNCHANGED <<kids, sortColumn, sortOrder, dirty, procRoot, key, phase, updated>>
      /\ UNCHANGED <<cleared, renamed, selected, sensitive, chosen>>
      /\ selected # None /\ signal' = [by |-> by, pid |-> selected]
  BY <1>1 DEF KillSelected, data, handler, history, selection
<1>3. selected \in Pids \cup {Root}
  BY <1>2 DEF RowsTypeOK
<1>4. RowsTypeOK'
  BY <1>2, <1>3 DEF RowsTypeOK
<1>5. SignalsMeetProcesses'
  <2> SUFFICES ASSUME selected \notin RowsOf(kids) PROVE by = "action" /\ chosen \in {Root, None}
    BY <1>2 DEF SignalsMeetProcesses
  <2>1. selected \notin Pids
    BY <1>2, RootAssumption DEF SelectionInv
  <2> QED
    BY <1>1, <2>1 DEF SelectionInv
<1>6. LoopInv' /\ PlacedInv' /\ Unique(kids)' /\ SelectionInv'
  BY <1>2 DEF LoopInv, PlacedInv, SelectionInv
<1>7. SortedInv'
  BY <1>2 DEF SortedInv, Sorted, InOrder, SortCompare
<1> QED
  BY <1>4, <1>5, <1>6, <1>7

LEMMA NextRows == ASSUME RowsInv, [RowsNext]_rowsVars PROVE RowsInv'
<1>1. CASE Step /\ signal' = None
  <2>1. CASE BeginUpdate
    BY <1>1, <2>1, BeginUpdateStep
  <2>2. CASE RemoveDead
    BY <1>1, <2>2, RemoveDeadStep
  <2>3. ASSUME NEW p \in DOMAIN procRoot, UpdateCategoryProcess(p) PROVE RowsInv'
    BY <1>1, <2>3, UpdateCategoryProcessStep
  <2>4. CASE EndUpdate
    BY <1>1, <2>4, EndUpdateStep
  <2>5. CASE MarkDirty \/ \E column \in Columns : ClickHeader(column)
    BY <1>1, <2>5, DirtySteps
  <2>6. ASSUME NEW p \in RowsOf(kids) \cup {Root}, Select(p) PROVE RowsInv'
    BY <1>1, <2>6, SelectStep
  <2> QED
    BY <1>1, <2>1, <2>2, <2>3, <2>4, <2>5, <2>6 DEF Step
<1>2. CASE OnKillClick \/ OnActionEndTask
  BY <1>2, KillSteps
<1>3. CASE UNCHANGED rowsVars
  BY <1>3 DEF rowsVars, data, handler, history, selection, RowsInv, RowsTypeOK, Unique, LoopInv,
              PlacedInv, SortedInv, Sorted, InOrder, SortCompare, SelectionInv,
              SignalsMeetProcesses
<1> QED
  BY <1>1, <1>2, <1>3 DEF RowsNext

\* The rows, the loops of the handler and the selection agree in every state.
THEOREM RowsInvariance == RowsSpec => []RowsInv
<1>1. RowsInv /\ [RowsNext]_rowsVars => RowsInv'
  BY NextRows
<1> QED
  BY InitRows, <1>1, PTL DEF RowsSpec

\* Every variable of the rows has its type.
THEOREM RowsTypeCorrect == RowsSpec => []RowsTypeOK
<1>1. RowsInv => RowsTypeOK
  BY DEF RowsInv
<1> QED
  BY <1>1, RowsInvariance, PTL

\* After a refresh each process of the category has exactly one row, also when rows of
\* live processes were erased with that of a dead one.
THEOREM OneRow == RowsSpec => []OneRowEach
<1>1. RowsInv => OneRowEach
  BY DEF RowsInv, LoopInv, Unique, OneRowEach
<1> QED
  BY <1>1, RowsInvariance, PTL

\* A refresh that cleared the rows puts each process below its parent.
THEOREM ClearedRows == RowsSpec => []ClearedRowsFollowTree
<1>1. ASSUME RowsInv PROVE ClearedRowsFollowTree
  <2> SUFFICES ASSUME phase = "idle", cleared, NEW p \in DOMAIN procRoot
               PROVE  Contains(kids[procRoot[p]], p)
    BY DEF ClearedRowsFollowTree
  <2>1. p \in RowsOf(kids)
    BY <1>1 DEF RowsInv, LoopInv
  <2>2. PICK x \in DOMAIN kids : \E i \in DOMAIN kids[x] : kids[x][i] = p
    BY <2>1, RowsOfRows
  <2>3. PICK i \in DOMAIN kids[x] : kids[x][i] = p
    BY <2>2
  <2>4. procRoot[p] = x
    BY <1>1, <2>3 DEF RowsInv, PlacedInv
  <2>5. kids[x] \in Seq(Pids)
    BY <1>1 DEF RowsInv, RowsTypeOK
  <2> QED
    BY <2>3, <2>4, <2>5 DEF Contains
<1> QED
  BY <1>1, RowsInvariance, PTL

\* After a refresh siblings stand in the order of the sort column, as long as none has
\* changed its name since the rows were cleared.
THEOREM SiblingsSorted == RowsSpec => []SiblingsAreSorted
<1>1. ASSUME RowsInv PROVE SiblingsAreSorted
  <2> SUFFICES ASSUME phase = "idle", ~dirty, ~renamed, NEW x \in DOMAIN kids,
                      NEW i \in DOMAIN kids[x], NEW j \in DOMAIN kids[x], i < j
               PROVE  InOrder(kids[x][i], kids[x][j])
    BY DEF SiblingsAreSorted, InOrder
  <2>1. kids[x][i] \in RowsOf(kids) /\ kids[x][j] \in RowsOf(kids)
    BY RowsOfRows
  <2>2. {kids[x][i], kids[x][j]} \subseteq DOMAIN procRoot
    BY <1>1, <2>1 DEF RowsInv, LoopInv
  <2> QED
    BY <1>1, <2>2 DEF RowsInv, SortedInv, Sorted
<1> QED
  BY <1>1, RowsInvariance, PTL

\* The button ends only processes with a row; an action ends what is not one only after
\* the user selected a label or a refresh erased the row he had selected.
THEOREM SignalsMeet == RowsSpec => []SignalsMeetProcesses
<1>1. RowsInv => SignalsMeetProcesses
  BY DEF RowsInv
<1> QED
  BY <1>1, RowsInvariance, PTL
=============================================================================
