------------------------------ MODULE Autostart ------------------------------
(***************************************************************************)
(* AutostartView (src/ui/views/AutostartView.cpp) and AutostartApi: the    *)
(* entries in ~/.config/autostart.  An entry is disabled by giving its     *)
(* file the extension .desktop_disabled; the rows of the view remember     *)
(* paths, and other programs change the directory at any time.             *)
(***************************************************************************)
EXTENDS Integers, SequencesExt

CONSTANTS Names,    \* the stems of the file names
          Contents, \* what is in the files
          None      \* no path

Paths == [name : Names, enabled : BOOLEAN]

ASSUME NoneAssumption == None \notin Paths

VARIABLES
  files,     \* the directory: the content of each path that exists
  rows,      \* the paths in the rows; whether one is enabled also shows in the row
  selected,  \* the path in the selected row
  label,     \* the button is labelled "Disable" (TRUE) or "Enable"
  sensitive, \* the button can be clicked
  renaming,  \* the path SetEntryEnabled has found and is going to rename
  crashed,   \* std::filesystem::rename has thrown
  touched    \* others have changed the directory since the rows were loaded (history)

view == <<rows, selected, label, sensitive>>
vars == <<files, view, renaming, crashed, touched>>

TypeOK == /\ DOMAIN files \subseteq Paths
          /\ \A path \in DOMAIN files : files[path] \in Contents
          /\ rows \subseteq Paths
          /\ selected \in rows \cup {None}
          /\ label \in BOOLEAN
          /\ sensitive \in BOOLEAN
          /\ renaming \in Paths \cup {None}
          /\ crashed \in BOOLEAN
          /\ touched \in BOOLEAN

\* LoadData: new rows, none of which is selected.
LoadData == /\ rows' = DOMAIN files'
            /\ selected' = None
            /\ sensitive' = FALSE

\* The constructor loads the rows.
Init == /\ files \in UNION {[list -> Contents] : list \in SUBSET Paths}
        /\ rows = DOMAIN files
        /\ selected = None
        /\ label = FALSE
        /\ sensitive = FALSE
        /\ renaming = None
        /\ crashed = FALSE
        /\ touched = FALSE

-----------------------------------------------------------------------------

Idle == ~crashed /\ renaming = None

\* Mutant: the label is that of the row which was selected before.
OnRowSelected_LabelKept(path) ==
  /\ Idle
  /\ path \in rows
  /\ selected' = path
  /\ sensitive' = (path \in DOMAIN files)
  /\ UNCHANGED <<files, rows, label, renaming, crashed, touched>>

\* OnRowSelected: the button is for an entry that still exists.
OnRowSelected(path) ==
  /\ Idle
  /\ path \in rows
  /\ selected' = path
  /\ sensitive' = (path \in DOMAIN files)
  /\ label' = IF path \in DOMAIN files THEN path.enabled ELSE label
  /\ UNCHANGED <<files, rows, renaming, crashed, touched>>

\* OnEnableClick up to the check in SetEntryEnabled: nothing happens when the
\* file is gone.
OnEnableClick ==
  /\ Idle
  /\ sensitive
  /\ selected # None
  /\ renaming' = IF selected \in DOMAIN files THEN selected ELSE None
  /\ UNCHANGED <<files, view, crashed, touched>>

Toggled(path) == [path EXCEPT !.enabled = ~@]

\* Mutant: the new name does not replace the extension but is added to it.
Rename_Copied ==
  /\ renaming \in DOMAIN files
  /\ files' = (Toggled(renaming) :> files[renaming]) @@ files
  /\ LoadData
  /\ touched' = FALSE
  /\ renaming' = None
  /\ UNCHANGED <<label, crashed>>

\* The rest of OnEnableClick: rename, which replaces a file that has the new
\* name, and LoadData.
Rename ==
  /\ renaming \in DOMAIN files
  /\ files' = [path \in (DOMAIN files \ {renaming}) \cup {Toggled(renaming)} |->
                 IF path = Toggled(renaming) THEN files[renaming] ELSE files[path]]
  /\ LoadData
  /\ touched' = FALSE
  /\ renaming' = None
  /\ UNCHANGED <<label, crashed>>

\* rename throws when the file is gone by now.
RenameFails ==
  /\ renaming \notin DOMAIN files \cup {None}
  /\ renaming' = None
  /\ crashed' = TRUE
  /\ UNCHANGED <<files, view, touched>>

\* Another program writes or deletes a file.
Outside(path) ==
  /\ ~crashed
  /\ \/ \E c \in Contents :
          files' = [other \in DOMAIN files \cup {path} |-> IF other = path THEN c ELSE files[other]]
     \/ files' = [other \in DOMAIN files \ {path} |-> files[other]]
  /\ touched' = TRUE
  /\ UNCHANGED <<view, renaming, crashed>>

Next == \/ \E path \in Paths : OnRowSelected(path) \/ Outside(path)
        \/ OnEnableClick
        \/ Rename
        \/ RenameFails

Spec == Init /\ [][Next]_vars

-----------------------------------------------------------------------------
(* Properties. *)

\* A click does what the label says, even when the directory has changed since
\* the row was selected: it never enables an entry that was to be disabled.
ClickDoesWhatLabelSays ==
  [][renaming # None /\ renaming' = None => label = renaming.enabled]_vars

\* A click moves the content of the entry to its other name and takes nothing
\* else away than an entry that had this name already.
ClickKeepsEntries ==
  [][renaming' = None /\ renaming \in DOMAIN files =>
       /\ renaming \notin DOMAIN files'
       /\ files'[Toggled(renaming)] = files[renaming]
       /\ \A path \in DOMAIN files \ {renaming, Toggled(renaming)} :
            path \in DOMAIN files' /\ files'[path] = files[path]]_vars
=============================================================================
