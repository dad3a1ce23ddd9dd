---------------------------- MODULE ProcessesView ----------------------------
(***************************************************************************)
(* How ProcessesView (src/ui/views/ProcessesView.cpp) turns the tree of a  *)
(* category into rows of its Gtk::TreeStore.  The categories do not share  *)
(* rows, so this is the work of the handler on one of them: rows of dead   *)
(* processes are erased, rows that exist keep their place, and new ones    *)
(* are inserted where the sort order wants them.  Only a dirty tree, and   *)
(* one that is not sorted by name, is cleared first.  Meanwhile the user   *)
(* selects a row and ends its process, with the button below the list or   *)
(* with the actions of the menu and their keys.                            *)
(*                                                                         *)
(* kids[x] are the pids in the rows below the row of x, in the order of    *)
(* the view; kids[Root] are the rows at the top level.  A label between    *)
(* the categories is a row as well, whose pid is 0, that is, Root.         *)
(***************************************************************************)
EXTENDS ProcessTree, Integers, SequencesExt

CONSTANTS Trees,  \* the trees a refresh can bring
          Keys,   \* what the sort column shows: usages, or names in their order
          None    \* no row, no signal

ASSUME RowsAssumption ==
  /\ None \notin Pids \cup {Root}
  /\ Keys \subseteq Int
  /\ \A t \in Trees : /\ DOMAIN t \subseteq Pids
                      /\ t \in [DOMAIN t -> DOMAIN t \cup {Root}]
                      /\ FlatTree(t, Root) = DOMAIN t \cup {Root}

VARIABLES
  kids,        \* the rows
  sortColumn,  \* m_SortColumn: "name" or "usage"
  sortOrder,   \* m_SortOrder
  dirty,       \* m_TreeDirty
  procRoot,    \* the tree the handler updates the rows from, empty before the first
  key,         \* the values of its processes in the sort column
  phase,       \* where the handler is
  updated,     \* the processes that UpdateCategoryProcess was called for
  cleared,     \* the rows were cleared in the last refresh (history)
  renamed,     \* a process with a row has changed its name since (history)
  selected,    \* the pid of the selected row
  sensitive,   \* m_KillButton can be clicked
  chosen,      \* the row the user selected, None once it was erased (history)
  signal       \* the last step ended a process: by what, and its pid (history)

data == <<procRoot, key>>
handler == <<phase, updated>>
history == <<cleared, renamed>>
selection == <<selected, sensitive, chosen>>
rowsVars == <<kids, sortColumn, sortOrder, dirty, data, handler, history, selection, signal>>

Columns == {"name", "usage"}
RowsOf(rows) == UNION {ToSet(rows[x]) : x \in DOMAIN rows}
NoRows == [x \in Pids \cup {Root} |-> <<>>]

RowsTypeOK == /\ kids \in [Pids \cup {Root} -> Seq(Pids)]
              /\ \A x \in DOMAIN kids : IsInjective(kids[x])
              /\ sortColumn \in Columns
              /\ sortOrder \in BOOLEAN
              /\ dirty \in BOOLEAN
              /\ procRoot \in Trees \cup {<<>>}
              /\ key \in [DOMAIN procRoot -> Keys]
              /\ phase \in {"idle", "remove", "add", "undefined"}
              /\ updated \subseteq DOMAIN procRoot
              /\ cleared \in BOOLEAN
              /\ renamed \in BOOLEAN
              /\ {selected, chosen} \subseteq Pids \cup {Root, None}
              /\ sensitive \in BOOLEAN
              /\ signal \in [by : {"button", "action"}, pid : Pids \cup {Root}] \cup {None}

RowsInit == /\ kids = NoRows
            /\ sortColumn = "name"
            /\ sortOrder = FALSE
            /\ dirty = FALSE
            /\ procRoot = <<>>
            /\ key = <<>>
            /\ phase = "idle"
            /\ updated = {}
            /\ cleared = FALSE
            /\ renamed = FALSE
            /\ selected = None
            /\ sensitive = FALSE
            /\ chosen = None
            /\ signal = None

-----------------------------------------------------------------------------
(* Rows. *)

\* The row of x and the rows below it.
Subtree(rows, x) ==
  LET parent == [p \in RowsOf(rows) |-> CHOOSE y \in DOMAIN rows : Contains(rows[y], p)]
  IN  FlatTree(parent, x)

\* The siblings that are not in gone, in their order.
Without(siblings, gone) ==
  LET kept == {i \in DOMAIN siblings : siblings[i] \notin gone}
      order == CHOOSE list \in SetToSeqs(kept) :
                 \A m, n \in DOMAIN list : m < n => list[m] < list[n]
  IN  [n \in DOMAIN order |-> siblings[order[n]]]

\* Gtk::TreeStore::erase of the rows in gone.
Erase(rows, gone) ==
  [x \in DOMAIN rows |-> IF x \in gone THEN <<>> ELSE Without(rows[x], gone)]

SortCompare(p, q) ==
  LET result == IF sortColumn = "name" THEN key[p] >= key[q] ELSE key[p] > key[q]
  IN  IF sortOrder THEN ~result ELSE result

\* GetSortedInsertionRow: behind the last sibling that SortCompare puts before p,
\* at the front when there is none.
InsertionIndex(p, siblings) ==
  Max({0} \cup {i \in DOMAIN siblings : SortCompare(p, siblings[i])}) + 1

\* Mutant: all new rows are top-level rows.
AddProcess_Flat(rows, p) ==
  IF p \in RowsOf(rows) THEN rows
  ELSE [rows EXCEPT ![Root] = InsertAt(@, InsertionIndex(p, @), p)]

\* Mutant: a row is added although there is one.
AddProcess_Again(rows, p) ==
  LET parent == IF procRoot[p] \in RowsOf(rows) THEN procRoot[p] ELSE Root
  IN  [rows EXCEPT ![parent] = InsertAt(@, InsertionIndex(p, @), p)]

\* UpdateCategoryProcess and AddProcess: a process without a row gets one, below
\* the row of its parent if that has one, else at the top level.
AddProcess(rows, p) ==
  IF p \in RowsOf(rows) THEN rows
  ELSE LET parent == IF procRoot[p] \in RowsOf(rows) THEN procRoot[p] ELSE Root
       IN  [rows EXCEPT ![parent] = InsertAt(@, InsertionIndex(p, @), p)]

-----------------------------------------------------------------------------
(* The selection. *)

\* Mutant: the button is sensitive whatever is selected.
OnRowSelected_AnyRow == sensitive' = (selected' # None)

\* OnRowSelected, which GTK calls when the cursor has moved.
OnRowSelected == sensitive' = (selected' \in Pids)

\* The row that is erased may be selected: GTK selects one beside it then, which
\* may be a label.
KeepSelection ==
  /\ IF selected \in RowsOf(kids) \ RowsOf(kids')
       THEN selected' \in RowsOf(kids') \cup {Root} /\ chosen' = None
       ELSE UNCHANGED <<selected, chosen>>
  /\ OnRowSelected

-----------------------------------------------------------------------------
(* The handler. *)

\* What the thread has read since: processes come, go, and change their names
\* (exec) and usage.  What the other columns show never decides anything: when the
\* sort column changes, the rows are cleared before they are sorted by it.
NewData == /\ procRoot' \in Trees
           /\ key' \in [DOMAIN procRoot' -> Keys]

Renamed == \E p \in DOMAIN procRoot \cap DOMAIN procRoot' : key'[p] # key[p]

\* m_OnDispatchFunction: there is a new tree; Clear.
BeginUpdate ==
  /\ phase = "idle"
  /\ NewData
  /\ cleared' = (dirty \/ sortColumn # "name")
  /\ kids' = IF cleared' THEN NoRows ELSE kids
  /\ renamed' = (~cleared' /\ (renamed \/ Renamed))
  /\ dirty' = FALSE
  /\ phase' = "remove"
  /\ KeepSelection
  /\ UNCHANGED <<sortColumn, sortOrder, updated>>

\* "Remove dead" in UpdateCategory: erasing a row erases the rows below it.  The
\* loop goes on over the rows there were before: an iterator of one that is gone
\* is read all the same.  Either the freed row is harmless, or all is undefined.
RemoveDead ==
  LET dead == RowsOf(kids) \ DOMAIN procRoot
      gone == UNION {Subtree(kids, p) : p \in dead}
      stale == \E p \in dead : Subtree(kids, p) # {p}
  IN  /\ phase = "remove"
      /\ kids' = Erase(kids, gone)
      /\ \/ phase' = "add"
         \/ stale /\ phase' = "undefined"
      /\ KeepSelection
      /\ UNCHANGED <<sortColumn, sortOrder, dirty, data, updated, history>>

\* "Update processes" in UpdateCategory walks down the tree: UpdateCategoryProcess is
\* called for a process after its parent, in any such order.
UpdateCategoryProcess(p) ==
  /\ phase = "add"
  /\ p \notin updated
  /\ procRoot[p] \in updated \cup {Root}
  /\ kids' = AddProcess(kids, p)
  /\ updated' = updated \cup {p}
  /\ UNCHANGED <<sortColumn, sortOrder, dirty, data, phase, history, selection>>

\* All that the root reaches was walked.
EndUpdate ==
  /\ phase = "add"
  /\ \A p \in DOMAIN procRoot \ updated : procRoot[p] \notin updated \cup {Root}
  /\ phase' = "idle"
  /\ updated' = {}
  /\ UNCHANGED <<kids, sortColumn, sortOrder, dirty, data, history, selection>>

-----------------------------------------------------------------------------
(* The user. *)

\* Mutant: the header is clicked, but the tree is not marked dirty.
ClickHeader_NotDirty(column) ==
  /\ phase = "idle"
  /\ sortOrder' = IF column = sortColumn THEN ~sortOrder ELSE sortOrder
  /\ sortColumn' = column
  /\ UNCHANGED <<kids, dirty, data, handler, history, selection>>

ClickHeader(column) ==
  /\ phase = "idle"
  /\ sortOrder' = IF column = sortColumn THEN ~sortOrder ELSE sortOrder
  /\ sortColumn' = column
  /\ dirty' = TRUE
  /\ UNCHANGED <<kids, data, handler, history, selection>>

\* MarkDirty, when a setting is changed in the menu of the window.
MarkDirty ==
  /\ phase = "idle"
  /\ dirty' = TRUE
  /\ UNCHANGED <<kids, sortColumn, sortOrder, data, handler, history, selection>>

\* The user moves the cursor to a row.
Select(p) ==
  /\ phase = "idle"
  /\ selected' = p
  /\ chosen' = p
  /\ OnRowSelected
  /\ UNCHANGED <<kids, sortColumn, sortOrder, dirty, data, handler, history>>

\* GetSelectedIter finds a row, and ProcessManager::KillByPid signals its pid.
KillSelected(by) ==
  /\ phase = "idle"
  /\ selected # None
  /\ signal' = [by |-> by, pid |-> selected]
  /\ UNCHANGED <<kids, sortColumn, sortOrder, dirty, data, handler, history, selection>>

\* OnKillClick; a button that is not sensitive gets no clicks.
OnKillClick == sensitive /\ KillSelected("button")

\* OnActionEndTask and OnActionKillTask, from the menu or by their keys.
OnActionEndTask == KillSelected("action")

Step == \/ BeginUpdate
        \/ RemoveDead
        \/ \E p \in DOMAIN procRoot : UpdateCategoryProcess(p)
        \/ EndUpdate
        \/ \E column \in Columns : ClickHeader(column)
        \/ MarkDirty
        \/ \E p \in RowsOf(kids) \cup {Root} : Select(p)

RowsNext == \/ Step /\ signal' = None
            \/ OnKillClick
            \/ OnActionEndTask

RowsSpec == RowsInit /\ [][RowsNext]_rowsVars

-----------------------------------------------------------------------------
(* Properties. *)

\* After a refresh there is exactly one row for each process of the category and
\* none for any other, even when the rows of live processes were erased with the
\* row of a dead one before.
OneRowEach ==
  phase = "idle" =>
    /\ RowsOf(kids) = DOMAIN procRoot
    /\ \A x, y \in DOMAIN kids : \A i \in DOMAIN kids[x], j \in DOMAIN kids[y] :
         kids[x][i] = kids[y][j] => x = y /\ i = j

\* A refresh that cleared the rows puts each process below its parent.
ClearedRowsFollowTree ==
  phase = "idle" /\ cleared =>
    \A p \in DOMAIN procRoot : Contains(kids[procRoot[p]], p)

\* After a refresh siblings are in the order of the sort column, even when some
\* rows are old and some new; a process that got another name is the exception,
\* as its row keeps its place until the tree is cleared.
SiblingsAreSorted ==
  phase = "idle" /\ ~dirty /\ ~renamed =>
    \A x \in DOMAIN kids : \A i, j \in DOMAIN kids[x] :
      i < j => \/ SortCompare(kids[x][j], kids[x][i])
               \/ ~SortCompare(kids[x][i], kids[x][j])

\* The button only ends processes that are on the screen.  The actions do not look
\* whether the selected row is a label, whose pid signals the group of the program
\* itself: they do that only after the user selected a label, or after a refresh
\* erased the row he had selected.
SignalsMeetProcesses ==
  signal # None /\ signal.pid \notin RowsOf(kids) =>
    signal.by = "action" /\ chosen \in {Root, None}

\* The step "Remove dead" removes dead processes only: a live process has a row
\* after it if it had one before.
RemoveDeadRemovesOnlyDead ==
  [][phase = "remove" => RowsOf(kids) \cap DOMAIN procRoot \subseteq RowsOf(kids')]_rowsVars
=============================================================================
