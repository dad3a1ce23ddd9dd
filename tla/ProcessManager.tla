---------------------------- MODULE ProcessManager ----------------------------
(***************************************************************************)
(* ProcessManager (src/api/process/ProcessManager.cpp): the static caches  *)
(* that one refresh of the process list fills, from the scan of /proc to   *)
(* the tree of each category, and the ProcessNode objects they own.  The   *)
(* calls come from the worker of ProcessesView, in the order in which its  *)
(* m_LoopFunction makes them; what happens when another thread uses the    *)
(* caches at the same time is the subject of ProcessesUpdater.             *)
(*                                                                         *)
(* A node is named by the list it was created for and its pid; each        *)
(* process has the own usage 1 (a byte of RAM, say), the root nodes 0.     *)
(***************************************************************************)
EXTENDS ProcessTree

CONSTANTS Names,               \* process names
          AppBlacklist,        \* the names in g_AppBlacklist ...
          AppParentBlacklist,  \* ... and in g_AppParentBlacklist
          WineNames,           \* names that end in .exe
          Tables               \* what a scan of /proc can find

Processes == [ppid : Pids \cup {Root}, name : Names,
              mine : BOOLEAN,     \* uid == getuid()
              window : BOOLEAN]   \* its pid is in windowPids

ASSUME TablesAssumption ==
  \A t \in Tables :
    \E list \in SUBSET Pids : list # {} /\ IsFiniteSet(list) /\ t \in [list -> Processes]

VARIABLES
  all,       \* m_AllProcessesCache: the table of the last scan, empty when cleared
  category,  \* m_CategoryCache: the pids of the categories computed so far
  tree,      \* m_CategoryTreeCache: the trees of the categories computed so far
  usage,     \* the sums in these trees
  listed,    \* m_TreeProcessesCache: the nodes GetTreeProcessByPid searches
  heap,      \* the ProcessNode objects that exist
  calling    \* the category GetProcessTreeByCategory is running for, or "none"

vars == <<all, category, tree, usage, listed, heap, calling>>

\* The values of PROCESSES_VIEW_CATEGORY_...
Category == [apps |-> 1, wine |-> 2, background |-> 3, system |-> 4]
Categories == DOMAIN Category

Nodes == [list : Categories \cup {"all"}, pid : Pids \cup {Root}]
NodesOf(list, pids) == {[list |-> list, pid |-> p] : p \in pids}

Nothing == [x \in {} |-> x]

\* The entry a key gets in a map.
Put(map, key, value) == [k \in DOMAIN map \cup {key} |-> IF k = key THEN value ELSE map[k]]

TypeOK ==
  /\ DOMAIN all \subseteq Pids
  /\ all \in [DOMAIN all -> Processes]
  /\ DOMAIN category \subseteq Categories
  /\ \A c \in DOMAIN category : category[c] \subseteq DOMAIN all
  /\ DOMAIN tree \subseteq DOMAIN category
  /\ \A c \in DOMAIN tree : tree[c] \in [category[c] -> category[c] \cup {Root}]
  /\ DOMAIN usage = DOMAIN tree
  /\ listed \subseteq Nodes
  /\ heap \subseteq Nodes
  /\ calling \in Categories \cup {"none"}

Init == /\ all = Nothing
        /\ category = Nothing
        /\ tree = Nothing
        /\ usage = Nothing
        /\ listed = {}
        /\ heap = {}
        /\ calling = "none"

-----------------------------------------------------------------------------
(* Which processes are in a category. *)

\* The tree of all processes.
AllTree(table) == BuildTree(table, DOMAIN table)

\* GetProcessesByFilter: the processes that match, with everything below them.
GetProcessesByFilter(table, matches) ==
  UNION {FlatTree(AllTree(table), p) : p \in {q \in DOMAIN table : matches[q]}}

\* is_in_app_blacklist
IsInAppBlacklist(process) == process.name \in AppBlacklist

AppFilter(process) == process.mine /\ ~IsInAppBlacklist(process) /\ process.window

\* realProc of GetAppProcessesByFilter: the topmost process below the window's
\* that is not merely a shell around the app; any of several at the same depth.
RealProcs(table, p) ==
  LET all_ == AllTree(table)
      below == {q \in FlatTree(all_, p) : table[q].name \notin AppParentBlacklist}
  IN  IF below = {} THEN {p}
      ELSE {q \in below : \A r \in below : Depth(all_, q) <= Depth(all_, r)}

\* GetAppProcessesByFilter, for a choice of the realProc of each window's process.
GetAppProcesses(table, real, withChildren) ==
  UNION {{q \in FlatTree(AllTree(table), real[p]) :
            withChildren \/ table[q].name = table[real[p]].name} :
         p \in {w \in DOMAIN real : ~IsInAppBlacklist(table[real[w]])}}

Windows(table) == {p \in DOMAIN table : AppFilter(table[p])}

\* The lists GetProcessesByCategory finds before it reduces them.
FilteredProcesses(c, table) ==
  CASE c = "apps" ->
         {GetAppProcesses(table, real, withChildren) :
            real \in {f \in [Windows(table) -> DOMAIN table] :
                        \A p \in Windows(table) : f[p] \in RealProcs(table, p)},
            withChildren \in BOOLEAN}
    [] c = "wine" ->
         {GetProcessesByFilter(table, [p \in DOMAIN table |-> table[p].name \in WineNames])}
    [] c = "background" ->
         {GetProcessesByFilter(table, [p \in DOMAIN table |-> table[p].mine])}
    [] c = "system" ->
         {GetProcessesByFilter(table, [p \in DOMAIN table |-> ~table[p].mine])}

\* The categories a list is reduced by: those of the higher priority.
Before(c) == {d \in Categories : Category[d] < Category[c]}

\* Mutant: the list is not reduced by the category that comes right before it.
Reducers_LastForgotten(c) == {d \in Categories : Category[d] + 1 < Category[c]}

Reducers(c) == Before(c)

-----------------------------------------------------------------------------
(* The calls of the worker. *)

OwnedNodes == NodesOf("all", DOMAIN all)
              \cup (UNION {NodesOf(c, category[c]) : c \in DOMAIN category})
              \cup {[list |-> c, pid |-> Root] : c \in DOMAIN tree}

ClearCache ==
  /\ calling = "none"
  /\ heap' = heap \ OwnedNodes
  /\ all' = Nothing
  /\ category' = Nothing
  /\ tree' = Nothing
  /\ usage' = Nothing
  /\ listed' = {}
  /\ UNCHANGED calling

\* GetProcessTreeByCategory is called; a tree that is in the cache is returned.
Call(c) ==
  /\ calling = "none"
  /\ c \notin DOMAIN tree
  /\ Before(c) \subseteq DOMAIN tree
  /\ calling' = c
  /\ UNCHANGED <<all, category, tree, usage, listed, heap>>

\* GetAllProcesses: the scan, when no category needed it before.  The root that
\* BuildTree makes is deleted at once.
GetAllProcesses ==
  /\ calling # "none"
  /\ all = Nothing
  /\ all' \in Tables
  /\ heap' = heap \cup NodesOf("all", DOMAIN all')
  /\ UNCHANGED <<category, tree, usage, listed, calling>>

\* Mutant: Reduce takes nodes off the list without deleting them.
GetProcessesByCategory_Leaks(c) ==
  /\ calling # "none"
  /\ Category[c] <= Category[calling]
  /\ all # Nothing
  /\ c \notin DOMAIN category
  /\ Before(c) \subseteq DOMAIN category
  /\ \E list \in FilteredProcesses(c, all) :
       LET removed == list \cap UNION {category[d] : d \in Reducers(c)}
       IN  /\ category' = Put(category, c, list \ removed)
           /\ heap' = heap \cup NodesOf(c, list)
  /\ UNCHANGED <<all, tree, usage, listed, calling>>

\* GetProcessesByCategory for a category that is not in the cache, called for the
\* tree or, by Reduce's arguments, for a later category: copies of the processes
\* that match, less those of the categories before it, whose copies are deleted.
GetProcessesByCategory(c) ==
  /\ calling # "none"
  /\ Category[c] <= Category[calling]
  /\ all # Nothing
  /\ c \notin DOMAIN category
  /\ Before(c) \subseteq DOMAIN category
  /\ \E list \in FilteredProcesses(c, all) :
       LET removed == list \cap UNION {category[d] : d \in Reducers(c)}
       IN  /\ category' = Put(category, c, list \ removed)
           /\ heap' = (heap \cup NodesOf(c, list)) \ NodesOf(c, removed)
  /\ UNCHANGED <<all, tree, usage, listed, calling>>

\* GetProcessTreeByCategory builds the tree from the list, for either value of
\* settings.displayProcList, sums up the usages and remembers the nodes.
BuildCategoryTree(c) ==
  /\ calling = c
  /\ c \in DOMAIN category
  /\ \E built \in {BuildTree(all, category[c]), BuildPackedFlatTree(all, category[c])} :
       /\ tree' = Put(tree, c, built)
       /\ usage' = Put(usage, c,
                       CalculateSums(built, [p \in category[c] \cup {Root} |->
                                               IF p = Root THEN 0 ELSE 1]))
       /\ listed' = listed \cup NodesOf(c, FlatTree(built, Root))
  /\ heap' = heap \cup {[list |-> c, pid |-> Root]}
  /\ calling' = "none"
  /\ UNCHANGED <<all, category>>

Next == \/ ClearCache
        \/ GetAllProcesses
        \/ \E c \in Categories : \/ Call(c)
                                 \/ GetProcessesByCategory(c)
                                 \/ BuildCategoryTree(c)

Spec == Init /\ [][Next]_vars

-----------------------------------------------------------------------------
(* Properties. *)

\* Every node that exists is owned by one of the caches that ClearCache deletes
\* from, and these own no node that was deleted: nothing leaks over a refresh and
\* nothing is deleted twice.
HeapIsOwned == heap = OwnedNodes

\* The categories share no process, and together they have every process the
\* scan found: each process is shown in one place.
Partition ==
  /\ \A c, d \in DOMAIN category : c # d => category[c] \cap category[d] = {}
  /\ DOMAIN category = Categories =>
       DOMAIN all = UNION {category[c] : c \in Categories}

\* No process of a category is lost from its tree, and the usage a node shows is
\* that of the processes below it and itself, each counted once.
TreesAreComplete ==
  \A c \in DOMAIN tree :
    /\ FlatTree(tree[c], Root) = category[c] \cup {Root}
    /\ \A p \in DOMAIN usage[c] :
         usage[c][p] = Cardinality(FlatTree(tree[c], p) \ {Root})
=============================================================================
