--------------------------- MODULE ProcessesUpdater ---------------------------
(***************************************************************************)
(* The life of the process list: MainWindow shows and hides the page of    *)
(* ProcessesView, which starts and stops its DispatcherThread; the worker  *)
(* rebuilds the static caches of ProcessManager and the trees that the     *)
(* view points to; the handler on the main loop reads these trees into the *)
(* rows, and the properties window looks a process up in the caches.       *)
(* DispatcherThread is instantiated: this module refines its               *)
(* m_LoopFunction and its handler and says when it is started and stopped. *)
(*                                                                         *)
(* A tree is abstracted to the layout it was built for: "list" when        *)
(* settings.displayProcList was set, else "tree".  The processes of a      *)
(* category are taken to live on, so that a category always has rows.      *)
(***************************************************************************)
EXTENDS Naturals, Sequences, FiniteSets

CONSTANTS Threads,       \* as in DispatcherThread
          None,
          CategoryOrder  \* the categories of processes, as m_LoopFunction visits them

VARIABLES
  running, thread, mutex, pipe, pc, main, detached, revived,  \* DispatcherThread
  call,      \* the call each worker makes in m_LoopFunction
  cache,     \* ProcessManager::m_CategoryTreeCache
  tree,      \* m_AppProcesses ... m_SystemProcesses: "freed" when dangling
  layout,    \* AppSettings: displayProcList
  dirty,     \* m_TreeDirty
  byName,    \* m_SortColumn == ProcessViewColumn::NAME
  rows,      \* the layout of the rows of each category
  page,      \* the visible child of m_MainStack
  asking,    \* the main thread is in OnActionProcessProperties
  display    \* X11Utils::m_Display: "none" when it is null

D == INSTANCE DispatcherThread

threadVars == <<running, thread, mutex, pipe, pc, main, detached, revived>>
viewVars == <<layout, dirty, byName, rows, page, asking, display>>
vars == <<threadVars, call, cache, tree, viewVars>>

Categories == {CategoryOrder[i] : i \in DOMAIN CategoryOrder}

ASSUME ThreadAssumption == None \notin Threads
ASSUME OrderAssumption == /\ CategoryOrder \in Seq(Categories)
                          /\ {"sleep", "clear", "end"} \cap Categories = {}

Layouts == {"list", "tree"}
Pages == {"Processes", "other"}
Displays == {"open", "closing", "none"}

\* What m_LoopFunction does, in its order; call[w] is an index into it.
Calls == <<"sleep", "clear">> \o CategoryOrder \o <<"end">>

TypeOK == /\ D!TypeOK
          /\ call \in [Threads -> DOMAIN Calls]
          /\ cache \in [Categories -> Layouts \cup {"none"}]
          /\ tree \in [Categories -> Layouts \cup {"null", "freed"}]
          /\ layout \in Layouts
          /\ dirty \in BOOLEAN
          /\ byName \in BOOLEAN
          /\ rows \in [Categories -> Layouts \cup {"none"}]
          /\ page \in Pages
          /\ asking \in BOOLEAN
          /\ display \in Displays

Init == /\ D!Init
        /\ call = [w \in Threads |-> 1]
        /\ cache = [c \in Categories |-> "none"]
        /\ tree = [c \in Categories |-> "null"]
        /\ layout \in Layouts
        /\ dirty = FALSE
        /\ byName = TRUE
        /\ rows = [c \in Categories |-> "none"]
        /\ page = "Processes"
        /\ asking = FALSE
        /\ display = "open"

-----------------------------------------------------------------------------
(* Conflicting accesses: after one of them the program has no meaning. *)

\* w runs a call that reads or writes the caches of ProcessManager.
UsesCache(w) == pc[w] = "loop" /\ 1 < call[w] /\ call[w] < Len(Calls)

WorkersRace == \E v, w \in Threads : v # w /\ UsesCache(v) /\ UsesCache(w)
HandlerRace == main = "handling" /\ \E w \in Threads : UsesCache(w)

\* ~ProcessesView calls ProcessManager::ClearCache after it deleted the thread.
TeardownRace == main = "deleted" /\ \E w \in Threads : UsesCache(w)

\* GetProcessByPid walks m_AllProcessesCache on the main thread.
LookupRace == asking /\ \E w \in Threads : UsesCache(w)

\* X11Utils::GetAllPidsWithWindows, which the category of the apps needs.
UsesDisplay(w) == pc[w] = "loop" /\ Calls[call[w]] = CategoryOrder[1]

\* main closes the display before the view, and with it the thread, is deleted.
DisplayRace == display = "closing" /\ \E w \in Threads : UsesDisplay(w)

Undefined == \/ WorkersRace \/ HandlerRace \/ TeardownRace
             \/ LookupRace \/ DisplayRace

-----------------------------------------------------------------------------
(* The worker. *)

\* Mutant: the trees are freed, but m_CategoryTreeCache still has them.
ClearCache_TreesKept ==
  /\ cache' = [c \in Categories |-> IF cache[c] = "none" THEN "none" ELSE "freed"]
  /\ tree' = [c \in Categories |-> IF tree[c] = "null" THEN "null" ELSE "freed"]

ClearCache ==
  /\ cache' = [c \in Categories |-> "none"]
  /\ tree' = [c \in Categories |-> IF tree[c] = "null" THEN "null" ELSE "freed"]

\* m_XProcesses = ProcessManager::GetProcessTreeByCategory(c): a tree that is in
\* the cache is returned as it is; a new one is built for the current setting.
GetTree(c) ==
  LET t == IF cache[c] = "none" THEN layout ELSE cache[c]
  IN  /\ cache' = [cache EXCEPT ![c] = t]
      /\ tree' = [tree EXCEPT ![c] = t]

\* One call of m_LoopFunction ends and the next begins.
LoopCall(w) ==
  /\ D!ObjectAlive
  /\ pc[w] = "loop"
  /\ call[w] < Len(Calls)
  /\ call' = [call EXCEPT ![w] = @ + 1]
  /\ \/ Calls[call[w]] = "sleep" /\ UNCHANGED <<cache, tree>>
     \/ Calls[call[w]] = "clear" /\ ClearCache
     \/ Calls[call[w]] \in Categories /\ GetTree(Calls[call[w]])
  /\ UNCHANGED <<threadVars, viewVars>>

\* Mutant: Dispatch is called before the trees are built.
LoopEnd_DispatchFirst(w) ==
  /\ D!LoopFunction(w)
  /\ Calls[call[w]] = "clear"
  /\ ClearCache
  /\ call' = [call EXCEPT ![w] = 1]
  /\ UNCHANGED viewVars

\* m_LoopFunction reaches its call of Dispatch.
LoopEnd(w) ==
  /\ D!LoopFunction(w)
  /\ call[w] = Len(Calls)
  /\ call' = [call EXCEPT ![w] = 1]
  /\ UNCHANGED <<cache, tree, viewVars>>

\* The other steps of the thread, and the main loop's part in them.
ThreadStep(w) ==
  /\ \/ D!CheckRunning(w)
     \/ D!GateLock(w)
     \/ D!GateUnlock(w)
     \/ D!DispatchLock(w)
     \/ D!DispatchEmit(w)
     \/ D!LoopReturn(w)
  /\ UNCHANGED <<call, cache, tree, viewVars>>

Worker(w) == LoopCall(w) \/ LoopEnd(w) \/ ThreadStep(w)

-----------------------------------------------------------------------------
(* The main thread. *)

\* MainWindow::OnShown, and OnTabChanged when the Processes page appears.
ShowProcesses ==
  /\ page' = "Processes"
  /\ D!Start
  /\ UNCHANGED <<call, cache, tree, layout, dirty, byName, rows, asking, display>>

\* OnTabChanged when another page appears.
HideProcesses ==
  /\ main = "idle"
  /\ page = "Processes"
  /\ page' = "other"
  /\ D!StopDetach
  /\ UNCHANGED <<call, cache, tree, layout, dirty, byName, rows, asking, display>>

\* The menu entry "Display as list".
ToggleLayout ==
  /\ main = "idle"
  /\ layout' = IF layout = "list" THEN "tree" ELSE "list"
  /\ dirty' = TRUE
  /\ UNCHANGED <<threadVars, call, cache, tree, byName, rows, page, asking, display>>

\* A click on a column header.
SortBy(name) ==
  /\ main = "idle"
  /\ byName' = name
  /\ dirty' = TRUE
  /\ UNCHANGED <<threadVars, call, cache, tree, layout, rows, page, asking, display>>

\* Mutant: the worker is let go before the handler has read the trees.
BeginHandler_UnlockFirst ==
  /\ D!BeginHandler_UnlockFirst
  /\ UNCHANGED <<call, cache, tree, viewVars>>

BeginHandler ==
  /\ D!BeginHandler
  /\ UNCHANGED <<call, cache, tree, viewVars>>

\* UpdateCategory: a row that exists keeps its place, missing rows are added
\* where the tree has them; Clear has removed all of them before.
UpdateRows(clear) ==
  LET left == [c \in Categories |-> IF clear THEN "none" ELSE rows[c]]
  IN  rows' = [c \in Categories |->
                 IF tree[c] # "null" /\ left[c] = "none" THEN tree[c] ELSE left[c]]

\* Mutant: only a dirty tree is cleared.
EndHandler_DirtyOnly ==
  /\ D!EndHandler
  /\ UpdateRows(dirty)
  /\ dirty' = FALSE
  /\ UNCHANGED <<call, cache, tree, layout, byName, page, asking, display>>

\* "Properties" in the menu of a row, which only the Processes page has:
\* OnActionProcessProperties looks the process up, and returns.
Properties ==
  /\ main = "idle"
  /\ \/ ~asking /\ page = "Processes" /\ asking' = TRUE
     \/ asking /\ asking' = FALSE
  /\ UNCHANGED <<threadVars, call, cache, tree, layout, dirty, byName, rows, page, display>>

\* The handler has updated the rows from the trees, and returns.
EndHandler ==
  /\ D!EndHandler
  /\ UpdateRows(dirty \/ ~byName)
  /\ dirty' = FALSE
  /\ UNCHANGED <<call, cache, tree, layout, byName, page, asking, display>>

\* Mutant: the destructor does not wait for the thread.
Close_Detached ==
  /\ \/ D!Quit /\ (page = "Processes" => running)
     \/ main = "quit" /\ D!StopDetach
     \/ D!StopNothing
  /\ UNCHANGED <<call, cache, tree, viewVars>>

\* app->run returns; ~MainWindow deletes the view, which stops its thread.
Close ==
  /\ \/ D!Quit /\ (page = "Processes" => running)  \* it was shown before it is closed
     \/ display = "none" /\ (D!StopJoin \/ D!StopNothing)
     \/ D!Join
  /\ UNCHANGED <<call, cache, tree, viewVars>>

\* X11Utils::Dispose, once app->run has returned: XCloseDisplay, then the pointer
\* becomes null.  It was null before, and nobody uses it, when there is no X server
\* or "Use X11 App detection" is not set.
Dispose ==
  /\ main = "quit"
  /\ \/ display = "open" /\ display' \in {"closing", "none"}
     \/ display = "closing" /\ display' = "none"
  /\ UNCHANGED <<threadVars, call, cache, tree, layout, dirty, byName, rows, page, asking>>

DeleteView ==
  /\ D!Delete
  /\ ClearCache
  /\ UNCHANGED <<call, viewVars>>

\* What the main thread does between two steps of the properties window.
MainLoop ==
  \/ ShowProcesses
  \/ HideProcesses
  \/ ToggleLayout
  \/ \E name \in BOOLEAN : SortBy(name)
  \/ BeginHandler
  \/ EndHandler
  \/ Close

Next ==
  /\ ~Undefined
  /\ \/ \E w \in Threads : Worker(w)
     \/ ~asking /\ MainLoop
     \/ Properties
     \/ Dispose
     \/ DeleteView

Spec == Init /\ [][Next]_vars

\* As for DispatcherThread: threads run, and so does the main loop while there is
\* something in the pipe, however often the user asks for properties; the user is
\* free to do nothing.
Fairness == /\ \A w \in Threads : WF_vars(~Undefined /\ Worker(w))
            /\ SF_vars(~Undefined /\ ~asking /\ (BeginHandler \/ EndHandler))
            /\ WF_vars(~Undefined /\ asking /\ Properties)
            /\ WF_vars(~Undefined /\ ~asking /\ D!Join /\ Close)

FairSpec == Spec /\ Fairness

-----------------------------------------------------------------------------
(* Properties. *)

\* Two workers, or a worker and the handler, use the unprotected static caches
\* of ProcessManager at the same time only when the page was shown again before
\* the worker that was stopped with it had ended.
RacesNeedOvertaking == WorkersRace \/ HandlerRace => revived

\* The handler finds trees behind all four pointers of the view: none was freed
\* by ClearCache after it was published, none is missing.
HandlerReadsLiveTrees ==
  main = "handling" /\ ~revived => \A c \in Categories : tree[c] \in Layouts

\* Closing the window on the Processes page leaves no worker behind: ~ProcessesView
\* frees the trees when nobody uses them.  (On another page Stop returns at once
\* and the stopped worker may still run.)
CloseOnPageIsSafe ==
  main = "deleted" /\ page = "Processes" /\ ~revived =>
    \A w \in Threads : pc[w] = "none"

\* As long as nobody is in the caches, a look-up for the properties of a row finds
\* them filled: what is on the screen was not cleared without being built again.
LookupSeesRefresh ==
  asking /\ ~LookupRace =>
    \A c \in Categories : rows[c] # "none" => cache[c] # "none"

\* main closes the display of X before it stops the thread.  The worker cannot be
\* inside Xlib then if the main loop ended with a dispatch in the pipe.
PostedCloseIsSafe == pipe > 0 /\ ~revived => ~DisplayRace

\* The list is refreshed exactly while its page is shown: once the window is
\* shown, the thread runs on the Processes page and is stopped on the others.
RunsOnItsPage ==
  /\ main \in {"idle", "handling"} /\ page = "other" => ~running
  /\ main = "quit" => (running <=> page = "Processes")

Refreshing(l) == /\ running
                 /\ main \in {"idle", "handling"}
                 /\ ~revived
                 /\ ~LookupRace
                 /\ layout = l

\* While the list is sorted by another column than the name, every change of
\* "Display as list" reaches the rows of every category.
SortedRowsFollowLayout ==
  \A l \in Layouts :
    <>[](Refreshing(l) /\ ~byName) => <>[](\A c \in Categories : rows[c] = l)

\* "Display as list" shows the processes as a list, also when they are sorted by
\* name: whatever happened before, the rows end up in the layout of the setting.
DisplayAsList ==
  \A l \in Layouts :
    <>[](Refreshing(l)) => <>[](\A c \in Categories : rows[c] = l)
=============================================================================
