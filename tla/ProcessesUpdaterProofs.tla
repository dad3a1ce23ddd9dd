------------------------ MODULE ProcessesUpdaterProofs ------------------------
(***************************************************************************)
(* The safety properties of ProcessesUpdater for any number of threads and *)
(* categories.  The actions of the view are made of those of its           *)
(* DispatcherThread (UsesThread), so the inductive invariant P!Inv is      *)
(* taken from the proofs of that module.  What the view adds:              *)
(*   - PageInv ties the page that is shown to the life of the thread;      *)
(*   - BuildInv says which trees are there at each call of m_LoopFunction, *)
(*     and that trees are only missing while a worker builds them, or      *)
(*     before the first one has.                                           *)
(***************************************************************************)
EXTENDS ProcessesUpdater, TLAPS

P == INSTANCE DispatcherThreadProofs

\* Every step of the view is a step of its thread, or leaves that alone.
LEMMA ThreadSteps == [Next]_vars => [D!Next]_threadVars
  <1> SUFFICES ASSUME [Next]_vars PROVE [D!Next]_threadVars
    OBVIOUS
  <1> USE DEF threadVars, D!Next
  <1>1. CASE UNCHANGED vars
    BY <1>1 DEF vars
  <1>2. CASE \E w \in Threads : Worker(w)
    BY <1>2 DEF Worker, LoopCall, LoopEnd, ThreadStep, D!Worker
  <1>3. CASE ShowProcesses \/ HideProcesses
    BY <1>3 DEF ShowProcesses, HideProcesses
  <1>4. CASE ToggleLayout \/ \E name \in BOOLEAN : SortBy(name)
    BY <1>4 DEF ToggleLayout, SortBy
  <1>5. CASE BeginHandler \/ EndHandler
    BY <1>5 DEF BeginHandler, EndHandler
  <1>6. CASE Close \/ DeleteView
    BY <1>6 DEF Close, DeleteView
  <1>7. CASE Properties \/ Dispose
    BY <1>7 DEF Properties, Dispose
  <1> QED
    BY <1>1, <1>2, <1>3, <1>4, <1>5, <1>6, <1>7 DEF Next, MainLoop

LEMMA UsesThread == Spec => D!Spec
  <1>1. Init => D!Init
    BY DEF Init
  <1>2. [Next]_vars => [D!Next]_(D!vars)
    BY ThreadSteps DEF threadVars, D!vars
  <1> QED
    BY <1>1, <1>2, PTL DEF Spec, D!Spec

\* D and P name the same instance of DispatcherThread.
LEMMA SameThread == [D!Next]_(D!vars) => [P!Next]_(P!vars)
  BY DEF D!vars, P!vars, D!Next, P!Next, D!Worker, P!Worker, D!Goto, P!Goto,
     D!ObjectAlive, P!ObjectAlive, D!Lock, P!Lock, D!Unlock, P!Unlock,
     D!CheckRunning, P!CheckRunning, D!GateLock, P!GateLock, D!GateUnlock, P!GateUnlock,
     D!LoopFunction, P!LoopFunction, D!DispatchLock, P!DispatchLock,
     D!DispatchEmit, P!DispatchEmit, D!LoopReturn, P!LoopReturn, D!Start, P!Start,
     D!OrTerminate, P!OrTerminate, D!Live, P!Live, D!StopDetach, P!StopDetach,
     D!StopJoin, P!StopJoin, D!Join, P!Join, D!StopNothing, P!StopNothing,
     D!BeginHandler, P!BeginHandler, D!EndHandler, P!EndHandler, D!Quit, P!Quit,
     D!Delete, P!Delete

\* The inductive invariant of DispatcherThread holds of the view's thread.
LEMMA ThreadInvariance == Spec => []P!Inv
  <1>1. D!Init => P!Init
    BY DEF D!Init, P!Init
  <1>2. P!Spec => []P!Inv
    BY P!Invariance, ThreadAssumption
  <1> QED
    BY <1>1, <1>2, SameThread, UsesThread, PTL DEF D!Spec, P!Spec

\* What P!Inv says of the view's thread.
LEMMA ThreadFacts ==
  ASSUME P!Inv
  PROVE  /\ D!TypeOK
         /\ running => thread # None /\ pc[thread] # "none"
         /\ ~running /\ main # "joining" => thread = None
         /\ main = "joining" => ~running /\ thread # None
         /\ \A w \in Threads : pc[w] # "none" => w \in detached \/ w = thread
         /\ ~revived => \A v, w \in Threads : pc[v] # "none" /\ pc[w] # "none" => v = w
         /\ (main = "handling" \/ pipe > 0) /\ ~revived =>
              \A w \in Threads : pc[w] \notin {"loop", "dispatch"}
  BY DEF P!Inv, P!TypeOK, D!TypeOK, P!PCs, D!PCs, P!Mains, D!Mains, P!ThreadInv,
     P!SoleInv, P!Outstanding

-----------------------------------------------------------------------------
(* The page and the thread. *)

PageInv ==
  /\ page \in Pages
  /\ RunsOnItsPage
  /\ page = "Processes" /\ ~revived =>
       /\ main = "joining" => \A w \in Threads : pc[w] # "none" => w = thread
       /\ main \in {"stopped", "deleted"} =>
            \A w \in Threads : pc[w] = "none"

\* Every step preserves PageInv.
LEMMA PageStep == PageInv /\ P!Inv /\ [Next]_vars => PageInv'
  <1> SUFFICES ASSUME PageInv, P!Inv, [Next]_vars PROVE PageInv'
    OBVIOUS
  <1> USE ThreadAssumption, ThreadFacts
      DEF PageInv, Pages, RunsOnItsPage, threadVars, viewVars, D!TypeOK, D!PCs, D!Mains
  <1>1. CASE UNCHANGED vars
    BY <1>1 DEF vars
  <1>2. CASE \E w \in Threads : Worker(w)
    <2>1. PICK w \in Threads : Worker(w)
      BY <1>2
    <2>2. /\ UNCHANGED <<running, thread, main, page, revived>>
          /\ pc[w] # "none"
          /\ \A v \in Threads : v # w => pc'[v] = pc[v]
      BY <2>1 DEF Worker, LoopCall, LoopEnd, ThreadStep, D!Goto, D!CheckRunning,
         D!GateLock, D!GateUnlock, D!LoopFunction, D!DispatchLock, D!DispatchEmit,
         D!LoopReturn
    <2> QED
      BY <2>1, <2>2
  <1>3. CASE ShowProcesses
    BY <1>3 DEF ShowProcesses, D!Start, D!OrTerminate
  <1>4. CASE HideProcesses
    BY <1>4 DEF HideProcesses, D!StopDetach
  <1>5. CASE ToggleLayout \/ \E name \in BOOLEAN : SortBy(name)
    BY <1>5 DEF ToggleLayout, SortBy
  <1>6. CASE BeginHandler \/ EndHandler
    BY <1>6 DEF BeginHandler, EndHandler, D!BeginHandler, D!EndHandler
  <1>7. CASE Close
    <2>1. UNCHANGED <<page, pc, revived>>
      BY <1>7 DEF Close, D!Quit, D!StopJoin, D!Join, D!StopNothing
    <2>2. CASE D!Quit /\ (page = "Processes" => running)
      BY <2>1, <2>2 DEF D!Quit
    <2>3. CASE D!StopJoin
      BY <2>1, <2>3 DEF D!StopJoin
    <2>4. CASE D!Join
      BY <2>1, <2>4 DEF D!Join
    <2>5. CASE D!StopNothing
      <3>1. \A w \in Threads : pc[w] # "none" => w \in detached
        BY <2>5 DEF D!StopNothing
      <3> QED
        BY <2>1, <2>5 DEF D!StopNothing
    <2> QED
      BY <1>7, <2>2, <2>3, <2>4, <2>5 DEF Close
  <1>8. CASE DeleteView
    BY <1>8 DEF DeleteView, D!Delete, D!OrTerminate
  <1>9. CASE Properties \/ Dispose
    BY <1>9 DEF Properties, Dispose
  <1> QED
    BY <1>1, <1>2, <1>3, <1>4, <1>5, <1>6, <1>7, <1>8, <1>9 DEF Next, MainLoop

\* PageInv holds in every reachable state.
LEMMA PageInvariance == Spec => []PageInv
  <1>1. Init => PageInv
    BY DEF Init, D!Init, PageInv, Pages, RunsOnItsPage
  <1> QED
    BY <1>1, PageStep, ThreadInvariance, PTL DEF Spec

\* The types of the variables that the other invariants do not need.
FlagsInv == dirty \in BOOLEAN /\ byName \in BOOLEAN /\ asking \in BOOLEAN /\ display \in Displays

\* FlagsInv holds in every reachable state.
LEMMA FlagsInvariance == Spec => []FlagsInv
  <1>1. Init => FlagsInv
    BY DEF Init, FlagsInv, Displays
  <1>2. FlagsInv /\ [Next]_vars => FlagsInv'
    BY DEF FlagsInv, Displays, vars, viewVars, Next, MainLoop, Worker, LoopCall, LoopEnd,
       ThreadStep, ShowProcesses, HideProcesses, ToggleLayout, SortBy, BeginHandler,
       EndHandler, Close, DeleteView, Properties, Dispose
  <1> QED
    BY <1>1, <1>2, PTL DEF Spec

-----------------------------------------------------------------------------
(* The trees. *)

Built(c) == tree[c] \in Layouts

\* The trees a worker has built at each of its calls.
Progress ==
  \A w \in Threads : UsesCache(w) =>
    \A i \in DOMAIN CategoryOrder : i + 2 < call[w] => Built(CategoryOrder[i])

\* No worker has got as far as building a tree.
Virgin ==
  /\ pipe = 0
  /\ main # "handling"
  /\ \A w \in Threads : pc[w] \notin {"dispatch", "emit"} /\ call[w] # Len(Calls)
  /\ \A c \in Categories : rows[c] = "none"

BuildInv ==
  /\ cache \in [Categories -> Layouts \cup {"none"}]
  /\ tree \in [Categories -> Layouts \cup {"null", "freed"}]
  /\ \A c \in Categories : Built(c) => cache[c] = tree[c]
  /\ rows \in [Categories -> Layouts \cup {"none"}]
  /\ layout \in Layouts
  /\ asking => main = "idle"
  /\ call \in [Threads -> DOMAIN Calls]
  /\ \A w \in Threads : pc[w] # "loop" => call[w] = 1
  /\ D!ObjectAlive => /\ Progress
                      /\ \/ \A c \in Categories : Built(c)
                         \/ \E w \in Threads : UsesCache(w)
                         \/ Virgin

\* The calls of m_LoopFunction.
LEMMA CallsAre ==
  /\ Len(Calls) = Len(CategoryOrder) + 3
  /\ DOMAIN Calls = 1..Len(Calls)
  /\ Calls[1] = "sleep"
  /\ Calls[2] = "clear"
  /\ DOMAIN CategoryOrder = 1..Len(CategoryOrder)
  /\ Len(CategoryOrder) \in Nat
  /\ \A i \in DOMAIN CategoryOrder :
       Calls[i + 2] = CategoryOrder[i] /\ CategoryOrder[i] \in Categories
  <1>1. CategoryOrder \in Seq(Categories)
    BY OrderAssumption
  <1> QED
    BY <1>1 DEF Calls, Categories

\* A call of m_LoopFunction preserves BuildInv.
LEMMA LoopCallStep ==
  ASSUME BuildInv, P!Inv, ~Undefined, NEW w \in Threads, LoopCall(w)
  PROVE  BuildInv'
  <1> DEFINE n == Len(CategoryOrder)
  <1> USE CallsAre, ThreadFacts
  <1>1. /\ UNCHANGED <<pc, main, pipe, layout, rows, asking>>
        /\ pc[w] = "loop" /\ call[w] \in 1..(n + 2)
        /\ call' = [call EXCEPT ![w] = @ + 1]
        /\ D!ObjectAlive
    BY DEF LoopCall, threadVars, viewVars, BuildInv
  <1>2. call' \in [Threads -> DOMAIN Calls]
    BY <1>1 DEF BuildInv
  <1>3. \A v \in Threads : v # w => call'[v] = call[v] /\ (UsesCache(v)' <=> UsesCache(v))
    BY <1>1 DEF BuildInv, UsesCache
  <1>4. UsesCache(w) => \A v \in Threads : UsesCache(v) => v = w
    BY DEF Undefined, WorkersRace
  <1> USE DEF Layouts
  <1>5. CASE call[w] = 1
    <2>1. UNCHANGED <<cache, tree>>
      BY <1>5, OrderAssumption DEF LoopCall
    <2>2. Progress'
      BY <1>1, <1>2, <1>3, <1>5, <2>1 DEF Progress, Built, BuildInv
    <2>3. (\A c \in Categories : Built(c))' \/ UsesCache(w)'
      BY <1>1, <1>5, <2>1 DEF UsesCache, BuildInv, Categories
    <2> QED
      BY <1>1, <1>2, <2>1, <2>2, <2>3 DEF BuildInv, D!ObjectAlive, Built
  <1>6. CASE call[w] = 2
    <2>1. ClearCache
      BY <1>6, OrderAssumption DEF LoopCall
    <2>2. UsesCache(w)
      BY <1>1, <1>6 DEF UsesCache
    <2>3. Progress'
      BY <1>1, <1>2, <1>3, <1>4, <1>6, <2>2 DEF Progress, BuildInv
    <2>4. (\A c \in Categories : Built(c))' \/ UsesCache(w)'
      BY <1>1, <1>6 DEF UsesCache, BuildInv, Categories
    <2>5. /\ cache' \in [Categories -> Layouts \cup {"none"}]
          /\ tree' \in [Categories -> Layouts \cup {"null", "freed"}]
          /\ \A c \in Categories : ~Built(c)'
      BY <2>1 DEF ClearCache, Built
    <2> QED
      BY <1>1, <1>2, <2>3, <2>4, <2>5 DEF BuildInv, D!ObjectAlive
  <1>7. CASE call[w] \in 3..(n + 2)
    <2> DEFINE c == CategoryOrder[call[w] - 2]
    <2>1. c \in Categories /\ Calls[call[w]] = c /\ call[w] - 2 \in DOMAIN CategoryOrder
      BY <1>7
    <2>2. GetTree(c)
      BY <2>1, OrderAssumption DEF LoopCall
    <2>3. UsesCache(w)
      BY <1>1, <1>7 DEF UsesCache
    <2>4. /\ cache' \in [Categories -> Layouts \cup {"none"}]
          /\ tree' \in [Categories -> Layouts \cup {"null", "freed"}]
          /\ tree'[c] \in Layouts
          /\ \A d \in Categories : Built(d) => Built(d)'
          /\ \A d \in Categories : Built(d)' => cache'[d] = tree'[d]
      BY <2>1, <2>2 DEF GetTree, BuildInv, Built
    <2>5. \A i \in DOMAIN CategoryOrder : i + 2 < call'[w] => Built(CategoryOrder[i])'
      <3> SUFFICES ASSUME NEW i \in DOMAIN CategoryOrder, i + 2 < call'[w]
                   PROVE  Built(CategoryOrder[i])'
        OBVIOUS
      <3>1. CASE i = call[w] - 2
        BY <2>1, <2>4, <3>1 DEF Built
      <3>2. CASE i + 2 < call[w]
        <4>1. Built(CategoryOrder[i])
          BY <1>1, <2>3, <3>2 DEF BuildInv, Progress
        <4> QED
          BY <2>4, <4>1
      <3> QED
        BY <1>1, <1>7, <3>1, <3>2 DEF BuildInv
    <2>6. Progress'
      BY <1>3, <1>4, <2>3, <2>5 DEF Progress
    <2>7. (\A d \in Categories : Built(d))' \/ UsesCache(w)'
      <3>1. CASE call[w] = n + 2
        <4>1. \A i \in DOMAIN CategoryOrder : i + 2 < call'[w]
          BY <1>1, <3>1 DEF BuildInv
        <4> QED
          BY <2>5, <4>1 DEF Categories
      <3>2. CASE call[w] # n + 2
        BY <1>1, <1>7, <3>2 DEF UsesCache, BuildInv
      <3> QED
        BY <3>1, <3>2
    <2> QED
      BY <1>1, <1>2, <2>4, <2>6, <2>7 DEF BuildInv, D!ObjectAlive
  <1> QED
    BY <1>1, <1>5, <1>6, <1>7

\* The handler preserves BuildInv: no worker is in the caches, so all trees are there.
LEMMA EndHandlerStep ==
  ASSUME BuildInv, P!Inv, ~Undefined, EndHandler
  PROVE  BuildInv'
  <1> USE CallsAre, ThreadFacts DEF D!TypeOK, D!ObjectAlive, UsesCache
  <1>1. /\ UNCHANGED <<call, cache, tree, layout, asking, pipe, pc>>
        /\ main = "handling" /\ main' = "idle"
    BY DEF EndHandler, D!EndHandler
  <1>2. \A w \in Threads : ~UsesCache(w)
    BY <1>1 DEF Undefined, HandlerRace
  <1>3. \A c \in Categories : tree[c] \in Layouts
    BY <1>1, <1>2 DEF BuildInv, Virgin, Built
  <1>4. rows' \in [Categories -> Layouts \cup {"none"}]
    BY <1>3 DEF EndHandler, UpdateRows, BuildInv
  <1> QED
    BY <1>1, <1>3, <1>4 DEF BuildInv, Built, Progress

\* Every step preserves BuildInv.
LEMMA BuildStep == BuildInv /\ P!Inv /\ [Next]_vars => BuildInv'
  <1> SUFFICES ASSUME BuildInv, P!Inv, [Next]_vars PROVE BuildInv'
    OBVIOUS
  <1> USE CallsAre, ThreadFacts
      DEF D!TypeOK, D!ObjectAlive, Built, Progress, Virgin, UsesCache
  <1>1. CASE UNCHANGED vars
    BY <1>1 DEF vars, threadVars, viewVars, BuildInv
  <1>2. ASSUME NEW w \in Threads, LoopEnd(w) PROVE BuildInv'
    <2>1. ~Virgin
      BY <1>2 DEF LoopEnd
    <2>2. \A v \in Threads : UsesCache(v)' <=> UsesCache(v)
      BY <1>2 DEF LoopEnd, D!LoopFunction, D!Goto, BuildInv
    <2>3. \A v \in Threads : UsesCache(v) => call'[v] = call[v]
      BY <1>2 DEF LoopEnd, BuildInv
    <2> QED
      BY <1>2, <2>1, <2>2, <2>3
         DEF LoopEnd, viewVars, D!LoopFunction, D!Goto, BuildInv
  <1>3. ASSUME NEW w \in Threads, ThreadStep(w) PROVE BuildInv'
    <2>1. /\ UNCHANGED <<call, cache, tree, layout, main, rows, asking>>
          /\ pc[w] # "loop"
          /\ pc' \in [Threads -> D!PCs]
          /\ \A v \in Threads : v # w => pc'[v] = pc[v]
      BY <1>3 DEF ThreadStep, viewVars, D!CheckRunning, D!GateLock, D!GateUnlock,
         D!DispatchLock, D!DispatchEmit, D!LoopReturn, D!Goto, D!PCs
    <2>2. \A v \in Threads : UsesCache(v)' <=> UsesCache(v)
      BY <2>1 DEF BuildInv
    <2>3. Virgin => Virgin'
      BY <1>3, <2>1 DEF ThreadStep, D!CheckRunning, D!GateLock, D!GateUnlock,
         D!DispatchLock, D!DispatchEmit, D!LoopReturn, D!Goto
    <2> QED
      BY <2>1, <2>2, <2>3 DEF BuildInv
  <1>4. CASE ~asking /\ ShowProcesses
    <2>1. /\ UNCHANGED <<call, cache, tree, layout, rows, asking, pipe>>
          /\ main' \in {"idle", "terminated"}
          /\ pc' \in [Threads -> D!PCs]
          /\ \A v \in Threads : pc'[v] = pc[v] \/ (pc[v] = "none" /\ pc'[v] = "check")
      <3>1. PICK w \in Threads : pc[w] = "none" /\ pc' = [pc EXCEPT ![w] = "check"]
        BY <1>4 DEF ShowProcesses, D!Start
      <3> QED
        BY <1>4, <3>1 DEF ShowProcesses, D!Start, D!OrTerminate, D!PCs
    <2>2. \A w \in Threads : UsesCache(w)' <=> UsesCache(w)
      BY <2>1
    <2>3. Virgin => Virgin'
      BY <2>1
    <2>4. D!ObjectAlive
      BY <1>4 DEF ShowProcesses, D!Start
    <2> QED
      BY <1>4, <2>1, <2>2, <2>3, <2>4 DEF BuildInv
  <1>5. CASE ~asking /\ HideProcesses
    BY <1>5 DEF HideProcesses, D!StopDetach, BuildInv
  <1>6. CASE ToggleLayout \/ \E name \in BOOLEAN : SortBy(name)
    BY <1>6 DEF ToggleLayout, SortBy, threadVars, BuildInv, Layouts
  <1>7. CASE ~asking /\ BeginHandler
    BY <1>7 DEF BeginHandler, D!BeginHandler, viewVars, BuildInv
  <1>8. CASE ~asking /\ Close
    BY <1>8 DEF Close, D!Quit, D!StopJoin, D!Join, D!StopNothing, viewVars, BuildInv
  <1>9. CASE DeleteView
    BY <1>9 DEF DeleteView, ClearCache, D!Delete, D!OrTerminate, viewVars, BuildInv, Layouts
  <1>10. CASE Properties \/ Dispose
    BY <1>10 DEF Properties, Dispose, threadVars, BuildInv
  <1> QED
    BY <1>1, <1>2, <1>3, <1>4, <1>5, <1>6, <1>7, <1>8, <1>9, <1>10, LoopCallStep,
       EndHandlerStep DEF Next, MainLoop, Worker

\* BuildInv holds in every reachable state.
LEMMA BuildInvariance == Spec => []BuildInv
  <1>1. Init => BuildInv
    BY CallsAre DEF Init, D!Init, BuildInv, Built, Layouts, D!ObjectAlive, Progress, Virgin, UsesCache
  <1> QED
    BY <1>1, BuildStep, ThreadInvariance, PTL DEF Spec

-----------------------------------------------------------------------------
(* The theorems. *)

\* Two workers, or a worker and the handler, use the caches of ProcessManager at
\* the same time only after Start overtook a worker that had been stopped.
THEOREM RacesOnlyWhenOvertaken == Spec => []RacesNeedOvertaking
  <1>1. P!Inv => RacesNeedOvertaking
    BY ThreadFacts DEF RacesNeedOvertaking, WorkersRace, HandlerRace, UsesCache
  <1> QED
    BY <1>1, ThreadInvariance, PTL

\* The handler reads trees that exist, of all categories.
THEOREM HandlerReads == Spec => []HandlerReadsLiveTrees
  <1>1. P!Inv /\ BuildInv => HandlerReadsLiveTrees
    BY ThreadFacts DEF BuildInv, D!ObjectAlive, Virgin, UsesCache, Built,
       HandlerReadsLiveTrees
  <1> QED
    BY <1>1, ThreadInvariance, BuildInvariance, PTL

\* Closing the window on the Processes page leaves no worker behind.
THEOREM CloseIsSafe == Spec => []CloseOnPageIsSafe
  <1>1. PageInv => CloseOnPageIsSafe
    BY DEF PageInv, CloseOnPageIsSafe
  <1> QED
    BY <1>1, PageInvariance, PTL

\* A look-up that does not race finds the caches filled for what is on the screen.
THEOREM LookupSees == Spec => []LookupSeesRefresh
  <1>1. BuildInv => LookupSeesRefresh
    BY DEF BuildInv, D!ObjectAlive, Virgin, Built, Layouts, LookupRace, LookupSeesRefresh
  <1> QED
    BY <1>1, BuildInvariance, PTL

\* The display is not closed under a worker whose dispatch is in the pipe.
THEOREM PostedClose == Spec => []PostedCloseIsSafe
  <1>1. P!Inv => PostedCloseIsSafe
    BY ThreadFacts DEF D!TypeOK, D!PCs, PostedCloseIsSafe, DisplayRace, UsesDisplay
  <1> QED
    BY <1>1, ThreadInvariance, PTL

\* Every variable keeps its type, for any threads and categories.
THEOREM TypeCorrect == Spec => []TypeOK
  <1>1. P!Inv /\ PageInv /\ BuildInv /\ FlagsInv => TypeOK
    BY ThreadFacts DEF PageInv, BuildInv, FlagsInv, TypeOK
  <1> QED
    BY <1>1, ThreadInvariance, PageInvariance, BuildInvariance, FlagsInvariance, PTL

\* The thread runs while the Processes page is shown, and only then.
THEOREM RunsOnPage == Spec => []RunsOnItsPage
  BY PageInvariance, PTL DEF PageInv
================================================================================
