------------------------ MODULE DispatcherThreadProofs ------------------------
(***************************************************************************)
(* The safety properties of DispatcherThread and its refinement of Handoff *)
(* for every set of threads.  The invariants are proved together, as one   *)
(* inductive invariant Inv:                                                *)
(*   - ThreadInv ties m_Running, m_Thread and the threads that are alive;  *)
(*   - TokenInv says where the token of m_Mutex is;                        *)
(*   - SoleInv says what more holds when no Start overtook a stopped       *)
(*     thread.                                                             *)
(***************************************************************************)
EXTENDS DispatcherThread, TLAPS

ThreadInv ==
  /\ running => thread # None /\ pc[thread] # "none"
  /\ ~running /\ main # "joining" => thread = None
  /\ main = "joining" => ~running /\ thread # None
  /\ main \in {"stopped", "deleted"} => ~running
  /\ thread \notin detached
  /\ \A w \in Threads : /\ pc[w] # "none" => w \in detached \/ w = thread
                        /\ w \in detached => pc[w] # "none"
  /\ main # "terminated"

TokenInv ==
  /\ \A w \in Threads : pc[w] \in {"gated", "emit"} => mutex = w
  /\ OneHandoff
  /\ TokenNotLost
  /\ OwnDataStable

SoleInv ==
  ~revived => /\ \A v, w \in Threads : pc[v] # "none" /\ pc[w] # "none" => v = w
              /\ Outstanding => \A w \in Threads : pc[w] \notin {"loop", "dispatch"}

Inv == TypeOK /\ ThreadInv /\ TokenInv /\ SoleInv

\* The initial state satisfies the inductive invariant.
LEMMA InitInv == Init => Inv
  <1> SUFFICES ASSUME Init PROVE Inv
    OBVIOUS
  <1> USE NoneAssumption DEF Init
  <1>1. TypeOK
    BY DEF TypeOK, PCs, Mains
  <1>2. ThreadInv
    BY DEF ThreadInv
  <1>3. TokenInv
    BY DEF TokenInv, OneHandoff, TokenNotLost, OwnDataStable, Outstanding
  <1>4. SoleInv
    BY DEF SoleInv, Outstanding
  <1> QED
    BY <1>1, <1>2, <1>3, <1>4 DEF Inv

\* A step of a worker preserves the inductive invariant.
LEMMA WorkerInv == ASSUME Inv, NEW w \in Threads, Worker(w) PROVE Inv'
  <1> USE NoneAssumption DEF Goto, ObjectAlive, Lock, Unlock
  <1>1. TypeOK'
    BY DEF Inv, TypeOK, PCs, Mains, Worker, CheckRunning, GateLock, GateUnlock,
       LoopFunction, DispatchLock, DispatchEmit, LoopReturn
  <1>2. ThreadInv'
    BY DEF Inv, TypeOK, PCs, Mains, ThreadInv, Worker, CheckRunning, GateLock,
       GateUnlock, LoopFunction, DispatchLock, DispatchEmit, LoopReturn
  <1>3. TokenInv'
    <2> USE DEF Inv, TypeOK, PCs, Mains, TokenInv, OneHandoff, TokenNotLost,
            OwnDataStable, Outstanding
    <2>1. CASE CheckRunning(w)
      BY <2>1 DEF CheckRunning
    <2>2. CASE GateLock(w)
      BY <2>2 DEF GateLock
    <2>3. CASE GateUnlock(w)
      BY <2>3 DEF GateUnlock
    <2>4. CASE LoopFunction(w)
      BY <2>4 DEF LoopFunction
    <2>5. CASE DispatchLock(w)
      BY <2>5 DEF DispatchLock
    <2>6. CASE DispatchEmit(w)
      BY <2>6 DEF DispatchEmit
    <2>7. CASE LoopReturn(w)
      BY <2>7 DEF LoopReturn
    <2> QED
      BY <2>1, <2>2, <2>3, <2>4, <2>5, <2>6, <2>7 DEF Worker
  <1>4. SoleInv'
    <2> USE DEF Inv, TypeOK, PCs, Mains, SoleInv, TokenInv, OneHandoff, Outstanding
    <2>1. CASE CheckRunning(w)
      BY <2>1 DEF CheckRunning
    <2>2. CASE GateLock(w)
      BY <2>2 DEF GateLock
    <2>3. CASE GateUnlock(w)
      BY <2>3 DEF GateUnlock
    <2>4. CASE LoopFunction(w)
      BY <2>4 DEF LoopFunction
    <2>5. CASE DispatchLock(w)
      BY <2>5 DEF DispatchLock
    <2>6. CASE DispatchEmit(w)
      BY <2>6 DEF DispatchEmit
    <2>7. CASE LoopReturn(w)
      BY <2>7 DEF LoopReturn
    <2> QED
      BY <2>1, <2>2, <2>3, <2>4, <2>5, <2>6, <2>7 DEF Worker
  <1> QED
    BY <1>1, <1>2, <1>3, <1>4 DEF Inv

\* Start preserves the inductive invariant.
LEMMA StartInv == ASSUME Inv, Start PROVE Inv'
  <1> USE NoneAssumption DEF Inv, TypeOK, PCs, Mains, Start, OrTerminate
  <1>1. PICK w \in Threads : /\ pc[w] = "none"
                             /\ pc' = [pc EXCEPT ![w] = "check"]
                             /\ thread' = w
    OBVIOUS
  <1>2. TypeOK'
    BY <1>1
  <1>3. ThreadInv'
    BY <1>1 DEF ThreadInv
  <1>4. TokenInv'
    BY <1>1 DEF TokenInv, OneHandoff, TokenNotLost, OwnDataStable, Outstanding
  <1>5. SoleInv'
    BY <1>1 DEF SoleInv, Live
  <1> QED
    BY <1>2, <1>3, <1>4, <1>5

\* A step that stops, joins or deletes preserves the inductive invariant.
LEMMA StopInv ==
  ASSUME Inv, StopDetach \/ StopJoin \/ Join \/ StopNothing \/ Quit \/ Delete
  PROVE  Inv'
  <1> USE NoneAssumption DEF OrTerminate, Inv, TypeOK, PCs, Mains, ThreadInv,
          TokenInv, OneHandoff, TokenNotLost, OwnDataStable, SoleInv, Outstanding
  <1>1. CASE StopDetach
    BY <1>1 DEF StopDetach
  <1>2. CASE StopJoin
    BY <1>2 DEF StopJoin
  <1>3. CASE Join
    BY <1>3 DEF Join
  <1>4. CASE StopNothing
    BY <1>4 DEF StopNothing
  <1>5. CASE Quit
    BY <1>5 DEF Quit
  <1>6. CASE Delete
    BY <1>6 DEF Delete
  <1> QED
    BY <1>1, <1>2, <1>3, <1>4, <1>5, <1>6

\* A step of the handler preserves the inductive invariant.
LEMMA HandlerInv == ASSUME Inv, BeginHandler \/ EndHandler PROVE Inv'
  <1> USE NoneAssumption DEF Unlock, Inv, TypeOK, PCs, Mains, ThreadInv, TokenInv,
          OneHandoff, TokenNotLost, OwnDataStable, SoleInv, Outstanding
  <1>1. CASE BeginHandler
    BY <1>1 DEF BeginHandler
  <1>2. CASE EndHandler
    BY <1>2 DEF EndHandler
  <1> QED
    BY <1>1, <1>2

\* Every step preserves the inductive invariant.
LEMMA NextInv == Inv /\ [Next]_vars => Inv'
  <1> SUFFICES ASSUME Inv, [Next]_vars PROVE Inv'
    OBVIOUS
  <1>1. CASE UNCHANGED vars
    BY <1>1 DEF vars, Inv, TypeOK, ThreadInv, TokenInv, OneHandoff, TokenNotLost,
       OwnDataStable, SoleInv, Outstanding
  <1> QED
    BY <1>1, WorkerInv, StartInv, StopInv, HandlerInv DEF Next

\* The inductive invariant holds in every reachable state; the theorems below
\* are its consequences.
THEOREM Invariance == Spec => []Inv
  BY InitInv, NextInv, PTL DEF Spec

\* The variables of DispatcherThread have their types: in particular the number
\* of emits in the pipe never becomes negative.
THEOREM TypeCorrect == Spec => []TypeOK
  BY Invariance, PTL DEF Inv

\* OnThreadDispatch always unlocks the mutex that Dispatch locked for the
\* dispatch it handles, and there is at most one such dispatch.
THEOREM HandoffSafe == Spec => [](OneHandoff /\ TokenNotLost)
  BY Invariance, PTL DEF Inv, TokenInv

\* The data a thread published is not written again by this thread before the
\* handler has returned, however many stopped threads are still alive.
THEOREM PublishedDataStable == Spec => []OwnDataStable
  BY Invariance, PTL DEF Inv, TokenInv

\* Without a Start that overtakes a stopped thread, the handler and
\* m_LoopFunction exclude each other.
THEOREM Exclusion == Spec => []HandlerExcludesLoop
  <1>1. Inv => HandlerExcludesLoop
    BY DEF Inv, SoleInv, HandlerExcludesLoop, Live, Outstanding
  <1> QED
    BY <1>1, Invariance, PTL

\* std::terminate is never called.
THEOREM NeverTerminates == Spec => []NoTerminate
  BY Invariance, PTL DEF Inv, ThreadInv, NoTerminate

\* Only detached threads outlive the object.
THEOREM JoinedThreadsAreGone == Spec => []OnlyDetachedOutlive
  <1>1. Inv => OnlyDetachedOutlive
    BY NoneAssumption DEF Inv, TypeOK, ThreadInv, OnlyDetachedOutlive, Live
  <1> QED
    BY <1>1, Invariance, PTL

-----------------------------------------------------------------------------
(* Every step of DispatcherThread is a step of Handoff or leaves it alone. *)

\* The initial state implements the initial state of Handoff.
LEMMA RefineInit == Init => H!Init
  BY DEF Init, H!Init

\* A step of a worker is a step of its producer or a stutter.
LEMMA RefineWorker ==
  ASSUME Inv, NEW w \in Threads, Worker(w) PROVE [H!Next]_(H!vars)
  <1> USE NoneAssumption DEF Goto, ObjectAlive, Lock, Unlock, Inv, TypeOK, PCs, Mains,
          TokenInv, OneHandoff, TokenNotLost, Outstanding
  <1>1. CASE CheckRunning(w)
    BY <1>1 DEF CheckRunning, H!vars
  <1>2. CASE GateLock(w)
    <2>1. H!Acquire(w)
      BY <1>2 DEF GateLock, H!Acquire
    <2> QED
      BY <2>1 DEF H!Next
  <1>3. CASE GateUnlock(w)
    <2>1. H!BeginWriting(w)
      BY <1>3 DEF GateUnlock, H!BeginWriting
    <2> QED
      BY <2>1 DEF H!Next
  <1>4. CASE LoopFunction(w)
    <2>1. H!EndWriting(w)
      BY <1>4 DEF LoopFunction, H!EndWriting
    <2> QED
      BY <2>1 DEF H!Next
  <1>5. CASE DispatchLock(w)
    <2>1. H!Acquire(w)
      BY <1>5 DEF DispatchLock, H!Acquire
    <2> QED
      BY <2>1 DEF H!Next
  <1>6. CASE DispatchEmit(w)
    <2>1. H!Publish(w)
      BY <1>6 DEF DispatchEmit, H!Publish
    <2> QED
      BY <2>1 DEF H!Next
  <1>7. CASE LoopReturn(w)
    BY <1>7 DEF LoopReturn, H!vars
  <1> QED
    BY <1>1, <1>2, <1>3, <1>4, <1>5, <1>6, <1>7 DEF Worker

\* A step of the main thread is Consume, Release or a stutter.
LEMMA RefineMain ==
  ASSUME Inv,
         \/ Start \/ StopDetach \/ StopJoin \/ Join \/ StopNothing
         \/ BeginHandler \/ EndHandler \/ Quit \/ Delete
  PROVE  [H!Next]_(H!vars)
  <1> USE NoneAssumption DEF Unlock, OrTerminate, Inv, TypeOK, PCs, Mains
  <1>1. CASE Start
    BY <1>1 DEF Start, H!vars
  <1>2. CASE StopDetach
    BY <1>2 DEF StopDetach, H!vars
  <1>3. CASE StopJoin \/ Join \/ StopNothing
    BY <1>3 DEF StopJoin, Join, StopNothing, H!vars
  <1>4. CASE Quit \/ Delete
    BY <1>4 DEF Quit, Delete, H!vars
  <1>5. CASE BeginHandler
    <2>1. H!Consume
      BY <1>5 DEF BeginHandler, H!Consume
    <2> QED
      BY <2>1 DEF H!Next
  <1>6. CASE EndHandler
    <2>1. pipe = 0
      BY <1>6 DEF EndHandler, TokenInv, OneHandoff, Outstanding
    <2>2. H!Release
      BY <1>6, <2>1 DEF EndHandler, H!Release
    <2> QED
      BY <2>2 DEF H!Next
  <1> QED
    BY <1>1, <1>2, <1>3, <1>4, <1>5, <1>6

\* DispatcherThread implements Handoff.
THEOREM Refinement == Spec => HandoffSpec
  <1>1. Inv /\ [Next]_vars => [H!Next]_(H!vars)
    <2> SUFFICES ASSUME Inv, [Next]_vars PROVE [H!Next]_(H!vars)
      OBVIOUS
    <2>1. CASE UNCHANGED vars
      BY <2>1 DEF vars, H!vars
    <2> QED
      BY <2>1, RefineWorker, RefineMain DEF Next
  <1> QED
    BY <1>1, RefineInit, Invariance, PTL DEF Spec, HandoffSpec, H!Spec
=============================================================================
