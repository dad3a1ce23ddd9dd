--------------------------- MODULE DispatcherThread ---------------------------
(***************************************************************************)
(* DispatcherThread (src/utils/DispatcherThread.cpp): a worker thread that *)
(* runs m_LoopFunction over and over, and a Glib::Dispatcher through which *)
(* it makes the GTK main loop run m_OnDispatchFunction.  m_Mutex is not a  *)
(* lock around data: the worker locks it in Dispatch, and the main loop    *)
(* unlocks it once m_OnDispatchFunction has returned, so it is a token     *)
(* that travels with the dispatch.                                         *)
(*                                                                         *)
(* Threads are identities of std::thread: a thread that has ended may be   *)
(* started again.  The life of the object runs from its constructor over   *)
(* the main loop to the destructor of the view that owns it, which calls   *)
(* Stop and deletes it.                                                    *)
(***************************************************************************)
EXTENDS Naturals, FiniteSets

CONSTANTS Threads,  \* identities of worker threads
          None      \* no thread: an unlocked mutex, a std::thread that is not joinable

ASSUME NoneAssumption == None \notin Threads

VARIABLES
  running,   \* m_Running
  thread,    \* m_Thread: the thread it manages, None when it is not joinable
  mutex,     \* m_Mutex: the thread that locked it
  pipe,      \* m_Dispatcher: emits the main loop has not received yet
  pc,        \* where each thread is; "none" when it does not exist
  main,      \* what the main thread is doing
  detached,  \* threads that live on after m_Thread.detach()
  revived    \* the last Start found an earlier thread still alive (history)

vars == <<running, thread, mutex, pipe, pc, main, detached, revived>>

PCs == {"none", "check", "gate", "gated", "loop", "dispatch", "emit", "posted"}
Mains == {"idle", "handling", "quit", "joining", "stopped", "deleted", "terminated"}

TypeOK == /\ running \in BOOLEAN
          /\ thread \in Threads \cup {None}
          /\ mutex \in Threads \cup {None}
          /\ pipe \in Nat
          /\ pc \in [Threads -> PCs]
          /\ main \in Mains
          /\ detached \subseteq Threads
          /\ revived \in BOOLEAN

Live == {w \in Threads : pc[w] # "none"}

Init == /\ running = FALSE
        /\ thread = None
        /\ mutex = None
        /\ pipe = 0
        /\ pc = [w \in Threads |-> "none"]
        /\ main = "idle"
        /\ detached = {}
        /\ revived = FALSE

-----------------------------------------------------------------------------
(* The worker. *)

\* The object exists: its members can be read and written.
ObjectAlive == main \notin {"deleted", "terminated"}

Goto(w, from, to) == /\ ObjectAlive
                     /\ pc[w] = from
                     /\ pc' = [pc EXCEPT ![w] = to]

Lock(w) == /\ mutex = None
           /\ mutex' = w

Unlock == mutex' = None

\* while(m_Running)
CheckRunning(w) ==
  /\ Goto(w, "check", IF running THEN "gate" ELSE "none")
  /\ detached' = IF running THEN detached ELSE detached \ {w}
  /\ UNCHANGED <<running, thread, mutex, pipe, main, revived>>

\* Mutant: the thread does not wait at the head of the loop.
GateLock_NoWait(w) ==
  /\ Goto(w, "gate", "gated")
  /\ mutex' = w
  /\ UNCHANGED <<running, thread, pipe, main, detached, revived>>

\* m_Mutex.lock() in ThreadLoop: waits until the previous dispatch was handled.
GateLock(w) ==
  /\ Goto(w, "gate", "gated")
  /\ Lock(w)
  /\ UNCHANGED <<running, thread, pipe, main, detached, revived>>

\* Mutant: the lock of the gate is kept.
GateUnlock_Kept(w) ==
  /\ Goto(w, "gated", "loop")
  /\ UNCHANGED <<running, thread, mutex, pipe, main, detached, revived>>

GateUnlock(w) ==
  /\ Goto(w, "gated", "loop")
  /\ Unlock
  /\ UNCHANGED <<running, thread, pipe, main, detached, revived>>

\* m_LoopFunction up to its call of Dispatch: it sleeps and gathers the data.
LoopFunction(w) ==
  /\ Goto(w, "loop", "dispatch")
  /\ UNCHANGED <<running, thread, mutex, pipe, main, detached, revived>>

\* Mutant: Dispatch emits without locking.
DispatchLock_Omitted(w) ==
  /\ Goto(w, "dispatch", "emit")
  /\ UNCHANGED <<running, thread, mutex, pipe, main, detached, revived>>

\* Dispatch: m_Mutex.lock() ...
DispatchLock(w) ==
  /\ Goto(w, "dispatch", "emit")
  /\ Lock(w)
  /\ UNCHANGED <<running, thread, pipe, main, detached, revived>>

\* ... and m_Dispatcher.emit().
DispatchEmit(w) ==
  /\ Goto(w, "emit", "posted")
  /\ pipe' = pipe + 1
  /\ UNCHANGED <<running, thread, mutex, main, detached, revived>>

\* m_LoopFunction returns; the thread goes back to the head of the loop.
LoopReturn(w) ==
  /\ Goto(w, "posted", "check")
  /\ UNCHANGED <<running, thread, mutex, pipe, main, detached, revived>>

Worker(w) == \/ CheckRunning(w)
             \/ GateLock(w)
             \/ GateUnlock(w)
             \/ LoopFunction(w)
             \/ DispatchLock(w)
             \/ DispatchEmit(w)
             \/ LoopReturn(w)

-----------------------------------------------------------------------------
(* The main thread. *)

\* Assigning to a std::thread that is still joinable, or destroying it, calls
\* std::terminate.
OrTerminate(next) == IF thread = None THEN next ELSE "terminated"

Start ==
  /\ main = "idle"
  /\ ~running
  /\ running' = TRUE
  /\ \E w \in Threads : /\ pc[w] = "none"
                        /\ pc' = [pc EXCEPT ![w] = "check"]
                        /\ thread' = w
  /\ main' = OrTerminate("idle")
  /\ revived' = (Live # {})
  /\ UNCHANGED <<mutex, pipe, detached>>

\* Mutant: Stop forgets m_Thread.detach().
StopDetach_Forgotten ==
  /\ main \in {"idle", "quit"}
  /\ running
  /\ running' = FALSE
  /\ main' = IF main = "idle" THEN "idle" ELSE "stopped"
  /\ UNCHANGED <<thread, mutex, pipe, pc, detached, revived>>

\* Stop(false): while the main loop runs (a view is hidden), or from a destructor.
StopDetach ==
  /\ main \in {"idle", "quit"}
  /\ running
  /\ running' = FALSE
  /\ detached' = detached \cup {thread}
  /\ thread' = None
  /\ main' = IF main = "idle" THEN "idle" ELSE "stopped"
  /\ UNCHANGED <<mutex, pipe, pc, revived>>

\* Stop(true), which only a destructor calls, up to m_Thread.join() ...
StopJoin ==
  /\ main = "quit"
  /\ running
  /\ running' = FALSE
  /\ main' = "joining"
  /\ UNCHANGED <<thread, mutex, pipe, pc, detached, revived>>

\* Mutant: m_Thread is given up without waiting for the thread.
Join_NoWait ==
  /\ main = "joining"
  /\ thread' = None
  /\ main' = "stopped"
  /\ UNCHANGED <<running, mutex, pipe, pc, detached, revived>>

\* ... which returns when the thread has ended.
Join ==
  /\ main = "joining"
  /\ pc[thread] = "none"
  /\ thread' = None
  /\ main' = "stopped"
  /\ UNCHANGED <<running, mutex, pipe, pc, detached, revived>>

\* Stop when m_Running is already false returns at once.
StopNothing ==
  /\ main = "quit"
  /\ ~running
  /\ main' = "stopped"
  /\ UNCHANGED <<running, thread, mutex, pipe, pc, detached, revived>>

\* Mutant: the mutex is unlocked before m_OnDispatchFunction is called.
BeginHandler_UnlockFirst ==
  /\ main = "idle"
  /\ pipe > 0
  /\ pipe' = pipe - 1
  /\ Unlock
  /\ main' = "handling"
  /\ UNCHANGED <<running, thread, pc, detached, revived>>

\* OnThreadDispatch: the main loop receives an emit and runs m_OnDispatchFunction ...
BeginHandler ==
  /\ main = "idle"
  /\ pipe > 0
  /\ pipe' = pipe - 1
  /\ main' = "handling"
  /\ UNCHANGED <<running, thread, mutex, pc, detached, revived>>

\* Mutant: m_OnDispatchFunction leaves early, past the unlock.
EndHandler_LeftEarly ==
  /\ main = "handling"
  /\ main' = "idle"
  /\ UNCHANGED <<running, thread, mutex, pipe, pc, detached, revived>>

\* ... and m_Mutex.unlock() gives the token back.
EndHandler ==
  /\ main = "handling"
  /\ Unlock
  /\ main' = "idle"
  /\ UNCHANGED <<running, thread, pipe, pc, detached, revived>>

\* The main loop returns (the window was closed): no emit is received any more.
Quit ==
  /\ main = "idle"
  /\ main' = "quit"
  /\ UNCHANGED <<running, thread, mutex, pipe, pc, detached, revived>>

\* SAFE_DELETE(m_UpdateThread), after Stop has returned.
Delete ==
  /\ main = "stopped"
  /\ main' = OrTerminate("deleted")
  /\ UNCHANGED <<running, thread, mutex, pipe, pc, detached, revived>>

Next == \/ \E w \in Threads : Worker(w)
        \/ Start
        \/ StopDetach
        \/ StopJoin
        \/ Join
        \/ StopNothing
        \/ BeginHandler
        \/ EndHandler
        \/ Quit
        \/ Delete

Spec == Init /\ [][Next]_vars

\* The scheduler runs every thread that can run; the main loop, while it runs,
\* receives what is in the pipe; nothing forces the user to show, hide or close.
Fairness == /\ \A w \in Threads : WF_vars(Worker(w))
            /\ WF_vars(BeginHandler)
            /\ WF_vars(EndHandler)
            /\ WF_vars(Join)

FairSpec == Spec /\ Fairness

-----------------------------------------------------------------------------
(* Properties. *)

\* A dispatch that is in the pipe or whose handler is running.
Outstanding == pipe > 0 \/ main = "handling"

\* m_Mutex.unlock() in OnThreadDispatch unlocks the lock that Dispatch took for
\* this very dispatch: there is never a second dispatch outstanding, the mutex
\* is locked meanwhile, and the thread that locked it is past its emit.
OneHandoff ==
  Outstanding => /\ pipe + (IF main = "handling" THEN 1 ELSE 0) = 1
                 /\ mutex # None
                 /\ pc[mutex] \notin {"gated", "emit"}

\* Without an outstanding dispatch the mutex is only held by a thread that is
\* about to unlock it or to emit: the token is never lost, so no thread waits
\* for a mutex that nobody will unlock as long as the main loop runs.
TokenNotLost ==
  mutex # None /\ ~Outstanding => pc[mutex] \in {"gated", "emit"}

\* While a dispatch is outstanding, the thread it came from does not write the
\* data again: it has not passed the gate of ThreadLoop.
OwnDataStable ==
  Outstanding => pc[mutex] \in {"posted", "check", "gate", "none"}

\* Unless Start overtook a thread that was stopped but had not ended yet, at
\* most one thread lives and no thread writes while the handler reads.
HandlerExcludesLoop ==
  ~revived => /\ \A v, w \in Live : v = w
              /\ main = "handling" => \A w \in Threads : pc[w] # "loop"

\* Neither Start nor the destruction of m_Thread meets a joinable std::thread,
\* so the program is not ended by std::terminate.
NoTerminate == main # "terminated"

\* When the object is deleted, a thread that still uses it was detached by
\* Stop(false): a thread that Stop(true) joined never outlives the object.
OnlyDetachedOutlive == main = "deleted" => Live \subseteq detached

\* The thread waits at the head of its loop for the handler of a dispatch.
AwaitsHandler == pipe > 0 /\ pc[thread] = "gate"

\* Stop(true) returns unless the thread already waits at the gate for a handler
\* when Stop is called: no main loop is left to run that handler, and then join
\* never returns.  The dispatch may have been emitted before the main loop ended or
\* after it.  Where Start overtook an earlier thread, a dispatch of either thread
\* may keep the other waiting as well.
JoinReturns ==
  /\ main = "joining" /\ ~AwaitsHandler ~> main # "joining" \/ (revived /\ pipe > 0)
  /\ main = "joining" /\ AwaitsHandler ~> [](main = "joining")

\* While the main loop runs and the thread is not stopped, the handler runs
\* again and again: no dispatch is lost and no thread waits for ever.
UpdatesKeepComing ==
  <>[](running /\ main \in {"idle", "handling"}) => []<>(main = "handling")

\* The promise of Handoff: what the token is used for at each moment.
H == INSTANCE Handoff WITH
       Producers <- Threads,
       Nobody <- None,
       owner <- mutex,
       writing <- {w \in Threads : pc[w] = "loop"},
       stage <- IF main = "handling" THEN "consuming"
                ELSE IF pipe > 0 THEN "posted"
                ELSE IF mutex # None THEN "held"
                ELSE "free"

HandoffSpec == H!Spec
=============================================================================
