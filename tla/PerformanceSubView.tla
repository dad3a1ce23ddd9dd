-------------------------- MODULE PerformanceSubView --------------------------
(***************************************************************************)
(* A view of the performance page (PerformanceRAMView and its siblings,    *)
(* src/ui/views/performance/): the loop of its DispatcherThread only       *)
(* sleeps, and the handler takes a sample and adds it to two graphs, the   *)
(* large one of the view, which is drawn while the view is shown, and the  *)
(* small one of its PerformanceButton.  The thread runs from the           *)
(* constructor of the view to its destructor.  Sleeps follow a clock that  *)
(* is never set, the graphs the time of day, which may be set back.        *)
(***************************************************************************)
EXTENDS Integers, SequencesExt

CONSTANTS Threads, None, \* those of DispatcherThread
          Sleep,         \* sleep_for: 500 ms
          Samples, NaN, MinValue, Limit, Timespan, \* those of GraphWidget
          Widths, Heights, Overshoots, Times, MaxPoints

ASSUME ThreadAssumption == None \notin Threads /\ Sleep \in Nat

ASSUME GraphAssumption == /\ (Samples \ {NaN}) \cup {MinValue, Limit, Timespan} \subseteq Int
                          /\ Times \subseteq Int
                          /\ 0 \in Times
                          /\ MaxPoints \in Nat

VARIABLES
  running, thread, mutex, pipe, pc, main, detached, revived, \* DispatcherThread
  clock, samples, setBack,                                   \* GraphWidget, both widgets
  viewPoints, viewMax, viewPlot, viewOvershot,               \* m_UsageGraph
  buttonPoints, buttonMax, buttonPlot, buttonOvershot,       \* m_Button->m_Graph
  asleep,   \* how long the thread still sleeps
  rested    \* the time since the last sample, up to Sleep

dispatcher == <<running, thread, mutex, pipe, pc, main, detached, revived>>
day == <<clock, samples, setBack>>
view == <<viewPoints, viewMax, viewPlot, viewOvershot>>
button == <<buttonPoints, buttonMax, buttonPlot, buttonOvershot>>
vars == <<dispatcher, day, view, button, asleep, rested>>

D == INSTANCE DispatcherThread

View == INSTANCE GraphWidget
          WITH points <- viewPoints, maxValue <- viewMax, plot <- viewPlot, overshot <- viewOvershot

Button == INSTANCE GraphWidget
            WITH points <- buttonPoints, maxValue <- buttonMax, plot <- buttonPlot,
                 overshot <- buttonOvershot

TypeOK == /\ D!TypeOK
          /\ View!TypeOK
          /\ Button!TypeOK
          /\ asleep \in 0..Sleep
          /\ rested \in 0..Sleep

Init == /\ D!Init
        /\ View!Init
        /\ Button!Init
        /\ asleep = 0
        /\ rested = Sleep

-----------------------------------------------------------------------------

\* The last statement of the constructor.
Start == /\ D!Start
         /\ UNCHANGED <<day, view, button, asleep, rested>>

\* m_LoopFunction begins to sleep ...
FallAsleep(w) == /\ D!GateUnlock(w)
                 /\ asleep' = Sleep
                 /\ UNCHANGED <<day, view, button, rested>>

\* ... and wakes up, no earlier than it wanted to, to call Dispatch.
WakeUp(w) == /\ asleep = 0
             /\ D!LoopFunction(w)
             /\ UNCHANGED <<day, view, button, asleep, rested>>

OtherSteps(w) == /\ \/ D!CheckRunning(w)
                    \/ D!GateLock(w)
                    \/ D!DispatchLock(w)
                    \/ D!DispatchEmit(w)
                    \/ D!LoopReturn(w)
                 /\ UNCHANGED <<day, view, button, asleep, rested>>

BeginHandler == /\ D!BeginHandler
                /\ UNCHANGED <<day, view, button, asleep, rested>>

\* The handler samples the counters and adds the sample to both graphs, as late
\* as it can: just before m_Mutex.unlock().
EndHandler ==
  /\ D!EndHandler
  /\ \E v \in Samples : View!AddPoint(v) /\ Button!AddPoint(v)
  /\ rested' = 0
  /\ UNCHANGED asleep

\* A graph is drawn when it is visible and the main loop gets to it.
Draw == /\ main = "idle"
        /\ \/ View!Draw /\ UNCHANGED button
           \/ Button!Draw /\ UNCHANGED view
        /\ UNCHANGED <<dispatcher, asleep, rested>>

Resize(w, h) ==
  /\ main = "idle"
  /\ \/ View!Resize(w, h) /\ UNCHANGED button
     \/ Button!Resize(w, h) /\ UNCHANGED view
  /\ UNCHANGED <<dispatcher, asleep, rested>>

\* The main loop ends, and ~PerformanceSubView calls Stop(false) and deletes
\* the DispatcherThread.
Destroy == /\ \/ running /\ D!Quit
              \/ main = "quit" /\ D!StopDetach
              \/ D!Delete
           /\ UNCHANGED <<day, view, button, asleep, rested>>

Tick == /\ clock + 1 \in Times
        /\ clock' = clock + 1
        /\ asleep' = Max({asleep - 1, 0})
        /\ rested' = Min({rested + 1, Sleep})
        /\ UNCHANGED <<dispatcher, samples, setBack, view, button>>

\* The time of day is set back, once.
SetBack(t) == /\ ~setBack
              /\ t < clock
              /\ clock' = t
              /\ setBack' = TRUE
              /\ UNCHANGED <<dispatcher, samples, view, button, asleep, rested>>

Next == \/ \E w \in Threads : FallAsleep(w) \/ WakeUp(w) \/ OtherSteps(w)
        \/ Start
        \/ BeginHandler
        \/ EndHandler
        \/ Draw
        \/ \E w \in Widths, h \in Heights : Resize(w, h)
        \/ Destroy
        \/ Tick
        \/ \E t \in Times : SetBack(t)

Spec == Init /\ [][Next]_vars

-----------------------------------------------------------------------------
(* Properties. *)

\* Whenever the handler runs, at least Sleep has passed since the sample before,
\* however long the main loop was busy and however many dispatches it has to
\* catch up with: the rates that are computed from the time since the last
\* sample do not divide by zero while the time of day is not set (ThreadLoop,
\* which waits for the handler before it calls m_LoopFunction again).
SamplesApart == main = "handling" => rested = Sleep

\* Neither graph loses a sample that it should show, whichever of them was
\* hidden, drawn or resized in the meantime (see GraphWidget).
HistoryKept == View!HistoryKept /\ Button!HistoryKept

\* A drawn graph holds nothing that it cannot show, except for what is not a
\* number (see GraphWidget).
DrawLeavesRange == [][View!DrawnInRange /\ Button!DrawnInRange]_<<viewPoints, buttonPoints>>
=============================================================================
