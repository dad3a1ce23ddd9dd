----------------------- MODULE PerformanceSubViewProofs -----------------------
(***************************************************************************)
(* Samples of a view of the Performance page are a sleep apart, and both   *)
(* graphs keep what they should, for any sleep, samples and sizes.  The    *)
(* inductive invariant P!Inv of DispatcherThread holds of the view's       *)
(* thread, since each step of the view is a step of the thread or leaves   *)
(* it alone; what the view adds:                                           *)
(*   - OnceInv: the view starts one thread, which it never stops while the *)
(*     main loop runs, so none is ever overtaken;                          *)
(*   - RestInv: what a thread has slept of its sleep has passed since the  *)
(*     last sample;                                                        *)
(*   - GraphInv, of each of the two graphs: what it holds of the samples.  *)
(***************************************************************************)
EXTENDS PerformanceSubView, FiniteSetTheorems, TLAPS

P == INSTANCE DispatcherThreadProofs

\* Every step of the view is a step of its thread, or leaves that alone.
LEMMA ThreadSteps == [Next]_vars => [D!Next]_dispatcher
  <1> SUFFICES ASSUME [Next]_vars PROVE [D!Next]_dispatcher
    OBVIOUS
  <1> USE DEF dispatcher, D!Next
  <1>1. CASE UNCHANGED vars
    BY <1>1 DEF vars
  <1>2. CASE \E w \in Threads : FallAsleep(w) \/ WakeUp(w) \/ OtherSteps(w)
    BY <1>2 DEF FallAsleep, WakeUp, OtherSteps, D!Worker
  <1>3. CASE Start \/ BeginHandler \/ EndHandler \/ Destroy
    BY <1>3 DEF Start, BeginHandler, EndHandler, Destroy
  <1>4. CASE Draw \/ \E w \in Widths, h \in Heights : Resize(w, h)
    BY <1>4 DEF Draw, Resize
  <1>5. CASE Tick \/ \E t \in Times : SetBack(t)
    BY <1>5 DEF Tick, SetBack
  <1> QED
    BY <1>1, <1>2, <1>3, <1>4, <1>5 DEF Next

\* D and P name the same instance of DispatcherThread.
LEMMA SameThread == [D!Next]_dispatcher => [P!Next]_(P!vars)
  BY DEF dispatcher, P!vars, D!Next, P!Next, D!Worker, P!Worker, D!Goto, P!Goto,
     D!ObjectAlive, P!ObjectAlive, D!Lock, P!Lock, D!Unlock, P!Unlock,
     D!CheckRunning, P!CheckRunning, D!GateLock, P!GateLock, D!GateUnlock, P!GateUnlock,
     D!LoopFunction, P!LoopFunction, D!DispatchLock, P!DispatchLock,
     D!DispatchEmit, P!DispatchEmit, D!LoopReturn, P!LoopReturn, D!Start, P!Start,
     D!OrTerminate, P!OrTerminate, D!Live, P!Live, D!StopDetach, P!StopDetach,
     D!StopJoin, P!StopJoin, D!Join, P!Join, D!StopNothing, P!StopNothing,
     D!BeginHandler, P!BeginHandler, D!EndHandler, P!EndHandler, D!Quit, P!Quit,
     D!Delete, P!Delete

\* The inductive invariant of DispatcherThread holds of the view's thread.
LEMMA ThreadInvariance == Spec => []P!Inv
  <1>1. Init => P!Init
    BY DEF Init, D!Init, P!Init
  <1>2. [Next]_vars => [P!Next]_(P!vars)
    BY ThreadSteps, SameThread
  <1>3. P!Spec => []P!Inv
    BY P!Invariance, ThreadAssumption
  <1> QED
    BY <1>1, <1>2, <1>3, PTL DEF Spec, P!Spec

\* What P!Inv says of the view's thread.
LEMMA ThreadFacts ==
  ASSUME P!Inv
  PROVE  /\ D!TypeOK
         /\ \A w \in Threads : pc[w] # "none" => w \in detached \/ w = thread
         /\ ~revived => \A v, w \in Threads : pc[v] # "none" /\ pc[w] # "none" => v = w
         /\ (main = "handling" \/ pipe > 0) /\ ~revived =>
              \A w \in Threads : pc[w] \notin {"loop", "dispatch"}
         /\ main = "handling" \/ pipe > 0 => mutex # None /\ pc[mutex] \notin {"gated", "emit"}
         /\ main = "handling" => pipe = 0
         /\ \A w \in Threads : pc[w] \in {"gated", "emit"} => mutex = w
  BY DEF P!Inv, P!TypeOK, D!TypeOK, P!PCs, D!PCs, P!Mains, D!Mains, P!ThreadInv,
     P!SoleInv, P!TokenInv, P!OneHandoff, P!Outstanding

-----------------------------------------------------------------------------
(* The view starts one thread. *)

OnceInv ==
  /\ ~revived
  /\ main \in {"idle", "handling"} => detached = {}
  /\ main \in {"idle", "handling"} /\ ~running => \A w \in Threads : pc[w] = "none"

\* What a thread has slept has passed since the last sample, and a dispatch is not
\* on its way before the thread has slept all of it.
RestInv ==
  /\ asleep \in 0..Sleep
  /\ rested \in 0..Sleep
  /\ \A w \in Threads : /\ pc[w] = "loop" => asleep + rested >= Sleep
                        /\ pc[w] \in {"dispatch", "emit"} => rested = Sleep
  /\ main = "handling" \/ pipe > 0 => rested = Sleep

Inv == P!Inv /\ OnceInv /\ RestInv

\* Nothing sleeps or has been sampled at first.
LEMMA InitInv == Init => OnceInv /\ RestInv
  BY ThreadAssumption DEF Init, D!Init, OnceInv, RestInv

\* Max and Min of the clock's step.
LEMMA TickBounds ==
  ASSUME asleep \in 0..Sleep, rested \in 0..Sleep, Tick
  PROVE  /\ asleep' = IF asleep = 0 THEN 0 ELSE asleep - 1
         /\ rested' = IF rested = Sleep THEN Sleep ELSE rested + 1
  <1> USE ThreadAssumption
  <1>1. \A a, b \in Int : Max({a, b}) = IF a >= b THEN a ELSE b
    BY DEF Max
  <1>2. \A a, b \in Int : Min({a, b}) = IF a <= b THEN a ELSE b
    BY DEF Min
  <1>3. asleep' = Max({asleep - 1, 0}) /\ rested' = Min({rested + 1, Sleep})
    BY DEF Tick
  <1> QED
    BY <1>1, <1>2, <1>3

\* Every step preserves OnceInv and RestInv.
LEMMA StepInv == Inv /\ [Next]_vars => OnceInv' /\ RestInv'
  <1> SUFFICES ASSUME Inv, [Next]_vars PROVE OnceInv' /\ RestInv'
    OBVIOUS
  <1> USE ThreadAssumption DEF Inv
  <1>0. /\ D!TypeOK
        /\ \A w \in Threads : pc[w] # "none" => w \in detached \/ w = thread
        /\ \A v, w \in Threads : pc[v] # "none" /\ pc[w] # "none" => v = w
        /\ main = "handling" \/ pipe > 0 =>
             /\ \A w \in Threads : pc[w] \notin {"loop", "dispatch"}
             /\ mutex # None
             /\ pc[mutex] \notin {"gated", "emit"}
        /\ main = "handling" => pipe = 0
        /\ \A w \in Threads : pc[w] \in {"gated", "emit"} => mutex = w
    BY ThreadFacts DEF OnceInv
  <1>1. CASE UNCHANGED vars
    BY <1>1 DEF vars, dispatcher, OnceInv, RestInv
  <1>2. CASE \E w \in Threads : FallAsleep(w) \/ WakeUp(w) \/ OtherSteps(w)
    <2>1. PICK w \in Threads : FallAsleep(w) \/ WakeUp(w) \/ OtherSteps(w)
      BY <1>2
    <2>2. /\ UNCHANGED <<running, main, revived>>
          /\ pc[w] # "none"
          /\ \A v \in Threads : v # w => pc'[v] = pc[v] /\ pc[v] = "none"
          /\ main \in {"idle", "handling"} => running /\ detached = {}
      BY <2>1, <1>0 DEF FallAsleep, WakeUp, OtherSteps, D!TypeOK, D!Goto, D!CheckRunning, OnceInv,
         D!GateLock, D!GateUnlock, D!LoopFunction, D!DispatchLock, D!DispatchEmit, D!LoopReturn
    <2>3. detached' \subseteq detached
      BY <2>1 DEF FallAsleep, WakeUp, OtherSteps, D!CheckRunning,
         D!GateLock, D!GateUnlock, D!LoopFunction, D!DispatchLock, D!DispatchEmit, D!LoopReturn
    <2>4. OnceInv'
      BY <2>2, <2>3 DEF OnceInv
    <2>5. RestInv'
      <3> USE <1>0, <2>2 DEF RestInv, D!TypeOK, D!PCs, D!Goto
      <3>1. CASE FallAsleep(w)
        BY <3>1 DEF FallAsleep, D!GateUnlock
      <3>2. CASE WakeUp(w)
        BY <3>2 DEF WakeUp, D!LoopFunction
      <3>3. CASE OtherSteps(w)
        BY <3>3 DEF OtherSteps, D!CheckRunning, D!GateLock, D!DispatchLock,
           D!DispatchEmit, D!LoopReturn
      <3> QED
        BY <2>1, <3>1, <3>2, <3>3
    <2> QED
      BY <2>4, <2>5
  <1>3. CASE Start
    <2>1. PICK w \in Threads : pc[w] = "none" /\ pc' = [pc EXCEPT ![w] = "check"]
      BY <1>3 DEF Start, D!Start
    <2> QED
      BY <1>3, <1>0, <2>1 DEF Start, D!Start, D!OrTerminate, D!Live, D!TypeOK, OnceInv, RestInv
  <1>4. CASE BeginHandler
    BY <1>4, <1>0 DEF BeginHandler, D!BeginHandler, D!TypeOK, OnceInv, RestInv
  <1>5. CASE EndHandler
    <2>1. \A w \in Threads : pc[w] \notin {"loop", "dispatch", "emit"}
      BY <1>5, <1>0 DEF EndHandler, D!EndHandler
    <2> QED
      BY <1>5, <1>0, <2>1 DEF EndHandler, D!EndHandler, OnceInv, RestInv
  <1>6. CASE Destroy
    BY <1>6, <1>0 DEF Destroy, D!Quit, D!StopDetach, D!Delete, D!OrTerminate, OnceInv, RestInv
  <1>7. CASE Draw \/ (\E w \in Widths, h \in Heights : Resize(w, h)) \/ \E t \in Times : SetBack(t)
    <2>1. UNCHANGED <<dispatcher, asleep, rested>>
      BY <1>7 DEF Draw, Resize, SetBack
    <2> QED
      BY <2>1 DEF dispatcher, OnceInv, RestInv
  <1>8. CASE Tick
    <2>1. /\ asleep' = IF asleep = 0 THEN 0 ELSE asleep - 1
          /\ rested' = IF rested = Sleep THEN Sleep ELSE rested + 1
      BY <1>8, TickBounds DEF RestInv
    <2>2. UNCHANGED dispatcher
      BY <1>8 DEF Tick
    <2> QED
      BY <2>1, <2>2 DEF dispatcher, OnceInv, RestInv
  <1> QED
    BY <1>1, <1>2, <1>3, <1>4, <1>5, <1>6, <1>7, <1>8 DEF Next

LEMMA Invariance == Spec => []Inv
  <1>1. Init => OnceInv /\ RestInv
    BY InitInv
  <1>2. (P!Inv /\ OnceInv /\ RestInv) /\ [Next]_vars => (OnceInv /\ RestInv)'
    BY StepInv DEF Inv
  <1> QED
    BY <1>1, <1>2, ThreadInvariance, PTL DEF Spec, Inv

-----------------------------------------------------------------------------

\* Whenever the handler of a view samples its counters, at least a sleep has passed
\* since the sample before: what DispatcherThread promises (the thread waits for
\* its dispatch to be handled) is enough, whatever the main loop does.
THEOREM SamplesAreApart == Spec => []SamplesApart
  <1>1. Inv => SamplesApart
    BY DEF Inv, RestInv, SamplesApart
  <1> QED
    BY <1>1, Invariance, PTL

\* The thread that a view starts in its constructor is the only one it ever has, so
\* no Start overtakes a thread that was stopped, as on the Processes page.
THEOREM OneThread == Spec => []OnceInv
  BY Invariance, PTL DEF Inv

-----------------------------------------------------------------------------
(* A graph: what it holds of the samples.  pts, top and over are the points, *)
(* the axis and overshot of either graph, smp, now and back the samples, the *)
(* time of day and setBack of both.                                          *)

GraphType(pts, top, over, smp, now, back) ==
  /\ pts \in Seq([val : Samples, time : Times])
  /\ Len(pts) <= MaxPoints
  /\ top \in (Samples \ {NaN}) \cup {Limit}
  /\ smp \subseteq [val : Samples, time : Times]
  /\ now \in Times
  /\ over \in BOOLEAN
  /\ back \in BOOLEAN

\* The axis reaches all samples, and a graph has no points but samples.
AxisInv(pts, top, smp) ==
  /\ \A p \in smp : p.val # NaN => p.val <= top
  /\ \A i \in DOMAIN pts : pts[i] \in smp

\* Unless the clock was set back, the points are in the order of their times, and
\* none is of the future.
TimeInv(pts, smp, now, back) ==
  ~back => /\ \A p \in smp : p.time <= now
           /\ \A i, j \in DOMAIN pts : i < j => pts[i].time <= pts[j].time

\* A number that is to be seen, however long the newest sample is waited for.
Wanted(p, smp) == /\ p.val # NaN /\ p.val >= MinValue
                  /\ \A q \in smp : q.time - p.time <= Timespan

KeptInv(pts, over, smp, back) ==
  ~back /\ ~over => \A p \in smp : Wanted(p, smp) => \E i \in DOMAIN pts : pts[i] = p

GraphInv(pts, top, over, smp, now, back) ==
  /\ GraphType(pts, top, over, smp, now, back)
  /\ AxisInv(pts, top, smp)
  /\ TimeInv(pts, smp, now, back)
  /\ KeptInv(pts, over, smp, back)

\* A graph without samples.
LEMMA EmptyGraph ==
  ASSUME NEW now \in Times
  PROVE  GraphInv(<<>>, Limit, FALSE, {}, now, FALSE)
  BY GraphAssumption DEF GraphInv, GraphType, AxisInv, TimeInv, KeptInv

\* Numbers and times are numbers.
LEMMA GraphNumbers ==
  ASSUME NEW pts, NEW top, NEW over, NEW smp, NEW now, NEW back,
         GraphType(pts, top, over, smp, now, back)
  PROVE  /\ top \in Int /\ now \in Int
         /\ \A p \in smp : p.time \in Int /\ (p.val # NaN => p.val \in Int)
  BY GraphAssumption DEF GraphType

\* A sample is added to a graph.
LEMMA AddToGraph ==
  ASSUME NEW pts, NEW top, NEW over, NEW smp, NEW now, NEW back,
         GraphInv(pts, top, over, smp, now, back), Len(pts) < MaxPoints,
         NEW v \in Samples, NEW new, new = [val |-> v, time |-> now]
  PROVE  GraphInv(Append(pts, new), IF v # NaN /\ v > top THEN v ELSE top, over,
                  smp \cup {new}, now, back)
<1> DEFINE top2 == IF v # NaN /\ v > top THEN v ELSE top
           pts2 == Append(pts, new)
           smp2 == smp \cup {new}
<1>1. GraphType(pts, top, over, smp, now, back)
  BY DEF GraphInv
<1>2. /\ top \in Int /\ now \in Int
      /\ \A p \in smp : p.time \in Int /\ (p.val # NaN => p.val \in Int)
  BY <1>1, GraphNumbers
<1>3. v # NaN => v \in Int
  BY GraphAssumption
<1>4. new \in [val : Samples, time : Times] /\ new.val = v /\ new.time = now
  BY <1>1 DEF GraphType
<1>5. /\ pts2 \in Seq([val : Samples, time : Times])
      /\ Len(pts) \in Nat
      /\ Len(pts2) = Len(pts) + 1
      /\ DOMAIN pts2 = DOMAIN pts \cup {Len(pts) + 1}
      /\ pts2[Len(pts) + 1] = new
      /\ \A i \in DOMAIN pts : pts2[i] = pts[i] /\ i \in Int /\ i < Len(pts) + 1
  <2>1. pts \in Seq([val : Samples, time : Times])
    BY <1>1 DEF GraphType
  <2> QED
    BY <1>4, <2>1
<1>6. top2 \in (Samples \ {NaN}) \cup {Limit} /\ top2 \in Int /\ top2 >= top
      /\ (v # NaN => v <= top2)
  BY <1>1, <1>2, <1>3 DEF GraphType
<1> HIDE DEF top2, pts2
<1>7. GraphType(pts2, top2, over, smp2, now, back)
  <2>1. Len(pts2) <= MaxPoints
    BY <1>5, GraphAssumption
  <2> QED
    BY <1>1, <1>4, <1>5, <1>6, <2>1 DEF GraphType
<1>8. AxisInv(pts2, top2, smp2)
  <2>1. \A p \in smp : p.val # NaN => p.val <= top2
    BY <1>2, <1>6 DEF GraphInv, AxisInv
  <2>2. \A i \in DOMAIN pts : pts2[i] \in smp
    BY <1>5 DEF GraphInv, AxisInv
  <2> QED
    BY <1>4, <1>5, <1>6, <2>1, <2>2 DEF AxisInv
<1>9. TimeInv(pts2, smp2, now, back)
  <2> SUFFICES ASSUME ~back PROVE TimeInv(pts2, smp2, now, back)
    BY DEF TimeInv
  <2>1. \A p \in smp2 : p.time <= now
    BY <1>2, <1>4 DEF GraphInv, TimeInv
  <2>2. \A i \in DOMAIN pts : pts2[i].time <= now
    BY <1>5 DEF GraphInv, TimeInv, AxisInv
  <2>3. ASSUME NEW i \in DOMAIN pts2, NEW j \in DOMAIN pts2, i < j
        PROVE  pts2[i].time <= pts2[j].time
    <3>1. i \in DOMAIN pts
      BY <1>5, <2>3
    <3>2. CASE j \in DOMAIN pts
      BY <1>5, <2>3, <3>1, <3>2 DEF GraphInv, TimeInv
    <3>3. CASE j = Len(pts) + 1
      BY <1>4, <1>5, <2>2, <3>1, <3>3
    <3> QED
      BY <1>5, <3>2, <3>3
  <2> QED
    BY <2>1, <2>3 DEF TimeInv
<1>10. KeptInv(pts2, over, smp2, back)
  <2> SUFFICES ASSUME ~back, ~over, NEW p \in smp2, Wanted(p, smp2)
               PROVE  \E i \in DOMAIN pts2 : pts2[i] = p
    BY DEF KeptInv
  <2>1. CASE p = new
    BY <1>5, <2>1
  <2>2. CASE p \in smp
    <3>1. Wanted(p, smp)
      BY DEF Wanted
    <3>2. PICK i \in DOMAIN pts : pts[i] = p
      BY <2>2, <3>1 DEF GraphInv, KeptInv
    <3> QED
      BY <1>5, <3>2
  <2> QED
    BY <2>1, <2>2
<1> QED
  BY <1>7, <1>8, <1>9, <1>10 DEF GraphInv, top2, pts2

\* left are the points at the indices in kept, in their order.
Left(left, pts, kept) ==
  /\ Len(left) <= Len(pts)
  /\ \A i \in kept : \E n \in DOMAIN left : left[n] = pts[i]
  /\ \A n \in DOMAIN left : \E i \in kept : left[n] = pts[i]
  /\ \A m, n \in DOMAIN left :
       m < n => \E i, j \in kept : i < j /\ left[m] = pts[i] /\ left[n] = pts[j]

\* What Keep leaves.
LEMMA KeptPoints ==
  ASSUME NEW S, NEW pts \in Seq(S), NEW kept \in SUBSET DOMAIN pts,
         NEW order \in [1..Cardinality(kept) -> kept],
         \A m, n \in DOMAIN order : m # n => order[m] # order[n],
         \A m, n \in DOMAIN order : m < n => order[m] < order[n],
         NEW left, left = [n \in DOMAIN order |-> pts[order[n]]]
  PROVE  left \in Seq(S) /\ Left(left, pts, kept)
<1>1. DOMAIN pts = 1..Len(pts) /\ Len(pts) \in Nat /\ \A i \in DOMAIN pts : pts[i] \in S
  OBVIOUS
<1>2. /\ IsFiniteSet(kept) /\ Cardinality(kept) \in Nat
      /\ Cardinality(kept) <= Len(pts)
  <2>1. IsFiniteSet(DOMAIN pts) /\ Cardinality(DOMAIN pts) = Len(pts)
    BY <1>1, FS_Interval
  <2>2. IsFiniteSet(kept) /\ Cardinality(kept) <= Cardinality(DOMAIN pts)
    BY <2>1, FS_Subset
  <2> QED
    BY <2>1, <2>2, FS_CardinalityType
<1>3. left \in Seq(S) /\ Len(left) = Cardinality(kept) /\ DOMAIN left = DOMAIN order
  <2>1. left \in [1..Cardinality(kept) -> S]
    BY <1>1
  <2> QED
    BY <1>2, <2>1
<1>4. order \in Surjection(1..Cardinality(kept), kept)
  <2>1. order \in Injection(1..Cardinality(kept), kept)
    BY DEF Injection, IsInjective
  <2>2. Cardinality(1..Cardinality(kept)) = Cardinality(kept)
    BY <1>2, FS_Interval
  <2> QED
    BY <1>2, <2>1, <2>2, FS_Injection
<1>5. ASSUME NEW i \in kept PROVE \E n \in DOMAIN left : left[n] = pts[i]
  <2>1. PICK n \in 1..Cardinality(kept) : order[n] = i
    BY <1>4 DEF Surjection
  <2> QED
    BY <1>3, <2>1
<1>6. Len(left) <= Len(pts)
  BY <1>2, <1>3
<1>7. \A n \in DOMAIN left : left[n] = pts[order[n]] /\ order[n] \in kept
  BY <1>3
<1>8. ASSUME NEW m \in DOMAIN left, NEW n \in DOMAIN left, m < n
      PROVE  \E i, j \in kept : i < j /\ left[m] = pts[i] /\ left[n] = pts[j]
  <2>1. order[m] < order[n]
    BY <1>3, <1>8
  <2> QED
    BY <1>7, <2>1
<1> QED
  BY <1>3, <1>5, <1>6, <1>7, <1>8 DEF Left

\* A point in the range of a graph whose newest point is at start.
InRange(p, start, top) == /\ p.val # NaN
                          /\ p.val \in MinValue..top
                          /\ start - p.time \in 0..Timespan

\* Drawing leaves left of pts, which is what is in range, unless it overshoots.
Drawn(pts, top, over, left, over2) ==
  /\ pts # <<>>
  /\ left \in Seq([val : Samples, time : Times])
  /\ over2 \in BOOLEAN
  /\ over = TRUE => over2 = TRUE
  /\ \E kept \in SUBSET DOMAIN pts :
       /\ Left(left, pts, kept)
       /\ \A i \in DOMAIN pts \ kept : InRange(pts[i], pts[Len(pts)].time, top) => over2 = TRUE

\* A graph that is drawn keeps what is wanted.
LEMMA DrawOfGraph ==
  ASSUME NEW pts, NEW top, NEW over, NEW smp, NEW now, NEW back,
         GraphInv(pts, top, over, smp, now, back),
         NEW left, NEW over2, Drawn(pts, top, over, left, over2)
  PROVE  GraphInv(left, top, over2, smp, now, back)
<1>1. GraphType(pts, top, over, smp, now, back)
  BY DEF GraphInv
<1>2. /\ top \in Int /\ now \in Int
      /\ \A p \in smp : p.time \in Int /\ (p.val # NaN => p.val \in Int)
  BY <1>1, GraphNumbers
<1>3. pts \in Seq([val : Samples, time : Times])
  BY <1>1 DEF GraphType
<1>4. PICK kept \in SUBSET DOMAIN pts :
        /\ Left(left, pts, kept)
        /\ \A i \in DOMAIN pts \ kept : InRange(pts[i], pts[Len(pts)].time, top) => over2 = TRUE
  BY DEF Drawn
<1>5. /\ pts # <<>> /\ left \in Seq([val : Samples, time : Times])
       /\ over2 \in BOOLEAN /\ (over = TRUE => over2 = TRUE)
  BY DEF Drawn
<1>6. /\ \A i \in kept : \E n \in DOMAIN left : left[n] = pts[i]
      /\ \A n \in DOMAIN left : \E i \in kept : left[n] = pts[i]
      /\ \A m, n \in DOMAIN left :
           m < n => \E i, j \in kept : i < j /\ left[m] = pts[i] /\ left[n] = pts[j]
  BY <1>4 DEF Left
<1>7. GraphType(left, top, over2, smp, now, back)
  <2>1. Len(left) <= MaxPoints
    <3>1. Len(left) <= Len(pts) /\ Len(pts) <= MaxPoints
      BY <1>1, <1>4 DEF GraphType, Left
    <3>2. Len(left) \in Int /\ Len(pts) \in Int /\ MaxPoints \in Int
      BY <1>3, <1>5, GraphAssumption
    <3> QED
      BY <3>1, <3>2
  <2> QED
    BY <1>1, <1>5, <2>1 DEF GraphType
<1>8. AxisInv(left, top, smp)
  BY <1>6, <1>5 DEF GraphInv, AxisInv
<1>9. TimeInv(left, smp, now, back)
  BY <1>6, <1>5 DEF GraphInv, TimeInv
<1>10. KeptInv(left, over2, smp, back)
  <2> SUFFICES ASSUME ~back, ~over2, NEW p \in smp, Wanted(p, smp)
               PROVE  \E n \in DOMAIN left : left[n] = p
    BY DEF KeptInv
  <2>1. PICK i \in DOMAIN pts : pts[i] = p
    <3>1. ~over
      BY <1>1, <1>5 DEF GraphType
    <3> QED
      BY <3>1 DEF GraphInv, KeptInv
  <2>2. Len(pts) \in DOMAIN pts /\ i \in Int /\ Len(pts) \in Int /\ i <= Len(pts)
    BY <1>3, <1>5
  <2>3. pts[Len(pts)] \in smp
    BY <2>2 DEF GraphInv, AxisInv
  <2>4. p.time <= pts[Len(pts)].time
    <3>1. CASE i = Len(pts)
      BY <1>2, <2>1, <3>1
    <3>2. CASE i < Len(pts)
      BY <2>1, <2>2, <3>2 DEF GraphInv, TimeInv
    <3> QED
      BY <2>2, <3>1, <3>2
  <2>5. pts[Len(pts)].time - p.time <= Timespan
    BY <2>3 DEF Wanted
  <2>6. p.val \in Int /\ p.val >= MinValue /\ p.val <= top /\ p.val # NaN
    BY <1>2 DEF Wanted, GraphInv, AxisInv
  <2>7. InRange(p, pts[Len(pts)].time, top)
    <3>1. pts[Len(pts)].time \in Int /\ p.time \in Int /\ {MinValue, Timespan} \subseteq Int
      BY <1>2, <2>3, GraphAssumption
    <3>2. pts[Len(pts)].time - p.time \in 0..Timespan
      BY <2>4, <2>5, <3>1
    <3>3. p.val \in MinValue..top
      BY <1>2, <2>6, <3>1
    <3> QED
      BY <2>6, <3>2, <3>3 DEF InRange
  <2>8. i \in kept
    BY <1>4, <2>1, <2>7
  <2> QED
    BY <1>6, <2>1, <2>8
<1> QED
  BY <1>7, <1>8, <1>9, <1>10 DEF GraphInv

\* The time goes on or the clock is set back.
LEMMA GraphTime ==
  ASSUME NEW pts, NEW top, NEW over, NEW smp, NEW now, NEW back,
         GraphInv(pts, top, over, smp, now, back),
         NEW now2 \in Times, NEW back2 \in BOOLEAN, back => back2, now2 >= now \/ back2
  PROVE  GraphInv(pts, top, over, smp, now2, back2)
<1>1. now2 \in Int /\ now \in Int /\ \A p \in smp : p.time \in Int
  BY GraphNumbers, GraphAssumption DEF GraphInv
<1>2. TimeInv(pts, smp, now2, back2)
  BY <1>1 DEF GraphInv, TimeInv
<1> QED
  BY <1>2 DEF GraphInv, GraphType, KeptInv

-----------------------------------------------------------------------------
(* The graph of the view. *)

ViewInv == GraphInv(viewPoints, viewMax, viewOvershot, samples, clock, setBack)

LEMMA ViewInit == Init => ViewInv
  BY EmptyGraph, GraphAssumption DEF Init, View!Init, ViewInv

LEMMA ViewAddsPoint ==
  ASSUME ViewInv, NEW v \in Samples, View!AddPoint(v)
  PROVE  ViewInv'
<1>1. PICK new : new = [val |-> v, time |-> clock]
  OBVIOUS
<1>2. /\ Len(viewPoints) < MaxPoints
      /\ viewMax' = IF v # NaN /\ v > viewMax THEN v ELSE viewMax
      /\ viewPoints' = Append(viewPoints, new)
      /\ samples' = samples \cup {new}
      /\ UNCHANGED <<viewOvershot, clock, setBack>>
  BY <1>1 DEF View!AddPoint, View!Bounded
<1>3. GraphInv(Append(viewPoints, new), IF v # NaN /\ v > viewMax THEN v ELSE viewMax,
               viewOvershot, samples \cup {new}, clock, setBack)
  BY <1>1, <1>2, AddToGraph DEF ViewInv
<1> QED
  BY <1>2, <1>3 DEF ViewInv

LEMMA ViewDraws ==
  ASSUME ViewInv, View!Draw
  PROVE  ViewInv' /\ View!DrawnInRange
<1> DEFINE start == viewPoints[Len(viewPoints)].time
           Removed(p) == ~View!CoordsValid(p, start) /\ p.val # NaN
<1>1. PICK kept : kept = {i \in DOMAIN viewPoints : ~Removed(viewPoints[i])}
  OBVIOUS
<1>2. /\ viewPoints # <<>>
      /\ View!Keep(kept)
      /\ viewOvershot' = (viewOvershot
                           \/ \E p \in View!ToSet(viewPoints) : View!InRange(p, start) /\ Removed(p))
      /\ UNCHANGED <<viewMax, clock, viewPlot, samples, setBack>>
  BY <1>1 DEF View!Draw, View!Last
<1>3. PICK order \in View!SetToSeqs(kept) :
        /\ \A m, n \in DOMAIN order : m < n => order[m] < order[n]
        /\ viewPoints' = [n \in DOMAIN order |-> viewPoints[order[n]]]
  BY <1>2 DEF View!Keep
<1>4. View!Cardinality(kept) = Cardinality(kept)
  BY DEF View!Cardinality, Cardinality
<1>5. /\ order \in [1..Cardinality(kept) -> kept]
      /\ \A m, n \in DOMAIN order : m # n => order[m] # order[n]
  BY <1>4 DEF View!SetToSeqs
<1>6. viewPoints \in Seq([val : Samples, time : Times]) /\ viewOvershot \in BOOLEAN
  BY DEF ViewInv, GraphInv, GraphType
<1>7. PICK S : S = [val : Samples, time : Times]
  OBVIOUS
<1>8. viewPoints \in Seq(S) /\ kept \in SUBSET DOMAIN viewPoints
  BY <1>1, <1>6, <1>7
<1>9. viewPoints' \in Seq(S) /\ Left(viewPoints', viewPoints, kept)
  BY <1>3, <1>5, <1>8, KeptPoints
<1>10. \A p : View!InRange(p, start) <=> InRange(p, start, viewMax)
  BY DEF View!InRange, InRange
<1>11. ASSUME NEW i \in DOMAIN viewPoints \ kept, InRange(viewPoints[i], start, viewMax)
       PROVE  viewOvershot'
  <2>1. viewPoints[i] \in View!ToSet(viewPoints)
    BY DEF View!ToSet
  <2>2. Removed(viewPoints[i])
    BY <1>1
  <2> QED
    BY <1>2, <1>10, <1>11, <2>1, <2>2
<1>12. viewOvershot' \in BOOLEAN /\ (viewOvershot => viewOvershot')
  BY <1>2, <1>6
<1> HIDE DEF Removed
<1>13. GraphInv(viewPoints', viewMax, viewOvershot', samples, clock, setBack)
  <2>1. PICK left, over2 : left = viewPoints' /\ over2 = viewOvershot'
    OBVIOUS
  <2>2. left \in Seq([val : Samples, time : Times]) /\ Left(left, viewPoints, kept)
    BY <1>7, <1>9, <2>1
  <2>3. over2 \in BOOLEAN /\ (viewOvershot = TRUE => over2 = TRUE)
    BY <1>12, <2>1
  <2>4. \A i \in DOMAIN viewPoints \ kept : InRange(viewPoints[i], start, viewMax) => over2 = TRUE
    BY <1>11, <2>1
  <2>5. Drawn(viewPoints, viewMax, viewOvershot, left, over2)
    BY <1>2, <1>8, <2>2, <2>3, <2>4 DEF Drawn
  <2>6. GraphInv(left, viewMax, over2, samples, clock, setBack)
    BY <2>5, DrawOfGraph DEF ViewInv
  <2> QED
    BY <2>1, <2>6
<1>14. ASSUME NEW p \in View!ToSet(viewPoints'), p.val # NaN
       PROVE  View!InRange(p, View!Last(viewPoints).time)
  <2>1. PICK n \in DOMAIN viewPoints' : p = viewPoints'[n]
    BY <1>14 DEF View!ToSet
  <2>2. PICK i \in kept : p = viewPoints[i]
    BY <1>9, <2>1 DEF Left
  <2> QED
    BY <1>1, <1>14, <2>2 DEF Removed, View!CoordsValid, View!Last
<1> QED
  BY <1>2, <1>13, <1>14 DEF ViewInv, View!DrawnInRange


-----------------------------------------------------------------------------
(* The graph of its button. *)

ButtonInv == GraphInv(buttonPoints, buttonMax, buttonOvershot, samples, clock, setBack)

LEMMA ButtonInit == Init => ButtonInv
  BY EmptyGraph, GraphAssumption DEF Init, Button!Init, ButtonInv

LEMMA ButtonAddsPoint ==
  ASSUME ButtonInv, NEW v \in Samples, Button!AddPoint(v)
  PROVE  ButtonInv'
<1>1. PICK new : new = [val |-> v, time |-> clock]
  OBVIOUS
<1>2. /\ Len(buttonPoints) < MaxPoints
      /\ buttonMax' = IF v # NaN /\ v > buttonMax THEN v ELSE buttonMax
      /\ buttonPoints' = Append(buttonPoints, new)
      /\ samples' = samples \cup {new}
      /\ UNCHANGED <<buttonOvershot, clock, setBack>>
  BY <1>1 DEF Button!AddPoint, Button!Bounded
<1>3. GraphInv(Append(buttonPoints, new), IF v # NaN /\ v > buttonMax THEN v ELSE buttonMax,
               buttonOvershot, samples \cup {new}, clock, setBack)
  BY <1>1, <1>2, AddToGraph DEF ButtonInv
<1> QED
  BY <1>2, <1>3 DEF ButtonInv

LEMMA ButtonDraws ==
  ASSUME ButtonInv, Button!Draw
  PROVE  ButtonInv' /\ Button!DrawnInRange
<1> DEFINE start == buttonPoints[Len(buttonPoints)].time
           Removed(p) == ~Button!CoordsValid(p, start) /\ p.val # NaN
<1>1. PICK kept : kept = {i \in DOMAIN buttonPoints : ~Removed(buttonPoints[i])}
  OBVIOUS
<1>2. /\ buttonPoints # <<>>
      /\ Button!Keep(kept)
      /\ buttonOvershot' = (buttonOvershot
                           \/ \E p \in Button!ToSet(buttonPoints) : Button!InRange(p, start) /\ Removed(p))
      /\ UNCHANGED <<buttonMax, clock, buttonPlot, samples, setBack>>
  BY <1>1 DEF Button!Draw, Button!Last
<1>3. PICK order \in Button!SetToSeqs(kept) :
        /\ \A m, n \in DOMAIN order : m < n => order[m] < order[n]
        /\ buttonPoints' = [n \in DOMAIN order |-> buttonPoints[order[n]]]
  BY <1>2 DEF Button!Keep
<1>4. Button!Cardinality(kept) = Cardinality(kept)
  BY DEF Button!Cardinality, Cardinality
<1>5. /\ order \in [1..Cardinality(kept) -> kept]
      /\ \A m, n \in DOMAIN order : m # n => order[m] # order[n]
  BY <1>4 DEF Button!SetToSeqs
<1>6. buttonPoints \in Seq([val : Samples, time : Times]) /\ buttonOvershot \in BOOLEAN
  BY DEF ButtonInv, GraphInv, GraphType
<1>7. PICK S : S = [val : Samples, time : Times]
  OBVIOUS
<1>8. buttonPoints \in Seq(S) /\ kept \in SUBSET DOMAIN buttonPoints
  BY <1>1, <1>6, <1>7
<1>9. buttonPoints' \in Seq(S) /\ Left(buttonPoints', buttonPoints, kept)
  BY <1>3, <1>5, <1>8, KeptPoints
<1>10. \A p : Button!InRange(p, start) <=> InRange(p, start, buttonMax)
  BY DEF Button!InRange, InRange
<1>11. ASSUME NEW i \in DOMAIN buttonPoints \ kept, InRange(buttonPoints[i], start, buttonMax)
       PROVE  buttonOvershot'
  <2>1. buttonPoints[i] \in Button!ToSet(buttonPoints)
    BY DEF Button!ToSet
  <2>2. Removed(buttonPoints[i])
    BY <1>1
  <2> QED
    BY <1>2, <1>10, <1>11, <2>1, <2>2
<1>12. buttonOvershot' \in BOOLEAN /\ (buttonOvershot => buttonOvershot')
  BY <1>2, <1>6
<1> HIDE DEF Removed
<1>13. GraphInv(buttonPoints', buttonMax, buttonOvershot', samples, clock, setBack)
  <2>1. PICK left, over2 : left = buttonPoints' /\ over2 = buttonOvershot'
    OBVIOUS
  <2>2. left \in Seq([val : Samples, time : Times]) /\ Left(left, buttonPoints, kept)
    BY <1>7, <1>9, <2>1
  <2>3. over2 \in BOOLEAN /\ (buttonOvershot = TRUE => over2 = TRUE)
    BY <1>12, <2>1
  <2>4. \A i \in DOMAIN buttonPoints \ kept : InRange(buttonPoints[i], start, buttonMax) => over2 = TRUE
    BY <1>11, <2>1
  <2>5. Drawn(buttonPoints, buttonMax, buttonOvershot, left, over2)
    BY <1>2, <1>8, <2>2, <2>3, <2>4 DEF Drawn
  <2>6. GraphInv(left, buttonMax, over2, samples, clock, setBack)
    BY <2>5, DrawOfGraph DEF ButtonInv
  <2> QED
    BY <2>1, <2>6
<1>14. ASSUME NEW p \in Button!ToSet(buttonPoints'), p.val # NaN
       PROVE  Button!InRange(p, Button!Last(buttonPoints).time)
  <2>1. PICK n \in DOMAIN buttonPoints' : p = buttonPoints'[n]
    BY <1>14 DEF Button!ToSet
  <2>2. PICK i \in kept : p = buttonPoints[i]
    BY <1>9, <2>1 DEF Left
  <2> QED
    BY <1>1, <1>14, <2>2 DEF Removed, Button!CoordsValid, Button!Last
<1> QED
  BY <1>2, <1>13, <1>14 DEF ButtonInv, Button!DrawnInRange

-----------------------------------------------------------------------------
(* Both graphs. *)

PlotsInv == /\ viewPlot \in [width : Widths, height : Heights]
            /\ buttonPlot \in [width : Widths, height : Heights]

GraphsInv == ViewInv /\ ButtonInv /\ PlotsInv

\* A step that may touch graphs: it leaves the points alone or adds one to both, or
\* it draws one of them.
GraphStep == \/ UNCHANGED <<samples, view, button>> /\ (Tick \/ UNCHANGED day)
             \/ \E t \in Times : SetBack(t)
             \/ EndHandler
             \/ Draw
             \/ \E w \in Widths, h \in Heights : Resize(w, h)

LEMMA StepsOfGraphs == [Next]_vars => GraphStep
<1> SUFFICES ASSUME [Next]_vars PROVE GraphStep
  OBVIOUS
<1> USE DEF GraphStep
<1>1. CASE UNCHANGED vars
  BY <1>1 DEF vars, day
<1>2. CASE \E w \in Threads : FallAsleep(w) \/ WakeUp(w) \/ OtherSteps(w)
  BY <1>2 DEF FallAsleep, WakeUp, OtherSteps, day
<1>3. CASE Start \/ BeginHandler \/ Destroy
  BY <1>3 DEF Start, BeginHandler, Destroy, day
<1>4. CASE Tick
  BY <1>4 DEF Tick
<1> QED
  BY <1>1, <1>2, <1>3, <1>4 DEF Next

LEMMA GraphsStep ==
  ASSUME GraphsInv, GraphStep
  PROVE  GraphsInv' /\ View!DrawnInRange /\ Button!DrawnInRange
<1> USE DEF GraphsInv
<1>1. CASE EndHandler
  <2>1. PICK v \in Samples : View!AddPoint(v) /\ Button!AddPoint(v)
    BY <1>1 DEF EndHandler
  <2>2. ViewInv' /\ ButtonInv'
    BY <2>1, ViewAddsPoint, ButtonAddsPoint
  <2>3. PlotsInv'
    BY <2>1 DEF View!AddPoint, Button!AddPoint, PlotsInv
  <2>4. \A pts \in Seq([val : Samples, time : Times]) : \A p : Len(Append(pts, p)) > Len(pts)
    OBVIOUS
  <2>5. Len(viewPoints') > Len(viewPoints) /\ Len(buttonPoints') > Len(buttonPoints)
    BY <2>1, <2>4 DEF View!AddPoint, Button!AddPoint, ViewInv, ButtonInv, GraphInv, GraphType
  <2> QED
    BY <2>2, <2>3, <2>5 DEF View!DrawnInRange, Button!DrawnInRange
<1>2. CASE Draw /\ View!Draw /\ UNCHANGED button
  <2>1. ViewInv' /\ View!DrawnInRange
    BY <1>2, ViewDraws
  <2>2. ButtonInv' /\ PlotsInv' /\ Button!DrawnInRange
    BY <1>2 DEF View!Draw, button, ButtonInv, PlotsInv, Button!DrawnInRange
  <2> QED
    BY <2>1, <2>2
<1>3. CASE Draw /\ Button!Draw /\ UNCHANGED view
  <2>1. ButtonInv' /\ Button!DrawnInRange
    BY <1>3, ButtonDraws
  <2>2. ViewInv' /\ PlotsInv' /\ View!DrawnInRange
    BY <1>3 DEF Button!Draw, view, ViewInv, PlotsInv, View!DrawnInRange
  <2> QED
    BY <2>1, <2>2
<1>4. ASSUME NEW w \in Widths, NEW h \in Heights, Resize(w, h)
      PROVE  GraphsInv' /\ View!DrawnInRange /\ Button!DrawnInRange
  <2>1. UNCHANGED <<viewPoints, viewMax, viewOvershot, buttonPoints, buttonMax, buttonOvershot,
                    samples, clock, setBack>>
    BY <1>4 DEF Resize, View!Resize, Button!Resize, View!history, Button!history, view, button
  <2>2. PlotsInv'
    BY <1>4 DEF Resize, View!Resize, Button!Resize, view, button, PlotsInv
  <2> QED
    BY <2>1, <2>2 DEF ViewInv, ButtonInv, View!DrawnInRange, Button!DrawnInRange
<1>5. ASSUME UNCHANGED <<samples, view, button>>, clock' \in Times, setBack' \in BOOLEAN,
             setBack = TRUE => setBack' = TRUE, clock' >= clock \/ setBack' = TRUE
      PROVE  GraphsInv' /\ View!DrawnInRange /\ Button!DrawnInRange
  <2>1. PICK now, back : now = clock' /\ back = setBack'
    OBVIOUS
  <2>2. now \in Times /\ back \in BOOLEAN /\ (setBack => back) /\ (now >= clock \/ back)
    BY <1>5, <2>1 DEF ViewInv, GraphInv, GraphType
  <2>3. GraphInv(viewPoints, viewMax, viewOvershot, samples, now, back)
    BY <2>2, GraphTime DEF ViewInv
  <2>4. GraphInv(buttonPoints, buttonMax, buttonOvershot, samples, now, back)
    BY <2>2, GraphTime DEF ButtonInv
  <2> QED
    BY <1>5, <2>1, <2>3, <2>4 DEF view, button, ViewInv, ButtonInv, PlotsInv,
       View!DrawnInRange, Button!DrawnInRange
<1>6. clock \in Times /\ clock \in Int /\ setBack \in BOOLEAN
  BY GraphAssumption DEF ViewInv, GraphInv, GraphType
<1>7. CASE UNCHANGED <<samples, view, button>> /\ Tick
  <2>1. clock' \in Times /\ clock' >= clock /\ setBack' = setBack
    BY <1>6, <1>7 DEF Tick
  <2> QED
    BY <1>5, <1>6, <1>7, <2>1
<1>8. CASE UNCHANGED <<samples, view, button>> /\ UNCHANGED day
  <2>1. clock' = clock /\ setBack' = setBack
    BY <1>8 DEF day
  <2>2. clock' >= clock
    BY <1>6, <2>1
  <2>3. clock' \in Times /\ setBack' \in BOOLEAN /\ (setBack = TRUE => setBack' = TRUE)
    BY <1>6, <2>1
  <2> QED
    BY <1>5, <1>8, <2>2, <2>3
<1>9. ASSUME NEW t \in Times, SetBack(t)
      PROVE  GraphsInv' /\ View!DrawnInRange /\ Button!DrawnInRange
  <2>1. UNCHANGED <<samples, view, button>> /\ clock' = t /\ setBack' = TRUE
    BY <1>9 DEF SetBack
  <2> QED
    BY <1>5, <2>1
<1> QED
  BY <1>1, <1>2, <1>3, <1>4, <1>7, <1>8, <1>9 DEF GraphStep, Draw

LEMMA GraphsInvariance == Spec => []GraphsInv
<1>1. Init => GraphsInv
  BY ViewInit, ButtonInit DEF Init, View!Init, Button!Init, GraphsInv, PlotsInv
<1>2. GraphsInv /\ [Next]_vars => GraphsInv'
  BY StepsOfGraphs, GraphsStep
<1> QED
  BY <1>1, <1>2, PTL DEF Spec

\* Neither graph loses a sample that it should show, for any samples, sizes of the
\* plot and roundings, and however the graphs are drawn, hidden and resized.
THEOREM HistoryIsKept == Spec => []HistoryKept
<1>1. GraphsInv => HistoryKept
  <2> SUFFICES ASSUME GraphsInv PROVE HistoryKept
    OBVIOUS
  <2>1. View!HistoryKept
    <3> SUFFICES ASSUME ~setBack, ~viewOvershot, NEW p \in samples, Wanted(p, samples)
                 PROVE  View!Contains(viewPoints, p) /\ p.val <= viewMax
      BY DEF View!HistoryKept, Wanted
    <3>1. PICK i \in DOMAIN viewPoints : viewPoints[i] = p
      BY DEF GraphsInv, ViewInv, GraphInv, KeptInv
    <3>2. viewPoints \in Seq([val : Samples, time : Times])
      BY DEF GraphsInv, ViewInv, GraphInv, GraphType
    <3>3. i \in 1..Len(viewPoints)
      BY <3>2
    <3> QED
      BY <3>1, <3>3 DEF View!Contains, GraphsInv, ViewInv, GraphInv, AxisInv, Wanted
  <2>2. Button!HistoryKept
    <3> SUFFICES ASSUME ~setBack, ~buttonOvershot, NEW p \in samples, Wanted(p, samples)
                 PROVE  Button!Contains(buttonPoints, p) /\ p.val <= buttonMax
      BY DEF Button!HistoryKept, Wanted
    <3>1. PICK i \in DOMAIN buttonPoints : buttonPoints[i] = p
      BY DEF GraphsInv, ButtonInv, GraphInv, KeptInv
    <3>2. buttonPoints \in Seq([val : Samples, time : Times])
      BY DEF GraphsInv, ButtonInv, GraphInv, GraphType
    <3>3. i \in 1..Len(buttonPoints)
      BY <3>2
    <3> QED
      BY <3>1, <3>3 DEF Button!Contains, GraphsInv, ButtonInv, GraphInv, AxisInv, Wanted
  <2> QED
    BY <2>1, <2>2 DEF HistoryKept
<1> QED
  BY <1>1, GraphsInvariance, PTL

\* A graph that was drawn holds numbers that it can show only, at any time of day.
THEOREM DrawsLeaveRange == Spec => DrawLeavesRange
<1>1. GraphsInv /\ [Next]_vars =>
        [View!DrawnInRange /\ Button!DrawnInRange]_<<viewPoints, buttonPoints>>
  BY StepsOfGraphs, GraphsStep
<1> QED
  BY <1>1, GraphsInvariance, PTL DEF Spec, DrawLeavesRange

\* Thread, graphs and clocks keep their types.
THEOREM TypeCorrect == Spec => []TypeOK
<1>1. Inv /\ GraphsInv => TypeOK
  <2> SUFFICES ASSUME Inv, GraphsInv PROVE TypeOK
    OBVIOUS
  <2>1. D!TypeOK /\ asleep \in 0..Sleep /\ rested \in 0..Sleep
    BY ThreadFacts DEF Inv, RestInv
  <2>2. View!TypeOK
    BY DEF View!TypeOK, View!Point, View!Numbers, GraphsInv, ViewInv, PlotsInv, GraphInv, GraphType
  <2>3. Button!TypeOK
    BY DEF Button!TypeOK, Button!Point, Button!Numbers, GraphsInv, ButtonInv, PlotsInv, GraphInv,
       GraphType
  <2> QED
    BY <2>1, <2>2, <2>3 DEF TypeOK
<1> QED
  BY <1>1, Invariance, GraphsInvariance, PTL
=============================================================================
