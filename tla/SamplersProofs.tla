---------------------------- MODULE SamplersProofs ----------------------------
(***************************************************************************)
(* What a sampler reports is right for every machine, sleep and bound: the *)
(* proof that the snapshot, the counter and what moved in between agree as *)
(* long as nothing disturbs them.  And what is shown of it tells the       *)
(* number, for every divisor: the proof that the loop of UnitConverter     *)
(* ends at the unit that fits.                                             *)
(***************************************************************************)
EXTENDS Samplers, NaturalsInduction, WellFoundedInduction, TLAPS

\* Devices and CPUs: a sample that was not disturbed since was taken from the
\* device as it is now.
DeviceInv ==
  ~OfProcess /\ known /\ ~disturbed =>
    /\ moved = (IF present THEN counter ELSE 0) - snapshots.bytes
    /\ kind \in {"bytes", "busy"} => snapshots.time + rested <= clock
    /\ kind = "busy" => snapshots.time + moved <= clock
    /\ kind = "cpu" /\ present => snapshots.time + rested <= cpuTime
    /\ kind = "cpu" /\ present => snapshots.time + moved <= cpuTime

\* Processes, from a sample to the next scan ...
UnlistedInv ==
  OfProcess /\ known /\ ~listed /\ ~disturbed =>
    /\ moved = counter - snapshots.bytes
    /\ kind = "io" => snapshots.time <= clock
    /\ kind = "process" => moved <= cpuTime - snapshots.time + late

\* ... and from the scan to the sample, for what moved since the scan ...
SinceScanInv ==
  listed => /\ OfProcess
            /\ ~disturbed => moved = counter - scanned.bytes
            /\ ~disturbed /\ kind = "process" => moved <= scanned.lag

\* ... and what had moved before it.
BeforeScanInv ==
  listed /\ known /\ ~scanned.disturbed =>
    /\ scanned.moved = scanned.bytes - snapshots.bytes
    /\ kind = "io" /\ ~disturbed => snapshots.time <= clock
    /\ kind = "process" => scanned.moved <= cpuTime - snapshots.time + late

\* Samples of a process are at least a sleep apart.
ApartInv ==
  kind = "process" /\ known => snapshots.time + (IF listed THEN Sleep ELSE rested) <= cpuTime

Inv == TypeOK /\ DeviceInv /\ UnlistedInv /\ SinceScanInv /\ BeforeScanInv /\ ApartInv
-----------------------------------------------------------------------------

LEMMA InitInv == Init => Inv
<1> SUFFICES ASSUME Init PROVE Inv
  OBVIOUS
<1> USE SamplersAssumption DEF Init
<1>1. TypeOK
  <2>1. snapshots \in [bytes : Nat, time : Nat]
    BY DEF NoSample
  <2>2. scanned \in [bytes : Nat, moved : Nat, disturbed : BOOLEAN, lag : 0..MaxLag]
    <3>1. 0 \in 0..MaxLag
      OBVIOUS
    <3> QED
      BY <3>1 DEF NoScan
  <2>3. {present, known, listed, disturbed} \subseteq BOOLEAN
    OBVIOUS
  <2>4. /\ {counter, cpuTime, moved} \subseteq Nat
        /\ clock \in 0..MaxClock /\ rested \in 0..Sleep
        /\ late \in 0..MaxLag /\ faults \in 0..MaxFaults
    OBVIOUS
  <2> QED
    BY <2>1, <2>2, <2>3, <2>4 DEF TypeOK
<1>2. DeviceInv /\ UnlistedInv /\ SinceScanInv /\ BeforeScanInv /\ ApartInv
  BY DEF DeviceInv, UnlistedInv, SinceScanInv, BeforeScanInv, ApartInv
<1> QED
  BY <1>1, <1>2 DEF Inv

\* What is read is a number, and so is the time: ReadCounter.
LEMMA ReadCounterType == TypeOK => ReadCounter \in [bytes : Nat, time : Nat]
<1> SUFFICES ASSUME TypeOK PROVE ReadCounter \in [bytes : Nat, time : Nat]
  OBVIOUS
<1>1. Base \in Nat
  BY SamplersAssumption DEF TypeOK, Kinds, Base
<1>2. (CASE OfProcess -> scanned.bytes
         [] ~OfProcess /\ present -> counter
         [] OTHER -> 0) \in Nat
  BY DEF TypeOK, OfProcess
<1> QED
  BY <1>1, <1>2 DEF ReadCounter

LEMMA TickStep == ASSUME Inv, Tick PROVE Inv'
<1> USE SamplersAssumption DEF Inv, Tick, TypeOK, Kinds, OfProcess
<1>1. TypeOK'
  <2>1. scanned' \in [bytes : Nat, moved : Nat, disturbed : BOOLEAN, lag : 0..MaxLag]
    <3>1. listed => scanned.lag + 1 \in 0..MaxLag
      OBVIOUS
    <3> QED
      BY <3>1
  <2> QED
    BY <2>1
<1>2. DeviceInv'
  BY DEF DeviceInv
<1>3. UnlistedInv'
  BY DEF UnlistedInv, SinceScanInv, BeforeScanInv
<1>4. SinceScanInv'
  BY DEF SinceScanInv
<1>5. BeforeScanInv'
  BY DEF BeforeScanInv, UnlistedInv, SinceScanInv
<1>6. ApartInv'
  BY DEF ApartInv
<1> QED
  BY <1>1, <1>2, <1>3, <1>4, <1>5, <1>6

LEMMA VanishStep == ASSUME Inv, Vanish PROVE Inv'
<1> USE SamplersAssumption DEF Inv, Vanish, Fault, TypeOK, Kinds, OfProcess
<1>1. TypeOK'
  <2>1. {present', disturbed'} \subseteq BOOLEAN
    OBVIOUS
  <2>2. faults' \in 0..MaxFaults
    OBVIOUS
  <2> QED
    BY <2>1, <2>2
<1>2. DeviceInv'
  BY DEF DeviceInv
<1>3. UnlistedInv'
  BY DEF UnlistedInv, SinceScanInv, BeforeScanInv
<1>4. SinceScanInv'
  BY DEF SinceScanInv
<1>5. BeforeScanInv'
  BY DEF BeforeScanInv, UnlistedInv, SinceScanInv
<1>6. ApartInv'
  BY DEF ApartInv
<1> QED
  BY <1>1, <1>2, <1>3, <1>4, <1>5, <1>6

LEMMA ReturnStep == ASSUME Inv, Return PROVE Inv'
<1> USE SamplersAssumption DEF Inv, Return, TypeOK, Kinds, OfProcess
<1>1. TypeOK'
  OBVIOUS
<1>2. DeviceInv'
  BY DEF DeviceInv
<1>3. UnlistedInv'
  BY DEF UnlistedInv, SinceScanInv, BeforeScanInv
<1>4. SinceScanInv'
  BY DEF SinceScanInv
<1>5. BeforeScanInv'
  BY DEF BeforeScanInv, UnlistedInv, SinceScanInv
<1>6. ApartInv'
  BY DEF ApartInv
<1> QED
  BY <1>1, <1>2, <1>3, <1>4, <1>5, <1>6

LEMMA SetBackStep == ASSUME Inv, NEW t \in 0..MaxClock, SetBack(t) PROVE Inv'
<1> USE SamplersAssumption DEF Inv, SetBack, Fault, TypeOK, Kinds, OfProcess
<1>1. TypeOK'
  OBVIOUS
<1>2. DeviceInv'
  BY DEF DeviceInv
<1>3. UnlistedInv'
  BY DEF UnlistedInv, SinceScanInv, BeforeScanInv
<1>4. SinceScanInv'
  BY DEF SinceScanInv
<1>5. BeforeScanInv'
  BY DEF BeforeScanInv, UnlistedInv, SinceScanInv
<1>6. ApartInv'
  BY DEF ApartInv
<1> QED
  BY <1>1, <1>2, <1>3, <1>4, <1>5, <1>6

LEMMA ReapStep == ASSUME Inv, NEW time \in Gains, Reap(time) PROVE Inv'
<1> USE SamplersAssumption DEF Inv, Reap, Fault, TypeOK, Kinds, OfProcess
<1>1. TypeOK'
  OBVIOUS
<1>2. DeviceInv'
  BY DEF DeviceInv
<1>3. UnlistedInv'
  BY DEF UnlistedInv, SinceScanInv, BeforeScanInv
<1>4. SinceScanInv'
  BY DEF SinceScanInv
<1>5. BeforeScanInv'
  BY DEF BeforeScanInv, UnlistedInv, SinceScanInv
<1>6. ApartInv'
  BY DEF ApartInv
<1> QED
  BY <1>1, <1>2, <1>3, <1>4, <1>5, <1>6

LEMMA SampleStep == ASSUME Inv, Sample PROVE Inv'
<1> USE SamplersAssumption DEF Inv, Sample, ReadCounter, Base, TypeOK, Kinds, OfProcess
<1>1. TypeOK'
  <2>1. snapshots' \in [bytes : Nat, time : Nat]
    BY ReadCounterType
  <2>2. {known', disturbed'} \subseteq BOOLEAN
    OBVIOUS
  <2>3. moved' \in Nat /\ rested' \in 0..Sleep
    OBVIOUS
  <2> QED
    BY <2>1, <2>2, <2>3
<1>2. DeviceInv'
  BY DEF DeviceInv
<1>3. UnlistedInv'
  BY DEF UnlistedInv, SinceScanInv, BeforeScanInv
<1>4. SinceScanInv'
  BY DEF SinceScanInv
<1>5. BeforeScanInv'
  BY DEF BeforeScanInv, UnlistedInv, SinceScanInv
<1>6. ApartInv'
  BY DEF ApartInv
<1> QED
  BY <1>1, <1>2, <1>3, <1>4, <1>5, <1>6

LEMMA ScanStep == ASSUME Inv, Scan PROVE Inv'
<1> USE SamplersAssumption DEF Inv, Scan, world, TypeOK, Kinds, OfProcess
<1>1. TypeOK'
  <2>1. 0 \in 0..MaxLag
    OBVIOUS
  <2>2. scanned' \in [bytes : Nat, moved : Nat, disturbed : BOOLEAN, lag : 0..MaxLag]
    BY <2>1
  <2> QED
    BY <2>2
<1>2. DeviceInv'
  BY DEF DeviceInv
<1>3. UnlistedInv'
  BY DEF UnlistedInv, SinceScanInv, BeforeScanInv
<1>4. SinceScanInv'
  BY DEF SinceScanInv
<1>5. BeforeScanInv'
  BY DEF BeforeScanInv, UnlistedInv, SinceScanInv
<1>6. ApartInv'
  BY DEF ApartInv
<1> QED
  BY <1>1, <1>2, <1>3, <1>4, <1>5, <1>6

LEMMA SampleProcessStep == ASSUME Inv, SampleProcess PROVE Inv'
<1> USE SamplersAssumption DEF Inv, SampleProcess, ReadCounter, Base, NoScan, TypeOK, Kinds, OfProcess
<1>1. TypeOK'
  <2>1. snapshots' \in [bytes : Nat, time : Nat]
    BY ReadCounterType
  <2>2. 0 \in 0..MaxLag
    OBVIOUS
  <2>3. scanned' \in [bytes : Nat, moved : Nat, disturbed : BOOLEAN, lag : 0..MaxLag]
    BY <2>2
  <2>4. {known', listed'} \subseteq BOOLEAN
    OBVIOUS
  <2>5. late' \in 0..MaxLag /\ rested' \in 0..Sleep
    OBVIOUS
  <2> QED
    BY <2>1, <2>3, <2>4, <2>5
<1>2. DeviceInv'
  BY DEF DeviceInv, SinceScanInv
<1>3. UnlistedInv'
  BY DEF UnlistedInv, SinceScanInv, BeforeScanInv
<1>4. SinceScanInv'
  BY DEF SinceScanInv
<1>5. BeforeScanInv'
  BY DEF BeforeScanInv, UnlistedInv, SinceScanInv
<1>6. ApartInv'
  BY DEF ApartInv
<1> QED
  BY <1>1, <1>2, <1>3, <1>4, <1>5, <1>6

-----------------------------------------------------------------------------

LEMMA StepInv == Inv /\ [Next]_vars => Inv'
<1> SUFFICES ASSUME Inv, [Next]_vars PROVE Inv'
  OBVIOUS
<1>1. CASE UNCHANGED vars
  BY <1>1 DEF vars, world, history, Inv, TypeOK, DeviceInv, UnlistedInv, SinceScanInv,
              BeforeScanInv, ApartInv, OfProcess
<1>2. CASE \E t \in 0..MaxClock : SetBack(t)
  BY <1>2, SetBackStep
<1>3. CASE \E time \in Gains \ {0} : Reap(time)
  BY <1>3, ReapStep
<1> QED
  BY <1>1, <1>2, <1>3, TickStep, VanishStep, ReturnStep, SampleStep, ScanStep, SampleProcessStep
     DEF Next

LEMMA Invariance == Spec => []Inv
<1>1. Init => Inv
  BY InitInv
<1>2. Inv /\ [Next]_vars => Inv'
  BY StepInv
<1> QED
  BY <1>1, <1>2, PTL DEF Spec

\* A rate is between the difference and twice the difference: the factor is from 1
\* up to 2, and the result is cut off.
LEMMA RateBounds ==
  ASSUME NEW diff \in Nat, NEW dt \in Nat
  PROVE  Rate(diff, dt).num \in diff..2 * diff
<1> USE SamplersAssumption
<1>1. CASE dt >= Second
  BY <1>1 DEF Rate
<1>2. CASE dt < Second
  <2> DEFINE a == diff * (Second + dt)
             q == a \div Second
  <2>1. /\ diff * dt \in Nat
        /\ diff * Second \in Nat
        /\ diff * dt <= diff * Second
        /\ a = diff * Second + diff * dt
    BY <1>2
  <2>2. a \in Nat
    BY <2>1
  <2>3. /\ q \in Int
        /\ Second * q <= a
        /\ a < Second * (q + 1)
    BY <2>2
  <2>4. diff <= q
    <3>1. Second * diff < Second * (q + 1)
      BY <2>1, <2>2, <2>3
    <3> QED
      BY <2>3, <3>1
  <2>5. q <= 2 * diff
    <3>1. Second * q <= Second * (2 * diff)
      BY <2>1, <2>2, <2>3
    <3> QED
      BY <2>3, <3>1
  <2>6. Rate(diff, dt).num = q
    BY <1>2, <2>2 DEF Rate, Truncated
  <2> QED
    BY <2>3, <2>4, <2>5, <2>6
<1> QED
  BY <1>1, <1>2

\* Everything that is kept and counted has its type: the variables of Samplers.
THEOREM TypeCorrect == Spec => []TypeOK
<1>1. Inv => TypeOK
  BY DEF Inv
<1> QED
  BY <1>1, Invariance, PTL

\* A rate that was not disturbed is between what was moved and twice as much, for
\* every length of a second and of a sleep (GetInterfaceReceive and its siblings).
THEOREM ReportsCover == Spec => []ReportsCoverMoved
<1>1. Inv => ReportsCoverMoved
  <2> SUFFICES ASSUME Inv, Due, kind \in {"bytes", "io"}
               PROVE  Report.num \in Covered..2 * Covered
    BY DEF ReportsCoverMoved
  <2> USE SamplersAssumption DEF Inv, TypeOK, Kinds, OfProcess, Due
  <2> DEFINE diff == ReadCounter.bytes - snapshots.bytes
             dt == ReadCounter.time - snapshots.time
  <2>1. diff = Covered /\ diff \in Nat
    BY DEF DeviceInv, BeforeScanInv, ReadCounter, Covered
  <2>2. dt \in Nat
    BY DEF DeviceInv, BeforeScanInv, ReadCounter, Base
  <2>3. Report = Rate(diff, dt)
    BY DEF Report
  <2> QED
    BY <2>1, <2>2, <2>3, RateBounds
<1> QED
  BY <1>1, Invariance, PTL

\* A disk, a CPU or a process that was not disturbed is never busy for less than
\* nothing or, but for the time between a scan and its sample, for more than all of
\* the time (GetDiskUsage, GetCPUUsagePercent, GetCPUUsageForProc).
THEOREM UsageShare == Spec => []UsageIsShare
<1>1. Inv => UsageIsShare
  <2> SUFFICES ASSUME Inv, Due, kind \in {"busy", "process"} \/ (kind = "cpu" /\ present)
               PROVE  Report.den > 0 /\ Report.num \in 0..Report.den + late
    BY DEF UsageIsShare
  <2> USE SamplersAssumption DEF Inv, TypeOK, Kinds, OfProcess, Due
  <2> DEFINE diff == ReadCounter.bytes - snapshots.bytes
             dt == ReadCounter.time - snapshots.time
  <2>1. diff = Covered /\ diff \in Nat
    BY DEF DeviceInv, BeforeScanInv, ReadCounter, Covered
  <2>2. dt \in Nat /\ dt > 0 /\ diff <= dt + late
    BY <2>1 DEF DeviceInv, BeforeScanInv, ApartInv, ReadCounter, Base, Covered
  <2>3. Report = [num |-> diff, den |-> dt]
    BY DEF Report, Usage
  <2> QED
    BY <2>1, <2>2, <2>3
<1> QED
  BY <1>1, Invariance, PTL

-----------------------------------------------------------------------------
(* The loop of UnitConverter. *)

\* Any set of natural numbers has a least one: for least counterexamples.
LEMMA LeastNumber ==
  ASSUME NEW T, T \subseteq Nat, T # {}
  PROVE  \E x \in T : \A y \in T : ~(y < x)
<1>1. PICK x \in T : \A y \in T : ~(<<y, x>> \in OpToRel(<, Nat))
  BY NatLessThanWellFounded, WFMin
<1>2. \A y \in T : y < x => <<y, x>> \in OpToRel(<, Nat)
  BY DEF OpToRel
<1> QED
  BY <1>1, <1>2

\* The loop gets on.
LEMMA QuotientIsLess ==
  ASSUME NEW d \in Nat \ {0, 1}, NEW b \in Int, b \div d >= d
  PROVE  b \in Nat /\ b \div d \in Nat /\ b \div d < b
<1>1. b \div d \in Int /\ b = d * (b \div d) + (b % d) /\ b % d \in 0..d - 1
  OBVIOUS
<1>2. d * (b \div d) >= 2 * (b \div d)
  BY <1>1
<1> QED
  BY <1>1, <1>2

\* What the loop goes through from b on, until it ends after k divisions.
Divided(s, d, b, k) ==
  /\ s \in [0..k -> Int]
  /\ s[0] = b
  /\ \A i \in 0..k - 1 : s[i] \div d >= d /\ s[i + 1] = s[i] \div d
  /\ s[k] \div d < d

Ends(d, b, k) == \E s : Divided(s, d, b, k)

\* One division fewer, from the quotient on; and none where the quotient is below d.
LEMMA EndsNext ==
  ASSUME NEW d \in Nat \ {0, 1}, NEW b \in Int, NEW k \in Nat, Ends(d, b, k)
  PROVE  IF b \div d >= d THEN k > 0 /\ Ends(d, b \div d, k - 1) ELSE k = 0
<1>1. PICK s : Divided(s, d, b, k)
  BY DEF Ends
<1>2. CASE k = 0
  BY <1>1, <1>2 DEF Divided
<1>3. CASE k # 0
  <2>1. 0 \in 0..k - 1 /\ k - 1 \in Nat
    BY <1>3
  <2>2. b \div d >= d /\ s[1] = b \div d
    BY <1>1, <2>1 DEF Divided
  <2> DEFINE t == [i \in 0..k - 1 |-> s[i + 1]]
  <2>3. t \in [0..k - 1 -> Int]
    BY <1>1, <2>1 DEF Divided
  <2>4. t[0] = b \div d
    BY <2>1, <2>2
  <2>5. ASSUME NEW i \in 0..(k - 1) - 1 PROVE t[i] \div d >= d /\ t[i + 1] = t[i] \div d
    <3>1. i + 1 \in 0..k - 1 /\ i \in 0..k - 1
      BY <2>1
    <3>2. s[i + 1] \div d >= d /\ s[(i + 1) + 1] = s[i + 1] \div d
      BY <1>1, <3>1 DEF Divided
    <3> QED
      BY <3>1, <3>2
  <2>6. t[k - 1] \div d < d
    BY <1>1, <2>1 DEF Divided
  <2> HIDE DEF t
  <2>7. Divided(t, d, b \div d, k - 1)
    BY <2>3, <2>4, <2>5, <2>6 DEF Divided
  <2> QED
    BY <1>3, <2>2, <2>7 DEF Ends
<1> QED
  BY <1>2, <1>3

\* One division more, from a number whose quotient is that far from the end.
LEMMA EndsPrevious ==
  ASSUME NEW d \in Nat \ {0, 1}, NEW b \in Int, NEW k \in Nat,
         b \div d >= d, Ends(d, b \div d, k)
  PROVE  Ends(d, b, k + 1)
<1>1. PICK s : Divided(s, d, b \div d, k)
  BY DEF Ends
<1> DEFINE t == [i \in 0..k + 1 |-> IF i = 0 THEN b ELSE s[i - 1]]
<1>2. t \in [0..k + 1 -> Int] /\ t[0] = b
  BY <1>1 DEF Divided
<1>3. ASSUME NEW i \in 0..(k + 1) - 1 PROVE t[i] \div d >= d /\ t[i + 1] = t[i] \div d
  <2>1. i \in 0..k + 1 /\ i + 1 \in 0..k + 1 /\ t[i + 1] = s[i]
    OBVIOUS
  <2>2. CASE i = 0
    BY <1>1, <2>1, <2>2 DEF Divided
  <2>3. CASE i # 0
    <3>1. i - 1 \in 0..k - 1 /\ t[i] = s[i - 1]
      BY <2>1, <2>3
    <3>2. s[i - 1] \div d >= d /\ s[(i - 1) + 1] = s[i - 1] \div d
      BY <1>1, <3>1 DEF Divided
    <3> QED
      BY <2>1, <3>1, <3>2
  <2> QED
    BY <2>2, <2>3
<1>4. t[k + 1] \div d < d
  BY <1>1 DEF Divided
<1> HIDE DEF t
<1> QED
  BY <1>2, <1>3, <1>4 DEF Divided, Ends

\* The loop ends, after the same number of divisions each time.
LEMMA LoopEnds ==
  ASSUME NEW d \in Nat \ {0, 1}, NEW b \in Int
  PROVE  \E k \in Nat : Ends(d, b, k) /\ \A l \in Nat : Ends(d, b, l) => l = k
<1> DEFINE Good(c) == \E k \in Nat : Ends(d, c, k) /\ \A l \in Nat : Ends(d, c, l) => l = k
           bad == {c \in Nat : ~Good(c)}
<1>1. ASSUME NEW c \in Int, c \div d < d PROVE Good(c)
  <2>1. ~(c \div d >= d)
    BY <1>1
  <2>2. ASSUME NEW l \in Nat, Ends(d, c, l) PROVE l = 0
    BY <2>1, <2>2, EndsNext
  <2>3. Divided([i \in 0..0 |-> c], d, c, 0)
    BY <1>1 DEF Divided
  <2> QED
    BY <2>2, <2>3 DEF Ends
<1>2. ASSUME NEW c \in Int, c \div d >= d, Good(c \div d) PROVE Good(c)
  <2>1. PICK k \in Nat : Ends(d, c \div d, k) /\ \A l \in Nat : Ends(d, c \div d, l) => l = k
    BY <1>2
  <2>2. Ends(d, c, k + 1)
    BY <1>2, <2>1, EndsPrevious
  <2>3. ASSUME NEW l \in Nat, Ends(d, c, l) PROVE l = k + 1
    <3>1. l > 0 /\ Ends(d, c \div d, l - 1)
      BY <1>2, <2>3, EndsNext
    <3> QED
      BY <2>1, <3>1
  <2> QED
    BY <2>2, <2>3
<1> HIDE DEF Good
<1>3. bad = {}
  <2> SUFFICES ASSUME bad # {} PROVE FALSE
    OBVIOUS
  <2>1. PICK c \in bad : \A e \in bad : ~(e < c)
    BY LeastNumber
  <2>2. c \in Int /\ c \div d \in Int /\ ~Good(c)
    BY <2>1
  <2>3. c \div d >= d
    BY <1>1, <2>2
  <2>4. c \div d \in Nat /\ c \div d < c
    BY <2>2, <2>3, QuotientIsLess
  <2>5. Good(c \div d)
    BY <2>1, <2>4
  <2> QED
    BY <1>2, <2>2, <2>3, <2>5
<1>4. Good(b)
  BY <1>1, <1>3, QuotientIsLess
<1> QED
  BY <1>4 DEF Good

\* Divisions: none, or one more than for the quotient.
LEMMA DivisionsOf ==
  ASSUME NEW d \in Nat \ {0, 1}
  PROVE  \A b \in Int :
           /\ U!Divisions(d)[b] \in Nat
           /\ U!Divisions(d)[b] = IF b \div d >= d THEN 1 + U!Divisions(d)[b \div d] ELSE 0
<1> DEFINE ends == [b \in Int |-> CHOOSE k \in Nat : Ends(d, b, k)]
           Counts(n) == n = [b \in Int |-> IF b \div d >= d THEN 1 + n[b \div d] ELSE 0]
<1>1. ASSUME NEW b \in Int
      PROVE  ends[b] \in Nat /\ \A k \in Nat : Ends(d, b, k) <=> k = ends[b]
  <2>1. PICK k \in Nat : Ends(d, b, k) /\ \A l \in Nat : Ends(d, b, l) => l = k
    BY LoopEnds
  <2> QED
    BY <2>1
<1>2. Counts(ends)
  <2>1. ASSUME NEW b \in Int PROVE ends[b] = IF b \div d >= d THEN 1 + ends[b \div d] ELSE 0
    <3>1. b \div d \in Int /\ Ends(d, b, ends[b])
      BY <1>1
    <3>2. CASE b \div d >= d
      <4>1. Ends(d, b \div d, ends[b \div d]) /\ ends[b \div d] \in Nat
        BY <1>1, <3>1
      <4> HIDE DEF ends
      <4>2. Ends(d, b, ends[b \div d] + 1)
        BY <3>2, <4>1, EndsPrevious
      <4> QED
        BY <1>1, <3>2, <4>1, <4>2
    <3>3. CASE ~(b \div d >= d)
      <4>1. ends[b] \in Nat
        BY <1>1
      <4> HIDE DEF ends
      <4> QED
        BY <3>1, <3>3, <4>1, EndsNext
    <3> HIDE DEF ends
    <3> QED
      BY <3>2, <3>3
  <2>2. ends = [b \in Int |-> ends[b]]
    OBVIOUS
  <2> HIDE DEF ends
  <2> QED
    BY <2>1, <2>2
<1> HIDE DEF ends
<1>3. PICK n : n = U!Divisions(d)
  OBVIOUS
<1>4. Counts(n)
  BY <1>2, <1>3 DEF U!Divisions
<1>5. ASSUME NEW b \in Int PROVE n[b] = IF b \div d >= d THEN 1 + n[b \div d] ELSE 0
  BY <1>4
<1> HIDE DEF Counts
<1> DEFINE bad == {b \in Nat : n[b] \notin Nat}
<1>6. bad = {}
  <2> SUFFICES ASSUME bad # {} PROVE FALSE
    OBVIOUS
  <2>1. PICK b \in bad : \A e \in bad : ~(e < b)
    BY LeastNumber
  <2>2. b \in Int /\ n[b] \notin Nat
    BY <2>1
  <2>3. b \div d >= d /\ n[b \div d] \notin Nat
    BY <1>5, <2>2
  <2>4. b \div d \in Nat /\ b \div d < b
    BY <2>2, <2>3, QuotientIsLess
  <2> QED
    BY <2>1, <2>3, <2>4
<1>7. ASSUME NEW b \in Int PROVE n[b] \in Nat
  <2>1. CASE b \div d >= d
    BY <1>6, <2>1, QuotientIsLess
  <2>2. CASE ~(b \div d >= d)
    BY <1>5, <2>2
  <2> QED
    BY <2>1, <2>2
<1> QED
  BY <1>3, <1>5, <1>7

\* A quotient reaches x where the number reaches d times x.
LEMMA QuotientReaches ==
  ASSUME NEW d \in Nat \ {0, 1}, NEW b \in Int, NEW x \in Int
  PROVE  b \div d >= x <=> b >= d * x
<1> DEFINE q == b \div d
<1>1. q \in Int /\ b = d * q + (b % d) /\ b % d \in 0..d - 1
  OBVIOUS
<1>2. ASSUME q >= x PROVE b >= d * x
  BY <1>1, <1>2
<1>3. ASSUME q <= x - 1 PROVE b < d * x
  <2> HIDE DEF q
  <2>1. d * q <= d * (x - 1)
    BY <1>1, <1>3
  <2> QED
    BY <1>1, <2>1
<1> QED
  BY <1>1, <1>2, <1>3

\* One division more for each step from one unit to the next.
LEMMA NextUnit ==
  ASSUME NEW d \in Nat \ {0, 1}, NEW n \in Nat \ {0}, NEW x \in Int, x >= d,
         \A b \in Int : U!Divisions(d)[b] >= n <=> b >= x
  PROVE  \A b \in Int : U!Divisions(d)[b] >= n + 1 <=> b >= d * x
<1> SUFFICES ASSUME NEW b \in Int PROVE U!Divisions(d)[b] >= n + 1 <=> b >= d * x
  OBVIOUS
<1>1. b \div d \in Int
  OBVIOUS
<1>2. /\ U!Divisions(d)[b] = IF b \div d >= d THEN 1 + U!Divisions(d)[b \div d] ELSE 0
      /\ U!Divisions(d)[b] \in Nat /\ U!Divisions(d)[b \div d] \in Nat
  BY <1>1, DivisionsOf
<1>3. U!Divisions(d)[b \div d] >= n <=> b \div d >= x
  BY <1>1
<1>4. U!Divisions(d)[b] >= n + 1 <=> b \div d >= x
  BY <1>1, <1>2, <1>3
<1> QED
  BY <1>4, QuotientReaches

\* Powers: each unit holds d times the one before, the first d.
LEMMA PowersOf ==
  ASSUME NEW d \in Nat \ {0, 1}
  PROVE  /\ \A i \in 1..4 : U!Powers(d)[i] \in Nat /\ U!Powers(d)[i] >= d
         /\ U!Powers(d)[1] = d
         /\ \A i \in 1..3 : U!Powers(d)[i + 1] = d * U!Powers(d)[i]
<1>1. /\ U!Powers(d)[1] = d
      /\ U!Powers(d)[2] = d * U!Powers(d)[1]
      /\ U!Powers(d)[3] = d * U!Powers(d)[2]
      /\ U!Powers(d)[4] = d * U!Powers(d)[3]
  BY DEF U!Powers
<1>2. ASSUME NEW x \in Nat, x >= d PROVE d * x \in Nat /\ d * x >= d
  BY <1>2
<1>3. \A i \in 1..4 : i \in {1, 2, 3, 4}
  OBVIOUS
<1>4. \A i \in 1..4 : U!Powers(d)[i] \in Nat /\ U!Powers(d)[i] >= d
  <2>1. U!Powers(d)[1] \in Nat /\ U!Powers(d)[1] >= d
    BY <1>1
  <2>2. U!Powers(d)[2] \in Nat /\ U!Powers(d)[2] >= d
    BY <1>1, <1>2, <2>1
  <2>3. U!Powers(d)[3] \in Nat /\ U!Powers(d)[3] >= d
    BY <1>1, <1>2, <2>2
  <2>4. U!Powers(d)[4] \in Nat /\ U!Powers(d)[4] >= d
    BY <1>1, <1>2, <2>3
  <2> QED
    BY <1>3, <2>1, <2>2, <2>3, <2>4
<1>5. \A i \in 1..3 : U!Powers(d)[i + 1] = d * U!Powers(d)[i]
  <2>1. \A i \in 1..3 : i \in {1, 2, 3}
    OBVIOUS
  <2> QED
    BY <1>1, <2>1
<1> QED
  BY <1>1, <1>4, <1>5

\* The divisions tell the unit: the number lies between what it holds and what the
\* next holds.
LEMMA DivisionsTellUnit ==
  ASSUME NEW d \in Nat \ {0, 1}, NEW b \in Int
  PROVE  LET n == U!Divisions(d)[b] IN
         /\ n \in Nat
         /\ \A i \in 1..3 : n >= i <=> b >= U!Powers(d)[i + 1]
         /\ n >= 4 <=> b >= d * U!Powers(d)[4]
<1> DEFINE Reach(n, x) == \A c \in Int : U!Divisions(d)[c] >= n <=> c >= x
           P(i) == U!Powers(d)[i]
<1>1. ASSUME NEW n \in {1, 2, 3}, NEW i \in {2, 3, 4}, P(i) \in Int, P(i) >= d, Reach(n, P(i))
      PROVE  Reach(n + 1, d * P(i))
  <2>1. PICK x \in Int : x = P(i)
    BY <1>1
  <2>2. n \in Nat \ {0}
    OBVIOUS
  <2> HIDE DEF P
  <2>3. x >= d /\ \A c \in Int : U!Divisions(d)[c] >= n <=> c >= x
    BY <1>1, <2>1
  <2>4. \A c \in Int : U!Divisions(d)[c] >= n + 1 <=> c >= d * x
    BY <2>2, <2>3, NextUnit
  <2> QED
    BY <2>1, <2>4
<1>2. Reach(1, P(2))
  <2>1. P(2) = d * d
    BY DEF U!Powers
  <2>2. ASSUME NEW c \in Int PROVE U!Divisions(d)[c] >= 1 <=> c >= d * d
    <3>1. c \div d \in Int
      OBVIOUS
    <3>2. /\ U!Divisions(d)[c] = IF c \div d >= d THEN 1 + U!Divisions(d)[c \div d] ELSE 0
          /\ U!Divisions(d)[c \div d] \in Nat
      BY <3>1, DivisionsOf
    <3>3. U!Divisions(d)[c] >= 1 <=> c \div d >= d
      BY <3>1, <3>2
    <3> QED
      BY <3>3, QuotientReaches
  <2> QED
    BY <2>1, <2>2
<1>3. /\ P(3) = d * P(2) /\ P(4) = d * P(3)
      /\ \A i \in {2, 3, 4} : P(i) \in Int /\ P(i) >= d
  BY PowersOf
<1> HIDE DEF P
<1>4. Reach(2, P(3))
  <2>1. Reach(1 + 1, d * P(2))
    BY <1>1, <1>2, <1>3
  <2> QED
    BY <1>3, <2>1
<1>5. Reach(3, P(4))
  <2>1. Reach(2 + 1, d * P(3))
    BY <1>1, <1>3, <1>4
  <2> QED
    BY <1>3, <2>1
<1>6. Reach(4, d * P(4))
  <2>1. Reach(3 + 1, d * P(4))
    BY <1>1, <1>3, <1>5
  <2> QED
    BY <2>1
<1>7. \A i \in 1..3 : Reach(i, P(i + 1))
  <2>1. \A i \in 1..3 : i \in {1, 2, 3}
    OBVIOUS
  <2> QED
    BY <1>2, <1>4, <1>5, <2>1
<1> QED
  BY <1>6, <1>7, DivisionsOf DEF P

\* InUnit with the unit after n divisions by d: it fits as long as there is one.
LEMMA UnitFits ==
  ASSUME NEW d \in Nat \ {0, 1}, NEW b \in Int, ~(b >= d * U!Powers(d)[4])
  PROVE  LET n == U!Divisions(d)[b] IN
         /\ n \in 0..3
         /\ b < d * U!Powers(d)[n + 1]
         /\ U!Powers(d)[n + 1] <= b \/ U!Powers(d)[n + 1] = d
<1> DEFINE n == U!Divisions(d)[b]
           P(i) == U!Powers(d)[i]
<1>1. n \in 0..3
  BY DivisionsTellUnit
<1>2. \A i \in 1..3 : n >= i <=> b >= P(i + 1)
  BY DivisionsTellUnit
<1>3. /\ P(1) = d /\ \A i \in 1..3 : P(i + 1) = d * P(i)
      /\ \A i \in 1..4 : P(i) \in Nat
  BY PowersOf
<1>4. ~(b >= d * P(4))
  OBVIOUS
<1> HIDE DEF n, P
<1>5. b < d * P(n + 1)
  <2>1. CASE n = 3
    <3>1. d * P(4) \in Int
      BY <1>3
    <3> QED
      BY <1>4, <2>1, <3>1
  <2>2. CASE n # 3
    <3>1. n + 1 \in 1..3
      BY <1>1, <2>2
    <3>2. P((n + 1) + 1) = d * P(n + 1) /\ P((n + 1) + 1) \in Nat
      BY <1>3, <3>1
    <3>3. ~(b >= P((n + 1) + 1))
      BY <1>1, <1>2, <3>1
    <3> QED
      BY <3>2, <3>3
  <2> QED
    BY <2>1, <2>2
<1>6. P(n + 1) <= b \/ P(n + 1) = d
  <2>1. CASE n = 0
    BY <1>3, <2>1
  <2>2. CASE n # 0
    <3>1. n \in 1..3 /\ n + 1 \in 1..4
      BY <1>1, <2>2
    <3> QED
      BY <1>2, <1>3, <3>1
  <2> QED
    BY <2>1, <2>2
<1> QED
  BY <1>1, <1>5, <1>6 DEF n, P

-----------------------------------------------------------------------------
(* The texts. *)

\* What is shown is a number: the counter, and a rate (Report).
LEMMA ShownAreNumbers == Inv => Shown \subseteq Int
<1> SUFFICES ASSUME Inv, kind \in {"bytes", "io"} PROVE counter \in Int /\ Report.num \in Int
  BY DEF Shown
<1>1. ReadCounter.bytes \in Nat /\ ReadCounter.time \in Nat
  BY ReadCounterType DEF Inv
<1>2. snapshots.bytes \in Nat /\ snapshots.time \in Nat /\ counter \in Nat
  BY DEF Inv, TypeOK
<1>3. Second \in Nat \ {0}
  BY SamplersAssumption
<1>4. ASSUME NEW diff \in Int, NEW dt \in Int PROVE Rate(diff, dt).num \in Int
  <2>1. diff * (Second + dt) \in Int
    BY <1>3
  <2>2. ASSUME NEW a \in Int PROVE Truncated(a, Second) \in Int
    BY <1>3 DEF Truncated
  <2> QED
    BY <2>1, <2>2 DEF Rate
<1> QED
  BY <1>1, <1>2, <1>4 DEF Report, Nothing

\* ConvertBytes, for any number.
LEMMA BytesTold ==
  ASSUME NEW b \in Int, NEW auto \in {U!AUTO, U!AUTO_I}
  PROVE  LET d    == U!Divisor(auto)
             text == U!ConvertBytes(b, auto)
         IN  IF b < d * U!Powers(d)[4]
             THEN /\ text.unit \in auto + 1..auto + 4
                  /\ text.num < d * text.den
                  /\ text.den <= text.num \/ text.den = d
             ELSE /\ text.num = b
                  /\ text.unit \notin auto + 1..auto + 4
                  /\ text.den = IF text.unit > U!AUTO_I THEN U!Powers(Binary)[text.unit - U!AUTO_I] ELSE 1
<1> DEFINE d == U!Divisor(auto)
           n == U!Divisions(d)[b]
           text == U!ConvertBytes(b, auto)
<1>1. d \in Nat \ {0, 1}
  BY SamplersAssumption DEF U!Divisor, U!AUTO, U!AUTO_I
<1>2. n \in Nat /\ (n >= 4 <=> b >= d * U!Powers(d)[4])
  BY <1>1, DivisionsTellUnit
<1>3. text = U!InUnit(b, auto + n + 1)
  BY DEF U!ConvertBytes, U!GetBestUnitForBytes
<1>4. d * U!Powers(d)[4] \in Int
  BY <1>1, PowersOf
<1>5. auto \in {0, 5} /\ U!AUTO = 0 /\ U!AUTO_I = 5
  BY DEF U!AUTO, U!AUTO_I
<1>6. CASE b < d * U!Powers(d)[4]
  <2>1. /\ n \in 0..3
        /\ b < d * U!Powers(d)[n + 1]
        /\ U!Powers(d)[n + 1] <= b \/ U!Powers(d)[n + 1] = d
    BY <1>1, <1>4, <1>6, UnitFits
  <2> HIDE DEF n
  <2>2. /\ auto + n + 1 \in auto + 1..auto + 4 /\ (auto + n + 1) % 5 = n + 1
        /\ auto + n + 1 \notin {0, 5} /\ ~(auto + n + 1 > 5 + 4)
        /\ (auto + n + 1 < 5 <=> auto = 0)
    BY <1>5, <2>1
  <2>3. U!Divisor(auto + n + 1) = d
    BY <1>5, <2>2 DEF U!Divisor
  <2>4. text = [num |-> b, den |-> U!Powers(d)[n + 1], unit |-> auto + n + 1]
    BY <1>3, <1>5, <2>2, <2>3 DEF U!InUnit
  <2> HIDE DEF d, text
  <2> QED
    BY <1>6, <2>1, <2>2, <2>4 DEF d, text
<1>7. CASE ~(b < d * U!Powers(d)[4])
  <2>1. n >= 4
    BY <1>2, <1>4, <1>7
  <2> HIDE DEF n
  <2> DEFINE unit == auto + n + 1
  <2>2. CASE unit \in {0, 5} \/ unit > 5 + 4
    <3>1. text = [num |-> b, den |-> 1, unit |-> 0]
      BY <1>3, <1>5, <2>2 DEF U!InUnit
    <3> QED
      BY <1>5, <1>7, <3>1
  <2>3. CASE unit \notin {0, 5} /\ ~(unit > 5 + 4)
    <3>1. auto = 0 /\ unit \in 6..9
      BY <1>2, <1>5, <2>1, <2>3
    <3>2. ~(unit < 5) /\ unit % 5 = unit - 5
      BY <3>1
    <3>3. text = [num |-> b, den |-> U!Powers(Binary)[unit - 5], unit |-> unit]
      BY <1>3, <1>5, <2>3, <3>2 DEF U!InUnit, U!Divisor
    <3> HIDE DEF d, text, unit
    <3>4. text.unit \notin auto + 1..auto + 4 /\ text.unit > 5
      BY <3>1, <3>3
    <3> QED
      BY <1>5, <1>7, <3>3, <3>4 DEF d, text
  <2> QED
    BY <2>2, <2>3
<1> QED
  BY <1>6, <1>7

\* ConvertBytesToBits, for any number.
LEMMA BitsTold ==
  ASSUME NEW b \in Int
  PROVE  LET text == U!ConvertBytesToBits(b) IN
         IF 8 * b < U!Powers(Decimal)[4]
         THEN text.num < Decimal * text.den /\ (text.den <= text.num \/ text.den = Decimal)
         ELSE text.den = 1
<1> DEFINE bits == 8 * b
           n == U!Divisions(Decimal)[bits]
           text == U!ConvertBytesToBits(b)
<1>1. bits \in Int /\ Decimal \in Nat \ {0, 1}
  BY SamplersAssumption
<1>2. /\ U!Powers(Decimal)[4] \in Nat /\ Decimal * U!Powers(Decimal)[4] \in Nat
      /\ U!Powers(Decimal)[4] <= Decimal * U!Powers(Decimal)[4]
  BY <1>1, PowersOf
<1>3. n \in Nat /\ (n >= 3 <=> bits >= U!Powers(Decimal)[4])
  <2>1. 3 \in 1..3 /\ 3 + 1 = 4
    OBVIOUS
  <2> HIDE DEF bits
  <2> QED
    BY <1>1, <2>1, DivisionsTellUnit
<1>4. text = IF n + 1 > 3 THEN [num |-> bits, den |-> 1, unit |-> U!AUTO]
             ELSE [num |-> bits, den |-> U!Powers(Decimal)[n + 1], unit |-> n + 1]
  BY DEF U!ConvertBytesToBits
<1>5. CASE bits < U!Powers(Decimal)[4]
  <2> HIDE DEF bits
  <2>1. /\ bits < Decimal * U!Powers(Decimal)[n + 1]
        /\ U!Powers(Decimal)[n + 1] <= bits \/ U!Powers(Decimal)[n + 1] = Decimal
    BY <1>1, <1>2, <1>5, UnitFits
  <2> HIDE DEF n, text
  <2>2. ~(n + 1 > 3)
    BY <1>1, <1>2, <1>3, <1>5
  <2> QED
    BY <1>4, <1>5, <2>1, <2>2 DEF bits, text
<1>6. CASE ~(bits < U!Powers(Decimal)[4])
  <2> HIDE DEF bits, n, text
  <2>1. n + 1 > 3
    BY <1>1, <1>2, <1>3, <1>6
  <2> QED
    BY <1>4, <1>6, <2>1 DEF bits, text
<1> QED
  BY <1>5, <1>6

\* What is shown is told in a unit in which it is at least 1 and below the next, or as
\* the number of bytes it is: whatever a counter grew to, the divisions cut off, and
\* the divisors are.
THEOREM TextsTell == Spec => []TextsTellBytes
<1>1. Inv => TextsTellBytes
  <2> SUFFICES ASSUME Inv, NEW b \in Shown
               PROVE  /\ \A auto \in {U!AUTO, U!AUTO_I} :
                           LET d    == U!Divisor(auto)
                               text == U!ConvertBytes(b, auto)
                           IN  IF b < d * U!Powers(d)[4]
                               THEN /\ text.unit \in auto + 1..auto + 4
                                    /\ text.num < d * text.den
                                    /\ text.den <= text.num \/ text.den = d
                               ELSE /\ text.num = b
                                    /\ text.unit \notin auto + 1..auto + 4
                                    /\ text.den = IF text.unit > U!AUTO_I
                                                  THEN U!Powers(Binary)[text.unit - U!AUTO_I] ELSE 1
                      /\ LET text == U!ConvertBytesToBits(b)
                         IN  IF 8 * b < U!Powers(Decimal)[4]
                             THEN text.num < Decimal * text.den /\ (text.den <= text.num \/ text.den = Decimal)
                             ELSE text.den = 1
    BY DEF TextsTellBytes, U!Powers
  <2>1. b \in Int
    BY ShownAreNumbers
  <2> QED
    BY <2>1, BytesTold, BitsTold
<1> QED
  BY <1>1, Invariance, PTL
=============================================================================
