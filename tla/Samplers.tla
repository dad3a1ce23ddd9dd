------------------------------- MODULE Samplers -------------------------------
(***************************************************************************)
(* How NetworkApi, DiskApi and SystemInfoApi (src/api/linux/) turn         *)
(* counters of the kernel into rates and shares: each of                   *)
(* GetInterfaceReceive, GetInterfaceSend, GetDiskRead and GetDiskWrite     *)
(* keeps a snapshot of its counter for every device and reports what was   *)
(* added since; GetDiskUsage and GetCPUUsagePercent report the share of    *)
(* the time in which a disk or a CPU was busy, the one by the time of day, *)
(* the other by the counters of the CPU.  The handlers of the views call   *)
(* them at least Sleep apart (PerformanceSubView!SamplesApart).            *)
(*                                                                         *)
(* ProcessManager does the same for each process that is listed, with      *)
(* GetCPUUsageForProc and GetIOUsageForProc and snapshots by pid: the      *)
(* counters are those that the scan of /proc has read before.              *)
(*                                                                         *)
(* The snapshots of different devices, directions and pids do not depend   *)
(* on each other, so the module follows one of them, of any kind.  One     *)
(* tick is 1/Second of a second; the machine has one CPU.                  *)
(***************************************************************************)
EXTENDS Integers

CONSTANTS
  Booted,        \* what the counter is when the program starts
  Gains,         \* what can be added to a counter of bytes in a tick
  Second, Sleep, \* in ticks
  MaxClock,      \* bound: the time of day
  MaxFaults,     \* bound: how often the device goes or the clock is set back
  MaxLag,        \* bound: how long it takes from the scan to the samples of processes
  Decimal, Binary \* those of UnitConverter

ASSUME SamplersAssumption == /\ {Booted, MaxClock, MaxFaults, MaxLag} \subseteq Nat
                             /\ {Second, Sleep} \subseteq Nat \ {0}
                             /\ Gains \subseteq Nat
                             /\ {Decimal, Binary} \subseteq Nat \ {0, 1}

\* A counter of bytes, the busy time of a disk, or that of a CPU; the time a
\* process has used, or its bytes.
Kinds == {"bytes", "busy", "cpu", "process", "io"}

VARIABLES
  kind,      \* what is sampled
  counter,   \* the kernel's counter; times are in ticks
  cpuTime,   \* the time of the CPU in all, as far as it was online; it stands still
             \* where it is not read
  present,   \* the device is plugged in, the CPU online, the process runs: else there
             \* is nothing to read
  clock,     \* Utils::GetCurrentTimeMS
  rested,    \* time since the last sample, up to Sleep
  known,     \* Utils::mapContains(snapshots, id)
  snapshots, \* the entry in g_IOSnapshotsRecv and its siblings, m_CpuUsageDeltas,
             \* m_PidCpuTimes, m_PidIOUsages: the last sample
  listed,    \* the scan has read the process, and the sample is still to come
  scanned,   \* ProcessInfo of the process; with what moved and disturbed were, and
             \* the time since (history)
  moved,     \* what was added to the counter since it was read last (history)
  disturbed, \* the device was lost or came back, the clock of a device was set back,
             \* or a child was reaped, since the counter was read last (history)
  late,      \* the time from the scan to the last sample (history)
  faults     \* history, for the bound

U == INSTANCE UnitConverter

world == <<kind, counter, cpuTime, present, clock, rested>>
history == <<moved, disturbed, late, faults>>
vars == <<world, known, snapshots, listed, scanned, history>>

\* What is sampled for each process.
OfProcess == kind \in {"process", "io"}

\* A report is num / den; num / 0 is not a number or infinite.
Nothing == [num |-> 0, den |-> 1]

NoSample == [bytes |-> 0, time |-> 0]
NoScan == [bytes |-> 0, moved |-> 0, disturbed |-> FALSE, lag |-> 0]

TypeOK == /\ kind \in Kinds
          /\ counter \in Nat
          /\ cpuTime \in Nat
          /\ present \in BOOLEAN
          /\ clock \in 0..MaxClock
          /\ rested \in 0..Sleep
          /\ known \in BOOLEAN
          /\ snapshots \in [bytes : Nat, time : Nat]
          /\ listed \in BOOLEAN
          /\ scanned \in [bytes : Nat, moved : Nat, disturbed : BOOLEAN, lag : 0..MaxLag]
          /\ late \in 0..MaxLag
          /\ moved \in Nat
          /\ disturbed \in BOOLEAN
          /\ faults \in 0..MaxFaults

Init == /\ kind \in Kinds
        /\ counter = Booted
        /\ cpuTime = 2 * Booted
        /\ present = TRUE
        /\ clock = 0
        /\ rested = Sleep
        /\ known = FALSE
        /\ snapshots = NoSample
        /\ listed = FALSE
        /\ scanned = NoScan
        /\ late = 0
        /\ moved = 0
        /\ disturbed = FALSE
        /\ faults = 0

-----------------------------------------------------------------------------
(* The machine. *)

Tick ==
  /\ clock < MaxClock
  /\ \E gain \in (IF ~present THEN {0} ELSE IF kind \in {"bytes", "io"} THEN Gains ELSE {0, 1}) :
       /\ counter' = counter + gain
       /\ moved' = moved + gain
  /\ cpuTime' = IF kind = "process" \/ (kind = "cpu" /\ present) THEN cpuTime + 1 ELSE cpuTime
  /\ clock' = clock + 1
  /\ rested' = IF rested < Sleep THEN rested + 1 ELSE Sleep
  /\ listed => scanned.lag < MaxLag
  /\ scanned' = IF listed THEN [scanned EXCEPT !.lag = @ + 1] ELSE scanned
  /\ UNCHANGED <<kind, present, known, snapshots, listed, disturbed, late, faults>>

Fault == /\ faults < MaxFaults
         /\ faults' = faults + 1

Vanish ==
  /\ Fault
  /\ present
  /\ present' = FALSE
  /\ disturbed' = TRUE
  /\ UNCHANGED <<kind, counter, cpuTime, clock, rested, known, snapshots, listed, scanned, moved, late>>

\* The device comes back, with its counter or with a new one; the CPU is brought
\* online; another process gets the pid.
Return ==
  /\ ~present
  /\ present' = TRUE
  /\ counter' \in CASE kind = "cpu" -> {counter}
                    [] OfProcess -> {0}
                    [] OTHER -> {0, counter}
  /\ disturbed' = TRUE
  /\ UNCHANGED <<kind, cpuTime, clock, rested, known, snapshots, listed, scanned, moved, late, faults>>

\* The process waits for a child that has ended: all the time that the child has
\* used is added to cutime and cstime at once.
Reap(time) ==
  /\ Fault
  /\ kind = "process"
  /\ present
  /\ counter' = counter + time
  /\ moved' = moved + time
  /\ disturbed' = TRUE
  /\ UNCHANGED <<kind, cpuTime, present, clock, rested, known, snapshots, listed, scanned, late>>

SetBack(t) ==
  /\ Fault
  /\ kind \in {"bytes", "busy", "io"}
  /\ t < clock
  /\ clock' = t
  /\ disturbed' = TRUE
  /\ UNCHANGED <<kind, counter, cpuTime, present, rested, known, snapshots, listed, scanned, moved, late>>

-----------------------------------------------------------------------------
(* The samplers. *)

Base == CASE kind = "cpu" -> IF present THEN cpuTime ELSE 0
          [] kind = "process" -> cpuTime
          [] OTHER -> clock

\* GetInterfaceTotalReceived, ReadStatEntry: the counter, 0 when it cannot be
\* read, and the time of day; GetCPUTimes: the counters of the CPU, all 0 when
\* there is no line for it; for a process, what the scan has read of it, with the
\* time as it is now.
ReadCounter ==
  [bytes |-> CASE OfProcess -> scanned.bytes
               [] ~OfProcess /\ present -> counter
               [] OTHER -> 0,
   time  |-> Base]

\* A double that is converted to long.
Truncated(a, b) == IF a < 0 THEN -((-a) \div b) ELSE a \div b

\* Mutant: the factor keeps growing with the time between two samples.
Rate_Unlimited(diff, dt) == [num |-> Truncated(diff * (Second + dt), Second), den |-> 1]

\* GetInterfaceReceive ..., GetIOUsageForProc: the difference, times 1 + dt while dt is below a second.
Rate(diff, dt) ==
  [num |-> IF dt < Second THEN Truncated(diff * (Second + dt), Second) ELSE diff, den |-> 1]

\* GetDiskUsage, GetCPUUsagePercent, GetCPUUsageForProc
Usage(diff, dt) == [num |-> diff, den |-> dt]

\* What the function returns.
Report ==
  IF ~known THEN Nothing
  ELSE LET diff == ReadCounter.bytes - snapshots.bytes
           dt   == ReadCounter.time - snapshots.time
       IN  IF kind \in {"bytes", "io"} THEN Rate(diff, dt) ELSE Usage(diff, dt)

\* ProcessesApi::GetAllProcesses, at the beginning of a refresh.
Scan ==
  /\ OfProcess
  /\ rested = Sleep
  /\ present
  /\ ~listed
  /\ listed' = TRUE
  /\ scanned' = [bytes |-> counter, moved |-> moved, disturbed |-> disturbed, lag |-> 0]
  /\ moved' = 0
  /\ disturbed' = FALSE
  /\ UNCHANGED <<world, known, snapshots, late, faults>>

\* Mutant: the bytes of the first snapshot are kept.
Sample_BytesKept ==
  /\ rested = Sleep
  /\ ~OfProcess
  /\ known' = TRUE
  /\ snapshots' = [ReadCounter EXCEPT !.bytes = IF known THEN snapshots.bytes ELSE @]
  /\ rested' = 0
  /\ moved' = 0
  /\ disturbed' = FALSE
  /\ UNCHANGED <<kind, counter, cpuTime, present, clock, listed, scanned, late, faults>>

\* The handler of the view calls the function.
Sample ==
  /\ rested = Sleep
  /\ ~OfProcess
  /\ known' = TRUE
  /\ snapshots' = ReadCounter
  /\ rested' = 0
  /\ moved' = 0
  /\ disturbed' = FALSE
  /\ UNCHANGED <<kind, counter, cpuTime, present, clock, listed, scanned, late, faults>>

\* ProcessManager::GetAllProcesses samples each process of the list, and keeps the
\* snapshots of those that are not in it.
SampleProcess ==
  /\ listed
  /\ known' = TRUE
  /\ snapshots' = ReadCounter
  /\ listed' = FALSE
  /\ scanned' = NoScan
  /\ late' = scanned.lag
  /\ rested' = 0
  /\ UNCHANGED <<kind, counter, cpuTime, present, clock, moved, disturbed, faults>>

Next == \/ Tick
        \/ Vanish
        \/ Return
        \/ \E t \in 0..MaxClock : SetBack(t)
        \/ \E time \in Gains \ {0} : Reap(time)
        \/ Sample
        \/ Scan
        \/ SampleProcess

Spec == Init /\ [][Next]_vars

-----------------------------------------------------------------------------
(* Properties. *)

\* A report is due that covers an undisturbed time.
Due == /\ known
       /\ ~disturbed
       /\ IF OfProcess THEN listed /\ ~scanned.disturbed ELSE rested = Sleep

\* What was added to the counter in the time that the report covers.
Covered == IF OfProcess THEN scanned.moved ELSE moved

\* What is reported lies between what was moved since the last sample and twice
\* as much: nothing is counted again or forgotten, and one loss of a device, one
\* change of the clock or one process that got the pid of another is over with the
\* next undisturbed sample (GetInterfaceReceive, GetDiskRead, GetIOUsageForProc).
ReportsCoverMoved ==
  Due /\ kind \in {"bytes", "io"} => Report.num \in Covered..2 * Covered

\* A disk, or a CPU that is online, is never busy for less than nothing or more
\* than all of the time, and the share is a number, once the time is undisturbed.
\* A process may seem to have used more than there was, but only by what passed
\* between the scan and the sample of the refresh before.  (A CPU that stays offline
\* is 0 / 0 busy, which GraphWidget has to cope with.)
UsageIsShare ==
  Due /\ (kind \in {"busy", "process"} \/ (kind = "cpu" /\ present)) =>
    Report.den > 0 /\ Report.num \in 0..Report.den + late

\* What the views turn into texts: the total of bytes, and what is reported.
Shown == IF kind \notin {"bytes", "io"} THEN {}
         ELSE {counter} \cup (IF OfProcess /\ ~listed THEN {} ELSE {Report.num})

\* Totals and rates are shown in the unit in which they are at least 1 and below
\* the next unit, the smallest unit if they are below 1 in all of them, whatever
\* the steps from one unit to the next cut off; when the units run out, the text
\* still tells the number of bytes: as such, or, because KiB follows after TB in
\* UnitType, in KiB (ConvertBytes, GetBestUnitForBytes, ConvertBytesToBits).
TextsTellBytes ==
  LET Fits(text, d) == text.num < d * text.den /\ (text.den <= text.num \/ text.den = d)
  IN  \A bytes \in Shown :
        /\ \A auto \in {U!AUTO, U!AUTO_I} :
             LET d    == U!Divisor(auto)
                 text == U!ConvertBytes(bytes, auto)
             IN  IF bytes < d * (d * (d * (d * d))) THEN text.unit \in auto + 1..auto + 4 /\ Fits(text, d)
                 ELSE /\ text.num = bytes
                     /\ text.unit \notin auto + 1..auto + 4
                     /\ text.den = IF text.unit > U!AUTO_I THEN U!Powers(Binary)[text.unit - U!AUTO_I] ELSE 1
        /\ LET text == U!ConvertBytesToBits(bytes)
           IN  IF 8 * bytes < Decimal * (Decimal * (Decimal * Decimal)) THEN Fits(text, Decimal) ELSE text.den = 1
=============================================================================
