----------------------------- MODULE ProcessesApi -----------------------------
(***************************************************************************)
(* ProcessesApi::GetAllProcesses (src/api/linux/ProcessesApi.cpp) lists    *)
(* /proc and reads five files of each process, one after the other.  The   *)
(* system does not stand still meanwhile: processes start, run other       *)
(* programs and end, and their pids are given to new ones, so the files of *)
(* one entry need not be those of one process, and the ppids of the        *)
(* entries need not be those of one moment.                                *)
(***************************************************************************)
EXTENDS ProcessTree, Integers, SequencesExt

CONSTANTS
  InitPid,  \* the process that adopts orphans and does not end
  Programs, \* what a process can run
  Spaced,   \* programs whose name in stat has a space
  Silent,   \* programs without a command line (kernel threads)
  MaxLives  \* bound: the processes that ever start

ASSUME ProcessesAssumption == /\ Pids \subseteq Nat \ {0}
                              /\ InitPid \in Pids
                              /\ Spaced \cup Silent \subseteq Programs
                              /\ MaxLives \in Nat \ {0}

VARIABLES
  procs,  \* the processes: for each pid in use, its process, parent and program
  lives,  \* the processes that were ever started: 1..lives
  step,   \* where GetAllProcesses is, "done" when it has returned
  cursor, \* the pid of the directory entry that is or was read last
  proc,   \* proc, <<>> outside of the body of the loop
  result, \* result
  gone,   \* pids of processes that have ended since the scan began (history)
  reused, \* such a pid is in use again (history)
  steady  \* pids in use since the scan began, never by a program in Spaced (history)

system == <<procs, lives>>
scan == <<step, cursor, proc, result>>
scanVars == <<system, scan, gone, reused, steady>>

Steps == {"stat", "status", "statm", "cmdline", "io", "done"}

\* ProcessInfo; read is the set of the processes whose files were read for it.
ProcessInfo == [pid : Pids, parentPid : Pids \cup {Root}, name : Programs, read : SUBSET (1..lives)]

Alive == DOMAIN procs

ScanTypeOK == /\ Alive \subseteq Pids
              /\ procs \in [Alive -> [life : 1..lives, parent : Alive \cup {Root}, program : Programs]]
              /\ lives \in 1..MaxLives
              /\ step \in Steps
              /\ cursor \in Pids \cup {0}
              /\ step \in Steps \ {"stat", "done"} => proc \in ProcessInfo /\ proc.pid = cursor
              /\ result \in Seq(ProcessInfo)
              /\ gone \cup steady \subseteq Pids
              /\ reused \in BOOLEAN

ScanInit == /\ procs \in [{InitPid} -> [life : {1}, parent : {Root}, program : Programs]]
            /\ lives = 1
            /\ step = "done"
            /\ cursor = 0
            /\ proc = <<>>
            /\ result = <<>>
            /\ gone = {}
            /\ reused = FALSE
            /\ steady = {}

-----------------------------------------------------------------------------
(* The system. *)

Fork(p, pid) ==
  /\ lives < MaxLives
  /\ pid \notin Alive
  /\ lives' = lives + 1
  /\ procs' = [q \in Alive \cup {pid} |->
                 IF q = pid THEN [life |-> lives + 1, parent |-> p, program |-> procs[p].program]
                            ELSE procs[q]]
  /\ reused' = (reused \/ pid \in gone)
  /\ UNCHANGED <<scan, gone, steady>>

Exec(p, program) ==
  /\ procs' = [procs EXCEPT ![p].program = program]
  /\ steady' = IF program \in Spaced THEN steady \ {p} ELSE steady
  /\ UNCHANGED <<lives, scan, gone, reused>>

\* The process ends, its parent has waited for it, and init adopts its children.
Exit(p) ==
  /\ p # InitPid
  /\ procs' = [q \in Alive \ {p} |->
                 IF procs[q].parent = p THEN [procs[q] EXCEPT !.parent = InitPid] ELSE procs[q]]
  /\ gone' = gone \cup {p}
  /\ steady' = steady \ {p}
  /\ UNCHANGED <<lives, scan, reused>>

-----------------------------------------------------------------------------
(* GetAllProcesses. *)

Begin ==
  /\ step = "done"
  /\ step' = "stat"
  /\ cursor' = 0
  /\ result' = <<>>
  /\ proc' = <<>>
  /\ gone' = {}
  /\ reused' = FALSE
  /\ steady' = {p \in Alive : procs[p].program \notin Spaced}
  /\ UNCHANGED system

\* The directory has an entry for pid, and none between it and cursor.  It lists
\* pids in their order, and those that have been in use all the time for certain.
Entry(pid) == pid > cursor /\ \A p \in steady : p <= cursor \/ p >= pid

\* Mutant: the results of fopen and fscanf are not looked at.
ReadStat_Unchecked(pid) ==
  /\ step = "stat"
  /\ Entry(pid)
  /\ cursor' = pid
  /\ step' = "status"
  /\ proc' = IF pid \in Alive /\ procs[pid].program \notin Spaced
             THEN [pid |-> pid, parentPid |-> procs[pid].parent,
                   name |-> procs[pid].program, read |-> {procs[pid].life}]
             ELSE [pid |-> 0, parentPid |-> Root, name |-> CHOOSE p \in Programs : TRUE, read |-> {}]
  /\ UNCHANGED <<system, result, gone, reused, steady>>

\* Mutant: the process group, which is often the process itself, is read as the parent.
ReadStat_Group(pid) ==
  /\ step = "stat"
  /\ Entry(pid)
  /\ cursor' = pid
  /\ IF pid \in Alive /\ procs[pid].program \notin Spaced
     THEN /\ proc' = [pid |-> pid, parentPid |-> pid,
                      name |-> procs[pid].program, read |-> {procs[pid].life}]
          /\ step' = "status"
     ELSE UNCHANGED <<proc, step>>
  /\ UNCHANGED <<system, result, gone, reused, steady>>

\* parse_stat: a name with a space is taken for two fields, and the process left out.
ReadStat(pid) ==
  /\ step = "stat"
  /\ Entry(pid)
  /\ cursor' = pid
  /\ IF pid \in Alive /\ procs[pid].program \notin Spaced
     THEN /\ proc' = [pid |-> pid, parentPid |-> procs[pid].parent,
                      name |-> procs[pid].program, read |-> {procs[pid].life}]
          /\ step' = "status"
     ELSE UNCHANGED <<proc, step>>
  /\ UNCHANGED <<system, result, gone, reused, steady>>

\* continue
Continue == step' = "stat" /\ proc' = <<>>

\* A file of the process that is now there under the pid of the entry is read.
WithFile == [proc EXCEPT !.read = @ \cup {procs[cursor].life}]

\* parse_status and parse_statm: without them the process is left out.
ReadOrSkip(this, next) ==
  /\ step = this
  /\ IF cursor \in Alive THEN proc' = WithFile /\ step' = next ELSE Continue
  /\ UNCHANGED <<system, cursor, result, gone, reused, steady>>

ReadStatus == ReadOrSkip("status", "statm")
ReadStatm == ReadOrSkip("statm", "cmdline")

\* Mutant: a process without a command line is left out as well.
ReadCmdline_Required ==
  /\ step = "cmdline"
  /\ IF cursor \in Alive /\ procs[cursor].program \notin Silent
     THEN /\ proc' = [WithFile EXCEPT !.name = procs[cursor].program]
          /\ step' = "io"
     ELSE Continue
  /\ UNCHANGED <<system, cursor, result, gone, reused, steady>>

\* parse_cmdline: the name from stat is kept when there is no command line.
ReadCmdline ==
  /\ step = "cmdline"
  /\ IF cursor \in Alive /\ procs[cursor].program \notin Silent
     THEN proc' = [WithFile EXCEPT !.name = procs[cursor].program]
     ELSE UNCHANGED proc
  /\ step' = "io"
  /\ UNCHANGED <<system, cursor, result, gone, reused, steady>>

\* parse_io, which may find nothing, and the end of the loop's body.
ReadIo ==
  /\ step = "io"
  /\ result' = Append(result, IF cursor \in Alive THEN WithFile ELSE proc)
  /\ Continue
  /\ UNCHANGED <<system, cursor, gone, reused, steady>>

\* The directory has no more entries.
End == /\ step = "stat"
       /\ \A p \in steady : p <= cursor
       /\ step' = "done"
       /\ cursor' = 0
       /\ UNCHANGED <<system, proc, result, gone, reused, steady>>

ScanNext == \/ Begin
            \/ \E pid \in Pids : ReadStat(pid)
            \/ ReadStatus
            \/ ReadStatm
            \/ ReadCmdline
            \/ ReadIo
            \/ End
            \/ \E p \in Alive : Exit(p) \/ \E program \in Programs : Exec(p, program)
            \/ \E p \in Alive, pid \in Pids : Fork(p, pid)

ScanSpec == ScanInit /\ [][ScanNext]_scanVars

-----------------------------------------------------------------------------
(* Properties. *)

\* A process that lives throughout the scan and never has a space in its name is
\* listed exactly once, with files of its own only, whatever starts and ends
\* around it and whether or not it has a command line.
SurvivorsAreListed ==
  step = "done" =>
    \A p \in steady :
      \E i \in DOMAIN result :
        /\ result[i].pid = p
        /\ result[i].read = {procs[p].life}
        /\ \A j \in DOMAIN result : result[j].pid = p => j = i

\* The parents of the entries form no cycle, although they were read at different
\* moments, unless a pid was used again during the scan: ProcessNode::BuildTree
\* hangs the processes of a cycle below each other and none of them below ROOT,
\* and FlatTree of one of them does not return.
ParentsFormNoCycle ==
  ~reused => \A loop \in (SUBSET ToSet(result)) \ {{}} :
               \E p \in loop : p.parentPid \notin {q.pid : q \in loop}
=============================================================================
