-------------------------- MODULE MCProcessManager --------------------------
(***************************************************************************)
(* Process tables of up to four processes.  Process 1 is the init process  *)
(* of the system; the others run below it or below each other, and the     *)
(* parent of process 2 may be gone (a pid the scan did not find).          *)
(***************************************************************************)
EXTENDS ProcessManager

MCPids == 1..5
MCNames == {"app", "bash", "gnome-shell", "game.exe"}

InitProcess == [ppid |-> Root, name |-> "app", mine |-> FALSE, window |-> FALSE]

\* Who may run as process p: a window belongs to a process of the user.
Candidates(p) ==
  {q \in Processes : /\ q.ppid \in (1..(p - 1)) \cup (IF p = 2 THEN {5} ELSE {})
                     /\ q.window => q.mine}

\* The last process has no window: two windows are enough to claim one process twice.
MCTables ==
  {<<InitProcess, q, r>> : q \in Candidates(2), r \in Candidates(3)}
  \cup {<<InitProcess, q, r, s>> : q \in Candidates(2), r \in Candidates(3),
                                   s \in {x \in Candidates(4) : ~x.window}}
=============================================================================
