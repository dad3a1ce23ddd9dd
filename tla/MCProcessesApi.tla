---------------------------- MODULE MCProcessesApi ----------------------------
(* Three pids and four processes; a program of each kind. *)
EXTENDS ProcessesApi
=============================================================================
