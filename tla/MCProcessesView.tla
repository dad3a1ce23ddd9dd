--------------------------- MODULE MCProcessesView ---------------------------
(***************************************************************************)
(* Three processes that come and go.  A parent has a smaller pid than its  *)
(* children or is gone.                                                    *)
(***************************************************************************)
EXTENDS ProcessesView

MCPids == 1..3
MCTrees == UNION {{t \in [list -> list \cup {0}] : \A p \in list : t[p] < p} :
                    list \in SUBSET MCPids}
=============================================================================
