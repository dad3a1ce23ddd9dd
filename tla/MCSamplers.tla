------------------------------ MODULE MCSamplers ------------------------------
(* A second is 3 ticks and a sleep is 2. *)
EXTENDS Samplers
=============================================================================
