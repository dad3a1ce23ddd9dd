----------------------------- MODULE MCAutostart -----------------------------
(* Two entries, each of which may have a disabled twin. *)
EXTENDS Autostart
=============================================================================
