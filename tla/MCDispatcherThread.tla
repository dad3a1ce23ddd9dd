------------------------- MODULE MCDispatcherThread -------------------------
(* A small instance of DispatcherThread for TLC.  *)
EXTENDS DispatcherThread
=============================================================================
