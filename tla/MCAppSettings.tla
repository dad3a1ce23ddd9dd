---------------------------- MODULE MCAppSettings ----------------------------
(* A small instance of AppSettings for TLC. *)
EXTENDS AppSettings
=============================================================================
