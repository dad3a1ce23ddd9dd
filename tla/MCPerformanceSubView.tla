------------------------- MODULE MCPerformanceSubView -------------------------
(***************************************************************************)
(* One thread, half-second sleeps of two ticks.  The graphs show two       *)
(* ticks and percentages; 481 and 218 are sizes at which                   *)
(* 60 * (481 / 60.) and 100 * (218 / 100.) exceed them in doubles, where   *)
(* two ticks stand for the 60 seconds.                                     *)
(***************************************************************************)
EXTENDS PerformanceSubView

MCSamples == {-1, 0, 150, NaN}
MCOvershoots == {<<481, 2>>, <<218, 100>>}
=============================================================================
