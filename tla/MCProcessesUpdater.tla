------------------------- MODULE MCProcessesUpdater -------------------------
(* A small instance of ProcessesUpdater for TLC.  *)
EXTENDS ProcessesUpdater

\* The view has four categories, which its worker treats alike; two are enough to
\* see a change of the settings between the calls of one refresh.
TwoCategories == <<"apps", "system">>
=============================================================================
