---------------------------- MODULE MCTimerQueue -----------------------------
(***************************************************************************)
(* Instances of TimerQueue for TLC.                                        *)
(***************************************************************************)
EXTENDS TimerQueue

CONSTANTS main, w1, a1, a2, none

BackOne == {-1}
=============================================================================
