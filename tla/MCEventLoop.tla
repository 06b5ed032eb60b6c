----------------------------- MODULE MCEventLoop -----------------------------
(***************************************************************************)
(* Instances of EventLoop for TLC.                                         *)
(***************************************************************************)
EXTENDS EventLoop

CONSTANTS main, w1, w2, t1, t2, t3, c1, efd
=============================================================================
