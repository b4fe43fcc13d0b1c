---------------------------- MODULE MCHoldClient ----------------------------
(* A small instance of HoldClient for TLC: no symmetry, it checks liveness.  *)
EXTENDS HoldClient

CONSTANTS r1, r2

MCPageAndTwoHolds == <<"page", "hold", "hold">>
=============================================================================
