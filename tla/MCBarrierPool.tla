--------------------------- MODULE MCBarrierPool ---------------------------
(* Small instances of BarrierPool for TLC.                                 *)
EXTENDS BarrierPool

MCParticipants == 1..3
=============================================================================
