--------------------------- MODULE MCChainGrowth ---------------------------
(* Small instances of ChainGrowth for TLC.                                 *)
EXTENDS ChainGrowth, TLC

\* Trials are alike.
TrialSymmetry == Permutations(Trials)
=============================================================================
