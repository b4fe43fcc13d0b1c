----------------------------- MODULE MCPayment -----------------------------
(* Small instances of Payment for TLC.                                     *)
EXTENDS Payment, TLC

Prolific == [reports |-> TRUE, reportsZero |-> FALSE, commitsEarly |-> FALSE]
Lucid == [reports |-> FALSE, reportsZero |-> TRUE, commitsEarly |-> TRUE]
Lab == [reports |-> FALSE, reportsZero |-> TRUE, commitsEarly |-> FALSE]

MCAll == {Prolific, Lucid, Lab}
MCProlific == {Prolific}

\* Calls of a kind are alike.
CallSymmetry == Permutations(Handlers) \cup Permutations(Tabs)
=============================================================================
