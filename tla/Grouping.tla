------------------------------ MODULE Grouping ------------------------------
(***************************************************************************)
(* What a SimpleGrouper promises, without its machinery: participants who  *)
(* are waiting are put, once, into disjoint groups of exactly GroupSize,   *)
(* and only when BatchSize of them wait together.  The waiting pools,      *)
(* claims, row locks and pollers of BarrierPool implement this.            *)
(***************************************************************************)
EXTENDS Naturals, FiniteSets

CONSTANTS Participants, GroupSize, BatchSize

VARIABLES
  waiting,   \* participants in the waiting area
  groups     \* the groups formed so far: a set of sets of participants

absVars == <<waiting, groups>>

Grouped == UNION groups

AbsInit == waiting = {} /\ groups = {}

Enter(p) ==
  /\ p \notin waiting \cup Grouped
  /\ waiting' = waiting \cup {p}
  /\ UNCHANGED groups

\* A waiting participant gives up (fails, or leaves the study).
Abandon(p) ==
  /\ p \in waiting
  /\ waiting' = waiting \ {p}
  /\ UNCHANGED groups

\* New groups are formed, all at once, out of waiting participants.
Form ==
  LET new == groups' \ groups IN
  /\ new # {} /\ groups \subseteq groups'
  /\ UNION new \subseteq waiting
  /\ \A g \in new : Cardinality(g) = GroupSize
  /\ \A g, h \in new : g # h => g \cap h = {}
  /\ Cardinality(waiting) >= BatchSize
  /\ waiting' = waiting \ UNION new

AbsNext == Form \/ \E p \in Participants : Enter(p) \/ Abandon(p)

AbsSpec == AbsInit /\ [][AbsNext]_absVars
=============================================================================
