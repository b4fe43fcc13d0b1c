------------------------- MODULE ChainGrowthProofs -------------------------
(***************************************************************************)
(* Proofs about ChainGrowth for any number of participants, trials per     *)
(* node, nodes and faults.                                                 *)
(***************************************************************************)
EXTENDS ChainGrowth, FiniteSetTheorems, TLAPS

Stages == {"none", "chosen", "claimed", "pending", "finishing", "final"}
ChainTypeOK ==
  /\ trial \in [Trials -> [node : {trial[t].node : t \in Trials}, at : Stages]]
  /\ plan = [c \in Actors |-> plan[c]]

\* A trial that has a plan is being finalized; a plan to grow has a node.
PlansFit ==
  /\ \A t \in Trials : plan[t] # NoPlan => trial[t].at = "finishing"
  /\ \A c \in Actors : plan[c].kind = "grow" => plan[c].nodes # {}

\* The places of a node that are taken: by its trials, and by one request that
\* has counted them under the node's lock and is about to create its own.
Taken(n) == Alive(n) \cup {t \in Trials : trial[t] = [node |-> n, at |-> "claimed"]}
Fits(n) == IsFiniteSet(Taken(n)) /\ Cardinality(Taken(n)) <= TrialsPerNode
TakenFits == \A t \in Trials : Fits(trial[t].node)

ChainInv == ChainTypeOK /\ PlansFit /\ TakenFits
-----------------------------------------------------------------------------
\* What is bounded for the nodes that have trials is bounded for all.
LEMMA FitsEverywhere ==
  ASSUME ChainTypeOK, TakenFits, NEW n
  PROVE  Fits(n)
<1>1. CASE \E t \in Trials : trial[t].node = n
  BY <1>1 DEF TakenFits
<1>2. CASE ~ \E t \in Trials : trial[t].node = n
  <2>1. Taken(n) = {}
    BY <1>2 DEF Taken, Alive
  <2>. QED
    BY <2>1, FS_EmptySet, ChainAssumption DEF Fits
<1>. QED
  BY <1>1, <1>2

\* A step that takes no place keeps the bound.
LEMMA FewerFit ==
  ASSUME ChainTypeOK, TakenFits, \A n : Taken(n)' \subseteq Taken(n)
  PROVE  TakenFits'
<1>. SUFFICES ASSUME NEW t \in Trials, NEW n, n = trial'[t].node PROVE Fits(n)'
  BY Zenon DEF TakenFits, Fits, Taken, Alive
<1>1. Fits(n)
  BY FitsEverywhere
<1>2. Taken(n)' \subseteq Taken(n)
  OBVIOUS
<1>3. IsFiniteSet(Taken(n)') /\ Cardinality(Taken(n)') <= Cardinality(Taken(n))
  BY <1>1, <1>2, FS_Subset DEF Fits
<1>4. Cardinality(Taken(n)) \in Nat /\ Cardinality(Taken(n)') \in Nat
  BY <1>1, <1>3, FS_CardinalityType DEF Fits
<1>5. Cardinality(Taken(n)') <= TrialsPerNode
  BY <1>1, <1>3, <1>4, ChainAssumption DEF Fits
<1>. QED
  BY <1>3, <1>5 DEF Fits

\* A trial that changes keeps the type.
LEMMA TrialChanges ==
  ASSUME ChainTypeOK, NEW t \in Trials, NEW n, NEW at \in Stages,
         trial' = [trial EXCEPT ![t] = [node |-> n, at |-> at]]
  PROVE  trial' \in [Trials -> [node : {trial'[s].node : s \in Trials}, at : Stages]]
BY DEF ChainTypeOK

LEMMA TrialMoves ==
  ASSUME ChainTypeOK, NEW t \in Trials, NEW at \in Stages
  PROVE  [trial EXCEPT ![t].at = at] = [trial EXCEPT ![t] = [node |-> trial[t].node, at |-> at]]
<1>1. trial[t] = [node |-> trial[t].node, at |-> trial[t].at]
  BY DEF ChainTypeOK
<1>2. [trial[t] EXCEPT !.at = at] = [node |-> trial[t].node, at |-> at]
  BY <1>1
<1>. QED
  BY <1>2 DEF ChainTypeOK

LEMMA GrowPlanIs ==
  ASSUME NEW n, NEW ts
  PROVE  GrowPlan(n, ts).kind = "grow" /\ GrowPlan(n, ts).nodes = {n} /\ GrowPlan(n, ts).trials = ts
BY DEF GrowPlan, NoPlan

LEMMA PlanChanges ==
  ASSUME ChainTypeOK, NEW c \in Actors, NEW p, plan' = [plan EXCEPT ![c] = p]
  PROVE  /\ plan' = [d \in Actors |-> plan'[d]]
         /\ plan'[c] = p /\ \A d \in Actors \ {c} : plan'[d] = plan[d]
BY DEF ChainTypeOK

LEMMA InitChain == Init => ChainInv
<1>. SUFFICES ASSUME Init PROVE ChainInv
  OBVIOUS
<1>1. ChainTypeOK
  BY DEF Init, ChainTypeOK, Stages
<1>2. PlansFit
  BY DEF Init, PlansFit, NoPlan, Actors
<1>3. \A n : Taken(n) = {}
  BY DEF Init, Taken, Alive
<1>4. TakenFits
  BY <1>3, FS_EmptySet, ChainAssumption DEF TakenFits, Fits
<1>. QED
  BY <1>1, <1>2, <1>4 DEF ChainInv

\* A claim counts the trials of the node while nobody else can create one.
LEMMA ClaimStep ==
  ASSUME ChainInv, NEW t \in Trials, Claim(t)
  PROVE  ChainInv'
<1>. DEFINE n == trial[t].node
<1>1. /\ trial[t].at = "chosen" /\ UNCHANGED <<failed, plan>> /\ ~NodeHeld(trial[t].node, t)
      /\ trial' = [trial EXCEPT ![t] = IF HasRoom(trial[t].node) THEN [@ EXCEPT !.at = "claimed"]
                                       ELSE [node |-> 0, at |-> "none"]]
  BY DEF Claim
<1>2. ChainTypeOK'
  BY <1>1 DEF ChainInv, ChainTypeOK, Stages
<1>3. PlansFit'
  BY <1>1 DEF ChainInv, ChainTypeOK, PlansFit, Stages
<1>4. CASE ~HasRoom(n)
  <2>1. \A m : Taken(m)' \subseteq Taken(m)
    BY <1>1, <1>4 DEF ChainInv, ChainTypeOK, Taken, Alive
  <2>. QED
    BY <1>2, <1>3, <2>1, FewerFit DEF ChainInv
<1>5. CASE HasRoom(n)
  <2>1. \A m : m # trial[t].node => Taken(m)' = Taken(m)
    BY <1>1, <1>5 DEF ChainInv, ChainTypeOK, Taken, Alive
  <2>2. PICK m : m = trial[t].node
    OBVIOUS
  <2>3. Taken(m) = Alive(m)
    BY <1>1, <2>2 DEF Taken, NodeHeld, ChainInv, ChainTypeOK
  <2>4. Taken(m)' \subseteq Alive(m) \cup {t}
    BY <1>1, <1>5, <2>2, <2>3 DEF ChainInv, ChainTypeOK, Taken, Alive
  <2>5. IsFiniteSet(Alive(m)) /\ Cardinality(Alive(m)) < TrialsPerNode
    BY <1>5, <2>2, <2>3, FitsEverywhere DEF ChainInv, Fits, HasRoom
  <2>6. /\ IsFiniteSet(Alive(m) \cup {t}) /\ Cardinality(Alive(m)) \in Nat
        /\ Cardinality(Alive(m) \cup {t}) <= Cardinality(Alive(m)) + 1
    BY <2>5, FS_AddElement, FS_CardinalityType
  <2>7. IsFiniteSet(Taken(m)') /\ Cardinality(Taken(m)') <= Cardinality(Alive(m) \cup {t})
    BY <2>4, <2>6, FS_Subset
  <2>8. Cardinality(Taken(m)') \in Nat /\ Cardinality(Alive(m) \cup {t}) \in Nat
    BY <2>6, <2>7, FS_CardinalityType
  <2>9. Cardinality(Taken(m)') <= TrialsPerNode
    BY <2>5, <2>6, <2>7, <2>8, ChainAssumption
  <2>10. Fits(m)'
    BY <2>7, <2>9 DEF Fits
  <2>11. ASSUME NEW s \in Trials, NEW k, k = trial'[s].node PROVE Fits(k)'
    <3>1. CASE k = m
      BY <2>10, <3>1
    <3>2. CASE k # m
      BY <2>1, <2>2, <3>2, FitsEverywhere DEF ChainInv, Fits
    <3>. QED
      BY <3>1, <3>2
  <2>12. TakenFits'
    BY <2>11, Zenon DEF TakenFits, Fits, Taken, Alive
  <2>. QED
    BY <1>2, <1>3, <2>12 DEF ChainInv
<1>. QED
  BY <1>4, <1>5

\* The other steps of a participant take no place.
LEMMA TrialStep ==
  ASSUME ChainInv, NEW t \in Trials, Select(t) \/ Create(t) \/ Finalize(t) \/ Fail(t)
  PROVE  ChainInv'
<1>. USE ChainAssumption DEF ChainInv, ChainTypeOK, Put
<1>1. ChainTypeOK'
  <2>1. CASE Select(t)
    BY <2>1 DEF Select, Stages
  <2>2. CASE Create(t)
    <3>1. \E n, at : /\ at \in Stages
                      /\ trial' = [trial EXCEPT ![t] = [node |-> n, at |-> at]]
      BY <2>2, TrialMoves DEF Create, Stages
    <3>. QED
      BY <2>2, <3>1, TrialChanges DEF Create
  <2>3. CASE Finalize(t)
    BY <2>3 DEF Finalize, Stages
  <2>4. CASE Fail(t)
    BY <2>4 DEF Fail
  <2>. QED
    BY <2>1, <2>2, <2>3, <2>4
<1>2. PlansFit'
  <2>1. CASE Select(t)
    BY <2>1 DEF Select, PlansFit
  <2>4. CASE Create(t)
    <3>1. trial[t].at = "claimed" /\ UNCHANGED plan
      BY <2>4 DEF Create
    <3>2. \A s \in Trials \ {t} : trial'[s] = trial[s]
      BY <2>4 DEF Create
    <3>. QED
      BY <3>1, <3>2 DEF PlansFit
  <2>2. CASE Finalize(t)
    <3>1. \/ plan' = [plan EXCEPT ![t] = GrowPlan(head, Usable({t}))]
          \/ plan' = [plan EXCEPT ![t] = NoPlan]
      BY <2>2 DEF Finalize
    <3>2. trial[t].at = "pending" /\ trial' = [trial EXCEPT ![t].at = "finishing"]
      BY <2>2 DEF Finalize
    <3>3. NoPlan.kind = "none"
      BY DEF NoPlan
    <3>4. \A s \in Trials : plan'[s] # NoPlan => trial'[s].at = "finishing"
      <4>1. trial'[t].at = "finishing" /\ \A s \in Trials \ {t} : trial'[s] = trial[s]
        BY <3>2
      <4>2. \A s \in Trials \ {t} : plan'[s] = plan[s]
        BY <3>1, PlanChanges DEF Actors
      <4>. QED
        BY <4>1, <4>2 DEF PlansFit
    <3>5. \A c \in Actors : plan'[c].kind = "grow" => plan'[c].nodes # {}
      <4>1. plan'[t] = GrowPlan(head, Usable({t})) \/ plan'[t] = NoPlan
        BY <3>1, PlanChanges DEF Actors
      <4>2. \A d \in Actors \ {t} : plan'[d] = plan[d]
        BY <3>1, PlanChanges DEF Actors
      <4>3. GrowPlan(head, Usable({t})).nodes = {head}
        BY GrowPlanIs
      <4>4. plan'[t].kind = "grow" => plan'[t].nodes # {}
        BY <3>3, <4>1, <4>3
      <4>. QED
        BY <4>2, <4>4 DEF PlansFit
    <3>. QED
      BY <3>4, <3>5 DEF PlansFit
  <2>3. CASE Fail(t)
    BY <2>3 DEF Fail, PlansFit, FailPlan, Actors
  <2>. QED
    BY <2>1, <2>2, <2>3, <2>4
<1>3. \A n : Taken(n)' \subseteq Taken(n)
  <2>1. CASE Select(t)
    BY <2>1 DEF Select, Taken, Alive
  <2>2. CASE Create(t)
    <3>1. CASE trial' = [trial EXCEPT ![t].at = "pending"]
      <4>1. trial' = [trial EXCEPT ![t] = [node |-> trial[t].node, at |-> "pending"]]
        BY <3>1, TrialMoves DEF Stages
      <4>2. trial[t] = [node |-> trial[t].node, at |-> "claimed"]
        BY <2>2 DEF Create
      <4>. QED
        BY <2>2, <4>1, <4>2 DEF Create, Taken, Alive
    <3>2. CASE trial' = [trial EXCEPT ![t] = [node |-> 0, at |-> "none"]]
      BY <2>2, <3>2 DEF Create, Taken, Alive
    <3>. QED
      BY <2>2, <3>1, <3>2 DEF Create
  <2>3. CASE Finalize(t)
    BY <2>3 DEF Finalize, Taken, Alive
  <2>4. CASE Fail(t)
    BY <2>4 DEF Fail, Taken, Alive
  <2>. QED
    BY <2>1, <2>2, <2>3, <2>4
<1>. QED
  BY <1>1, <1>2, <1>3, FewerFit

\* Planning to grow or to fail.
LEMMA PlanStep ==
  ASSUME ChainInv, GrowError \/ (\E g \in Growers : LockAndGrow(g)) \/ UNCHANGED vars
  PROVE  ChainInv'
<1>. USE ChainAssumption DEF ChainInv, ChainTypeOK, Put
<1>1. UNCHANGED <<trial, failed>>
  BY DEF GrowError, LockAndGrow, vars
<1>2. ChainTypeOK' /\ PlansFit'
  <2>1. CASE GrowError
    BY <2>1 DEF GrowError, PlansFit, FailPlan, Actors, Growers
  <2>2. CASE \E g \in Growers : LockAndGrow(g)
    <3>1. PICK g \in Growers : plan' = [plan EXCEPT ![g] = GrowPlan(head, Usable({}))] /\ trial' = trial
      BY <2>2 DEF LockAndGrow
    <3>2. g \in Actors /\ g \notin Trials
      BY DEF Actors, Growers
    <3>3. /\ plan' = [d \in Actors |-> plan'[d]]
          /\ plan'[g] = GrowPlan(head, Usable({})) /\ \A d \in Actors \ {g} : plan'[d] = plan[d]
      BY <3>1, <3>2, PlanChanges
    <3>4. Trials \subseteq Actors
      BY DEF Actors
    <3>5. ChainTypeOK'
      BY <3>1, <3>3
    <3>6. PlansFit'
      <4>1. \A s \in Trials : plan'[s] = plan[s]
        BY <3>2, <3>3, <3>4
      <4>2. \A c \in Actors : plan'[c].kind = "grow" => plan'[c].nodes # {}
        <5>1. plan'[g].nodes = {head}
          BY <3>3, GrowPlanIs
        <5>2. \A d \in Actors \ {g} : plan'[d].kind = "grow" => plan'[d].nodes # {}
          BY <3>3 DEF PlansFit
        <5>. QED
          BY ONLY <5>1, <5>2
      <4>. QED
        BY <3>1, <4>1, <4>2 DEF PlansFit
    <3>. QED
      BY <3>5, <3>6
  <2>3. CASE UNCHANGED vars
    BY <2>3 DEF vars, PlansFit
  <2>. QED
    BY <2>1, <2>2, <2>3
<1>3. \A n : Taken(n)' \subseteq Taken(n)
  BY <1>1 DEF Taken, Alive
<1>. QED
  BY <1>2, <1>3, FewerFit

\* The end of a transaction: trials fail or are finalized, none is added.
LEMMA EndStep ==
  ASSUME ChainInv, NEW c \in Actors, Commit(c) \/ Abort(c)
  PROVE  ChainInv'
<1>. USE ChainAssumption DEF ChainInv, ChainTypeOK, Put
<1>1. /\ plan' = [plan EXCEPT ![c] = NoPlan]
      /\ \E at \in {"final", "pending"} :
           trial' = IF c \in Trials THEN [trial EXCEPT ![c].at = at] ELSE trial
  BY DEF Commit, Abort
<1>2. c \in Trials => trial[c].at = "finishing"
  BY DEF Commit, Abort, PlansFit
<1>3. ChainTypeOK'
  <2>3. plan' = [d \in Actors |-> plan'[d]]
    BY <1>1, PlanChanges
  <2>1. CASE c \in Trials
    <3>1. \E at \in Stages : trial' = [trial EXCEPT ![c] = [node |-> trial[c].node, at |-> at]]
      BY <1>1, <2>1, TrialMoves DEF Stages
    <3>. QED
      BY <2>1, <2>3, <3>1, TrialChanges
  <2>2. CASE c \notin Trials
    <3>1. trial' = trial
      BY <1>1, <2>2
    <3>. QED
      BY <2>3, <3>1
  <2>. QED
    BY <2>1, <2>2
<1>4. PlansFit'
  BY <1>1 DEF PlansFit, NoPlan, Actors
<1>5. failed \subseteq failed'
  <2>1. CASE Commit(c) /\ plan[c].kind = "grow"
    BY <2>1 DEF Commit, PlansFit, AddNode
  <2>2. CASE Commit(c) /\ plan[c].kind # "grow"
    BY <2>2 DEF Commit, FailAll
  <2>3. CASE Abort(c)
    BY <2>3 DEF Abort
  <2>. QED
    BY <2>1, <2>2, <2>3
<1>6. \A n : Taken(n)' \subseteq Taken(n)
  BY <1>1, <1>2, <1>5 DEF Taken, Alive
<1>. QED
  BY <1>3, <1>4, <1>6, FewerFit

LEMMA ChainInvariant == Spec => []ChainInv
<1>1. ASSUME ChainInv, [Next]_vars PROVE ChainInv'
  <2>1. CASE \E t \in Trials : Select(t) \/ Claim(t) \/ Create(t) \/ Finalize(t) \/ Fail(t)
    BY <1>1, <2>1, ClaimStep, TrialStep
  <2>2. CASE GrowError \/ (\E g \in Growers : LockAndGrow(g)) \/ UNCHANGED vars
    BY <1>1, <2>2, PlanStep
  <2>3. CASE \E c \in Actors : Commit(c) \/ Abort(c)
    BY <1>1, <2>3, EndStep
  <2>. QED
    BY <1>1, <2>1, <2>2, <2>3 DEF Next
<1>. QED
  BY <1>1, InitChain, PTL DEF Spec
-----------------------------------------------------------------------------
\* However many participants chose a node at the same time, and whatever fails
\* or is rolled back, it never has more live trials than it may have.
THEOREM NodesAreNotOverfilled == Spec => []NotOverfilled
<1>1. ASSUME ChainInv PROVE NotOverfilled
  <2>. SUFFICES ASSUME NEW n \in DOMAIN nodes PROVE Cardinality(Alive(n)) <= TrialsPerNode
    BY DEF NotOverfilled
  <2>1. IsFiniteSet(Taken(n)) /\ Cardinality(Taken(n)) <= TrialsPerNode
    BY <1>1, FitsEverywhere DEF ChainInv, Fits
  <2>2. IsFiniteSet(Alive(n)) /\ Cardinality(Alive(n)) <= Cardinality(Taken(n))
    BY <2>1, FS_Subset DEF Taken
  <2>3. Cardinality(Alive(n)) \in Nat /\ Cardinality(Taken(n)) \in Nat
    BY <2>1, <2>2, FS_CardinalityType
  <2>. QED
    BY <2>1, <2>2, <2>3, ChainAssumption
<1>. QED
  BY <1>1, ChainInvariant, PTL
-----------------------------------------------------------------------------
(* What a process that is about to grow a node has counted.  Until one of  *)
(* the trials it counted fails they are all that live on the node, and     *)
(* they leave no room for another: whoever is about to finalize a trial    *)
(* there is among them.                                                    *)

Counts(c, n) ==
  \/ plan[c].trials \cap failed # {}
  \/ plan[c].trials = Alive(n) /\ Cardinality(Alive(n)) >= TrialsPerNode

Counted(c) ==
  /\ c \in Trials \cup Growers /\ plan[c].trials \subseteq Trials
  /\ \A s \in plan[c].trials \ {c} : trial[s].at = "final"
  /\ \A n \in plan[c].nodes : Counts(c, n)
  /\ c \in Growers => row = c

GrowInv ==
  /\ ChainInv
  /\ \A t \in Trials : trial[t].at = "finishing" => t \notin failed
  /\ \A c \in Actors : Grows(c) => Counted(c)

\* A plan keeps what it counted when nothing is added to a node with room.
LEMMA CountsStay ==
  ASSUME GrowInv, NEW c \in Actors, Grows(c), plan'[c] = plan[c], failed \subseteq failed',
         \A s \in Trials : trial[s].at = "final" => trial'[s] = trial[s],
         \A n : Alive(n)' = Alive(n) \ failed' \/ ~(Cardinality(Alive(n)) >= TrialsPerNode),
         c \in Growers => row' = row
  PROVE  Counted(c)'
<1>. USE DEF Counted, Counts
<1>1. Counted(c)
  BY DEF GrowInv
<1>2. \A s \in plan'[c].trials \ {c} : trial'[s].at = "final"
  BY <1>1
<1>3. ASSUME NEW n \in plan'[c].nodes PROVE Counts(c, n)'
  <2>1. CASE plan[c].trials \cap failed' # {}
    BY <2>1
  <2>2. CASE plan[c].trials \cap failed' = {}
    <3>1. plan[c].trials = Alive(n) /\ Cardinality(Alive(n)) >= TrialsPerNode
      BY <1>1, <1>3, <2>2
    <3>2. Alive(n)' = Alive(n)
      BY <2>2, <3>1
    <3>. QED
      BY <3>1, <3>2
  <2>. QED
    BY <2>1, <2>2
<1>. QED
  BY <1>1, <1>2, <1>3

\* A process that finds the head ready counts all that live there.
LEMMA ReadyCounts ==
  ASSUME NEW own, own \subseteq {t \in Trials \ failed : trial[t].at = "pending"}, Ready(own)
  PROVE  /\ Usable(own) = Alive(head) /\ Cardinality(Alive(head)) >= TrialsPerNode
         /\ Usable(own) \subseteq Trials
         /\ \A s \in Usable(own) \ own : trial[s].at = "final"
<1>1. Usable(own) \subseteq Alive(head)
  BY DEF Usable, Completed, Alive
<1>2. Usable(own) = Alive(head)
  BY <1>1 DEF Ready
<1>. QED
  BY <1>2 DEF Ready, Usable, Completed, Alive

LEMMA InitGrow == Init => GrowInv
<1>. SUFFICES ASSUME Init PROVE GrowInv
  OBVIOUS
<1>. QED
  BY InitChain DEF Init, GrowInv, Grows, NoPlan

\* Steps that leave the plans alone: only the trial that is created is new, and
\* its claim has found room.
LEMMA TakeGrow ==
  ASSUME GrowInv, ChainInv', NEW t \in Trials, Select(t) \/ Claim(t) \/ Create(t)
  PROVE  GrowInv'
<1>. USE DEF ChainInv, ChainTypeOK
<1>1. /\ UNCHANGED <<failed, plan, row>> /\ trial[t].at \in {"none", "chosen", "claimed"}
      /\ \A s \in Trials \ {t} : trial'[s] = trial[s]
      /\ trial'[t].at \in {"none", "chosen", "claimed", "pending"}
      /\ trial'[t].at = "pending" => trial[t].at = "claimed" /\ trial'[t].node = trial[t].node
  <2>1. CASE Select(t)
    BY <2>1 DEF GrowInv, Select
  <2>2. CASE Claim(t)
    BY <2>2 DEF GrowInv, Claim
  <2>3. CASE Create(t)
    <3>1. CASE trial' = [trial EXCEPT ![t].at = "pending"]
      <4>1. trial' = [trial EXCEPT ![t] = [node |-> trial[t].node, at |-> "pending"]]
        BY <3>1, TrialMoves DEF GrowInv, Stages
      <4>. QED
        BY <2>3, <4>1 DEF GrowInv, Create
    <3>2. CASE trial' = [trial EXCEPT ![t] = [node |-> 0, at |-> "none"]]
      BY <2>3, <3>2 DEF GrowInv, Create
    <3>. QED
      BY <2>3, <3>1, <3>2 DEF Create
  <2>. QED
    BY <2>1, <2>2, <2>3
<1>2. \A s \in Trials : trial'[s].at = "finishing" => s \notin failed'
  BY <1>1 DEF GrowInv
<1>3. ASSUME NEW n PROVE Alive(n)' = Alive(n) \ failed' \/ ~(Cardinality(Alive(n)) >= TrialsPerNode)
  <2>1. CASE trial'[t].at # "pending" \/ trial'[t].node # n
    <3>1. \A s \in Trials : (trial'[s].node = n /\ trial'[s].at \in {"pending", "finishing", "final"})
                         <=> (trial[s].node = n /\ trial[s].at \in {"pending", "finishing", "final"})
      BY <1>1, <2>1
    <3>. QED
      BY <1>1, <3>1 DEF Alive
  <2>2. CASE trial'[t].at = "pending" /\ trial'[t].node = n
    <3>1. trial[t] = [node |-> n, at |-> "claimed"]
      <4>2. trial[t].at = "claimed" /\ trial[t].node = n
        BY <1>1, <2>2
      <4>3. trial[t] \in [node : {trial[s].node : s \in Trials}, at : Stages]
        BY DEF GrowInv
      <4>. QED
        BY <4>2, <4>3
    <3>2. t \in Taken(n) /\ t \notin Alive(n) /\ Alive(n) \subseteq Taken(n)
      BY <3>1 DEF Taken, Alive
    <3>3. IsFiniteSet(Taken(n)) /\ Cardinality(Taken(n)) <= TrialsPerNode
      BY FitsEverywhere DEF GrowInv, Fits
    <3>4. IsFiniteSet(Alive(n) \cup {t}) /\ Cardinality(Alive(n) \cup {t}) <= Cardinality(Taken(n))
      BY <3>2, <3>3, FS_Subset
    <3>5. IsFiniteSet(Alive(n)) /\ Cardinality(Alive(n) \cup {t}) = Cardinality(Alive(n)) + 1
      BY <3>2, <3>3, FS_Subset, FS_AddElement
    <3>6. Cardinality(Alive(n)) \in Nat /\ Cardinality(Taken(n)) \in Nat
      BY <3>3, <3>5, FS_CardinalityType
    <3>. QED
      BY <3>3, <3>4, <3>5, <3>6, ChainAssumption
  <2>. QED
    BY <2>1, <2>2
<1>4. ASSUME NEW c \in Actors, Grows(c)' PROVE Counted(c)'
  <2>1. Grows(c) /\ plan'[c] = plan[c] /\ failed \subseteq failed'
    BY <1>1, <1>4 DEF Grows
  <2>2. \A s \in Trials : trial[s].at = "final" => trial'[s] = trial[s]
    BY <1>1
  <2>. QED
    BY <1>1, <1>3, <2>1, <2>2, CountsStay
<1>. QED
  BY <1>2, <1>4 DEF GrowInv

\* What lives on a node is what is neither failed nor taken away.
LEMMA AliveStays ==
  ASSUME NEW n, failed \subseteq failed',
         \A s \in Trials : trial'[s].node = trial[s].node,
         \A s \in Trials : trial'[s].at # trial[s].at =>
           /\ trial[s].at \in {"pending", "finishing"}
           /\ trial'[s].at \in {"pending", "finishing", "final"}
  PROVE  Alive(n)' = Alive(n) \ failed'
<1>1. \A s \in Trials : trial'[s].at \in {"pending", "finishing", "final"}
                       <=> trial[s].at \in {"pending", "finishing", "final"}
  OBVIOUS
<1>. QED
  BY <1>1 DEF Alive

\* A request finalizes its trial, and maybe plans to grow the chain.
LEMMA FinalizeGrow ==
  ASSUME GrowInv, ChainInv', NEW t \in Trials, Finalize(t)
  PROVE  GrowInv'
<1>1. /\ trial[t].at = "pending" /\ t \notin failed /\ UNCHANGED <<failed, row, head, nodes, full>>
      /\ trial' = [trial EXCEPT ![t] = [node |-> trial[t].node, at |-> "finishing"]]
  BY TrialMoves DEF Finalize, GrowInv, ChainInv, Stages
<1>2. /\ \A s \in Trials \ {t} : trial'[s] = trial[s]
      /\ trial'[t].node = trial[t].node /\ trial'[t].at = "finishing"
  BY <1>1 DEF GrowInv, ChainInv, ChainTypeOK
<1>3. \A n : Alive(n)' = Alive(n) \ failed'
  BY <1>1, <1>2, AliveStays
<1>4. /\ plan'[t] = IF Ready({t}) THEN GrowPlan(head, Usable({t})) ELSE NoPlan
      /\ \A d \in Actors \ {t} : plan'[d] = plan[d]
  BY PlanChanges DEF Finalize, Put, GrowInv, ChainInv, Actors
<1>5. ASSUME NEW c \in Actors \ {t}, Grows(c)' PROVE Counted(c)'
  <2>1. Grows(c) /\ plan'[c] = plan[c] /\ failed \subseteq failed'
    BY <1>1, <1>4, <1>5 DEF Grows
  <2>2. \A s \in Trials : trial[s].at = "final" => trial'[s] = trial[s]
    BY <1>1, <1>2
  <2>. QED
    BY <1>1, <1>3, <2>1, <2>2, CountsStay
<1>6. ASSUME Grows(t)' PROVE Counted(t)'
  <2>1. CASE Ready({t})
    <3>1. /\ Usable({t}) = Alive(head) /\ Cardinality(Alive(head)) >= TrialsPerNode
          /\ Usable({t}) \subseteq Trials
          /\ \A s \in Usable({t}) \ {t} : trial[s].at = "final"
      BY <1>1, <2>1, ReadyCounts
    <3>2. plan'[t].nodes = {head} /\ plan'[t].trials = Usable({t})
      BY <1>4, <2>1, GrowPlanIs
    <3>4. \A s \in plan'[t].trials \ {t} : trial'[s].at = "final"
      BY <1>2, <3>1, <3>2
    <3>5. \A n \in plan'[t].nodes : Counts(t, n)'
      <4>. SUFFICES ASSUME NEW n \in plan'[t].nodes
                    PROVE  plan'[t].trials = Alive(n)' /\ Cardinality(Alive(n)') >= TrialsPerNode
        BY DEF Counts
      <4>1. n = head /\ Alive(n)' = Alive(n) \ failed'
        BY <1>3, <3>2
      <4>2. Alive(n)' = Alive(n) /\ Alive(n) = Alive(head)
        BY <1>1, <4>1 DEF Alive
      <4>. QED
        BY <3>1, <3>2, <4>2
    <3>6. t \notin Growers
      BY ChainAssumption DEF Growers
    <3>. QED
      BY <3>1, <3>2, <3>4, <3>5, <3>6 DEF Counted
  <2>2. CASE ~Ready({t})
    BY <1>4, <1>6, <2>2 DEF Grows, NoPlan
  <2>. QED
    BY <2>1, <2>2
<1>7. \A s \in Trials : trial'[s].at = "finishing" => s \notin failed'
  BY <1>1, <1>2 DEF GrowInv
<1>. QED
  BY <1>5, <1>6, <1>7 DEF GrowInv

\* The poller or the dashboard plans to grow the chain, holding its row.
LEMMA LockGrow ==
  ASSUME GrowInv, ChainInv', NEW g \in Growers, LockAndGrow(g)
  PROVE  GrowInv'
<1>1. /\ UNCHANGED <<trial, failed, head, nodes, full>> /\ row = Nobody /\ row' = g /\ Ready({})
      /\ g \in Actors /\ g \notin Trials
  BY ChainAssumption DEF LockAndGrow, Actors, Growers
<1>2. /\ plan'[g] = GrowPlan(head, Usable({}))
      /\ \A d \in Actors \ {g} : plan'[d] = plan[d]
  BY <1>1, PlanChanges DEF LockAndGrow, Put, GrowInv, ChainInv
<1>3. \A n : Alive(n)' = Alive(n) \ failed'
  BY <1>1, AliveStays
<1>4. ASSUME NEW c \in Actors \ {g}, Grows(c)' PROVE Counted(c)'
  <2>1. Grows(c) /\ plan'[c] = plan[c]
    BY <1>2, <1>4 DEF Grows
  <2>2. c \notin Growers
    <3>1. Nobody \notin Growers
      BY ChainAssumption DEF Actors
    <3>. QED
      BY <1>1, <2>1, <3>1 DEF GrowInv, Counted
  <2>3. \A s \in Trials : trial[s].at = "final" => trial'[s] = trial[s]
    BY <1>1
  <2>. QED
    BY <1>1, <1>3, <2>1, <2>2, <2>3, CountsStay
<1>5. Counted(g)'
  <2>1. /\ Usable({}) = Alive(head) /\ Cardinality(Alive(head)) >= TrialsPerNode
        /\ Usable({}) \subseteq Trials
        /\ \A s \in Usable({}) \ {} : trial[s].at = "final"
    BY <1>1, ReadyCounts
  <2>2. plan'[g].nodes = {head} /\ plan'[g].trials = Usable({})
    BY <1>2, GrowPlanIs
  <2>3. \A n \in plan'[g].nodes : Counts(g, n)'
    <3>. SUFFICES ASSUME NEW n \in plan'[g].nodes
                  PROVE  plan'[g].trials = Alive(n)' /\ Cardinality(Alive(n)') >= TrialsPerNode
      BY DEF Counts
    <3>1. n = head /\ Alive(n)' = Alive(n)
      BY <1>1, <2>2 DEF Alive
    <3>. QED
      BY <2>1, <2>2, <3>1
  <2>. QED
    BY <1>1, <2>1, <2>2, <2>3 DEF Counted
<1>. QED
  BY <1>1, <1>4, <1>5 DEF GrowInv

\* A plan to fail something counts nothing; the poller makes it of the one it had.
LEMMA FailGrow ==
  ASSUME GrowInv, ChainInv', (\E t \in Trials : Fail(t)) \/ GrowError \/ UNCHANGED vars
  PROVE  GrowInv'
<1>1. UNCHANGED <<trial, failed, row>>
  BY DEF Fail, GrowError, vars
<1>2. \A n : Alive(n)' = Alive(n) \ failed'
  BY <1>1, AliveStays
<1>3. \A c \in Actors : Grows(c)' => plan'[c] = plan[c]
  <2>1. CASE UNCHANGED vars
    BY <2>1 DEF vars
  <2>2. ASSUME NEW d \in Actors, NEW p, p.kind = "fail", plan' = [plan EXCEPT ![d] = p]
        PROVE  \A c \in Actors : Grows(c)' => plan'[c] = plan[c]
    BY <2>2, PlanChanges DEF GrowInv, ChainInv, Grows
  <2>3. CASE \E t \in Trials : Fail(t)
    BY <2>2, <2>3 DEF Fail, Put, FailPlan, Actors
  <2>4. CASE GrowError
    BY <2>2, <2>4 DEF GrowError, Put, FailPlan, Actors, Growers
  <2>. QED
    BY <2>1, <2>3, <2>4
<1>4. ASSUME NEW c \in Actors, Grows(c)' PROVE Counted(c)'
  <2>1. Grows(c) /\ plan'[c] = plan[c]
    BY <1>3, <1>4 DEF Grows
  <2>2. \A s \in Trials : trial[s].at = "final" => trial'[s] = trial[s]
    BY <1>1
  <2>. QED
    BY <1>1, <1>2, <2>1, <2>2, CountsStay
<1>. QED
  BY <1>1, <1>4 DEF GrowInv

\* A transaction ends: a trial that is being finalized is not failed meanwhile.
LEMMA EndGrow ==
  ASSUME GrowInv, ChainInv', NEW c \in Actors, Commit(c) \/ Abort(c)
  PROVE  GrowInv'
<1>1. /\ plan' = [plan EXCEPT ![c] = NoPlan]
      /\ \E at \in {"final", "pending"} :
           trial' = IF c \in Trials THEN [trial EXCEPT ![c].at = at] ELSE trial
      /\ row' = IF row = c THEN Nobody ELSE row
      /\ c \in Trials => trial[c].at = "finishing"
  BY DEF Commit, Abort, Put, GrowInv, ChainInv, PlansFit
<1>2. /\ plan'[c] = NoPlan /\ \A d \in Actors \ {c} : plan'[d] = plan[d]
      /\ ~Grows(c)'
  BY <1>1, PlanChanges DEF GrowInv, ChainInv, Grows, NoPlan
<1>3. /\ \A s \in Trials \ {c} : trial'[s] = trial[s]
      /\ c \in Trials => trial'[c].node = trial[c].node /\ trial'[c].at \in {"final", "pending"}
  <2>1. CASE c \in Trials
    <3>1. PICK at \in {"final", "pending"} : trial' = [trial EXCEPT ![c].at = at]
      BY <1>1, <2>1
    <3>2. trial' = [trial EXCEPT ![c] = [node |-> trial[c].node, at |-> at]]
      BY <2>1, <3>1, TrialMoves DEF GrowInv, ChainInv, Stages
    <3>. QED
      BY <2>1, <3>2 DEF GrowInv, ChainInv, ChainTypeOK
  <2>2. CASE c \notin Trials
    BY <1>1, <2>2
  <2>. QED
    BY <2>1, <2>2
<1>4. failed \subseteq failed' /\ \A s \in Trials : trial[s].at = "finishing" => s \notin failed'
  <2>1. CASE Commit(c) /\ plan[c].kind = "grow"
    <3>1. failed' = failed
      BY <2>1 DEF Commit, AddNode, GrowInv, ChainInv, PlansFit
    <3>. QED
      BY <3>1 DEF GrowInv
  <2>2. CASE Commit(c) /\ plan[c].kind = "fail"
    BY <2>2 DEF Commit, FailAll, MustWait, GrowInv
  <2>3. CASE Abort(c) \/ (Commit(c) /\ plan[c].kind \notin {"grow", "fail"})
    BY <2>3 DEF Abort, Commit, GrowInv
  <2>. QED
    BY <2>1, <2>2, <2>3
<1>5. \A n : Alive(n)' = Alive(n) \ failed'
  BY <1>1, <1>3, <1>4, AliveStays
<1>6. ASSUME NEW d \in Actors \ {c}, Grows(d)' PROVE Counted(d)'
  <2>1. Grows(d) /\ plan'[d] = plan[d]
    BY <1>2, <1>6 DEF Grows
  <2>2. \A s \in Trials : trial[s].at = "final" => trial'[s] = trial[s]
    BY <1>1, <1>3
  <2>3. d \in Growers => row' = row
    BY <1>1, <2>1 DEF GrowInv, Counted
  <2>. QED
    BY <1>4, <1>5, <2>1, <2>2, <2>3, CountsStay
<1>7. \A s \in Trials : trial'[s].at = "finishing" => s \notin failed'
  BY <1>3, <1>4
<1>. QED
  BY <1>2, <1>6, <1>7 DEF GrowInv

LEMMA GrowInvariant == Spec => []GrowInv
<1>1. ASSUME GrowInv, ChainInv', [Next]_vars PROVE GrowInv'
  <2>1. CASE \E t \in Trials : Select(t) \/ Claim(t) \/ Create(t)
    BY <1>1, <2>1, TakeGrow
  <2>2. CASE \E t \in Trials : Finalize(t)
    BY <1>1, <2>2, FinalizeGrow
  <2>3. CASE \E g \in Growers : LockAndGrow(g)
    BY <1>1, <2>3, LockGrow
  <2>4. CASE GrowError \/ (\E t \in Trials : Fail(t)) \/ UNCHANGED vars
    BY <1>1, <2>4, FailGrow
  <2>5. CASE \E c \in Actors : Commit(c) \/ Abort(c)
    BY <1>1, <2>5, EndGrow
  <2>. QED
    BY <1>1, <2>1, <2>2, <2>3, <2>4, <2>5 DEF Next
<1>. QED
  BY <1>1, InitGrow, ChainInvariant, PTL DEF Spec
-----------------------------------------------------------------------------
\* Whatever fails or is rolled back, and wherever trials are finalized: two
\* processes are about to grow the same node only if one of them counted a
\* trial that failed since, or finalized one that is on another node.
THEOREM OneProcessGrows == Spec => []OneGrower
<1>1. ASSUME GrowInv PROVE OneGrower
  <2>. SUFFICES ASSUME NEW c \in Actors, NEW d \in Actors, c # d, Grows(c), Grows(d),
                       plan[c].nodes = plan[d].nodes, Sound(c), Sound(d)
                PROVE  FALSE
    BY DEF OneGrower
  <2>1. Counted(c) /\ Counted(d)
    BY <1>1 DEF GrowInv
  <2>2. ASSUME NEW t \in Trials, NEW e \in Actors, t # e, Grows(t), Sound(t), Sound(e),
               plan[t].nodes = plan[e].nodes, Counted(e)
        PROVE  FALSE
    <3>1. trial[t].at = "finishing" /\ t \notin failed
      BY <1>1, <2>2 DEF GrowInv, ChainInv, PlansFit, Grows, NoPlan
    <3>2. t \in Alive(trial[t].node)
      BY <3>1 DEF Alive
    <3>3. plan[e].trials = Alive(trial[t].node)
      BY <2>2 DEF Counted, Counts, Sound
    <3>. QED
      BY <2>2, <3>1, <3>2, <3>3 DEF Counted
  <2>3. CASE c \in Trials
    BY <2>1, <2>2, <2>3
  <2>4. CASE d \in Trials
    BY <2>1, <2>2, <2>4
  <2>5. CASE c \in Growers /\ d \in Growers
    BY <2>1, <2>5 DEF Counted
  <2>. QED
    BY <2>1, <2>3, <2>4, <2>5 DEF Counted
<1>. QED
  BY <1>1, GrowInvariant, PTL

\* Whoever is about to grow a node has counted every live trial on it, unless a
\* trial it counted has failed since.
THEOREM NobodyIsLeftBehind == Spec => []NobodyLeftBehind
<1>1. ASSUME GrowInv PROVE NobodyLeftBehind
  BY <1>1 DEF NobodyLeftBehind, GrowInv, Counted, Counts
<1>. QED
  BY <1>1, GrowInvariant, PTL
=============================================================================
