---------------------------- MODULE ChainGrowth ----------------------------
(***************************************************************************)
(* One chain of nodes (psynet/trial/chain.py).  Participants take trials   *)
(* on its head, trials_per_node of them; when they are finalized the chain *)
(* grows: by the poller, by the request that finalized the last trial, or  *)
(* by the dashboard.  An error while growing fails the head.  Failing a    *)
(* finalized trial fails the nodes built from it.                          *)
(*                                                                         *)
(* Every process reads, plans its writes and commits later; a grower holds *)
(* the network's row in between, a claim the node's.                       *)
(***************************************************************************)
EXTENDS Naturals, Sequences, FiniteSets

CONSTANTS
  Trials,          \* the trials that can be created, each by a participant
  Poller, Dashboard, Exit,
  Nobody,
  TrialsPerNode, MaxSize,
  MaxFaults        \* bound: growth errors, rolled-back requests, finalized trials failed by hand

Growers == {Poller, Dashboard}
Actors == Trials \cup Growers \cup {Exit}

ASSUME ChainAssumption ==
  /\ Cardinality({Poller, Dashboard, Exit}) = 3 /\ Nobody \notin Actors
  /\ {Poller, Dashboard, Exit} \cap Trials = {}
  /\ TrialsPerNode \in Nat \ {0} /\ MaxSize \in Nat \ {0} /\ MaxFaults \in Nat

VARIABLES
  nodes,   \* the committed nodes, oldest first
  head,    \* the network's head, an index into nodes
  full,    \* the network's flag
  trial,   \* node and progress of each trial; "claimed" holds the node's row
  failed,  \* the failed trials
  row,     \* who holds the network's row
  plan,    \* what each process will commit
  faults

vars == <<nodes, head, full, trial, failed, row, plan, faults>>

NewNode(parent, degree) ==
  [parent |-> parent, child |-> 0, degree |-> degree, failed |-> FALSE]

NoPlan == [kind |-> "none", nodes |-> {}, trials |-> {}, head |-> {}]

\* Build a node on n from the trials ts
GrowPlan(n, ts) == [NoPlan EXCEPT !.kind = "grow", !.nodes = {n}, !.trials = ts]

Init ==
  /\ nodes = <<NewNode(0, 0)>> /\ head = 1 /\ full = FALSE
  /\ trial = [t \in Trials |-> [node |-> 0, at |-> "none"]]
  /\ failed = {} /\ row = Nobody
  /\ plan = [c \in Actors |-> NoPlan] /\ faults = 0
-----------------------------------------------------------------------------
\* The trials of a node that are committed and alive, and the finalized ones.
Alive(n) == {t \in Trials \ failed : trial[t].node = n /\ trial[t].at \in {"pending", "finishing", "final"}}
Completed(n) == {t \in Alive(n) : trial[t].at = "final"}

HasRoom(n) == Cardinality(Alive(n)) < TrialsPerNode

CanSpawn(n) == nodes[n].degree < MaxSize

\* Variants of Ready: one counts unfinished trials, one wants a trial too many.
ReadyViable(own) == ~full /\ CanSpawn(head) /\ Cardinality(Alive(head) \cup own) >= TrialsPerNode
ReadyMore(own) == ~full /\ CanSpawn(head) /\ Cardinality(Completed(head) \cup own) > TrialsPerNode

\* The head's finalized trials, to a process that has finalized the trials own:
\* those a new node is made of (ChainNode.create_seed).
Usable(own) == Completed(head) \cup {t \in own : trial[t].node = head}

\* network_is_ready_to_grow, to that process
Ready(own) ==
  /\ ~full /\ CanSpawn(head)
  /\ Cardinality(Usable(own)) >= TrialsPerNode
  /\ Alive(head) \subseteq Usable(own)

\* The node built on n that is still alive, if any
Successor(n) == LET c == nodes[n].child IN IF c = 0 THEN 0 ELSE IF nodes[c].failed THEN 0 ELSE c

\* A node with the chain of children that fails with it (ChainNode.failure_cascade)
Line ==
  LET line[n \in DOMAIN nodes] ==
        {n} \cup IF Successor(n) = 0 THEN {} ELSE line[Successor(n)]
  IN line

\* Fail nodes ns and trials ts.  Only the head gives up its place (ChainNode.fail).
FailPlan(ns, ts) ==
  [kind |-> "fail", nodes |-> ns, trials |-> ts \cup UNION {Alive(n) : n \in ns},
   head |-> IF head \in ns THEN {nodes[head].parent} ELSE {}]

\* Rows that c has to wait for: the network's if it moves the head, a node's
\* while somebody claims or fails it, a trial's while it is being finalized.
NodeHeld(n, c) ==
  \/ \E t \in Trials \ {c} : trial[t] = [node |-> n, at |-> "claimed"]
  \/ \E d \in Growers \ {c} : plan[d].kind = "fail" /\ n \in plan[d].nodes
MustWait(c) ==
  \/ row \notin {Nobody, c} /\ (plan[c].kind = "grow" \/ plan[c].head # {})
  \/ \E n \in plan[c].nodes : NodeHeld(n, c)
  \/ plan[c].kind = "fail" /\ \E t \in plan[c].trials : trial[t].at = "finishing"

Put(c, p) == plan' = [plan EXCEPT ![c] = p]
-----------------------------------------------------------------------------
(* Taking a trial.                                                         *)

\* The candidate query, without a lock
Select(t) ==
  /\ trial[t].at = "none" /\ ~full /\ HasRoom(head)
  /\ trial' = [trial EXCEPT ![t] = [node |-> head, at |-> "chosen"]]
  /\ UNCHANGED <<nodes, head, full, failed, row, plan, faults>>

\* A variant that trusts the candidate query.
ClaimUncounted(t) ==
  /\ trial[t].at = "chosen" /\ ~NodeHeld(trial[t].node, t)
  /\ trial' = [trial EXCEPT ![t].at = "claimed"]
  /\ UNCHANGED <<nodes, head, full, failed, row, plan, faults>>

\* _claim_node_capacity: lock the node and recount, or select again.
Claim(t) ==
  /\ trial[t].at = "chosen" /\ ~NodeHeld(trial[t].node, t)
  /\ trial' = [trial EXCEPT ![t] = IF HasRoom(trial[t].node) THEN [@ EXCEPT !.at = "claimed"]
                                   ELSE [node |-> 0, at |-> "none"]]
  /\ UNCHANGED <<nodes, head, full, failed, row, plan, faults>>

\* The request that creates the trial commits, or is rolled back.
Create(t) ==
  /\ trial[t].at = "claimed"
  /\ \/ trial' = [trial EXCEPT ![t].at = "pending"] /\ UNCHANGED faults
     \/ /\ faults < MaxFaults /\ faults' = faults + 1
        /\ trial' = [trial EXCEPT ![t] = [node |-> 0, at |-> "none"]]
  /\ UNCHANGED <<nodes, head, full, failed, row, plan>>

\* The trial is finalized, and on_finalized tries to grow the chain without
\* locking the network.
Finalize(t) ==
  /\ trial[t].at = "pending" /\ t \notin failed
  /\ \A c \in Growers \cup {Exit} : t \notin plan[c].trials
  /\ trial' = [trial EXCEPT ![t].at = "finishing"]
  /\ Put(t, IF Ready({t}) THEN GrowPlan(head, Usable({t})) ELSE NoPlan)
  /\ UNCHANGED <<nodes, head, full, failed, row, faults>>
-----------------------------------------------------------------------------
(* Growing and failing.                                                    *)

\* A variant in which the dashboard takes no lock.
LockAndGrowFree(g) ==
  /\ plan[g] = NoPlan /\ Ready({})
  /\ g = Poller => row = Nobody
  /\ row' = IF g = Poller THEN g ELSE row
  /\ Put(g, GrowPlan(head, Usable({})))
  /\ UNCHANGED <<nodes, head, full, trial, failed, faults>>

\* The poller locks a network that is ready, the dashboard's request any: it
\* does nothing to one that is not.
LockAndGrow(g) ==
  /\ plan[g] = NoPlan /\ row = Nobody /\ Ready({})
  /\ row' = g
  /\ Put(g, GrowPlan(head, Usable({})))
  /\ UNCHANGED <<nodes, head, full, trial, failed, faults>>

\* Growing raised: _fail_grown_network, in the poller's transaction
GrowError ==
  /\ plan[Poller].kind = "grow" /\ faults < MaxFaults
  /\ faults' = faults + 1
  /\ Put(Poller, IF nodes[head].degree > 0 THEN FailPlan({head}, {}) ELSE FailPlan({}, Alive(head)))
  /\ UNCHANGED <<nodes, head, full, trial, failed, row>>

\* A participant leaves, or the dashboard fails the trial.
Fail(t) ==
  /\ plan[Exit] = NoPlan /\ t \notin failed
  /\ \/ trial[t].at = "pending" /\ UNCHANGED faults
     \/ trial[t].at = "final" /\ faults < MaxFaults /\ faults' = faults + 1
  /\ LET spoiled == IF trial[t].at = "final" THEN Successor(trial[t].node) ELSE 0
     IN Put(Exit, FailPlan(IF spoiled = 0 THEN {} ELSE Line[spoiled], {t}))
  /\ UNCHANGED <<nodes, head, full, trial, failed, row>>

\* add_node, on the head as it was read
AddNode(n) ==
  LET new == Len(nodes) + 1
      degree == nodes[n].degree + 1
  IN
  /\ nodes' = Append([nodes EXCEPT ![n].child = new], NewNode(n, degree))
  /\ head' = new /\ full' = (full \/ degree >= MaxSize)
  /\ UNCHANGED failed

FailAll(p) ==
  /\ nodes' = [n \in DOMAIN nodes |-> [nodes[n] EXCEPT !.failed = @ \/ n \in p.nodes]]
  /\ failed' = failed \cup p.trials
  /\ head' = IF p.head = {} THEN head ELSE CHOOSE h \in p.head : TRUE
  /\ UNCHANGED full

Commit(c) ==
  /\ plan[c] # NoPlan \/ (c \in Trials /\ trial[c].at = "finishing")
  /\ ~MustWait(c)
  /\ CASE plan[c].kind = "grow" -> \A n \in plan[c].nodes : AddNode(n)
       [] plan[c].kind = "fail" -> FailAll(plan[c])
       [] OTHER -> UNCHANGED <<nodes, head, full, failed>>
  /\ trial' = IF c \in Trials THEN [trial EXCEPT ![c].at = "final"] ELSE trial
  /\ row' = IF row = c THEN Nobody ELSE row
  /\ Put(c, NoPlan)
  /\ UNCHANGED faults

\* A transaction is rolled back; the trial is finalized later.
Abort(c) ==
  /\ plan[c] # NoPlan \/ (c \in Trials /\ trial[c].at = "finishing")
  /\ faults < MaxFaults /\ faults' = faults + 1
  /\ trial' = IF c \in Trials THEN [trial EXCEPT ![c].at = "pending"] ELSE trial
  /\ row' = IF row = c THEN Nobody ELSE row
  /\ Put(c, NoPlan)
  /\ UNCHANGED <<nodes, head, full, failed>>

Next ==
  \/ \E t \in Trials : Select(t) \/ Claim(t) \/ Create(t) \/ Finalize(t) \/ Fail(t)
  \/ \E g \in Growers : LockAndGrow(g)
  \/ GrowError
  \/ \E c \in Actors : Commit(c) \/ Abort(c)

Spec == Init /\ [][Next]_vars

\* The poller runs every two seconds, and transactions end.
Fairness ==
  /\ WF_vars(LockAndGrow(Poller))
  /\ \A t \in Trials : WF_vars(Create(t))
  /\ \A c \in Actors : WF_vars(Commit(c))

FairSpec == Spec /\ Fairness
-----------------------------------------------------------------------------
\* Participants who chose a node at the same time do not overfill it.
NotOverfilled == \A n \in DOMAIN nodes : Cardinality(Alive(n)) <= TrialsPerNode

\* c grows the node of the trial it has finalized, if it has, and none of the
\* trials it builds the new node from has failed since it counted them.
Grows(c) == plan[c].kind = "grow"
Sound(c) ==
  /\ plan[c].trials \cap failed = {}
  /\ c \in Trials => trial[c].node \in plan[c].nodes

\* Poller, dashboard and requests decide from snapshots of their own, requests
\* without the network's lock; still no two of them are about to grow the same
\* node, unless one read trials that failed since, or its trial is elsewhere.
OneGrower ==
  \A c, d \in Actors :
    c # d /\ Grows(c) /\ Grows(d) /\ plan[c].nodes = plan[d].nodes
    => ~Sound(c) \/ ~Sound(d)

\* Nor does the chain outgrow a participant: whoever is about to grow a node has
\* counted every live trial on it, one that was created since then included.
NobodyLeftBehind ==
  \A c \in Actors :
    Grows(c) /\ plan[c].trials \cap failed = {}
    => \A n \in plan[c].nodes : Alive(n) \subseteq plan[c].trials

\* No trial is finalized on a failed node and no finalized trial is failed by hand.
Undisturbed ==
  /\ \A t \in Trials \ failed :
       trial[t].at \in {"finishing", "final"} => ~nodes[trial[t].node].failed
  /\ \A t \in plan[Exit].trials : trial[t].at # "final"

\* In an undisturbed chain the nodes that have not failed are of different
\* degrees: whatever grows it, and whatever fails to, no node is built twice.
OneNodePerDegree ==
  []Undisturbed => [](\A m, n \in DOMAIN nodes :
                        /\ ~nodes[m].failed /\ ~nodes[n].failed
                        /\ nodes[m].degree = nodes[n].degree
                        => m = n)

\* A chain whose head has all its trials finalized grows, or its head fails.
ChainGrows ==
  \A n \in 1..(MaxSize + MaxFaults + 1) :
    (n = head /\ ~full /\ Cardinality(Completed(n)) >= TrialsPerNode)
      ~> (n # head \/ full \/ Cardinality(Completed(n)) < TrialsPerNode)

\* A node built on a failed one is not alive, nor is one built on that.
DescendantsFail ==
  \A n \in DOMAIN nodes :
    nodes[n].parent # 0 /\ nodes[nodes[n].parent].failed => nodes[n].failed
=============================================================================
