---------------------------- MODULE BarrierPool ----------------------------
(***************************************************************************)
(* One waiting pool of psynet/sync.py: the visits (barrier_instance rows)  *)
(* that a SimpleGrouper opens, the requests that arrive at it, the checks  *)
(* that release whoever can be grouped, and the poller that repeats them.  *)
(*                                                                         *)
(* Every actor works in PostgreSQL transactions (READ COMMITTED).  The     *)
(* variables visit, link, failed and groups are committed rows; what a     *)
(* transaction has written but not committed lives in req and check.       *)
(* Participants are numbered by their row id.                              *)
(***************************************************************************)
EXTENDS Naturals, FiniteSets

CONSTANTS
  Participants,  \* row ids
  Instances,     \* the uuids visits may get
  GroupSize,     \* SimpleGrouper.initial_group_size
  BatchSize,     \* SimpleGrouper.batch_size
  Poller,        \* the barrier poller process
  None,
  MaxPolls,      \* bound: hold polls and failures of waiting participants
  MaxFaults      \* bound: transactions rolled back by an error or a crash

ASSUME PoolAssumption ==
  /\ Participants \subseteq Nat /\ IsFiniteSet(Participants)
  /\ Poller \notin Participants
  /\ None \notin Participants \cup Instances \cup {Poller}
  /\ GroupSize \in Nat \ {0}
  /\ BatchSize \in Nat \ {0}
  /\ MaxPolls \in Nat
  /\ MaxFaults \in Nat

Actors == Participants \cup {Poller}

VARIABLES
  visit,    \* barrier_instance.active, "absent" before the row exists
  link,     \* the visit of a participant's unreleased barrier link, or None
  failed,   \* participants that left the working state
  groups,   \* the sync groups formed so far
  req,      \* each participant's own request
  poolKey,  \* who holds the pool's advisory claim
  claim,    \* who holds each visit's advisory claim
  check,    \* each actor's check transaction
  polls, faults

vars == <<visit, link, failed, groups, req, poolKey, claim, check, polls, faults>>

Idle == [pc |-> "idle", visit |-> None, target |-> None, reopens |-> FALSE,
         locked |-> {}, formed |-> {}, closes |-> FALSE]

\* A participant who has not asked for the barrier
Away == [pc |-> "away", visit |-> None, tries |-> 0]

Init ==
  /\ visit = [i \in Instances |-> "absent"]
  /\ link = [p \in Participants |-> None]
  /\ failed = {} /\ groups = {}
  /\ req = [p \in Participants |-> Away]
  /\ poolKey = None
  /\ claim = [i \in Instances |-> None]
  /\ check = [c \in Actors |-> Idle]
  /\ polls = 0 /\ faults = 0
-----------------------------------------------------------------------------
\* Variant: waiters counted without looking at whether they still work.
WaitersWithFailed(i) == {p \in Participants : link[p] = i}

Waiters(i) == {p \in Participants \ failed : link[p] = i}

Waiting == {p \in Participants \ failed : link[p] # None}

ActiveVisits == {i \in Instances : visit[i] = "active"}

WaitingInactive == {i \in Instances : visit[i] = "inactive" /\ Waiters(i) # {}}

FirstById(S, n) == {p \in S : Cardinality({q \in S : q < p}) < n}

\* The ways to cut S into disjoint groups of GroupSize.
Partitions(S) ==
  {Q \in SUBSET {g \in SUBSET S : Cardinality(g) = GroupSize} :
     /\ UNION Q = S
     /\ \A g, h \in Q : g # h => g \cap h = {}}

\* Variant: a check that takes its waiters without asking who holds them.
LockedByNobody(c) == {}

\* Rows that somebody other than c holds: a participant's own request, or a
\* check that locked its waiters.
LockedByOthers(c) ==
  {p \in Participants : p # c /\ req[p].pc = "polling"}
    \cup UNION {check[d].locked : d \in Actors \ {c}}

\* Variant: the pool key outlives the transaction that took it.
FreedNever(c) == poolKey

Freed(c) == IF poolKey = c THEN None ELSE poolKey
-----------------------------------------------------------------------------
(* Arrival: Barrier.receive_participant and BarrierInstance.for_arrival.   *)

\* p's transaction writes a link to visit i: "joined" if it found the visit
\* active, "opening" if it also writes the visit's row as active.
Join(p, i, pc) ==
  req' = [req EXCEPT ![p] = [pc |-> pc, visit |-> i, tries |-> 0]]

Arrive(p) ==
  /\ req[p].pc = "away"
  /\ \/ \E i \in ActiveVisits : Join(p, i, "joined")
     \/ /\ ActiveVisits = {}
        /\ req' = [req EXCEPT ![p].pc = "wantKey"]
  /\ UNCHANGED <<visit, link, failed, groups, poolKey, claim, check, polls, faults>>

\* Variant: what was seen before waiting for the pool key is believed.
TakePoolKeyStale(p) ==
  /\ req[p].pc = "wantKey" /\ poolKey = None
  /\ poolKey' = p
  /\ \E i \in Instances : visit[i] = "absent" /\ Join(p, i, "opening")
  /\ UNCHANGED <<visit, link, failed, groups, claim, check, polls, faults>>

\* The pool key is granted: look again, then reactivate a visit that still
\* has waiters, or open a new one.
TakePoolKey(p) ==
  /\ req[p].pc = "wantKey"
  /\ poolKey = None
  /\ poolKey' = p
  /\ \/ \E i \in ActiveVisits : Join(p, i, "joined")
     \/ /\ ActiveVisits = {}
        /\ \E i \in WaitingInactive : Join(p, i, "opening")
     \/ /\ ActiveVisits = {} /\ WaitingInactive = {}
        /\ \E i \in Instances : visit[i] = "absent" /\ Join(p, i, "opening")
  /\ UNCHANGED <<visit, link, failed, groups, claim, check, polls, faults>>

\* The arrival commits: its link and its visit become visible, the pool key
\* is dropped, and the check queued for after the commit is due.
ArriveCommit(p) ==
  /\ req[p].pc \in {"joined", "opening"}
  /\ link' = [link EXCEPT ![p] = req[p].visit]
  /\ visit' = IF req[p].pc = "opening" THEN [visit EXCEPT ![req[p].visit] = "active"] ELSE visit
  /\ poolKey' = Freed(p)
  /\ req' = [req EXCEPT ![p].pc = "checking"]
  /\ UNCHANGED <<failed, groups, claim, check, polls, faults>>

\* A lock timeout or a crash undoes the arrival; the client asks again.
ArriveRollback(p) ==
  /\ req[p].pc \in {"wantKey", "joined", "opening"}
  /\ faults < MaxFaults
  /\ faults' = faults + 1
  /\ poolKey' = Freed(p)
  /\ req' = [req EXCEPT ![p] = Away]
  /\ UNCHANGED <<visit, link, failed, groups, claim, check, polls>>
-----------------------------------------------------------------------------
(* A waiting participant's later requests hold their own row.              *)

PollBegin(p) ==
  /\ req[p].pc = "idle" /\ p \in Waiting
  /\ polls < MaxPolls
  /\ p \notin LockedByOthers(p)
  /\ polls' = polls + 1
  /\ req' = [req EXCEPT ![p].pc = "polling"]
  /\ UNCHANGED <<visit, link, failed, groups, poolKey, claim, check, faults>>

\* The poll commits and, while the link is unreleased, checks its visit; or
\* it applied a timeout or an exit, which fails the participant.
PollEnd(p) ==
  /\ req[p].pc = "polling"
  /\ \/ /\ req' = [req EXCEPT ![p] = [@ EXCEPT !.pc = "checking", !.visit = link[p], !.tries = 0]]
        /\ UNCHANGED failed
     \/ /\ failed' = failed \cup {p}
        /\ req' = [req EXCEPT ![p].pc = "gone"]
  /\ UNCHANGED <<visit, link, groups, poolKey, claim, check, polls, faults>>
-----------------------------------------------------------------------------
(* Checks: one visit, under its claim.                                     *)

Claim(c, i) ==
  /\ check[c].pc = "idle" /\ claim[i] = None
  /\ claim' = [claim EXCEPT ![i] = c]
  /\ check' = [check EXCEPT ![c] = [Idle EXCEPT !.pc = "claimed", !.visit = i]]
  /\ UNCHANGED <<visit, link, failed, groups, poolKey, polls, faults>>

ArriverClaim(p) ==
  /\ req[p].pc = "checking" /\ Claim(p, req[p].visit)
  /\ req' = [req EXCEPT ![p].tries = @ + 1]

\* A request that may not wait for a held claim, or whose wait timed out.
ArriverGivesUp(p) ==
  /\ req[p].pc = "checking" /\ check[p].pc = "idle"
  /\ claim[req[p].visit] # None
  /\ req' = [req EXCEPT ![p].pc = "idle"]
  /\ UNCHANGED <<visit, link, failed, groups, poolKey, claim, check, polls, faults>>

\* Variant: a sweep of the active visits only.
PollerClaimActive(i) ==
  /\ visit[i] = "active" /\ Waiters(i) # {}
  /\ Claim(Poller, i)
  /\ UNCHANGED req

\* The poller sweeps every visit that has committed waiters, active or not.
PollerClaim(i) ==
  /\ Waiters(i) # {}
  /\ Claim(Poller, i)
  /\ UNCHANGED req

\* The check is over, whether it committed, missed a lock or had nothing to
\* do.  An arriver that is still waiting checks once more, then gives up.
Finish(c) ==
  /\ poolKey' = Freed(c)
  /\ claim' = [claim EXCEPT ![check[c].visit] = None]
  /\ check' = [check EXCEPT ![c] = Idle]
  /\ IF c = Poller THEN UNCHANGED req
     ELSE req' = [req EXCEPT ![c] =
            IF link'[c] # None /\ @.tries < 2
            THEN [@ EXCEPT !.visit = link'[c]]
            ELSE [@ EXCEPT !.pc = "idle"]]

FinishWithoutCommit(c) ==
  /\ UNCHANGED <<visit, link, failed, groups, polls>>
  /\ Finish(c)

\* Read the visit.  An inactive visit with waiters needs the pool key: its
\* waiters move to the pool's active visit, or it becomes active itself.
Load(c) ==
  /\ check[c].pc = "claimed"
  /\ LET i == check[c].visit IN
     \/ /\ visit[i] = "active"
        /\ check' = [check EXCEPT ![c] = [@ EXCEPT !.pc = "loaded", !.target = i]]
        /\ UNCHANGED <<visit, link, failed, groups, req, poolKey, claim, polls, faults>>
     \/ /\ visit[i] # "active"
        /\ Waiters(i) = {} \/ poolKey # None
        /\ FinishWithoutCommit(c) /\ UNCHANGED faults
     \/ /\ i \in WaitingInactive /\ poolKey = None
        /\ poolKey' = c
        /\ \E o \in IF ActiveVisits = {} THEN {i} ELSE ActiveVisits :
             check' = [check EXCEPT ![c] = [@ EXCEPT !.pc = "loaded", !.target = o,
                                                     !.reopens = (o = i)]]
        /\ UNCHANGED <<visit, link, failed, groups, req, claim, polls, faults>>

CheckedWaiters(c) == Waiters(check[c].visit) \cup Waiters(check[c].target)

\* Lock the waiters without waiting and decide.  One busy row is a miss.
LockWaiters(c) ==
  /\ check[c].pc = "loaded"
  /\ CheckedWaiters(c) \cap LockedByOthers(c) = {}
  /\ LET W == CheckedWaiters(c)
         ready == Cardinality(W) >= BatchSize
         grouped == IF ready
                    THEN FirstById(W, (Cardinality(W) \div GroupSize) * GroupSize)
                    ELSE {}
     IN \E Q \in Partitions(grouped) :
          check' = [check EXCEPT ![c] =
            [@ EXCEPT !.pc = IF W = {} THEN "seenEmpty" ELSE "decided",
                      !.locked = W, !.formed = Q, !.closes = (grouped = W)]]
  /\ UNCHANGED <<visit, link, failed, groups, req, poolKey, claim, polls, faults>>

MissWaiters(c) ==
  /\ check[c].pc = "loaded"
  /\ CheckedWaiters(c) \cap LockedByOthers(c) # {}
  /\ FinishWithoutCommit(c) /\ UNCHANGED faults

\* Nobody was there to lock: ask again before calling the visit finished.
RecheckEmpty(c) ==
  /\ check[c].pc = "seenEmpty"
  /\ check' = [check EXCEPT ![c] = [@ EXCEPT !.pc = "decided",
                                             !.closes = (Waiters(check[c].target) = {})]]
  /\ UNCHANGED <<visit, link, failed, groups, req, poolKey, claim, polls, faults>>

\* Variant: waiters of a leftover visit are moved after the groups are formed.
LinksMovedLast(k) ==
  [p \in Participants |->
     IF p \in k.locked /\ k.target # k.visit THEN k.target
     ELSE IF p \in UNION k.formed THEN None ELSE link[p]]

\* Grouped waiters are released, the others of a leftover visit move.
LinksAfter(k) ==
  [p \in Participants |->
     IF p \in UNION k.formed THEN None
     ELSE IF p \in k.locked THEN k.target ELSE link[p]]

\* Only an attribute that changed is written: a check that loaded an active
\* visit writes it only to close it.
CheckCommit(c) ==
  /\ check[c].pc = "decided"
  /\ LET k == check[c] IN
     /\ groups' = groups \cup k.formed
     /\ link' = LinksAfter(k)
     /\ visit' = IF k.closes THEN [visit EXCEPT ![k.target] = "inactive"]
                 ELSE IF k.reopens THEN [visit EXCEPT ![k.target] = "active"]
                 ELSE visit
  /\ Finish(c)
  /\ UNCHANGED <<failed, polls, faults>>

\* The check's transaction fails or its process dies.
CheckAbort(c) ==
  /\ check[c].pc # "idle"
  /\ faults < MaxFaults
  /\ faults' = faults + 1
  /\ FinishWithoutCommit(c)
-----------------------------------------------------------------------------
CheckStep(c) ==
  Load(c) \/ LockWaiters(c) \/ MissWaiters(c) \/ RecheckEmpty(c) \/ CheckCommit(c)

Next ==
  \/ \E p \in Participants :
       \/ Arrive(p) \/ TakePoolKey(p) \/ ArriveCommit(p) \/ ArriveRollback(p)
       \/ PollBegin(p) \/ PollEnd(p)
       \/ ArriverClaim(p) \/ ArriverGivesUp(p)
  \/ \E i \in Instances : PollerClaim(i)
  \/ \E c \in Actors : CheckStep(c) \/ CheckAbort(c)

Spec == Init /\ [][Next]_vars

\* Requests and checks run to their end; PostgreSQL queues the waiters of an
\* advisory lock, and the poller checks the least recently checked visit
\* first, so neither is passed over for ever.
Fairness ==
  /\ \A p \in Participants :
       WF_vars(ArriveCommit(p)) /\ WF_vars(PollEnd(p)) /\ SF_vars(TakePoolKey(p))
  /\ \A c \in Actors : WF_vars(CheckStep(c))
  /\ \A i \in Instances : SF_vars(PollerClaim(i))

FairSpec == Spec /\ Fairness
-----------------------------------------------------------------------------
RequestRow ==
  [pc : {"away", "wantKey", "joined", "opening", "checking", "idle", "polling", "gone"},
   visit : Instances \cup {None}, tries : Nat]

CheckRow ==
  [pc : {"idle", "claimed", "loaded", "seenEmpty", "decided"},
   visit : Instances \cup {None}, target : Instances \cup {None}, reopens : BOOLEAN,
   locked : SUBSET Participants, formed : SUBSET SUBSET Participants, closes : BOOLEAN]

TypeOK ==
  /\ visit \in [Instances -> {"absent", "active", "inactive"}]
  /\ link \in [Participants -> Instances \cup {None}]
  /\ failed \subseteq Participants
  /\ groups \subseteq SUBSET Participants
  /\ req \in [Participants -> RequestRow]
  /\ poolKey \in Actors \cup {None}
  /\ claim \in [Instances -> Actors \cup {None}]
  /\ check \in [Actors -> CheckRow]
  /\ polls \in 0..MaxPolls /\ faults \in 0..MaxFaults

\* The partial unique index is never hit: however arrivals, checks and the
\* poller interleave, no commit makes a second visit of the pool active.
OneActiveVisit == \A i, j \in ActiveVisits : i = j

ExactGroups ==
  /\ \A g \in groups : Cardinality(g) = GroupSize
  /\ \A g, h \in groups : g # h => g \cap h = {}

GroupedIsReleased == \A p \in UNION groups : link[p] = None

\* Nobody is put into two groups or grouped and left waiting, and every group
\* has the configured size, even when two checks reach the same waiters
\* through a leftover visit.
GroupsAreExact == ExactGroups /\ GroupedIsReleased

\* Participants whose row a check locked stay waiting until it commits: a
\* check never groups somebody who left or was released meanwhile.
LockedStayWaiting == \A c \in Actors : check[c].locked \subseteq Waiting

\* A full pool is always emptied below the batch size again, although its
\* waiters may be spread over several visits, some of them marked inactive.
FullPoolForms == []<>(Cardinality(Waiting) < BatchSize)

\* No arrival waits for the pool key for ever: again and again nobody does.
ArrivalFinishes == []<>(\A p \in Participants : req[p].pc # "wantKey")

\* The pool implements the abstract grouping.
Abstract == INSTANCE Grouping WITH waiting <- Waiting, groups <- groups
GroupingSpec == Abstract!AbsSpec
=============================================================================
