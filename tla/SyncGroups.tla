----------------------------- MODULE SyncGroups -----------------------------
(***************************************************************************)
(* One sync group of psynet/sync.py on its way through group barriers:     *)
(* members arrive, wait, are released together, fail, are kicked or join,  *)
(* and the group dissolves when it falls below its minimum size.           *)
(*                                                                         *)
(* Everything happens in PostgreSQL transactions (READ COMMITTED).  A      *)
(* transaction reads committed rows once, plans its writes from what it    *)
(* read, and commits later; an UPDATE writes only the columns that differ  *)
(* from the values it loaded.  Row locks are the only exclusion: a request *)
(* holds its participant's row, a check the rows of its waiters, and code  *)
(* that fails or removes others takes their rows SKIP LOCKED.              *)
(***************************************************************************)
EXTENDS Naturals, FiniteSets, FiniteSetsExt

CONSTANTS
  Participants,   \* row ids, positive numbers
  Groupers,       \* how the group may have been formed
  FailBelowMin,   \* fail_participants_below_min_size
  MaxWaitAction,  \* "fail" or "kick"
  LateAction,     \* timeout_between_barriers_action, or "none"
  Rounds,         \* group barriers in the timeline
  MaxRequests,    \* bound: requests other than an arrival at a barrier
  MaxFaults       \* bound: transactions rolled back by an error or a crash

ASSUME GroupAssumption ==
  /\ Participants \subseteq Nat \ {0} /\ IsFiniteSet(Participants)
  /\ \A g \in Groupers :
       /\ g.founders \subseteq Participants /\ g.leader \in g.founders /\ g.topUps \in BOOLEAN
       /\ g.min \in Nat \ {0} /\ g.max \in Nat
       /\ Cardinality(g.founders) \in g.min..g.max
  /\ FailBelowMin \in BOOLEAN
  /\ MaxWaitAction \in {"fail", "kick"} /\ LateAction \in {"fail", "kick", "none"}
  /\ Rounds \in Nat /\ MaxRequests \in Nat /\ MaxFaults \in Nat

VARIABLES
  grouper,   \* the one that formed the group
  members,   \* participants with an active link to the group
  failed,    \* participants that left the working state
  arrived,   \* participants with an unreleased link at their next barrier
  round,     \* how many group barriers each participant has passed
  group,     \* the sync_group row
  tx,        \* each transaction: its phase, its locks and its planned writes
  groupRow,  \* who holds the group's row, when it is locked before reading
  requests, faults

\* The members it put in the group, the leader it drew from them, its sizes
\* and its accepts_top_ups.
Founders == grouper.founders
Leader == grouper.leader
MinSize == grouper.min
MaxSize == grouper.max
TopUps == grouper.topUps

committed == <<grouper, members, failed, arrived, round, group>>
vars == <<committed, tx, groupRow, requests, faults>>

\* Transactions: one on behalf of each participant (their request, the
\* dashboard, the poller's overdue sweep), one check per visit, the poller
\* finishing dissolutions, and the clock recounting groups.
Row(p) == <<"row", p>>
Visit(r) == <<"visit", r>>
Poller == <<"poller", 0>>
Clock == <<"clock", 0>>
Nobody == <<"nobody", 0>>
Actors == {Row(p) : p \in Participants} \cup {Visit(r) : r \in 1..Rounds} \cup {Poller, Clock}

NoGroup == [active |-> FALSE, dissolving |-> FALSE, n |-> 0, leader |-> 0, passed |-> FALSE]

Idle == [pc |-> "idle", locked |-> {}, from |-> NoGroup, to |-> NoGroup, joins |-> {},
         leaves |-> {}, fails |-> {}, arrives |-> {}, releases |-> {}]

Init ==
  /\ grouper \in Groupers
  /\ members = Founders /\ failed = {} /\ arrived = {}
  /\ round = [p \in Participants |-> 0]
  /\ group = [active |-> TRUE, dissolving |-> FALSE, n |-> Cardinality(Founders),
              leader |-> Leader, passed |-> FALSE]
  /\ tx = [a \in Actors |-> Idle]
  /\ groupRow = Nobody
  /\ requests = 0 /\ faults = 0
-----------------------------------------------------------------------------
(* What a transaction computes: a view of the rows, as it will leave them. *)

View == [in |-> members, failed |-> failed, locked |-> {}, group |-> group]

Present(v) == v.in \ v.failed

\* Variant: nobody asks who holds a row.
LockedByNobody(a) == {}

LockedByOthers(a) == UNION {tx[b].locked : b \in Actors \ {a}}

\* Variant: the stored count is kept.
CheckNumbersKept(v) == v

CheckNumbers(v) == [v EXCEPT !.group.n = Cardinality(Present(v))]

\* Variant: the leader is never replaced.
CheckLeaderNever(v, busy) == v

\* A leader who left is replaced by the first member whose row is free.
CheckLeader(v, busy) ==
  LET free == Present(v) \ busy IN
  IF Present(v) = {} THEN [v EXCEPT !.group.leader = 0]
  ELSE IF v.group.leader \in Present(v) \/ free = {} THEN v
  ELSE [v EXCEPT !.group.leader = Min(free), !.locked = @ \cup {Min(free)}]

\* Variants: the group closes over its busy members; or it is never closed.
DissolveNow(v, busy) ==
  [in |-> v.in \ (Present(v) \ busy), failed |-> v.failed \cup (Present(v) \ busy),
   locked |-> v.locked \cup (Present(v) \ busy),
   group |-> [v.group EXCEPT !.n = 0, !.active = FALSE]]
DissolveOpen(v, busy) ==
  [in |-> v.in \ (Present(v) \ busy), failed |-> v.failed,
   locked |-> v.locked \cup (Present(v) \ busy),
   group |-> [v.group EXCEPT !.n = Cardinality(Present(v) \cap busy), !.dissolving = TRUE]]

\* Every free member is removed; busy ones are left for the poller.
Dissolve(v, busy) ==
  LET removed == Present(v) \ busy
      stay == Present(v) \cap busy
  IN [in |-> v.in \ removed,
      failed |-> IF FailBelowMin THEN v.failed \cup removed ELSE v.failed,
      locked |-> v.locked \cup removed,
      group |-> [v.group EXCEPT
        !.n = Cardinality(stay), !.dissolving = (stay # {}), !.active = @ /\ stay # {},
        !.leader = IF removed = {} \/ @ \in stay THEN @ ELSE Max(removed)]]

RemoveParticipant(v, p, busy) ==
  LET u == CheckNumbers([v EXCEPT !.in = @ \ {p}])
      w == IF u.group.n = 0 /\ ~TopUps THEN [u EXCEPT !.group.active = FALSE]
           ELSE CheckLeader(u, busy)
  IN IF TopUps \/ u.group.n >= MinSize THEN w ELSE Dissolve(w, busy)

FailOne(v, p, busy) ==
  LET u == [v EXCEPT !.failed = @ \cup {p}] IN
  IF p \in v.failed THEN v
  ELSE IF p \in v.in /\ v.group.active THEN RemoveParticipant(u, p, busy) ELSE u

KickOne(v, p, busy) == IF p \in v.in /\ v.group.active THEN RemoveParticipant(v, p, busy) ELSE v

\* The plan of transaction a: the difference between v and what it read.
Plan(a, view, arrives, releases) ==
  \E v \in {view} :
    tx' = [tx EXCEPT ![a] =
      [pc |-> "planned", locked |-> @.locked \cup v.locked, from |-> group, to |-> v.group,
       joins |-> v.in \ members, leaves |-> members \ v.in, fails |-> v.failed \ failed,
       arrives |-> arrives, releases |-> releases]]

Release(a) == groupRow' = IF groupRow = a THEN Nobody ELSE groupRow

\* Only changed columns are written; an UPDATE of the group waits for its row.
Commit(a) ==
  LET t == tx[a] IN
  /\ t.pc = "planned"
  /\ t.from = t.to \/ groupRow \in {Nobody, a}
  /\ members' = (members \ t.leaves) \cup t.joins
  /\ failed' = failed \cup t.fails
  /\ arrived' = (arrived \cup t.arrives) \ (t.releases \cup t.fails)
  /\ round' = [p \in Participants |-> IF p \in t.releases \ failed' THEN round[p] + 1
                                                                    ELSE round[p]]
  /\ group' = [f \in DOMAIN group |-> IF t.to[f] = t.from[f] THEN group[f] ELSE t.to[f]]
  /\ tx' = [tx EXCEPT ![a] = Idle]
  /\ Release(a)
  /\ UNCHANGED <<grouper, requests, faults>>

Rollback(a) ==
  /\ tx[a].pc # "idle" /\ faults < MaxFaults
  /\ faults' = faults + 1
  /\ tx' = [tx EXCEPT ![a] = Idle]
  /\ Release(a)
  /\ UNCHANGED <<committed, requests>>
-----------------------------------------------------------------------------
(* Transactions that hold one participant's row.                           *)

Free(p) == tx[Row(p)].pc = "idle" /\ p \notin failed /\ p \notin LockedByOthers(Row(p))

\* Barrier.receive_participant at the next group barrier.
Arrive(p) ==
  /\ Free(p) /\ p \notin arrived /\ round[p] < Rounds
  /\ p \in members /\ group.active
  /\ Plan(Row(p), [View EXCEPT !.locked = {p}], {p}, {})
  /\ UNCHANGED <<committed, groupRow, requests, faults>>

\* Any other request takes the row before it knows what it will do.
Begin(p) ==
  /\ Free(p) /\ requests < MaxRequests
  /\ requests' = requests + 1
  /\ tx' = [tx EXCEPT ![Row(p)] = [Idle EXCEPT !.pc = "open", !.locked = {p}]]
  /\ UNCHANGED <<committed, groupRow, faults>>

\* Participant.fail in the participant's own request.
Leave(p) ==
  /\ tx[Row(p)].pc = "open"
  /\ Plan(Row(p), FailOne(View, p, LockedByOthers(Row(p))), {}, {})
  /\ UNCHANGED <<committed, groupRow, requests, faults>>

\* The hold's deadline passed: the participant is failed, or kicked and let
\* through alone.
MaxWait(p) ==
  /\ tx[Row(p)].pc = "open" /\ p \in arrived
  /\ LET busy == LockedByOthers(Row(p)) IN
     Plan(Row(p), IF MaxWaitAction = "kick" THEN KickOne(View, p, busy)
                  ELSE FailOne(View, p, busy), {}, {p})
  /\ UNCHANGED <<committed, groupRow, requests, faults>>

\* Fail or kick from the dashboard, which locks the group's row first.
Dashboard(p) ==
  /\ tx[Row(p)].pc = "open"
  /\ p \in members /\ group.active /\ groupRow = Nobody
  /\ groupRow' = Row(p)
  /\ LET busy == LockedByOthers(Row(p)) IN
     \E v \in {FailOne(View, p, busy), KickOne(View, p, busy)} : Plan(Row(p), v, {}, {})
  /\ UNCHANGED <<committed, requests, faults>>

\* A request that changes nothing here.
End(p) ==
  /\ tx[Row(p)].pc = "open"
  /\ tx' = [tx EXCEPT ![Row(p)] = Idle]
  /\ UNCHANGED <<committed, groupRow, requests, faults>>

\* SimpleGrouper._claim_group_to_join: candidates are chosen by the stored
\* count, then recounted under the group's row lock.
Join(p) ==
  /\ Free(p) /\ TopUps
  /\ p \notin members \cup Founders
  /\ group.active /\ group.n > 0 /\ group.n < MaxSize /\ groupRow = Nobody
  /\ groupRow' = Row(p)
  /\ LET u == CheckNumbers([View EXCEPT !.locked = {p}]) IN
     Plan(Row(p),
          IF u.group.n = 0 \/ u.group.n >= MaxSize THEN u
          ELSE CheckLeader(CheckNumbers([u EXCEPT !.in = @ \cup {p}]), LockedByOthers(Row(p))),
          {}, {})
  /\ UNCHANGED <<committed, requests, faults>>
-----------------------------------------------------------------------------
(* The check of one visit: Barrier._check_instance for a GroupBarrier.     *)

Waiters(r) == {p \in arrived \ failed : round[p] + 1 = r}

LockWaiters(r) ==
  /\ tx[Visit(r)].pc = "idle" /\ Waiters(r) # {}
  /\ Waiters(r) \cap LockedByOthers(Visit(r)) = {}
  /\ tx' = [tx EXCEPT ![Visit(r)] = [Idle EXCEPT !.pc = "locked", !.locked = Waiters(r)]]
  /\ UNCHANGED <<committed, groupRow, requests, faults>>

\* check_waiting_participants: members late for this barrier are kicked or
\* failed, one after the other; only those to be failed are locked first.
TimeOutOne(v, p, busy) ==
  IF LateAction = "kick" THEN RemoveParticipant(v, p, busy) ELSE FailOne(v, p, busy)

TimeOutLate(v, late, busy) ==
  LET out == IF LateAction = "fail" THEN late \ busy ELSE late
      start == IF LateAction = "fail" THEN [v EXCEPT !.locked = @ \cup out] ELSE v
      after[ps \in SUBSET out] ==
        IF ps = {} THEN start ELSE TimeOutOne(after[ps \ {Max(ps)}], Max(ps), busy)
  IN after[out]

\* choose_who_to_release: what becomes of a group some of whose members wait.
Settle(v, waiting, busy) ==
  LET u == CheckNumbers(v) IN
  IF waiting \cap u.in = {} \/ ~u.group.active THEN v
  ELSE IF Cardinality(Present(u)) < MinSize THEN IF TopUps THEN u ELSE Dissolve(u, busy)
  ELSE IF Present(u) \subseteq waiting
       THEN [CheckLeader(u, busy) EXCEPT !.group.passed = TRUE]
  ELSE u

\* Variants: enough waiters go without the others; former members stay.
ReleasedEarly(v, waiting) == IF Cardinality(waiting) >= MinSize THEN waiting ELSE {}
ReleasedMembers(v, waiting) ==
  IF Present(v) # {} /\ Present(v) \subseteq waiting THEN waiting ELSE {}

\* Released: the whole group, and waiters who no longer belong to it.
Released(v, waiting) ==
  IF Cardinality(Present(v)) >= MinSize /\ Present(v) \subseteq waiting
  THEN waiting ELSE IF v.group.active THEN waiting \ v.in ELSE waiting

DecideVisit(r) ==
  LET a == Visit(r)
      waiting == tx[a].locked
      busy == LockedByOthers(a)
      known == waiting \cap members # {} /\ group.active
      mayBeLate == known /\ LateAction # "none" /\ group.passed
  IN
  /\ tx[a].pc = "locked"
  /\ \E late \in {{}} \cup (IF mayBeLate THEN {Present(View) \ waiting} ELSE {}) :
       LET v == Settle(TimeOutLate(IF known THEN CheckNumbers(View) ELSE View, late, busy),
                       waiting, busy)
       IN Plan(a, v, {}, Released(v, waiting))
  /\ UNCHANGED <<committed, groupRow, requests, faults>>
-----------------------------------------------------------------------------
(* Maintenance: both lock the group's row SKIP LOCKED before reading.      *)

\* _finish_dissolving_groups
FinishDissolving ==
  /\ tx[Poller].pc = "idle" /\ groupRow = Nobody
  /\ group.active /\ group.dissolving
  /\ groupRow' = Poller
  /\ Plan(Poller, Dissolve(View, LockedByOthers(Poller)), {}, {})
  /\ UNCHANGED <<committed, requests, faults>>

\* Variant: only counts that are too high are corrected.
RecountDown ==
  /\ tx[Clock].pc = "idle" /\ groupRow = Nobody
  /\ group.active /\ group.n > Cardinality(Present(View))
  /\ groupRow' = Clock
  /\ Plan(Clock, CheckNumbers(View), {}, {})
  /\ UNCHANGED <<committed, requests, faults>>

\* check_sync_groups, when the recount would change something.
Recount ==
  /\ tx[Clock].pc = "idle" /\ groupRow = Nobody
  /\ group.active /\ group.n # Cardinality(Present(View))
  /\ groupRow' = Clock
  /\ Plan(Clock, CheckNumbers(View), {}, {})
  /\ UNCHANGED <<committed, requests, faults>>
-----------------------------------------------------------------------------
Next ==
  \/ \E p \in Participants :
       \/ Begin(p) \/ Arrive(p) \/ Leave(p) \/ MaxWait(p) \/ Dashboard(p) \/ End(p) \/ Join(p)
  \/ \E r \in 1..Rounds : LockWaiters(r) \/ DecideVisit(r)
  \/ FinishDissolving \/ Recount
  \/ \E a \in Actors : Commit(a) \/ Rollback(a)

Spec == Init /\ [][Next]_vars

\* Transactions that began end, PostgreSQL granting a row in turn to those who
\* wait for it; the poller keeps checking visits with waiters and finishing
\* dissolutions, and the clock keeps recounting.
Fairness ==
  /\ \A p \in Participants : WF_vars(End(p))
  /\ \A a \in Actors : SF_vars(Commit(a))
  /\ \A r \in 1..Rounds : WF_vars(LockWaiters(r)) /\ WF_vars(DecideVisit(r))
  /\ WF_vars(FinishDissolving) /\ WF_vars(Recount)

FairSpec == Spec /\ Fairness
-----------------------------------------------------------------------------
Active == members \ failed

\* Members advance together: nobody in the group is ever a barrier ahead of
\* another member, whatever checks, timeouts, failures and kicks interleave.
InStep == ~TopUps => \A p, q \in Active : round[p] = round[q]

\* A group passes a barrier only as a whole, with its minimum size, and led by
\* one of the members who pass, unless a request replaced the leader after the
\* check read the group: its plan may be older and name somebody who has left.
Passing == {p \in Participants : round'[p] > round[p]} \cap Active'
Overtaken ==
  \E r \in 1..Rounds : /\ tx[Visit(r)].pc = "planned" /\ tx'[Visit(r)].pc = "idle"
                       /\ tx[Visit(r)].from.leader # group.leader
PassesWhole ==
  [][~TopUps /\ Passing # {} =>
                     /\ Passing = Active' /\ Cardinality(Passing) >= MinSize
                     /\ group'.leader \in Passing \/ Overtaken]_vars

\* Closing a group never forgets a member who is still working in it.
ClosedIsEmpty == ~TopUps /\ ~group.active => Active = {}

\* Two joiners never share the last place of a group.
WithinMaxSize == Cardinality(Active) <= MaxSize

\* A row is locked by one transaction at a time, and nobody a check has
\* locked fails or is released before that check commits.
LocksHold ==
  /\ \A a, b \in Actors : a # b => tx[a].locked \cap tx[b].locked = {}
  /\ \A r \in 1..Rounds : tx[Visit(r)].pc = "locked" => tx[Visit(r)].locked \subseteq Waiters(r)

\* A visit whose waiters can go does not keep them: the whole group is
\* there, the group can no longer pass, or a waiter is not a member.
Due(r) ==
  /\ Waiters(r) # {}
  /\ \/ Active = Waiters(r) /\ Cardinality(Active) >= MinSize
     \/ ~TopUps /\ Cardinality(Active) < MinSize
     \/ Waiters(r) \cap members = {}
DueIsReleased == \A r \in 1..Rounds : Due(r) ~> ~Due(r)

\* A dissolution that skipped busy members is finished.
DissolutionFinishes == group.dissolving ~> ~group.active

\* The stored count comes to agree with the members, although a leaver may
\* overwrite it with what it counted before a joiner committed.
CountSettles == <>[](group.active => group.n = Cardinality(Active))
=============================================================================
