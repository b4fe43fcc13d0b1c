------------------------- MODULE BarrierPoolProofs -------------------------
(***************************************************************************)
(* Proofs about BarrierPool for any number of participants and visits.     *)
(***************************************************************************)
EXTENDS BarrierPool, FiniteSetTheorems, TLAPS

\* A transaction that is about to make a visit active holds the pool key, and
\* the pool has no active visit.
OpensUnderKey ==
  \A p \in Participants : req[p].pc = "opening" => poolKey = p /\ ActiveVisits = {}

ReopensUnderKey ==
  \A c \in Actors : check[c].reopens => poolKey = c /\ ActiveVisits = {}

\* An actor's check and its arrival do not overlap.
CheckAfterArrival ==
  \A p \in Participants : check[p].pc # "idle" => req[p].pc = "checking"

IdleIsClean ==
  \A c \in Actors :
    /\ check[c].pc = "idle" => check[c] = Idle
    /\ check[c].pc # "idle" => check[c].visit \in Instances
    /\ check[c].pc \in {"loaded", "seenEmpty", "decided"} => check[c].target \in Instances

JoinedHasVisit ==
  \A p \in Participants :
    req[p].pc \in {"joined", "opening", "checking"} => req[p].visit \in Instances

PoolInv ==
  /\ TypeOK /\ OneActiveVisit
  /\ OpensUnderKey /\ ReopensUnderKey /\ CheckAfterArrival /\ IdleIsClean /\ JoinedHasVisit

\* A participant whose own request holds their row is waiting, and no check
\* has that row.
PollingIsWaiting ==
  \A p \in Participants : req[p].pc = "polling" =>
    p \in Waiting /\ \A c \in Actors : p \notin check[c].locked

\* Before its arrival commits a participant has no link and no group.
ArrivingIsNew ==
  \A p \in Participants : req[p].pc \in {"away", "wantKey", "joined", "opening"} =>
    link[p] = None /\ p \notin UNION groups

\* What a check has decided rests on waiters nobody else can touch.
DecisionIsLocked ==
  \A c \in Actors :
    /\ check[c].locked \subseteq Waiting
    /\ UNION check[c].formed \subseteq check[c].locked
    /\ check[c].pc # "decided" => check[c].locked = {} /\ check[c].formed = {}
    /\ \A g \in check[c].formed : Cardinality(g) = GroupSize
    /\ \A g, h \in check[c].formed : g # h => g \cap h = {}
    /\ check[c].formed # {} => Cardinality(check[c].locked) >= BatchSize

LocksAreDisjoint ==
  \A c, d \in Actors : c # d => check[c].locked \cap check[d].locked = {}

LockInv ==
  /\ PollingIsWaiting /\ ArrivingIsNew /\ GroupedIsReleased
  /\ DecisionIsLocked /\ LocksAreDisjoint /\ ExactGroups

-----------------------------------------------------------------------------
(* Row types: every update the actions make stays in its row type.         *)

LEMMA RequestUpdates ==
  ASSUME NEW r \in RequestRow,
         NEW s \in {"away", "wantKey", "joined", "opening", "checking", "idle", "polling", "gone"},
         NEW v \in Instances \cup {None}, NEW n \in Nat
  PROVE  /\ [r EXCEPT !.pc = s] \in RequestRow
         /\ [r EXCEPT !.visit = v] \in RequestRow
         /\ [r EXCEPT !.tries = r.tries + 1] \in RequestRow
         /\ [r EXCEPT !.pc = s, !.visit = v, !.tries = n] \in RequestRow
         /\ [pc |-> s, visit |-> v, tries |-> n] \in RequestRow
<1>. USE DEF RequestRow
<1>1. [r EXCEPT !.pc = s] \in RequestRow
  OBVIOUS
<1>2. [r EXCEPT !.visit = v] \in RequestRow
  OBVIOUS
<1>3. [r EXCEPT !.tries = r.tries + 1] \in RequestRow
  OBVIOUS
<1>5. [r EXCEPT !.pc = s, !.visit = v, !.tries = n] \in RequestRow
  OBVIOUS
<1>6. [pc |-> s, visit |-> v, tries |-> n] \in RequestRow
  OBVIOUS
<1>. QED  BY <1>1, <1>2, <1>3, <1>5, <1>6

LEMMA IdleType == Idle \in CheckRow
BY DEF Idle, CheckRow

LEMMA TargetUpdate ==
  ASSUME NEW k \in CheckRow, NEW i \in Instances, NEW b \in BOOLEAN
  PROVE  /\ [k EXCEPT !.pc = "loaded", !.target = i] \in CheckRow
         /\ [k EXCEPT !.pc = "loaded", !.target = i, !.reopens = b] \in CheckRow
<1>1. [k EXCEPT !.pc = "loaded", !.target = i] \in CheckRow
  BY DEF CheckRow
<1>2. [k EXCEPT !.pc = "loaded", !.target = i, !.reopens = b] \in CheckRow
  BY DEF CheckRow
<1>. QED  BY <1>1, <1>2

LEMMA DecisionUpdate ==
  ASSUME NEW k \in CheckRow, NEW s \in {"seenEmpty", "decided"}, NEW b \in BOOLEAN,
         NEW W \in SUBSET Participants, NEW Q \in SUBSET SUBSET Participants
  PROVE  [k EXCEPT !.pc = s, !.locked = W, !.formed = Q, !.closes = b] \in CheckRow
BY DEF CheckRow

LEMMA ClosesUpdate ==
  ASSUME NEW k \in CheckRow, NEW b \in BOOLEAN
  PROVE  [k EXCEPT !.pc = "decided", !.closes = b] \in CheckRow
BY DEF CheckRow

LEMMA PartitionsType ==
  ASSUME NEW S \in SUBSET Participants, NEW Q \in Partitions(S)
  PROVE  /\ Q \in SUBSET SUBSET Participants
         /\ UNION Q = S
         /\ \A g \in Q : Cardinality(g) = GroupSize
         /\ \A g, h \in Q : g # h => g \cap h = {}
BY DEF Partitions

\* Replacing one actor's check, or one participant's request, leaves the others.
LEMMA CheckReplaced ==
  ASSUME TypeOK, NEW c \in Actors, NEW k, check' = [check EXCEPT ![c] = k]
  PROVE  check'[c] = k /\ \A d \in Actors : d # c => check'[d] = check[d]
BY DEF TypeOK

LEMMA RequestReplaced ==
  ASSUME TypeOK, NEW p \in Participants, NEW r, req' = [req EXCEPT ![p] = r]
  PROVE  req'[p] = r /\ \A q \in Participants : q # p => req'[q] = req[q]
BY DEF TypeOK

\* What Load, LockWaiters, RecheckEmpty and PollEnd write, field by field.
LEMMA LoadEffect ==
  ASSUME TypeOK, NEW c \in Actors, NEW o,
         \/ check' = [check EXCEPT ![c] = [check[c] EXCEPT !.pc = "loaded", !.target = o]]
         \/ check' = [check EXCEPT ![c] = [check[c] EXCEPT !.pc = "loaded", !.target = o,
                                                        !.reopens = (o = check[c].visit)]]
  PROVE  /\ \A d \in Actors : d # c => check'[d] = check[d]
         /\ check'[c].pc = "loaded" /\ check'[c].visit = check[c].visit
         /\ check'[c].target = o
         /\ check'[c].reopens => check[c].reopens \/ o = check[c].visit
         /\ check'[c].locked = check[c].locked /\ check'[c].formed = check[c].formed
<1>. DEFINE b == (o = check[c].visit)
            m == [check[c] EXCEPT !.pc = "loaded", !.target = o]
            n == [check[c] EXCEPT !.pc = "loaded", !.target = o, !.reopens = b]
<1>1. b => o = check[c].visit
  OBVIOUS
<1>2. check' = [check EXCEPT ![c] = m] \/ check' = [check EXCEPT ![c] = n]
  OBVIOUS
<1>3. check[c] \in CheckRow
  BY DEF TypeOK
<1>. HIDE DEF b
<1>4. /\ m.pc = "loaded" /\ m.visit = check[c].visit /\ m.target = o
      /\ m.reopens = check[c].reopens
      /\ m.locked = check[c].locked /\ m.formed = check[c].formed
  BY <1>3 DEF CheckRow
<1>5. /\ n.pc = "loaded" /\ n.visit = check[c].visit /\ n.target = o /\ n.reopens = b
      /\ n.locked = check[c].locked /\ n.formed = check[c].formed
  BY <1>3 DEF CheckRow
<1>. HIDE DEF m, n
<1>6. CASE check' = [check EXCEPT ![c] = m]
  BY <1>4, <1>6, CheckReplaced
<1>7. CASE check' = [check EXCEPT ![c] = n]
  BY <1>1, <1>5, <1>7, CheckReplaced
<1>8. QED  BY <1>2, <1>6, <1>7

LEMMA LockEffect ==
  ASSUME TypeOK, NEW c \in Actors, NEW s, NEW W, NEW Q, NEW b,
         check' = [check EXCEPT ![c] =
                     [check[c] EXCEPT !.pc = s, !.locked = W, !.formed = Q, !.closes = b]]
  PROVE  /\ \A d \in Actors : d # c => check'[d] = check[d]
         /\ check'[c].pc = s /\ check'[c].visit = check[c].visit
         /\ check'[c].target = check[c].target /\ check'[c].reopens = check[c].reopens
         /\ check'[c].locked = W /\ check'[c].formed = Q
<1>. DEFINE n == [check[c] EXCEPT !.pc = s, !.locked = W, !.formed = Q, !.closes = b]
<1>1. check[c] \in CheckRow
  BY DEF TypeOK
<1>2. /\ n.pc = s /\ n.visit = check[c].visit /\ n.target = check[c].target
      /\ n.reopens = check[c].reopens /\ n.locked = W /\ n.formed = Q
  BY <1>1 DEF CheckRow
<1>3. check' = [check EXCEPT ![c] = n]
  OBVIOUS
<1>. HIDE DEF n
<1>4. QED  BY <1>2, <1>3, CheckReplaced

LEMMA RecheckEffect ==
  ASSUME TypeOK, NEW c \in Actors, RecheckEmpty(c)
  PROVE  /\ \A d \in Actors : d # c => check'[d] = check[d]
         /\ check'[c].pc = "decided" /\ check'[c].visit = check[c].visit
         /\ check'[c].target = check[c].target /\ check'[c].reopens = check[c].reopens
         /\ check'[c].locked = check[c].locked /\ check'[c].formed = check[c].formed
<1>. DEFINE b == (Waiters(check[c].target) = {})
            n == [check[c] EXCEPT !.pc = "decided", !.closes = b]
<1>1. check' = [check EXCEPT ![c] = n]
  BY DEF RecheckEmpty
<1>2. check[c] \in CheckRow
  BY DEF TypeOK
<1>. HIDE DEF b
<1>3. /\ n.pc = "decided" /\ n.visit = check[c].visit /\ n.target = check[c].target
      /\ n.reopens = check[c].reopens
      /\ n.locked = check[c].locked /\ n.formed = check[c].formed
  BY <1>2 DEF CheckRow
<1>. HIDE DEF n
<1>4. QED  BY <1>1, <1>3, CheckReplaced

LEMMA PollEffect ==
  ASSUME TypeOK, NEW p \in Participants, PollEnd(p)
  PROVE  /\ \A q \in Participants : q # p => req'[q] = req[q]
         /\ \/ req'[p].pc = "checking" /\ req'[p].visit = link[p]
            \/ req'[p].pc = "gone"
<1>. DEFINE m == [req[p] EXCEPT !.pc = "checking", !.visit = link[p], !.tries = 0]
            n == [req[p] EXCEPT !.pc = "gone"]
<1>1. req' = [req EXCEPT ![p] = m] \/ req' = [req EXCEPT ![p] = n]
  BY DEF PollEnd
<1>2. req[p] \in RequestRow
  BY DEF TypeOK
<1>3. m.pc = "checking" /\ m.visit = link[p]
  BY <1>2 DEF RequestRow
<1>4. n.pc = "gone"
  BY <1>2 DEF RequestRow
<1>. HIDE DEF m, n
<1>5. CASE req' = [req EXCEPT ![p] = m]
  BY <1>3, <1>5, RequestReplaced
<1>6. CASE req' = [req EXCEPT ![p] = n]
  BY <1>4, <1>6, RequestReplaced
<1>7. QED  BY <1>1, <1>5, <1>6

\* What the end of a check does to the requests, the key and the claims.
LEMMA FinishEffect ==
  ASSUME TypeOK, NEW c \in Actors, link' \in [Participants -> Instances \cup {None}],
         check[c].visit \in Instances, Finish(c)
  PROVE  /\ poolKey' = Freed(c) /\ poolKey' \in Actors \cup {None}
         /\ claim' \in [Instances -> Actors \cup {None}]
         /\ check' = [check EXCEPT ![c] = Idle] /\ check' \in [Actors -> CheckRow]
         /\ req' \in [Participants -> RequestRow]
         /\ \A p \in Participants : p # c => req'[p] = req[p]
         /\ c \in Participants =>
              req'[c].pc \in {req[c].pc, "idle"}
              /\ (req'[c].visit \in Instances \/ req'[c].visit = req[c].visit)
<1>. USE PoolAssumption
<1>1. /\ poolKey' = Freed(c) /\ poolKey' \in Actors \cup {None}
      /\ claim' \in [Instances -> Actors \cup {None}]
      /\ check' = [check EXCEPT ![c] = Idle] /\ check' \in [Actors -> CheckRow]
  BY IdleType DEF Finish, TypeOK, Freed
<1>2. CASE c = Poller
  BY <1>1, <1>2 DEF Finish, TypeOK
<1>3. CASE c \in Participants
  <2>. DEFINE r == IF link'[c] # None /\ req[c].tries < 2
                   THEN [req[c] EXCEPT !.visit = link'[c]]
                   ELSE [req[c] EXCEPT !.pc = "idle"]
  <2>1. req' = [req EXCEPT ![c] = r]
    BY <1>3 DEF Finish
  <2>2. req[c] \in RequestRow /\ link'[c] \in Instances \cup {None}
    BY <1>3 DEF TypeOK
  <2>3. r \in RequestRow
    BY <2>2, RequestUpdates
  <2>4. r.pc \in {req[c].pc, "idle"}
        /\ (r.visit \in Instances \/ r.visit = req[c].visit)
    BY <2>2 DEF RequestRow
  <2>. HIDE DEF r
  <2>5. /\ req' \in [Participants -> RequestRow]
        /\ \A p \in Participants : p # c => req'[p] = req[p]
        /\ req'[c] = r
    BY <1>3, <2>1, <2>3 DEF TypeOK
  <2>6. QED  BY <1>1, <2>4, <2>5
<1>4. QED  BY <1>2, <1>3 DEF Actors

-----------------------------------------------------------------------------
LEMMA TypePreserved ==
  ASSUME TypeOK, IdleIsClean, JoinedHasVisit, [Next]_vars
  PROVE  TypeOK'
<1>. USE PoolAssumption
<1>1. ASSUME NEW p \in Participants, Arrive(p)
      PROVE  TypeOK'
  <2>1. req[p] \in RequestRow /\ [req[p] EXCEPT !.pc = "wantKey"] \in RequestRow
    BY RequestUpdates DEF TypeOK
  <2>2. \A i \in Instances :
          [pc |-> "joined", visit |-> i, tries |-> 0] \in RequestRow
    BY DEF RequestRow
  <2>3. req' \in [Participants -> RequestRow]
    BY <1>1, <2>1, <2>2 DEF Arrive, Join, ActiveVisits, TypeOK
  <2>4. QED  BY <1>1, <2>3 DEF Arrive, TypeOK
<1>2. ASSUME NEW p \in Participants, TakePoolKey(p)
      PROVE  TypeOK'
  <2>1. \A i \in Instances, s \in {"joined", "opening"} :
          [pc |-> s, visit |-> i, tries |-> 0] \in RequestRow
    BY DEF RequestRow
  <2>2. \E i \in Instances, s \in {"joined", "opening"} : Join(p, i, s)
    BY <1>2 DEF TakePoolKey, ActiveVisits, WaitingInactive
  <2>3. req' \in [Participants -> RequestRow]
    <3>1. PICK i \in Instances, s \in {"joined", "opening"} : Join(p, i, s)
      BY <2>2
    <3>2. [pc |-> s, visit |-> i, tries |-> 0] \in RequestRow
      BY <2>1
    <3>. QED  BY <3>1, <3>2 DEF Join, TypeOK
  <2>4. QED  BY <1>2, <2>3 DEF TakePoolKey, TypeOK, Actors
<1>3. ASSUME NEW p \in Participants, ArriveCommit(p)
      PROVE  TypeOK'
  <2>1. req[p] \in RequestRow /\ req[p].visit \in Instances
    BY <1>3 DEF TypeOK, JoinedHasVisit, ArriveCommit
  <2>2. [req[p] EXCEPT !.pc = "checking"] \in RequestRow
    BY <2>1, RequestUpdates
  <2>3. req' \in [Participants -> RequestRow]
    BY <1>3, <2>2 DEF ArriveCommit, TypeOK
  <2>4. QED  BY <1>3, <2>1, <2>3 DEF ArriveCommit, Freed, TypeOK
<1>4. ASSUME NEW p \in Participants, ArriveRollback(p)
      PROVE  TypeOK'
  <2>1. Away \in RequestRow
    BY DEF Away, RequestRow
  <2>2. QED  BY <1>4, <2>1 DEF ArriveRollback, Freed, TypeOK
<1>5. ASSUME NEW p \in Participants, PollBegin(p)
      PROVE  TypeOK'
  <2>1. [req[p] EXCEPT !.pc = "polling"] \in RequestRow
    BY RequestUpdates DEF TypeOK
  <2>2. QED  BY <1>5, <2>1 DEF PollBegin, TypeOK
<1>6. ASSUME NEW p \in Participants, PollEnd(p)
      PROVE  TypeOK'
  <2>1. req[p] \in RequestRow /\ link[p] \in Instances \cup {None}
    BY DEF TypeOK
  <2>2. /\ [req[p] EXCEPT !.pc = "gone"] \in RequestRow
        /\ [req[p] EXCEPT !.pc = "checking", !.visit = link[p], !.tries = 0] \in RequestRow
    BY <2>1, RequestUpdates
  <2>3. req' \in [Participants -> RequestRow]
    BY <1>6, <2>2 DEF PollEnd, TypeOK
  <2>4. QED  BY <1>6, <2>3 DEF PollEnd, TypeOK
<1>7. ASSUME NEW p \in Participants, ArriverClaim(p)
      PROVE  TypeOK'
  <2>1. req[p] \in RequestRow /\ req[p].visit \in Instances /\ p \in Actors
    BY <1>7 DEF TypeOK, JoinedHasVisit, ArriverClaim, Actors
  <2>2. [req[p] EXCEPT !.tries = req[p].tries + 1] \in RequestRow
    BY <2>1, RequestUpdates
  <2>3. [Idle EXCEPT !.pc = "claimed", !.visit = req[p].visit] \in CheckRow
    BY <2>1 DEF Idle, CheckRow
  <2>4. req' \in [Participants -> RequestRow]
    BY <1>7, <2>2 DEF ArriverClaim, TypeOK
  <2>5. QED  BY <1>7, <2>1, <2>3, <2>4 DEF ArriverClaim, Claim, TypeOK
<1>8. ASSUME NEW p \in Participants, ArriverGivesUp(p)
      PROVE  TypeOK'
  <2>1. [req[p] EXCEPT !.pc = "idle"] \in RequestRow
    BY RequestUpdates DEF TypeOK
  <2>2. QED  BY <1>8, <2>1 DEF ArriverGivesUp, TypeOK
<1>9. ASSUME NEW i \in Instances, PollerClaim(i)
      PROVE  TypeOK'
  <2>1. [Idle EXCEPT !.pc = "claimed", !.visit = i] \in CheckRow
    BY DEF Idle, CheckRow
  <2>2. QED  BY <1>9, <2>1 DEF PollerClaim, Claim, TypeOK, Actors
<1>10. ASSUME NEW c \in Actors, Load(c)
       PROVE  TypeOK'
  <2>. DEFINE i == check[c].visit
  <2>1. check[c] \in CheckRow /\ i \in Instances
    BY <1>10 DEF Load, IdleIsClean, TypeOK
  <2>2. CASE /\ check' = [check EXCEPT ![c] = [@ EXCEPT !.pc = "loaded", !.target = i]]
             /\ UNCHANGED <<visit, link, failed, groups, req, poolKey, claim, polls, faults>>
    <3>1. [check[c] EXCEPT !.pc = "loaded", !.target = i] \in CheckRow
      BY <2>1, TargetUpdate
    <3>2. QED  BY <2>2, <3>1 DEF TypeOK
  <2>3. CASE FinishWithoutCommit(c) /\ UNCHANGED faults
    BY <2>1, <2>3, FinishEffect DEF FinishWithoutCommit, TypeOK
  <2>4. CASE /\ poolKey' = c
             /\ \E o \in IF ActiveVisits = {} THEN {i} ELSE ActiveVisits :
                  check' = [check EXCEPT ![c] = [@ EXCEPT !.pc = "loaded", !.target = o,
                                                          !.reopens = (o = i)]]
             /\ UNCHANGED <<visit, link, failed, groups, req, claim, polls, faults>>
    <3>1. PICK o \in Instances :
            check' = [check EXCEPT ![c] = [check[c] EXCEPT !.pc = "loaded", !.target = o,
                                                           !.reopens = (o = i)]]
      BY <2>1, <2>4 DEF ActiveVisits
    <3>2. \A b \in BOOLEAN :
            [check[c] EXCEPT !.pc = "loaded", !.target = o, !.reopens = b] \in CheckRow
      BY <2>1, TargetUpdate
    <3>3. (o = i) \in BOOLEAN
      OBVIOUS
    <3>4. check' \in [Actors -> CheckRow]
      BY <3>1, <3>2, <3>3 DEF TypeOK
    <3>5. QED  BY <2>4, <3>4 DEF TypeOK
  <2>5. QED  BY <1>10, <2>2, <2>3, <2>4 DEF Load
<1>11. ASSUME NEW c \in Actors, LockWaiters(c)
       PROVE  TypeOK'
  <2>. DEFINE W == CheckedWaiters(c)
              grouped == IF Cardinality(W) >= BatchSize
                         THEN FirstById(W, (Cardinality(W) \div GroupSize) * GroupSize)
                         ELSE {}
              s == IF W = {} THEN "seenEmpty" ELSE "decided"
              b == (grouped = W)
  <2>1. W \in SUBSET Participants /\ grouped \in SUBSET Participants
        /\ s \in {"seenEmpty", "decided"} /\ b \in BOOLEAN
    BY DEF CheckedWaiters, Waiters, FirstById
  <2>2. PICK Q \in Partitions(grouped) :
          check' = [check EXCEPT ![c] =
            [@ EXCEPT !.pc = s, !.locked = W, !.formed = Q, !.closes = b]]
    BY <1>11, Zenon DEF LockWaiters
  <2>3. Q \in SUBSET SUBSET Participants
    BY <2>1, <2>2, PartitionsType
  <2>. HIDE DEF W, grouped, s, b
  <2>4. [check[c] EXCEPT !.pc = s, !.locked = W, !.formed = Q, !.closes = b] \in CheckRow
    BY <2>1, <2>3, DecisionUpdate, check[c] \in CheckRow DEF TypeOK
  <2>5. QED  BY <1>11, <2>2, <2>4 DEF LockWaiters, TypeOK
<1>12. ASSUME NEW c \in Actors, MissWaiters(c)
       PROVE  TypeOK'
  <2>1. check[c].visit \in Instances
    BY <1>12 DEF MissWaiters, IdleIsClean
  <2>2. QED  BY <1>12, <2>1, FinishEffect DEF MissWaiters, FinishWithoutCommit, TypeOK
<1>13. ASSUME NEW c \in Actors, RecheckEmpty(c)
       PROVE  TypeOK'
  <2>. DEFINE b == (Waiters(check[c].target) = {})
  <2>1. b \in BOOLEAN
    OBVIOUS
  <2>2. check' = [check EXCEPT ![c] = [@ EXCEPT !.pc = "decided", !.closes = b]]
    BY <1>13 DEF RecheckEmpty
  <2>. HIDE DEF b
  <2>3. [check[c] EXCEPT !.pc = "decided", !.closes = b] \in CheckRow
    BY <2>1, ClosesUpdate, check[c] \in CheckRow DEF TypeOK
  <2>4. QED  BY <1>13, <2>2, <2>3 DEF RecheckEmpty, TypeOK
<1>14. ASSUME NEW c \in Actors, CheckCommit(c)
       PROVE  TypeOK'
  <2>1. /\ check[c] \in CheckRow
        /\ check[c].visit \in Instances /\ check[c].target \in Instances
    BY <1>14 DEF CheckCommit, LinksAfter, IdleIsClean, TypeOK
  <2>2. link' \in [Participants -> Instances \cup {None}]
    BY <1>14, <2>1 DEF CheckCommit, LinksAfter, TypeOK
  <2>3. visit' \in [Instances -> {"absent", "active", "inactive"}]
    BY <1>14, <2>1 DEF CheckCommit, LinksAfter, TypeOK
  <2>4. groups' \subseteq SUBSET Participants
    BY <1>14, <2>1 DEF CheckCommit, LinksAfter, TypeOK, CheckRow
  <2>5. Finish(c) /\ UNCHANGED <<failed, polls, faults>>
    BY <1>14 DEF CheckCommit, LinksAfter
  <2>6. QED  BY <2>1, <2>2, <2>3, <2>4, <2>5, FinishEffect DEF TypeOK
<1>15. ASSUME NEW c \in Actors, CheckAbort(c)
       PROVE  TypeOK'
  <2>1. check[c].visit \in Instances
    BY <1>15 DEF CheckAbort, IdleIsClean
  <2>2. QED  BY <1>15, <2>1, FinishEffect DEF CheckAbort, FinishWithoutCommit, TypeOK
<1>16. CASE UNCHANGED vars
  BY <1>16 DEF vars, TypeOK
<1>17. QED
  BY <1>1, <1>2, <1>3, <1>4, <1>5, <1>6, <1>7, <1>8, <1>9, <1>10, <1>11, <1>12, <1>13,
     <1>14, <1>15, <1>16 DEF Next, CheckStep
-----------------------------------------------------------------------------
(* The pool key protects activation.                                       *)

\* The end of a check keeps the invariant, provided the check left an empty
\* set of active visits empty unless it held the pool key itself.
LEMMA FinishKeepsPool ==
  ASSUME PoolInv, TypeOK', NEW c \in Actors, check[c].pc # "idle", Finish(c),
         OneActiveVisit', ActiveVisits = {} /\ poolKey # c => ActiveVisits' = {}
  PROVE  PoolInv'
<1>. USE PoolAssumption
<1>1. /\ link' \in [Participants -> Instances \cup {None}]
      /\ check[c].visit \in Instances
  BY DEF TypeOK, PoolInv, IdleIsClean
<1>2. /\ poolKey' = Freed(c)
      /\ check' = [check EXCEPT ![c] = Idle]
      /\ \A p \in Participants : p # c => req'[p] = req[p]
      /\ c \in Participants =>
              req'[c].pc \in {req[c].pc, "idle"}
              /\ (req'[c].visit \in Instances \/ req'[c].visit = req[c].visit)
  BY <1>1, FinishEffect DEF PoolInv
<1>3. c \in Participants => req[c].pc = "checking"
  BY DEF PoolInv, CheckAfterArrival, OpensUnderKey
<1>4. check'[c] = Idle /\ \A d \in Actors : d # c => check'[d] = check[d]
  BY <1>2 DEF PoolInv, TypeOK
<1>5. OpensUnderKey'
  BY <1>2, <1>3 DEF PoolInv, OpensUnderKey, Freed
<1>6. ReopensUnderKey'
  BY <1>2, <1>4 DEF PoolInv, ReopensUnderKey, Freed, Idle
<1>7. CheckAfterArrival'
  BY <1>2, <1>4 DEF PoolInv, CheckAfterArrival, Idle, Actors
<1>8. IdleIsClean'
  <2>1. Idle.pc = "idle"
    BY DEF Idle
  <2>2. QED  BY <1>4, <2>1 DEF PoolInv, IdleIsClean
<1>9. JoinedHasVisit'
  BY <1>2, <1>3 DEF PoolInv, JoinedHasVisit
<1>10. QED  BY <1>5, <1>6, <1>7, <1>8, <1>9 DEF PoolInv

\* A step of p's own request keeps it: it only changes that request and the
\* pool key, which it may take when free and give back.
LEMMA RequestKeepsPool ==
  ASSUME PoolInv, TypeOK', NEW p \in Participants,
         \A q \in Participants : q # p => req'[q] = req[q],
         check' = check, visit' = visit,
         check[p].pc # "idle" => req'[p].pc = "checking",
         req'[p].pc = "opening" => poolKey' = p /\ ActiveVisits = {},
         req'[p].pc \in {"joined", "opening", "checking"} => req'[p].visit \in Instances,
         \/ poolKey' = poolKey
         \/ poolKey' = p /\ poolKey = None
         \/ poolKey' = None /\ poolKey = p /\ check[p].pc = "idle"
  PROVE  PoolInv'
<1>. USE PoolAssumption
<1>1. OneActiveVisit'
  BY DEF PoolInv, OneActiveVisit, ActiveVisits
<1>2. OpensUnderKey'
  BY DEF PoolInv, OpensUnderKey, ActiveVisits
<1>3. ReopensUnderKey'
  BY DEF PoolInv, ReopensUnderKey, ActiveVisits, IdleIsClean, Idle, Actors
<1>4. CheckAfterArrival' /\ IdleIsClean' /\ JoinedHasVisit'
  BY DEF PoolInv, CheckAfterArrival, IdleIsClean, JoinedHasVisit
<1>5. QED  BY <1>1, <1>2, <1>3, <1>4 DEF PoolInv

\* A step of c's check that does not end it keeps it.
LEMMA CheckKeepsPool ==
  ASSUME PoolInv, TypeOK', NEW c \in Actors, visit' = visit,
         \A q \in Participants :
           req'[q].pc = req[q].pc /\ req'[q].visit = req[q].visit,
         \A d \in Actors : d # c => check'[d] = check[d],
         c \in Participants => req[c].pc = "checking",
         check'[c].pc # "idle", check'[c].visit \in Instances,
         check'[c].pc \in {"loaded", "seenEmpty", "decided"} => check'[c].target \in Instances,
         check'[c].reopens => poolKey' = c /\ ActiveVisits = {},
         poolKey' = poolKey \/ (poolKey' = c /\ poolKey = None)
  PROVE  PoolInv'
<1>. USE PoolAssumption
<1>1. OneActiveVisit'
  BY DEF PoolInv, OneActiveVisit, ActiveVisits
<1>2. OpensUnderKey'
  BY DEF PoolInv, OpensUnderKey, ActiveVisits
<1>3. ReopensUnderKey'
  BY DEF PoolInv, ReopensUnderKey, ActiveVisits, Actors
<1>4. CheckAfterArrival'
  BY DEF PoolInv, CheckAfterArrival, Actors
<1>5. IdleIsClean'
  BY DEF PoolInv, IdleIsClean
<1>6. JoinedHasVisit'
  BY DEF PoolInv, JoinedHasVisit
<1>7. QED  BY <1>1, <1>2, <1>3, <1>4, <1>5, <1>6 DEF PoolInv

LEMMA PoolInvPreserved ==
  ASSUME PoolInv, PollingIsWaiting, [Next]_vars
  PROVE  PoolInv'
<1>. USE PoolAssumption
<1>0. TypeOK /\ TypeOK'
  BY TypePreserved DEF PoolInv
<1>. USE <1>0
<1>a. \A p \in Participants : check[p].pc # "idle" => req[p].pc = "checking"
  BY DEF PoolInv, CheckAfterArrival
<1>b. \A p \in Participants : req[p].pc = "opening" => poolKey = p /\ ActiveVisits = {}
  BY DEF PoolInv, OpensUnderKey
<1>1. ASSUME NEW p \in Participants, Arrive(p)
      PROVE  PoolInv'
  <2>1. /\ \A q \in Participants : q # p => req'[q] = req[q]
        /\ req'[p].pc \in {"joined", "wantKey"}
        /\ req'[p].pc = "joined" => req'[p].visit \in Instances
    BY <1>1, <1>b DEF Arrive, Join, ActiveVisits, TypeOK, RequestRow
  <2>2. QED  BY <1>1, <1>a, <2>1, RequestKeepsPool DEF Arrive
<1>2. ASSUME NEW p \in Participants, TakePoolKey(p)
      PROVE  PoolInv'
  <2>1. PICK i \in Instances, s \in {"joined", "opening"} :
          Join(p, i, s) /\ (s = "opening" => ActiveVisits = {})
    BY <1>2 DEF TakePoolKey, WaitingInactive, ActiveVisits
  <2>2. /\ \A q \in Participants : q # p => req'[q] = req[q]
        /\ req'[p].pc = "opening" => ActiveVisits = {}
        /\ req'[p].pc \in {"joined", "opening"} /\ req'[p].visit \in Instances
    BY <2>1 DEF Join, TypeOK
  <2>3. QED  BY <1>2, <1>a, <2>2, RequestKeepsPool DEF TakePoolKey
<1>3. ASSUME NEW p \in Participants, ArriveCommit(p)
      PROVE  PoolInv'
  <2>1. /\ \A q \in Participants : q # p => req'[q] = req[q]
        /\ req'[p].pc = "checking" /\ req'[p].visit = req[p].visit
    BY <1>3 DEF ArriveCommit, TypeOK, RequestRow
  <2>2. check[p] = Idle /\ req[p].visit \in Instances
    BY <1>3, <1>a DEF ArriveCommit, PoolInv, IdleIsClean, JoinedHasVisit, Actors
  <2>3. OneActiveVisit'
    BY <1>3, <1>b DEF ArriveCommit, PoolInv, OneActiveVisit, ActiveVisits, TypeOK
  <2>4. \A q \in Participants : q # p /\ req[q].pc = "opening" =>
          poolKey' = q /\ ActiveVisits' = {}
    BY <1>3, <1>b DEF ArriveCommit, Freed, ActiveVisits, TypeOK
  <2>5. OpensUnderKey'
    BY <2>1, <2>4, <1>b DEF OpensUnderKey
  <2>6. \A d \in Actors : check[d].reopens => d # p /\ poolKey = d /\ ActiveVisits = {}
    BY <2>2 DEF PoolInv, ReopensUnderKey, Idle
  <2>7. \A d \in Actors : check[d].reopens => req[p].pc # "opening"
    BY <2>6, <1>b
  <2>8. ReopensUnderKey'
    BY <1>3, <2>6, <2>7 DEF ArriveCommit, Freed, ReopensUnderKey, ActiveVisits
  <2>9. CheckAfterArrival' /\ IdleIsClean' /\ JoinedHasVisit'
    BY <1>3, <2>1, <2>2, <1>a
    DEF ArriveCommit, PoolInv, CheckAfterArrival, IdleIsClean, JoinedHasVisit
  <2>10. QED  BY <2>3, <2>5, <2>8, <2>9 DEF PoolInv
<1>4. ASSUME NEW p \in Participants, ArriveRollback(p)
      PROVE  PoolInv'
  <2>1. /\ \A q \in Participants : q # p => req'[q] = req[q]
        /\ req'[p].pc = "away"
    BY <1>4 DEF ArriveRollback, Away, TypeOK
  <2>2. QED  BY <1>4, <1>a, <2>1, RequestKeepsPool DEF ArriveRollback, Freed
<1>5. ASSUME NEW p \in Participants, PollBegin(p)
      PROVE  PoolInv'
  <2>1. /\ \A q \in Participants : q # p => req'[q] = req[q]
        /\ req'[p].pc = "polling"
    BY <1>5, <1>b DEF PollBegin, TypeOK, RequestRow
  <2>2. QED  BY <1>5, <1>a, <2>1, RequestKeepsPool DEF PollBegin
<1>6. ASSUME NEW p \in Participants, PollEnd(p)
      PROVE  PoolInv'
  <2>1. req[p].pc = "polling" /\ link[p] \in Instances \cup {None}
    BY <1>6, <1>b DEF PollEnd, TypeOK
  <2>2. /\ \A q \in Participants : q # p => req'[q] = req[q]
        /\ \/ req'[p].pc = "checking" /\ req'[p].visit = link[p]
           \/ req'[p].pc = "gone"
    BY <1>6, <2>1, PollEffect
  <2>3. link[p] \in Instances
    BY <2>1 DEF PollingIsWaiting, Waiting
  <2>4. QED  BY <1>6, <1>a, <2>1, <2>2, <2>3, RequestKeepsPool DEF PollEnd
<1>7. ASSUME NEW p \in Participants, ArriverClaim(p)
      PROVE  PoolInv'
  <2>1. /\ \A q \in Participants : req'[q].pc = req[q].pc /\ req'[q].visit = req[q].visit
                                  
        /\ p \in Actors /\ req[p].visit \in Instances
    BY <1>7 DEF ArriverClaim, TypeOK, RequestRow, PoolInv, JoinedHasVisit, Actors
  <2>2. /\ \A d \in Actors : d # p => check'[d] = check[d]
        /\ check'[p].pc = "claimed" /\ check'[p].visit = req[p].visit /\ ~check'[p].reopens
    BY <1>7, <2>1 DEF ArriverClaim, Claim, Idle, TypeOK
  <2>3. QED  BY <1>7, <2>1, <2>2, CheckKeepsPool DEF ArriverClaim, Claim
<1>8. ASSUME NEW p \in Participants, ArriverGivesUp(p)
      PROVE  PoolInv'
  <2>1. /\ \A q \in Participants : q # p => req'[q] = req[q]
        /\ req'[p].pc = "idle"
    BY <1>8, <1>b DEF ArriverGivesUp, TypeOK, RequestRow
  <2>2. QED  BY <1>8, <2>1, RequestKeepsPool DEF ArriverGivesUp
<1>9. ASSUME NEW i \in Instances, PollerClaim(i)
      PROVE  PoolInv'
  <2>1. /\ Poller \in Actors
        /\ \A d \in Actors : d # Poller => check'[d] = check[d]
        /\ check'[Poller].pc = "claimed" /\ check'[Poller].visit = i /\ ~check'[Poller].reopens
    BY <1>9 DEF PollerClaim, Claim, Idle, TypeOK, Actors
  <2>2. QED  BY <1>9, <2>1, CheckKeepsPool DEF PollerClaim, Claim
<1>c. \A c \in Actors : check[c].pc # "idle" =>
        /\ check[c].visit \in Instances
        /\ check[c].pc \in {"loaded", "seenEmpty", "decided"} => check[c].target \in Instances
        /\ c \in Participants => req[c].pc = "checking"
        /\ check[c].reopens => poolKey = c /\ ActiveVisits = {}
  BY DEF PoolInv, IdleIsClean, CheckAfterArrival, ReopensUnderKey
<1>10. ASSUME NEW c \in Actors, Load(c)
       PROVE  PoolInv'
  <2>. DEFINE i == check[c].visit
  <2>1. check[c].pc = "claimed" /\ i \in Instances
    BY <1>10, <1>c DEF Load
  <2>2. CASE /\ check' = [check EXCEPT ![c] = [@ EXCEPT !.pc = "loaded", !.target = i]]
             /\ UNCHANGED <<visit, link, failed, groups, req, poolKey, claim, polls, faults>>
    <3>1. /\ \A d \in Actors : d # c => check'[d] = check[d]
          /\ check'[c].pc = "loaded" /\ check'[c].visit = i /\ check'[c].target = i
          /\ check'[c].reopens = check[c].reopens
      BY <2>2 DEF TypeOK, CheckRow
    <3>2. QED  BY <2>1, <2>2, <3>1, <1>c, CheckKeepsPool
  <2>3. CASE FinishWithoutCommit(c) /\ UNCHANGED faults
    <3>1. OneActiveVisit' /\ ActiveVisits' = ActiveVisits
      BY <2>3 DEF FinishWithoutCommit, PoolInv, OneActiveVisit, ActiveVisits
    <3>2. QED  BY <2>1, <2>3, <3>1, FinishKeepsPool DEF FinishWithoutCommit
  <2>4. CASE /\ visit[i] # "active" /\ poolKey = None /\ poolKey' = c
             /\ \E o \in IF ActiveVisits = {} THEN {i} ELSE ActiveVisits :
                  check' = [check EXCEPT ![c] = [@ EXCEPT !.pc = "loaded", !.target = o,
                                                          !.reopens = (o = i)]]
             /\ UNCHANGED <<visit, link, failed, groups, req, claim, polls, faults>>
    <3>1. PICK o \in Instances :
            /\ check' = [check EXCEPT ![c] = [@ EXCEPT !.pc = "loaded", !.target = o,
                                                       !.reopens = (o = i)]]
            /\ o = i => ActiveVisits = {}
      BY <2>1, <2>4 DEF ActiveVisits
    <3>2. /\ \A d \in Actors : d # c => check'[d] = check[d]
          /\ check'[c].pc = "loaded" /\ check'[c].visit = i /\ check'[c].target = o
          /\ check'[c].reopens => o = i
      <4>1. ~check[c].reopens
        BY <2>4, <1>c, <2>1, PoolAssumption DEF Actors
      <4>2. QED  BY <3>1, <4>1, LoadEffect, Zenon
    <3>3. QED  BY <2>1, <2>4, <3>1, <3>2, <1>c, CheckKeepsPool
  <2>5. QED  BY <1>10, <2>2, <2>3, <2>4 DEF Load, WaitingInactive
<1>11. ASSUME NEW c \in Actors, LockWaiters(c)
       PROVE  PoolInv'
  <2>. DEFINE W == CheckedWaiters(c)
              grouped == IF Cardinality(W) >= BatchSize
                         THEN FirstById(W, (Cardinality(W) \div GroupSize) * GroupSize)
                         ELSE {}
              s == IF W = {} THEN "seenEmpty" ELSE "decided"
              b == (grouped = W)
  <2>1. PICK Q : check' = [check EXCEPT ![c] =
                   [check[c] EXCEPT !.pc = s, !.locked = W, !.formed = Q, !.closes = b]]
    BY <1>11, Zenon DEF LockWaiters
  <2>2. /\ check'[c].pc \in {"seenEmpty", "decided"} /\ check'[c].visit = check[c].visit
        /\ check'[c].target = check[c].target /\ check'[c].reopens = check[c].reopens
        /\ \A d \in Actors : d # c => check'[d] = check[d]
    <3>1. s \in {"seenEmpty", "decided"}
      OBVIOUS
    <3>. HIDE DEF W, grouped, s, b
    <3>2. /\ check'[c].pc = s /\ check'[c].visit = check[c].visit
          /\ check'[c].target = check[c].target /\ check'[c].reopens = check[c].reopens
          /\ \A d \in Actors : d # c => check'[d] = check[d]
      BY <2>1, LockEffect, Zenon
    <3>3. QED  BY <3>1, <3>2
  <2>3. check[c].pc = "loaded" /\ UNCHANGED <<visit, req, poolKey>>
    BY <1>11 DEF LockWaiters
  <2>4. QED  BY <2>2, <2>3, <1>c, CheckKeepsPool
<1>13. ASSUME NEW c \in Actors, RecheckEmpty(c)
       PROVE  PoolInv'
  <2>1. /\ check'[c].pc = "decided" /\ check'[c].visit = check[c].visit
        /\ check'[c].target = check[c].target /\ check'[c].reopens = check[c].reopens
        /\ \A d \in Actors : d # c => check'[d] = check[d]
    BY <1>13, RecheckEffect
  <2>2. check[c].pc = "seenEmpty" /\ UNCHANGED <<visit, req, poolKey>>
    BY <1>13 DEF RecheckEmpty
  <2>3. QED  BY <2>1, <2>2, <1>c, CheckKeepsPool
<1>12. ASSUME NEW c \in Actors, MissWaiters(c) \/ CheckAbort(c)
       PROVE  PoolInv'
  <2>1. check[c].pc # "idle" /\ FinishWithoutCommit(c)
    BY <1>12 DEF MissWaiters, CheckAbort
  <2>2. OneActiveVisit' /\ ActiveVisits' = ActiveVisits
    BY <2>1 DEF FinishWithoutCommit, PoolInv, OneActiveVisit, ActiveVisits
  <2>3. QED  BY <2>1, <2>2, FinishKeepsPool DEF FinishWithoutCommit
<1>14. ASSUME NEW c \in Actors, CheckCommit(c)
       PROVE  PoolInv'
  <2>1. check[c].pc = "decided" /\ Finish(c)
    BY <1>14 DEF CheckCommit, LinksAfter
  <2>2. \/ visit' = visit
        \/ visit' = [visit EXCEPT ![check[c].target] = "inactive"]
        \/ check[c].reopens /\ visit' = [visit EXCEPT ![check[c].target] = "active"]
    BY <1>14 DEF CheckCommit, LinksAfter
  <2>3. OneActiveVisit' /\ (ActiveVisits = {} /\ poolKey # c => ActiveVisits' = {})
    BY <2>1, <2>2, <1>c DEF TypeOK, PoolInv, OneActiveVisit, ActiveVisits
  <2>4. QED  BY <2>1, <2>3, FinishKeepsPool
<1>15. CASE UNCHANGED vars
  BY <1>15 DEF vars, PoolInv, OneActiveVisit, OpensUnderKey, ReopensUnderKey, ActiveVisits,
       CheckAfterArrival, IdleIsClean, JoinedHasVisit
<1>16. QED
  BY <1>1, <1>2, <1>3, <1>4, <1>5, <1>6, <1>7, <1>8, <1>9, <1>10, <1>11, <1>12, <1>13,
     <1>14, <1>15 DEF Next, CheckStep

-----------------------------------------------------------------------------
(* Row locks protect the decision of a check.                              *)

\* A step of p's own request that leaves the rows and the checks alone.
LEMMA RequestKeepsLocks ==
  ASSUME LockInv, NEW p \in Participants,
         \A q \in Participants : q # p => req'[q] = req[q],
         UNCHANGED <<link, failed, groups, check>>,
         req'[p].pc = "polling" => p \in Waiting /\ \A c \in Actors : p \notin check[c].locked,
         req'[p].pc \in {"away", "wantKey", "joined", "opening"} =>
           req[p].pc \in {"away", "wantKey", "joined", "opening"}
  PROVE  LockInv'
<1>1. PollingIsWaiting' /\ ArrivingIsNew' /\ GroupedIsReleased'
  BY DEF LockInv, PollingIsWaiting, ArrivingIsNew, GroupedIsReleased, Waiting
<1>2. DecisionIsLocked' /\ LocksAreDisjoint' /\ ExactGroups'
  BY DEF LockInv, DecisionIsLocked, LocksAreDisjoint, ExactGroups, Waiting
<1>3. QED  BY <1>1, <1>2 DEF LockInv

\* A step of c's check that commits nothing and locks nobody.
LEMMA CheckKeepsLocks ==
  ASSUME LockInv, NEW c \in Actors, UNCHANGED <<link, failed, groups>>,
         \A q \in Participants : req'[q].pc = req[q].pc
                                 \/ req'[q].pc \in {"checking", "idle"},
         \A d \in Actors : d # c => check'[d] = check[d],
         check'[c].locked = {}, check'[c].formed = {}
  PROVE  LockInv'
<1>1. PollingIsWaiting'
  BY DEF LockInv, PollingIsWaiting, Waiting
<1>2. ArrivingIsNew' /\ GroupedIsReleased'
  BY DEF LockInv, ArrivingIsNew, GroupedIsReleased
<1>3. DecisionIsLocked'
  BY DEF LockInv, DecisionIsLocked, Waiting
<1>4. LocksAreDisjoint'
  BY DEF LockInv, LocksAreDisjoint
<1>5. ExactGroups'
  BY DEF LockInv, ExactGroups
<1>6. QED  BY <1>1, <1>2, <1>3, <1>4, <1>5 DEF LockInv

LEMMA FinishKeepsLocks ==
  ASSUME PoolInv, LockInv, NEW c \in Actors, check[c].pc # "idle", FinishWithoutCommit(c)
  PROVE  LockInv'
<1>1. /\ link' \in [Participants -> Instances \cup {None}] /\ check[c].visit \in Instances
      /\ Finish(c) /\ TypeOK
  BY DEF TypeOK, PoolInv, IdleIsClean, FinishWithoutCommit
<1>2. /\ check' = [check EXCEPT ![c] = Idle]
      /\ \A p \in Participants : p # c => req'[p] = req[p]
      /\ c \in Participants => req'[c].pc \in {req[c].pc, "idle"}
  BY <1>1, FinishEffect
<1>3. check'[c].locked = {} /\ check'[c].formed = {}
      /\ \A d \in Actors : d # c => check'[d] = check[d]
  BY <1>1, <1>2 DEF TypeOK, Idle
<1>4. QED  BY <1>2, <1>3, CheckKeepsLocks DEF FinishWithoutCommit

LEMMA LockInvPreserved ==
  ASSUME PoolInv, LockInv, [Next]_vars
  PROVE  LockInv'
<1>. USE PoolAssumption
<1>0. TypeOK
  BY DEF PoolInv
<1>. USE <1>0
<1>a. \A p \in Participants : check[p].pc # "idle" => req[p].pc = "checking"
  BY DEF PoolInv, CheckAfterArrival
<1>b. \A c \in Actors : check[c].pc # "decided" => check[c].locked = {} /\ check[c].formed = {}
  BY DEF LockInv, DecisionIsLocked
<1>1. ASSUME NEW p \in Participants,
             Arrive(p) \/ TakePoolKey(p) \/ ArriveRollback(p) \/ ArriverGivesUp(p)
      PROVE  LockInv'
  <2>1. /\ \A q \in Participants : q # p => req'[q] = req[q]
        /\ req'[p].pc \in {"away", "wantKey", "joined", "opening", "idle"}
        /\ req'[p].pc \in {"away", "wantKey", "joined", "opening"} =>
             req[p].pc \in {"away", "wantKey", "joined", "opening"}
    <3>1. CASE Arrive(p) \/ TakePoolKey(p)
      BY <3>1 DEF Arrive, TakePoolKey, Join, TypeOK, RequestRow
    <3>2. CASE ArriveRollback(p)
      BY <3>2 DEF ArriveRollback, Away, TypeOK
    <3>3. CASE ArriverGivesUp(p)
      BY <3>3 DEF ArriverGivesUp, TypeOK, RequestRow
    <3>4. QED  BY <1>1, <3>1, <3>2, <3>3
  <2>2. UNCHANGED <<link, failed, groups, check>>
    BY <1>1 DEF Arrive, TakePoolKey, ArriveRollback, ArriverGivesUp
  <2>3. QED  BY <2>1, <2>2, RequestKeepsLocks
<1>2. ASSUME NEW p \in Participants, ArriveCommit(p)
      PROVE  LockInv'
  <2>1. /\ \A q \in Participants : q # p => req'[q] = req[q]
        /\ req[p].pc \in {"joined", "opening"} /\ req'[p].pc = "checking" /\ req[p].visit \in Instances
    BY <1>2 DEF ArriveCommit, TypeOK, RequestRow, PoolInv, JoinedHasVisit
  <2>2. /\ link[p] = None /\ p \notin UNION groups /\ link'[p] # None
        /\ \A q \in Participants : q # p => link'[q] = link[q]
        /\ UNCHANGED <<failed, groups, check>>
    BY <1>2, <2>1 DEF ArriveCommit, LockInv, ArrivingIsNew, TypeOK
  <2>3. Waiting \subseteq Waiting'
    BY <2>2 DEF Waiting
  <2>4. PollingIsWaiting' /\ ArrivingIsNew' /\ GroupedIsReleased'
    BY <2>1, <2>2, <2>3 DEF LockInv, PollingIsWaiting, ArrivingIsNew, GroupedIsReleased, TypeOK
  <2>5. DecisionIsLocked' /\ LocksAreDisjoint' /\ ExactGroups'
    BY <2>2, <2>3 DEF LockInv, DecisionIsLocked, LocksAreDisjoint, ExactGroups
  <2>6. QED  BY <2>4, <2>5 DEF LockInv
<1>3. ASSUME NEW p \in Participants, PollBegin(p)
      PROVE  LockInv'
  <2>1. /\ \A q \in Participants : q # p => req'[q] = req[q]
        /\ req[p].pc = "idle" /\ req'[p].pc = "polling"
    BY <1>3 DEF PollBegin, TypeOK, RequestRow
  <2>2. check[p].locked = {}
    BY <2>1, <1>a, <1>b DEF Actors
  <2>3. \A c \in Actors : p \notin check[c].locked
    BY <1>3, <2>2 DEF PollBegin, LockedByOthers
  <2>4. QED  BY <1>3, <2>1, <2>3, RequestKeepsLocks DEF PollBegin
<1>4. ASSUME NEW p \in Participants, PollEnd(p)
      PROVE  LockInv'
  <2>1. /\ \A q \in Participants : q # p => req'[q] = req[q]
        /\ req[p].pc = "polling" /\ req'[p].pc \in {"checking", "gone"}
        /\ UNCHANGED <<link, groups, check>> /\ failed' \subseteq failed \cup {p}
    BY <1>4, PollEffect DEF PollEnd
  <2>2. \A c \in Actors : p \notin check[c].locked
    BY <2>1 DEF LockInv, PollingIsWaiting
  <2>3. Waiting \subseteq Waiting' \cup {p}
    BY <2>1 DEF Waiting
  <2>4. PollingIsWaiting' /\ ArrivingIsNew' /\ GroupedIsReleased'
    BY <2>1, <2>3 DEF LockInv, PollingIsWaiting, ArrivingIsNew, GroupedIsReleased
  <2>5. DecisionIsLocked' /\ LocksAreDisjoint' /\ ExactGroups'
    BY <2>1, <2>2, <2>3 DEF LockInv, DecisionIsLocked, LocksAreDisjoint, ExactGroups
  <2>6. QED  BY <2>4, <2>5 DEF LockInv
<1>5. ASSUME NEW c \in Actors, NEW i \in Instances, Claim(c, i),
             \A q \in Participants : req'[q].pc = req[q].pc
      PROVE  LockInv'
  <2>1. /\ \A d \in Actors : d # c => check'[d] = check[d]
        /\ check'[c].locked = {} /\ check'[c].formed = {}
    BY <1>5 DEF Claim, Idle, TypeOK
  <2>2. QED  BY <1>5, <2>1, CheckKeepsLocks DEF Claim
<1>6. ASSUME NEW p \in Participants, ArriverClaim(p)
      PROVE  LockInv'
  <2>1. \A q \in Participants : req'[q].pc = req[q].pc
    BY <1>6 DEF ArriverClaim, TypeOK, RequestRow
  <2>2. p \in Actors /\ req[p].visit \in Instances /\ Claim(p, req[p].visit)
    BY <1>6 DEF ArriverClaim, PoolInv, JoinedHasVisit, Actors
  <2>3. QED  BY <2>1, <2>2, <1>5
<1>7. ASSUME NEW i \in Instances, PollerClaim(i)
      PROVE  LockInv'
  BY <1>7, <1>5 DEF PollerClaim, Actors
<1>8. ASSUME NEW c \in Actors, Load(c)
      PROVE  LockInv'
  <2>1. check[c].pc = "claimed" /\ check[c].locked = {} /\ check[c].formed = {}
    BY <1>8, <1>b DEF Load
  <2>2. CASE FinishWithoutCommit(c)
    BY <2>1, <2>2, FinishKeepsLocks
  <2>. DEFINE i == check[c].visit
  <2>3. ASSUME NEW o, UNCHANGED <<link, failed, groups, req>>,
               \/ check' = [check EXCEPT ![c] = [check[c] EXCEPT !.pc = "loaded", !.target = o]]
               \/ check' = [check EXCEPT ![c] = [check[c] EXCEPT !.pc = "loaded", !.target = o,
                                                              !.reopens = (o = check[c].visit)]]
        PROVE  LockInv'
    <3>1. /\ \A d \in Actors : d # c => check'[d] = check[d]
          /\ check'[c].locked = check[c].locked /\ check'[c].formed = check[c].formed
      BY <2>3, LoadEffect, Zenon
    <3>2. QED  BY <2>1, <2>3, <3>1, CheckKeepsLocks
  <2>4. CASE /\ check' = [check EXCEPT ![c] = [@ EXCEPT !.pc = "loaded", !.target = i]]
             /\ UNCHANGED <<visit, link, failed, groups, req, poolKey, claim, polls, faults>>
    BY <2>3, <2>4, Zenon
  <2>5. CASE /\ \E o \in IF ActiveVisits = {} THEN {i} ELSE ActiveVisits :
                  check' = [check EXCEPT ![c] = [@ EXCEPT !.pc = "loaded", !.target = o,
                                                          !.reopens = (o = i)]]
             /\ UNCHANGED <<visit, link, failed, groups, req, claim, polls, faults>>
    BY <2>3, <2>5, Zenon
  <2>6. QED  BY <1>8, <2>2, <2>4, <2>5, Zenon DEF Load
<1>9. ASSUME NEW c \in Actors, MissWaiters(c) \/ CheckAbort(c)
      PROVE  LockInv'
  BY <1>9, FinishKeepsLocks DEF MissWaiters, CheckAbort
<1>10. ASSUME NEW c \in Actors, RecheckEmpty(c)
       PROVE  LockInv'
  <2>1. check[c].locked = {} /\ check[c].formed = {}
    BY <1>10, <1>b DEF RecheckEmpty
  <2>2. /\ \A d \in Actors : d # c => check'[d] = check[d]
        /\ check'[c].locked = {} /\ check'[c].formed = {}
    BY <1>10, <2>1 DEF RecheckEmpty, TypeOK, CheckRow
  <2>3. QED  BY <1>10, <2>2, CheckKeepsLocks DEF RecheckEmpty
<1>11. ASSUME NEW c \in Actors, LockWaiters(c)
       PROVE  LockInv'
  <2>. DEFINE W == CheckedWaiters(c)
              grouped == IF Cardinality(W) >= BatchSize
                         THEN FirstById(W, (Cardinality(W) \div GroupSize) * GroupSize)
                         ELSE {}
              s == IF W = {} THEN "seenEmpty" ELSE "decided"
  <2>1. W \subseteq Waiting /\ grouped \subseteq W
    <3>1. check[c].pc = "loaded" /\ check[c].visit \in Instances /\ check[c].target \in Instances
      BY <1>11 DEF LockWaiters, PoolInv, IdleIsClean
    <3>2. QED  BY <3>1 DEF CheckedWaiters, Waiters, Waiting, FirstById
  <2>2. PICK Q \in Partitions(grouped) :
          check' = [check EXCEPT ![c] =
            [@ EXCEPT !.pc = s, !.locked = W, !.formed = Q, !.closes = (grouped = W)]]
    BY <1>11, Zenon DEF LockWaiters
  <2>3. W \cap LockedByOthers(c) = {} /\ UNCHANGED <<link, failed, groups, req>>
        /\ check[c].pc = "loaded"
    BY <1>11 DEF LockWaiters
  <2>4. grouped \in SUBSET Participants
    BY <2>1 DEF Waiting
  <2>5. /\ UNION Q = grouped
        /\ \A g \in Q : Cardinality(g) = GroupSize
        /\ \A g, h \in Q : g # h => g \cap h = {}
    BY <2>2, <2>4, PartitionsType
  <2>6. W = {} => Q = {}
    <3>1. SUFFICES ASSUME W = {}, NEW g \in Q
                   PROVE  FALSE
      OBVIOUS
    <3>2. g = {}
      BY <2>1, <2>5, <3>1
    <3>3. Cardinality(g) = 0
      BY <3>2, FS_EmptySet
    <3>4. QED  BY <2>5, <3>3
  <2>7. Q # {} => Cardinality(W) >= BatchSize
    <3>1. SUFFICES ASSUME Q # {}, ~(Cardinality(W) >= BatchSize)
                   PROVE  FALSE
      OBVIOUS
    <3>2. grouped = {}
      BY <3>1
    <3>3. PICK g \in Q : g = {}
      BY <2>5, <3>1, <3>2
    <3>4. Cardinality(g) = 0
      BY <3>3, FS_EmptySet
    <3>5. QED  BY <2>5, <3>4
  <2>. HIDE DEF W, grouped, s
  <2>8. /\ check'[c].locked = W /\ check'[c].formed = Q /\ check'[c].pc = s
        /\ \A d \in Actors : d # c => check'[d] = check[d]
    BY <2>2 DEF TypeOK, CheckRow
  <2>9. s # "decided" => W = {}
    BY DEF s
  <2>10. PollingIsWaiting'
    <3>1. c \in Participants => req[c].pc = "checking"
      BY <2>3, <1>a
    <3>2. \A p \in Participants : req[p].pc = "polling" => p \notin W
      BY <2>3, <3>1 DEF LockedByOthers
    <3>3. QED  BY <2>3, <2>8, <3>2 DEF LockInv, PollingIsWaiting, Waiting
  <2>11. ArrivingIsNew' /\ GroupedIsReleased' /\ ExactGroups'
    BY <2>3 DEF LockInv, ArrivingIsNew, GroupedIsReleased, ExactGroups
  <2>12. DecisionIsLocked'
    <3>1. Waiting' = Waiting
      BY <2>3 DEF Waiting
    <3>2. QED
      BY <2>1, <2>5, <2>6, <2>7, <2>8, <2>9, <3>1 DEF LockInv, DecisionIsLocked
  <2>13. LocksAreDisjoint'
    <3>1. \A d \in Actors : d # c => W \cap check[d].locked = {}
      BY <2>3 DEF LockedByOthers
    <3>2. QED  BY <2>8, <3>1 DEF LockInv, LocksAreDisjoint
  <2>14. QED  BY <2>10, <2>11, <2>12, <2>13 DEF LockInv
<1>12. ASSUME NEW c \in Actors, CheckCommit(c)
       PROVE  LockInv'
  <2>. DEFINE F == check[c].formed
              L == check[c].locked
  <2>1. /\ check[c].pc = "decided" /\ check[c].visit \in Instances
        /\ check[c].target \in Instances
    BY <1>12 DEF CheckCommit, LinksAfter, PoolInv, IdleIsClean
  <2>2. /\ L \subseteq Waiting /\ UNION F \subseteq L
        /\ \A g \in F : Cardinality(g) = GroupSize
        /\ \A g, h \in F : g # h => g \cap h = {}
        /\ \A d \in Actors : d # c => check[d].locked \cap L = {}
    BY DEF LockInv, DecisionIsLocked, LocksAreDisjoint
  <2>3. /\ groups' = groups \cup F /\ failed' = failed
        /\ \A p \in Participants :
             link'[p] = IF p \in UNION F THEN None
                        ELSE IF p \in L THEN check[c].target ELSE link[p]
        /\ Finish(c)
    BY <1>12 DEF CheckCommit, LinksAfter
  <2>4. link' \in [Participants -> Instances \cup {None}]
    BY <1>12, <2>1 DEF CheckCommit, LinksAfter, TypeOK
  <2>5. /\ check' = [check EXCEPT ![c] = Idle]
        /\ \A p \in Participants : p # c => req'[p] = req[p]
        /\ c \in Participants => req'[c].pc \in {req[c].pc, "idle"}
    BY <2>1, <2>3, <2>4, FinishEffect
  <2>6. /\ check'[c].locked = {} /\ check'[c].formed = {}
        /\ \A d \in Actors : d # c => check'[d] = check[d]
    BY <2>5 DEF TypeOK, Idle
  <2>7. Waiting' = Waiting \ UNION F
    BY <2>1, <2>2, <2>3, PoolAssumption DEF Waiting, TypeOK
  <2>8. \A p \in Participants :
          req'[p].pc \in {"away", "wantKey", "joined", "opening", "polling"} => req'[p] = req[p]
    BY <2>1, <2>5, <1>a
  <2>. HIDE DEF F, L
  <2>9. PollingIsWaiting'
    <3>1. \A p \in Participants : req'[p].pc = "polling" => p \in Waiting /\ p \notin L
      BY <2>8 DEF LockInv, PollingIsWaiting, L
    <3>2. \A p \in Participants : req'[p].pc = "polling" => p \in Waiting'
      BY <2>2, <2>7, <3>1
    <3>3. QED  BY <2>6, <2>8, <3>2 DEF LockInv, PollingIsWaiting
  <2>10. ArrivingIsNew'
    BY <2>2, <2>3, <2>8 DEF LockInv, ArrivingIsNew, Waiting
  <2>11. GroupedIsReleased'
    BY <2>2, <2>3 DEF LockInv, GroupedIsReleased, Waiting, TypeOK
  <2>12. DecisionIsLocked'
    BY <2>2, <2>6, <2>7 DEF LockInv, DecisionIsLocked
  <2>13. LocksAreDisjoint'
    BY <2>6 DEF LockInv, LocksAreDisjoint
  <2>14. ExactGroups'
    <3>1. \A g \in groups, h \in F : g \cap h = {}
      BY <2>2 DEF LockInv, GroupedIsReleased, Waiting
    <3>2. QED  BY <2>2, <2>3, <3>1 DEF LockInv, ExactGroups
  <2>15. QED  BY <2>9, <2>10, <2>11, <2>12, <2>13, <2>14 DEF LockInv
<1>13. CASE UNCHANGED vars
  BY <1>13 DEF vars, LockInv, PollingIsWaiting, ArrivingIsNew, GroupedIsReleased,
       DecisionIsLocked, LocksAreDisjoint, ExactGroups, Waiting
<1>14. QED
  BY <1>1, <1>2, <1>3, <1>4, <1>6, <1>7, <1>8, <1>9, <1>10, <1>11, <1>12, <1>13
  DEF Next, CheckStep

-----------------------------------------------------------------------------
LEMMA InitPool == Init => PoolInv /\ LockInv
<1>. SUFFICES ASSUME Init PROVE PoolInv /\ LockInv
  OBVIOUS
<1>. USE PoolAssumption DEF Init
<1>1. \A p \in Participants : req[p] = Away
  OBVIOUS
<1>2. \A c \in Actors : check[c] = Idle
  OBVIOUS
<1>3. Away \in RequestRow /\ Idle \in CheckRow
  BY IdleType DEF Away, RequestRow
<1>4. TypeOK
  BY <1>3 DEF TypeOK
<1>5. ActiveVisits = {} /\ Waiting = {}
  BY DEF ActiveVisits, Waiting
<1>6. PoolInv
  BY <1>1, <1>2, <1>4, <1>5 DEF PoolInv, OneActiveVisit, OpensUnderKey, ReopensUnderKey,
     CheckAfterArrival, IdleIsClean, JoinedHasVisit, Idle, Away, Actors
<1>7. LockInv
  BY <1>1, <1>2, <1>5 DEF LockInv, PollingIsWaiting, ArrivingIsNew, GroupedIsReleased,
     DecisionIsLocked, LocksAreDisjoint, ExactGroups, Idle, Away
<1>8. QED  BY <1>6, <1>7

LEMMA PoolInvariance == Spec => [](PoolInv /\ LockInv)
<1>1. PoolInv /\ LockInv /\ [Next]_vars => (PoolInv /\ LockInv)'
  BY PoolInvPreserved, LockInvPreserved DEF LockInv
<1>2. QED  BY InitPool, <1>1, PTL DEF Spec

\* Every variable of the pool keeps its type: rows, claims and transactions.
THEOREM PoolTypeCorrect == Spec => []TypeOK
BY PoolInvariance, PTL DEF PoolInv

\* However many participants arrive and check at once, no commit makes a
\* second visit of the pool active: the partial unique index is never hit.
THEOREM PoolHasOneActiveVisit == Spec => []OneActiveVisit
BY PoolInvariance, PTL DEF PoolInv

\* Groups have the configured size and share nobody, for any number of
\* participants, visits and concurrent checks.
THEOREM PoolGroupsAreExact == Spec => []GroupsAreExact
BY PoolInvariance, PTL DEF LockInv, GroupsAreExact

\* Whoever a check has locked is still waiting when it commits.
THEOREM PoolLocksHold == Spec => []LockedStayWaiting
<1>1. LockInv => LockedStayWaiting
  BY DEF LockInv, DecisionIsLocked, LockedStayWaiting
<1>2. QED  BY PoolInvariance, <1>1, PTL
-----------------------------------------------------------------------------
(* The pool implements Grouping.                                           *)

LEMMA SameCardinality == \A S : Abstract!Cardinality(S) = Cardinality(S)
BY DEF Abstract!Cardinality, Cardinality

\* A commit moves its groups out of the waiting area, all at once.
LEMMA CommitForms ==
  ASSUME PoolInv, LockInv, NEW c \in Actors, CheckCommit(c)
  PROVE  Abstract!Form \/ UNCHANGED <<Waiting, groups>>
<1>. DEFINE F == check[c].formed
            L == check[c].locked
<1>. USE PoolAssumption
<1>1. TypeOK /\ check[c].target \in Instances
  BY DEF PoolInv, IdleIsClean, CheckCommit, LinksAfter
<1>2. /\ L \subseteq Waiting /\ UNION F \subseteq L
      /\ \A g \in F : Cardinality(g) = GroupSize
      /\ \A g, h \in F : g # h => g \cap h = {}
      /\ F # {} => Cardinality(L) >= BatchSize
  BY DEF LockInv, DecisionIsLocked
<1>3. /\ groups' = groups \cup F /\ failed' = failed
      /\ \A p \in Participants :
           link'[p] = IF p \in UNION F THEN None
                      ELSE IF p \in L THEN check[c].target ELSE link[p]
  BY DEF CheckCommit, LinksAfter
<1>4. Waiting' = Waiting \ UNION F
  BY <1>1, <1>2, <1>3 DEF Waiting, TypeOK
<1>. HIDE DEF F, L
<1>5. groups' \ groups = F
  <2>1. SUFFICES ASSUME NEW g \in F, g \in groups PROVE FALSE
    BY <1>3
  <2>2. ASSUME NEW q \in g PROVE FALSE
    <3>1. q \in Waiting
      BY <1>2, <2>1, <2>2
    <3>2. q \in UNION groups
      BY <2>1, <2>2
    <3>3. QED  BY <3>1, <3>2 DEF LockInv, GroupedIsReleased, Waiting
  <2>a. g = {}
    BY <2>2
  <2>3. Cardinality(g) = 0
    BY <2>a, FS_EmptySet
  <2>4. QED  BY <1>2, <2>1, <2>3
<1>6. CASE F = {}
  BY <1>3, <1>4, <1>6
<1>7. CASE F # {}
  <2>1. IsFiniteSet(Participants) /\ Waiting \subseteq Participants
    BY DEF Waiting
  <2>2. IsFiniteSet(Waiting)
    BY <2>1, FS_Subset
  <2>3. /\ IsFiniteSet(L) /\ Cardinality(L) <= Cardinality(Waiting)
        /\ Cardinality(L) \in Nat /\ Cardinality(Waiting) \in Nat
    BY <1>2, <2>2, FS_Subset, FS_CardinalityType
  <2>4. Cardinality(Waiting) >= BatchSize
    BY <1>2, <1>7, <2>3
  <2>5. groups \subseteq groups' /\ UNION F \subseteq Waiting
    BY <1>2, <1>3
  <2>. DEFINE N == groups' \ groups
  <2>6. N = F
    BY <1>5
  <2>. HIDE DEF N
  <2>7. /\ N # {} /\ UNION N \subseteq Waiting /\ Waiting' = Waiting \ UNION N
        /\ \A g \in N : Cardinality(g) = GroupSize
        /\ \A g, h \in N : g # h => g \cap h = {}
    BY <1>2, <1>4, <1>7, <2>5, <2>6
  <2>8. Abstract!Form
    BY <2>4, <2>5, <2>7, SameCardinality DEF Abstract!Form, N
  <2>9. QED  BY <2>8
<1>8. QED  BY <1>6, <1>7

LEMMA StepImplementsGrouping ==
  ASSUME PoolInv, LockInv, [Next]_vars
  PROVE  Abstract!AbsNext \/ UNCHANGED <<Waiting, groups>>
<1>0. TypeOK
  BY DEF PoolInv
<1>1. ASSUME UNCHANGED <<link, failed, groups>>
      PROVE  UNCHANGED <<Waiting, groups>>
  BY <1>1 DEF Waiting
<1>2. ASSUME NEW p \in Participants, ArriveCommit(p)
      PROVE  Abstract!Enter(p) \/ UNCHANGED <<Waiting, groups>>
  <2>1. link[p] = None /\ p \notin UNION groups
    BY <1>2 DEF ArriveCommit, LockInv, ArrivingIsNew
  <2>2. req[p].visit \in Instances
    BY <1>2 DEF ArriveCommit, PoolInv, JoinedHasVisit
  <2>3. link' = [link EXCEPT ![p] = req[p].visit] /\ UNCHANGED <<failed, groups>>
    BY <1>2 DEF ArriveCommit
  <2>4. CASE p \in failed
    BY <2>3, <2>4, <1>0 DEF Waiting, TypeOK
  <2>5. CASE p \notin failed
    <3>1. Waiting' = Waiting \cup {p} /\ p \notin Waiting
      BY <2>1, <2>2, <2>3, <2>5, <1>0, PoolAssumption DEF Waiting, TypeOK
    <3>2. QED  BY <2>1, <2>3, <3>1 DEF Abstract!Enter, Abstract!Grouped
  <2>6. QED  BY <2>4, <2>5
<1>3. ASSUME NEW p \in Participants, PollEnd(p)
      PROVE  Abstract!Abandon(p) \/ UNCHANGED <<Waiting, groups>>
  <2>1. UNCHANGED <<link, groups>> /\ (failed' = failed \/ failed' = failed \cup {p})
    BY <1>3 DEF PollEnd
  <2>2. p \in Waiting
    BY <1>3 DEF PollEnd, LockInv, PollingIsWaiting
  <2>3. CASE failed' = failed
    BY <2>1, <2>3, <1>1
  <2>4. CASE failed' = failed \cup {p}
    <3>1. Waiting' = Waiting \ {p}
      BY <2>1, <2>4 DEF Waiting
    <3>2. QED  BY <2>1, <2>2, <3>1 DEF Abstract!Abandon
  <2>5. QED  BY <2>1, <2>3, <2>4
<1>4. ASSUME NEW c \in Actors, CheckCommit(c)
      PROVE  Abstract!Form \/ UNCHANGED <<Waiting, groups>>
  BY <1>4, CommitForms
<1>5. ASSUME NEW p \in Participants,
             \/ Arrive(p) \/ TakePoolKey(p) \/ ArriveRollback(p) \/ PollBegin(p)
             \/ ArriverClaim(p) \/ ArriverGivesUp(p)
      PROVE  UNCHANGED <<link, failed, groups>>
  BY <1>5 DEF Arrive, TakePoolKey, ArriveRollback, PollBegin, ArriverClaim, ArriverGivesUp, Claim
<1>6. ASSUME NEW i \in Instances, PollerClaim(i)
      PROVE  UNCHANGED <<link, failed, groups>>
  BY <1>6 DEF PollerClaim, Claim
<1>7. ASSUME NEW c \in Actors,
             Load(c) \/ LockWaiters(c) \/ MissWaiters(c) \/ RecheckEmpty(c) \/ CheckAbort(c)
      PROVE  UNCHANGED <<link, failed, groups>>
  BY <1>7, Zenon DEF Load, LockWaiters, MissWaiters, RecheckEmpty, CheckAbort, FinishWithoutCommit
<1>8. CASE UNCHANGED vars
  BY <1>8, <1>1 DEF vars
<1>9. QED
  BY <1>1, <1>2, <1>3, <1>4, <1>5, <1>6, <1>7, <1>8
  DEF Next, CheckStep, Abstract!AbsNext

\* Whatever arrivals, checks, the poller, failures and rollbacks do to the
\* rows, an observer of who waits and who is grouped sees Grouping.
THEOREM PoolImplementsGrouping == Spec => GroupingSpec
<1>1. Init => Abstract!AbsInit
  BY DEF Init, Abstract!AbsInit, Waiting
<1>2. PoolInv /\ LockInv /\ [Next]_vars => [Abstract!AbsNext]_(Abstract!absVars)
  BY StepImplementsGrouping DEF Abstract!absVars
<1>3. QED
  BY PoolInvariance, <1>1, <1>2, PTL DEF Spec, GroupingSpec, Abstract!AbsSpec
=============================================================================
