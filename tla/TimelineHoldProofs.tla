------------------------- MODULE TimelineHoldProofs -------------------------
(***************************************************************************)
(* Proofs about TimelineHold for every timeline, number of requests and    *)
(* schedule.                                                               *)
(***************************************************************************)
EXTENDS TimelineHold, TLAPS

Records == [started : Nat, released : Nat, resumed : Nat,
            actual : Nat, credited : Nat, count : Nat]

Receipts == [secret : Nat, next : Nat]

Views == [at : Places, count : Nat, failed : BOOLEAN, credit : Nat,
          answers : [Places -> Nat], receipt : [Places -> Receipts],
          link : [Holds -> {"none", "waiting", "released"}],
          rec : [Holds -> Records], wakes : SUBSET Holds]

\* A record that counts its wait: in full, once it is resumed.
Good(r, t) ==
  /\ r \in Records
  /\ r.started <= t /\ r.actual <= t - r.started
  /\ r.credited = Least(r.actual, MaxWait)
  /\ r.resumed # Never =>
       r.resumed <= t /\ r.started <= r.resumed /\ r.actual = r.resumed - r.started

\* Where the participant stands, and the hold they stand at.
AtOK(v) ==
  v.at \in Holds =>
    v.link[v.at] # "none" /\ v.rec[v.at].started # Never /\ v.rec[v.at].resumed = Never

AnswersOK(v) ==
  \A i \in Places : v.answers[i] <= 1 /\ (i >= v.at => v.answers[i] = 0)

RecordsOK(v, t) ==
  \A h \in Holds : v.rec[h].started # Never =>
    Good(v.rec[h], t) /\ (h # v.at => v.rec[h].resumed # Never)

RowOK(v, t) == v \in Views /\ AtOK(v) /\ AnswersOK(v) /\ RecordsOK(v, t)

Replies == [is : {"none", "page", "busy", "rejected"}, at : Nat]

RequestRows ==
  [pc : {"idle", "enter", "read", "link", "lock", "locked", "done"},
   kind : {"none", "get", "resume", "submit"},
   uuid : Nat, secret : Nat, at : Nat, seen : Records,
   reply : Replies]

RequestOK(r) ==
  /\ r.pc \notin {"idle", "done"} => r.kind # "none"
  /\ r.kind = "resume" /\ r.pc # "done" => r.uuid \in Holds
  /\ r.kind = "submit" /\ r.pc # "done" => r.uuid \in Pages

\* What a request has read of a hold: the hold has been reached, and its
\* record was not resumed and has only grown since.
SeenOK(r) ==
  r.at \in Holds =>
    /\ r.at <= db.at
    /\ r.seen.started = db.rec[r.at].started /\ r.seen.started # Never
    /\ Good(r.seen, now) /\ r.seen.resumed = Never
    /\ r.seen.actual <= db.rec[r.at].actual

\* What a reply shows, the participant has reached.
Reached(x) == x <= db.at /\ (x \in Holds => db.rec[x].started # Never)

LocksOK ==
  /\ \A s \in Requests : req[s].pc = "locked" => lock = s
  /\ check \in {"idle", "locked"}
  /\ check = "locked" => lock = "check" /\ Waiting

HoldInv ==
  /\ now \in 0..MaxTime
  /\ RowOK(db, now)
  /\ req \in [Requests -> RequestRows]
  /\ \A s \in Requests :
       /\ RequestOK(req[s]) /\ SeenOK(req[s]) /\ Reached(req[s].reply.at)
       /\ req[s].pc = "link" => req[s].at \in Holds
  /\ LocksOK
-----------------------------------------------------------------------------
(* What the operators of a transaction do to its view.                     *)

LEMMA PlacesAndHolds ==
  /\ Len(Timeline) \in Nat /\ End = Len(Timeline) + 1 /\ Places = 1..End
  /\ Holds \subseteq 1..Len(Timeline) /\ Pages = 1..Len(Timeline) \ Holds
  /\ Never = MaxTime + 1 /\ MaxTime \in Nat /\ MaxWait \in Nat /\ MaxWait # 0
  /\ End \notin Holds /\ End \notin Pages /\ Places \subseteq Nat /\ Holds \subseteq Nat
  /\ NoRecord \in Records /\ NoRecord.started = Never /\ NoRecord.resumed = Never
  /\ NoReceipt \in Receipts
BY TimelineAssumption
   DEF End, Places, Holds, Pages, Never, NoRecord, NoReceipt, Records, Receipts

\* A view that differs only in what concerns hold h.
Touches(v, u, h) ==
  /\ u \in Views
  /\ u.at = v.at /\ u.count = v.count /\ u.answers = v.answers /\ u.receipt = v.receipt
  /\ \A k \in Holds \ {h} : u.rec[k] = v.rec[k] /\ u.link[k] = v.link[k]

\* The record of a hold that is waited at, and one that has been counted up
\* to t.
Unresumed(r, t) == Good(r, t) /\ r.started # Never /\ r.resumed = Never
Counted(r, old, t) ==
  /\ Good(r, t) /\ r.started = old.started /\ r.started # Never
  /\ r.actual = t - r.started

LEMMA AccountEffect ==
  ASSUME NEW v \in Views, NEW h \in Holds, NEW t \in 0..MaxTime, Unresumed(v.rec[h], t)
  PROVE  LET u == AccountUntil(v, h, t) IN
         /\ Touches(v, u, h) /\ u.failed = v.failed /\ u.link = v.link /\ u.wakes = v.wakes
         /\ Counted(u.rec[h], v.rec[h], t) /\ u.rec[h].resumed = Never
         /\ u.rec[h].released = v.rec[h].released
<1> DEFINE r == v.rec[h]
           elapsed == Least(t, r.resumed) - r.started
           due == Least(elapsed, MaxWait)
           u == AccountUntil(v, h, t)
<1>1. r \in Records /\ r.resumed = Never /\ r.started \in Nat /\ r.started <= t
      /\ r.actual \in Nat /\ r.credited \in Nat
      /\ r.actual <= t - r.started /\ r.credited = Least(r.actual, MaxWait)
  BY DEF Unresumed, Good, Views, Records
<1>2. elapsed = t - r.started /\ elapsed \in Nat
  BY <1>1, PlacesAndHolds DEF Least
<1>3. due \in Nat /\ due = Least(elapsed, MaxWait)
  BY <1>2, PlacesAndHolds DEF Least
<1>4. CASE elapsed <= r.actual
  <2>1. u = v
    BY <1>4 DEF AccountUntil
  <2>2. r.actual = t - r.started
    BY <1>1, <1>2, <1>4
  <2>. QED
    BY <2>1, <2>2 DEF Touches, Counted, Unresumed
<1>5. CASE ~(elapsed <= r.actual) /\ due <= r.credited
  <2> DEFINE n == [r EXCEPT !.actual = elapsed]
  <2>1. u = [v EXCEPT !.rec = [v.rec EXCEPT ![h] = n]]
    BY <1>5 DEF AccountUntil, Views
  <2>2. n \in Records /\ n.actual = elapsed /\ n.credited = r.credited /\ n.started = r.started
        /\ n.resumed = r.resumed /\ n.released = r.released
    BY <1>1, <1>2 DEF Records
  <2>3. r.credited = Least(elapsed, MaxWait)
    BY <1>1, <1>2, <1>5, PlacesAndHolds DEF Least
  <2>4. [v.rec EXCEPT ![h] = n] \in [Holds -> Records]
    BY <2>2 DEF Views
  <2>5. u \in Views
    BY <2>1, <2>4 DEF Views
  <2>6. u.rec = [v.rec EXCEPT ![h] = n] /\ u.rec[h] = n
    BY <2>1 DEF Views
  <2>7. Touches(v, u, h) /\ u.failed = v.failed /\ u.link = v.link /\ u.wakes = v.wakes
    BY <2>1, <2>5, <2>6 DEF Touches, Views
  <2>8. Counted(n, r, t)
    BY <2>2, <2>3, <1>1, <1>2 DEF Counted, Good, Unresumed
  <2>. QED
    BY <2>2, <2>6, <2>7, <2>8, <1>1
<1>6. CASE ~(elapsed <= r.actual) /\ ~(due <= r.credited)
  <2> DEFINE n == [r EXCEPT !.actual = elapsed, !.credited = due]
  <2>1. u = [v EXCEPT !.rec = [v.rec EXCEPT ![h] = n], !.credit = @ + (due - r.credited)]
    BY <1>6 DEF AccountUntil, Views
  <2>2. n \in Records /\ n.actual = elapsed /\ n.credited = due /\ n.started = r.started
        /\ n.resumed = r.resumed /\ n.released = r.released
    BY <1>1, <1>2, <1>3 DEF Records
  <2>4. [v.rec EXCEPT ![h] = n] \in [Holds -> Records]
    BY <2>2 DEF Views
  <2>9. v.credit + (due - r.credited) \in Nat
    BY <1>6, <1>1, <1>3 DEF Views
  <2>5. u \in Views
    BY <2>1, <2>4, <2>9 DEF Views
  <2>6. u.rec = [v.rec EXCEPT ![h] = n] /\ u.rec[h] = n
    BY <2>1 DEF Views
  <2>7. Touches(v, u, h) /\ u.failed = v.failed /\ u.link = v.link /\ u.wakes = v.wakes
    BY <2>1, <2>5, <2>6 DEF Touches, Views
  <2>8. Counted(n, r, t)
    BY <2>2, <1>3, <1>1, <1>2 DEF Counted, Good, Unresumed
  <2>. QED
    BY <2>2, <2>6, <2>7, <2>8, <1>1
<1>. QED
  BY <1>4, <1>5, <1>6

LEMMA MarkReleasedEffect ==
  ASSUME NEW v \in Views, NEW h \in Holds, NEW t \in 0..MaxTime, Unresumed(v.rec[h], t)
  PROVE  LET u == MarkReleased(v, h, t) IN
         /\ Touches(v, u, h) /\ u.failed = v.failed /\ u.link = v.link /\ u.wakes = v.wakes
         /\ Counted(u.rec[h], v.rec[h], t) /\ u.rec[h].resumed = Never
<1> DEFINE r == v.rec[h]
           n == [r EXCEPT !.released = Least(@, t)]
           w == [v EXCEPT !.rec = [v.rec EXCEPT ![h] = n]]
<1>1. r \in Records
  BY DEF Views
<1>2. n \in Records /\ n.started = r.started /\ n.resumed = r.resumed
      /\ n.actual = r.actual /\ n.credited = r.credited
  BY <1>1 DEF Records, Least
<1>3. MarkReleased(v, h, t) = AccountUntil(w, h, t)
  BY DEF MarkReleased, Views
<1>4. w \in Views /\ w.rec = [v.rec EXCEPT ![h] = n] /\ w.rec[h] = n
  BY <1>2 DEF Views
<1>5. Touches(v, w, h) /\ w.failed = v.failed /\ w.link = v.link /\ w.wakes = v.wakes
  BY <1>4 DEF Touches, Views
<1>6. Unresumed(w.rec[h], t)
  BY <1>2, <1>4 DEF Unresumed, Good
<1>w. w \in Views
  BY <1>4
<1> HIDE DEF w
<1>7. LET u == AccountUntil(w, h, t) IN
      /\ Touches(w, u, h) /\ u.failed = w.failed /\ u.link = w.link /\ u.wakes = w.wakes
      /\ Counted(u.rec[h], w.rec[h], t) /\ u.rec[h].resumed = Never
  BY <1>w, <1>6, AccountEffect
<1>8. Touches(v, AccountUntil(w, h, t), h)
  BY <1>5, <1>7 DEF Touches
<1>. QED
  BY <1>2, <1>3, <1>4, <1>5, <1>7, <1>8 DEF Counted

LEMMA SettleEffect ==
  ASSUME NEW v \in Views, NEW h \in Holds, NEW t \in 0..MaxTime, Unresumed(v.rec[h], t)
  PROVE  LET u == Settle(v, h, t) IN
         /\ Touches(v, u, h) /\ u.failed = v.failed /\ u.link = v.link
         /\ Counted(u.rec[h], v.rec[h], t) /\ u.rec[h].resumed = t
<1> DEFINE w == MarkReleased(v, h, t)
           n == [w.rec[h] EXCEPT !.resumed = t]
           u == [w EXCEPT !.rec = [w.rec EXCEPT ![h] = n]]
<1>1. /\ Touches(v, w, h) /\ w.failed = v.failed /\ w.link = v.link /\ w.wakes = v.wakes
      /\ Counted(w.rec[h], v.rec[h], t) /\ w.rec[h].resumed = Never
  BY MarkReleasedEffect
<1>2. w \in Views /\ w.rec[h] \in Records
  BY <1>1 DEF Touches, Views
<1>3. Settle(v, h, t) = u
  BY <1>2 DEF Settle, Unresumed, Views
<1>4. n \in Records /\ n.started = w.rec[h].started /\ n.resumed = t
      /\ n.actual = w.rec[h].actual /\ n.credited = w.rec[h].credited
  BY <1>2 DEF Records
<1>5. u \in Views /\ u.rec = [w.rec EXCEPT ![h] = n] /\ u.rec[h] = n
  BY <1>2, <1>4 DEF Views
<1>6. Touches(v, u, h) /\ u.failed = v.failed /\ u.link = v.link
  BY <1>1, <1>2, <1>5 DEF Touches, Views
<1>7. Counted(n, v.rec[h], t)
  BY <1>1, <1>4 DEF Counted, Good
<1>. QED
  BY <1>3, <1>4, <1>5, <1>6, <1>7

LEMMA WakeEffect ==
  ASSUME NEW v \in Views, NEW h
  PROVE  LET u == Wake(v, h) IN
         u \in Views /\ u = [v EXCEPT !.wakes = u.wakes]
<1>1. CASE h \in Holds /\ v.rec[h].started # Never /\ v.rec[h].resumed = Never
  <2>1. Wake(v, h) = [v EXCEPT !.wakes = v.wakes \cup {h}]
    BY <1>1 DEF Wake
  <2>2. v.wakes \cup {h} \subseteq Holds
    BY <1>1 DEF Views
  <2>3. Wake(v, h) \in Views
    BY <2>1, <2>2 DEF Views
  <2>4. Wake(v, h).wakes = v.wakes \cup {h}
    BY <2>1 DEF Views
  <2>. QED
    BY <2>1, <2>3, <2>4
<1>2. CASE ~(h \in Holds /\ v.rec[h].started # Never /\ v.rec[h].resumed = Never)
  <2>1. Wake(v, h) = v
    BY <1>2 DEF Wake
  <2>. QED
    BY <2>1 DEF Views
<1>. QED
  BY <1>1, <1>2

\* Releasing the link of a hold that is waited at.
LEMMA ReleaseEffect ==
  ASSUME NEW v \in Views, NEW h \in Holds, now \in 0..MaxTime, Unresumed(v.rec[h], now)
  PROVE  LET u == ReleaseLink(v, h) IN
         /\ Touches(v, u, h) /\ u.failed = v.failed
         /\ v.link[h] # "none" => u.link[h] = "released"
         /\ v.link[h] = "none" => u.link[h] = "none"
         /\ u.rec[h] = v.rec[h] \/ Counted(u.rec[h], v.rec[h], now)
         /\ Unresumed(u.rec[h], now) /\ u.rec[h].started = v.rec[h].started
<1>1. CASE v.link[h] # "waiting"
  <2>1. ReleaseLink(v, h) = v
    BY <1>1 DEF ReleaseLink
  <2>. QED
    BY <1>1, <2>1 DEF Touches, Views
<1>2. CASE v.link[h] = "waiting"
  <2> DEFINE w == [v EXCEPT !.link = [v.link EXCEPT ![h] = "released"]]
             m == MarkReleased(w, h, now)
             u == Wake(m, h)
  <2>1. w \in Views /\ w.link[h] = "released" /\ w.rec = v.rec
        /\ Touches(v, w, h) /\ w.failed = v.failed
    BY DEF Views, Touches
  <2>2. /\ Touches(w, m, h) /\ m.failed = w.failed /\ m.link = w.link
        /\ Counted(m.rec[h], w.rec[h], now) /\ m.rec[h].resumed = Never
    BY <2>1, MarkReleasedEffect
  <2>3. m \in Views
    BY <2>2 DEF Touches
  <2>4. u \in Views /\ u = [m EXCEPT !.wakes = u.wakes]
    BY <2>3, WakeEffect
  <2>5. u.at = m.at /\ u.count = m.count /\ u.answers = m.answers /\ u.receipt = m.receipt
        /\ u.rec = m.rec /\ u.link = m.link /\ u.failed = m.failed
    BY <2>3, <2>4 DEF Views
  <2>6. ReleaseLink(v, h) = u
    BY <1>2 DEF ReleaseLink, Views
  <2>7. Touches(v, u, h)
    BY <2>1, <2>2, <2>4, <2>5 DEF Touches
  <2>8. Counted(u.rec[h], v.rec[h], now) /\ Unresumed(u.rec[h], now)
    BY <2>1, <2>2, <2>5 DEF Counted, Unresumed
  <2>. QED
    BY <1>2, <2>1, <2>2, <2>5, <2>6, <2>7, <2>8 DEF Counted
<1>. QED
  BY <1>1, <1>2

LEMMA FailEffect ==
  ASSUME NEW v \in Views
  PROVE  LET u == Fail(v) IN
         /\ u \in Views /\ u.failed
         /\ u.at = v.at /\ u.count = v.count /\ u.answers = v.answers
         /\ u.receipt = v.receipt /\ u.rec = v.rec /\ u.link = v.link
<1>1. CASE v.failed
  BY <1>1 DEF Fail
<1>2. CASE ~v.failed
  <2> DEFINE w == [v EXCEPT !.failed = TRUE]
  <2>1. w \in Views /\ w.failed /\ w.at = v.at /\ w.count = v.count /\ w.answers = v.answers
        /\ w.receipt = v.receipt /\ w.rec = v.rec /\ w.link = v.link
    BY DEF Views
  <2>2. Fail(v) = Wake(w, v.at)
    BY <1>2 DEF Fail
  <2> DEFINE u == Wake(w, v.at)
  <2> HIDE DEF w
  <2>3. u \in Views /\ u = [w EXCEPT !.wakes = u.wakes]
    BY <2>1, WakeEffect
  <2>4. u.failed = w.failed /\ u.at = w.at /\ u.count = w.count /\ u.answers = w.answers
        /\ u.receipt = w.receipt /\ u.rec = w.rec /\ u.link = w.link
    BY <2>1, <2>3 DEF Views
  <2>. QED
    BY <2>1, <2>2, <2>3, <2>4
<1>. QED
  BY <1>1, <1>2

\* A ready hold that is prepared may be left.
LEMMA PrepareEffect ==
  ASSUME NEW v \in Views, NEW h \in Holds, now \in 0..MaxTime, Unresumed(v.rec[h], now),
         v.link[h] # "none"
  PROVE  LET u == Prepare(v, h) IN
         /\ Touches(v, u, h) /\ Unresumed(u.rec[h], now) /\ u.rec[h].started = v.rec[h].started
         /\ Ready(v, h) => u.failed \/ u.link[h] = "released"
         /\ u.link[h] # "none"
<1> DEFINE w == ReleaseLink(v, h)
<1>1. /\ Touches(v, w, h) /\ w.failed = v.failed /\ w.link[h] = "released"
      /\ Unresumed(w.rec[h], now) /\ w.rec[h].started = v.rec[h].started
  BY ReleaseEffect
<1>2. CASE v.failed
  BY <1>1, <1>2 DEF Prepare
<1>3. CASE ~v.failed /\ TimedOut(v.rec[h])
  <2>1. CASE MaxWaitFails
    <3>1. Prepare(v, h) = Fail(w)
      BY <1>3, <2>1 DEF Prepare, ApplyTimeout
    <3>2. w \in Views
      BY <1>1 DEF Touches
    <3>3. LET u == Fail(w) IN
          /\ u \in Views /\ u.failed
          /\ u.at = w.at /\ u.count = w.count /\ u.answers = w.answers
          /\ u.receipt = w.receipt /\ u.rec = w.rec /\ u.link = w.link
      BY <3>2, FailEffect
    <3>. QED
      BY <1>1, <3>1, <3>3 DEF Touches
  <2>2. CASE ~MaxWaitFails
    BY <1>1, <1>3, <2>2 DEF Prepare, ApplyTimeout
  <2>. QED
    BY <2>1, <2>2
<1>4. CASE ~v.failed /\ ~TimedOut(v.rec[h])
  <2>1. Prepare(v, h) = v
    BY <1>4 DEF Prepare
  <2>2. Ready(v, h) => v.link[h] = "released"
    BY <1>4 DEF Ready, Views
  <2>. QED
    BY <2>1, <2>2 DEF Touches, Views
<1>. QED
  BY <1>2, <1>3, <1>4
-----------------------------------------------------------------------------
(* Moving the cursor.                                                      *)

Settled(r, old) == Counted(r, old, now) /\ r.resumed = now

\* The hold the cursor has come to has just been consumed.
Fresh(u) == u.at \in Holds => u.link[u.at] = "waiting" /\ Unresumed(u.rec[u.at], now)

LEMMA AdvanceEffect ==
  ASSUME NEW v \in Views, now \in 0..MaxTime, v.at # End
  PROVE  LET u == Advance(v) IN
         /\ u \in Views /\ u.at > v.at /\ (v.failed => u.at = End)
         /\ u.failed = v.failed /\ u.answers = v.answers /\ u.receipt = v.receipt
         /\ \A k \in Holds \ {u.at} : u.rec[k] = v.rec[k] /\ u.link[k] = v.link[k]
         /\ Fresh(u)
<1> DEFINE next == IF v.failed THEN End ELSE v.at + 1
           w == [v EXCEPT !.at = next, !.count = v.count + 1]
           n == [NoRecord EXCEPT !.started = now, !.count = w.count]
           x == [w EXCEPT !.link = [w.link EXCEPT ![next] = "waiting"],
                          !.rec = [w.rec EXCEPT ![next] = n]]
<1>1. v.at \in 1..End /\ End \in Nat /\ Places = 1..End /\ v.count \in Nat
  BY PlacesAndHolds DEF Views
<1>2. next \in Places /\ next > v.at /\ (v.failed => next = End)
  BY <1>1
<1>a. v.count + 1 \in Nat
  BY <1>1
<1> HIDE DEF next
<1>3. w \in Views /\ w.at = next /\ w.count = v.count + 1 /\ w.failed = v.failed
      /\ w.answers = v.answers /\ w.receipt = v.receipt /\ w.rec = v.rec /\ w.link = v.link
  BY <1>a, <1>2 DEF Views
<1> HIDE DEF w
<1>4. CASE next \notin Holds
  <2>1. Advance(v) = w
    BY <1>4 DEF Advance, next, w
  <2>. QED
    BY <1>2, <1>3, <1>4, <2>1 DEF Fresh
<1>5. CASE next \in Holds
  <2>1. Advance(v) = x
    BY <1>5, <1>3 DEF Advance, next, w, Views
  <2>a. w.count \in Nat /\ now \in Nat
    BY <1>3, PlacesAndHolds DEF Views
  <2>2. n \in Records /\ n.started = now /\ n.resumed = Never /\ n.actual = 0
        /\ n.credited = 0
    BY <2>a, PlacesAndHolds DEF NoRecord, Records
  <2>3. Unresumed(n, now)
    BY <2>2, PlacesAndHolds DEF Unresumed, Good, Least
  <2>4. x \in Views /\ x.at = next /\ x.failed = w.failed /\ x.answers = w.answers
        /\ x.receipt = w.receipt /\ x.link = [w.link EXCEPT ![next] = "waiting"]
        /\ x.rec = [w.rec EXCEPT ![next] = n]
    <3> HIDE DEF n
    <3>. QED BY <1>3, <2>2 DEF Views
  <2>5. x.link[next] = "waiting" /\ x.rec[next] = n
        /\ \A k \in Holds \ {next} : x.rec[k] = w.rec[k] /\ x.link[k] = w.link[k]
    <3> HIDE DEF n, x
    <3>. QED BY <1>3, <1>5, <2>4 DEF Views
  <2> HIDE DEF n, x
  <2>. QED
    BY <1>2, <1>3, <2>1, <2>3, <2>4, <2>5 DEF Fresh
<1>. QED
  BY <1>4, <1>5

\* What leaving the hold at the cursor does.
Left(v, w) ==
  /\ w \in Views /\ v.at \in Holds /\ w.at > v.at /\ w.answers = v.answers
  /\ w.failed \/ w.link[v.at] = "released"
  /\ Settled(w.rec[v.at], v.rec[v.at])
  /\ Fresh(w)
  /\ \A k \in Holds \ {v.at, w.at} : w.rec[k] = v.rec[k]

Standing(v) == v.at \in Holds => Unresumed(v.rec[v.at], now) /\ v.link[v.at] # "none"

LEMMA LeaveEffect ==
  ASSUME NEW v \in Views, now \in 0..MaxTime, v.at \in Holds, Standing(v), Ready(v, v.at)
  PROVE  Left(v, LeaveHold(v))
<1> DEFINE h == v.at
           p == Prepare(v, h)
           q == Settle(p, h, now)
           w == Advance(q)
<1>1. /\ Touches(v, p, h) /\ Unresumed(p.rec[h], now) /\ p.rec[h].started = v.rec[h].started
      /\ p.failed \/ p.link[h] = "released"
  BY PrepareEffect DEF Standing
<1>2. p \in Views /\ p.at = h /\ p.answers = v.answers
      /\ \A k \in Holds \ {h} : p.rec[k] = v.rec[k]
  BY <1>1 DEF Touches
<1>3. /\ Touches(p, q, h) /\ q.failed = p.failed /\ q.link = p.link
      /\ Counted(q.rec[h], p.rec[h], now) /\ q.rec[h].resumed = now
  <2> HIDE DEF p
  <2>. QED BY <1>1, <1>2, SettleEffect
<1>4. q \in Views /\ q.at = h /\ q.answers = v.answers
      /\ \A k \in Holds \ {h} : q.rec[k] = v.rec[k]
  <2> HIDE DEF p, q
  <2>. QED BY <1>2, <1>3 DEF Touches
<1>5. h # End
  BY PlacesAndHolds
<1>6. /\ w \in Views /\ w.at > q.at /\ w.failed = q.failed /\ w.answers = q.answers
      /\ \A k \in Holds \ {w.at} : w.rec[k] = q.rec[k] /\ w.link[k] = q.link[k]
      /\ Fresh(w)
  <2> HIDE DEF p, q
  <2>. QED BY <1>4, <1>5, AdvanceEffect
<1>7. LeaveHold(v) = w
  BY DEF LeaveHold
<1>8. w.at \in Nat /\ h \in Nat /\ h # w.at
  <2> HIDE DEF p, q, w
  <2>. QED BY <1>4, <1>6, PlacesAndHolds DEF Views
<1>9. w.rec[h] = q.rec[h] /\ w.link[h] = q.link[h]
  <2> HIDE DEF p, q, w
  <2>. QED BY <1>6, <1>8
<1>10. Settled(w.rec[h], v.rec[h])
  <2> HIDE DEF p, q, w
  <2>. QED BY <1>1, <1>3, <1>9 DEF Settled, Counted
<1> HIDE DEF p, q, w
<1>. QED
  BY <1>1, <1>3, <1>4, <1>6, <1>7, <1>8, <1>9, <1>10 DEF Left

LEMMA SkipEffect ==
  ASSUME NEW v \in Views, now \in 0..MaxTime, Standing(v)
  PROVE  AdvancePastReadyHolds(v) = v \/ Left(v, AdvancePastReadyHolds(v))
BY LeaveEffect DEF AdvancePastReadyHolds

\* Settling the hold a catch-up comes from.
StaleSettled(v, x) ==
  /\ x \in Views /\ x.at = v.at /\ x.failed = v.failed /\ x.link = v.link
  /\ x.answers = v.answers
  /\ \A k \in Holds :
       x.rec[k] = v.rec[k] \/ (k # v.at /\ Settled(x.rec[k], v.rec[k]))

LEMMA StaleEffect ==
  ASSUME NEW v \in Views, now \in 0..MaxTime, NEW u, u # v.at \/ v.at \notin Holds,
         \A k \in Holds : v.rec[k].started # Never => Good(v.rec[k], now)
  PROVE  StaleSettled(v, SettleStale(v, u))
<1>1. CASE CatchUp(v, u) /\ v.rec[u].resumed = Never
  <2>1. u \in Holds /\ Unresumed(v.rec[u], now)
    BY <1>1 DEF CatchUp, Unresumed
  <2> DEFINE x == Settle(v, u, now)
  <2>2. /\ Touches(v, x, u) /\ x.failed = v.failed /\ x.link = v.link
        /\ Counted(x.rec[u], v.rec[u], now) /\ x.rec[u].resumed = now
    BY <2>1, SettleEffect
  <2>3. SettleStale(v, u) = x
    BY <1>1 DEF SettleStale
  <2> HIDE DEF x
  <2>. QED
    BY <2>1, <2>2, <2>3 DEF StaleSettled, Touches, Settled
<1>2. CASE ~(CatchUp(v, u) /\ v.rec[u].resumed = Never)
  <2>1. SettleStale(v, u) = v
    BY <1>2 DEF SettleStale, Settle
  <2>. QED
    BY <2>1 DEF StaleSettled
<1>. QED
  BY <1>1, <1>2
-----------------------------------------------------------------------------
(* One transaction, from its view v to its view w.                         *)

Recorded(v, w) ==
  \A k \in Holds :
    \/ k = w.at /\ (w.at # v.at \/ w.rec[k] = v.rec[k] \/ Counted(w.rec[k], v.rec[k], now))
    \/ k # w.at /\ k # v.at /\ w.rec[k] = v.rec[k]
    \/ k # w.at /\ Settled(w.rec[k], v.rec[k])

Transaction(v, w) ==
  /\ w \in Views /\ w.at >= v.at
  /\ v.at \in Holds /\ w.at # v.at => w.failed \/ w.link[v.at] = "released"
  /\ Standing(w) /\ Recorded(v, w)

LEMMA SameIsTransaction ==
  ASSUME NEW v \in Views, Standing(v)
  PROVE  Transaction(v, v)
BY PlacesAndHolds DEF Transaction, Recorded, Views

LEMMA LeftIsTransaction ==
  ASSUME NEW v \in Views, NEW x, StaleSettled(v, x), NEW w, Left(x, w)
  PROVE  Transaction(v, w) /\ w.answers = v.answers /\ w.at >= v.at
<1>1. w.at \in Nat /\ v.at \in Nat /\ x.at = v.at /\ w.at > v.at
  BY PlacesAndHolds DEF Left, StaleSettled, Views
<1>2. Standing(w)
  BY DEF Left, Fresh, Standing
<1>3. ASSUME NEW k \in Holds, k # w.at
      PROVE  Settled(w.rec[k], v.rec[k]) \/ (k # v.at /\ w.rec[k] = v.rec[k])
  <2>1. CASE k = v.at
    BY <1>1, <2>1 DEF Left, StaleSettled, Settled, Counted
  <2>2. CASE k # v.at
    BY <1>1, <1>3, <2>2 DEF Left, StaleSettled
  <2>. QED
    BY <2>1, <2>2
<1>4. Recorded(v, w)
  BY <1>1, <1>3 DEF Recorded
<1>. QED
  BY <1>1, <1>2, <1>4 DEF Transaction, Left, StaleSettled

LEMMA SkipIsTransaction ==
  ASSUME NEW v \in Views, now \in 0..MaxTime, Standing(v), NEW x, StaleSettled(v, x)
  PROVE  LET w == AdvancePastReadyHolds(x) IN
         Transaction(v, w) /\ w.answers = v.answers /\ w.at >= v.at
<1>1. x \in Views /\ Standing(x) /\ x.at = v.at /\ x.answers = v.answers
  BY DEF StaleSettled, Standing
<1>2. AdvancePastReadyHolds(x) = x \/ Left(x, AdvancePastReadyHolds(x))
  BY <1>1, SkipEffect
<1>3. Transaction(v, x)
  BY <1>1, PlacesAndHolds DEF Transaction, Recorded, StaleSettled, Views
<1>4. x.at >= v.at
  BY <1>1, PlacesAndHolds DEF Views
<1>. QED
  BY <1>1, <1>2, <1>3, <1>4, LeftIsTransaction

LEMMA AdvanceIsTransaction ==
  ASSUME NEW v \in Views, now \in 0..MaxTime, v.at \notin Holds, v.at # End,
         NEW x, StaleSettled(v, x)
  PROVE  LET w == Advance(x) IN
         Transaction(v, w) /\ w.answers = v.answers /\ w.at > v.at
<1> DEFINE w == Advance(x)
<1>1. /\ w \in Views /\ w.at > x.at /\ w.answers = x.answers /\ Fresh(w)
      /\ \A k \in Holds \ {w.at} : w.rec[k] = x.rec[k] /\ w.link[k] = x.link[k]
  BY AdvanceEffect DEF StaleSettled
<1> HIDE DEF w
<1>2. w.at \in Nat /\ v.at \in Nat /\ x.at = v.at /\ w.at # v.at
  BY <1>1, PlacesAndHolds DEF Views, StaleSettled
<1>3. Recorded(v, w)
  BY <1>1, <1>2 DEF Recorded, StaleSettled
<1>4. Standing(w)
  BY <1>1 DEF Fresh, Standing
<1>. QED
  BY <1>1, <1>2, <1>3, <1>4 DEF Transaction, StaleSettled, w

LEMMA AccountIsTransaction ==
  ASSUME NEW v \in Views, now \in 0..MaxTime, v.at \in Holds, Standing(v)
  PROVE  LET w == AccountUntil(v, v.at, now) IN
         Transaction(v, w) /\ w.answers = v.answers /\ w.at >= v.at
<1> DEFINE w == AccountUntil(v, v.at, now)
<1>1. /\ Touches(v, w, v.at) /\ w.link = v.link
      /\ Counted(w.rec[v.at], v.rec[v.at], now) /\ w.rec[v.at].resumed = Never
  BY AccountEffect DEF Standing
<1> HIDE DEF w
<1>2. w \in Views /\ w.at = v.at /\ w.answers = v.answers /\ w.at >= v.at
  BY <1>1, PlacesAndHolds DEF Touches, Views
<1>3. Standing(w)
  BY <1>1, <1>2 DEF Standing, Counted, Unresumed
<1>4. Recorded(v, w)
  BY <1>1, <1>2 DEF Touches, Recorded
<1>. QED
  BY <1>2, <1>3, <1>4 DEF Transaction, w
-----------------------------------------------------------------------------
(* A request's answer.                                                     *)

LEMMA SessionFacts ==
  ASSUME HoldInv, NEW s \in Requests
  PROVE  LET v == Session(s) IN
         /\ v \in Views /\ v.at = db.at /\ v.failed = db.failed /\ v.link = db.link
         /\ v.answers = db.answers
         /\ \A k \in Holds : v.rec[k] = IF k = req[s].at THEN req[s].seen ELSE db.rec[k]
         /\ Standing(v) /\ AnswersOK(v)
         /\ \A k \in Holds : v.rec[k].started # Never => Good(v.rec[k], now)
<1> DEFINE v == Session(s)
           h == req[s].at
<1>1. db \in Views /\ AtOK(db) /\ AnswersOK(db) /\ RecordsOK(db, now)
      /\ RequestOK(req[s]) /\ SeenOK(req[s])
  BY DEF HoldInv, RowOK
<1>2. req[s].seen \in Records
  BY DEF HoldInv, RequestRows
<1>3. /\ v \in Views /\ v.at = db.at /\ v.failed = db.failed /\ v.link = db.link
      /\ v.answers = db.answers
      /\ \A k \in Holds : v.rec[k] = IF k = h THEN req[s].seen ELSE db.rec[k]
  BY <1>1, <1>2 DEF Session, Views
<1> HIDE DEF v
<1>4. \A k \in Holds : v.rec[k].started # Never => Good(v.rec[k], now)
  BY <1>1, <1>3 DEF RecordsOK, SeenOK
<1>5. v.at \in Holds => v.rec[v.at].started # Never /\ v.rec[v.at].resumed = Never
  BY <1>1, <1>3 DEF AtOK, SeenOK
<1>6. Standing(v)
  BY <1>1, <1>3, <1>4, <1>5 DEF Standing, Unresumed, AtOK
<1>7. AnswersOK(v)
  BY <1>1, <1>3 DEF AnswersOK
<1>. QED
  BY <1>3, <1>4, <1>6, <1>7 DEF v

LEMMA AnswersStay ==
  ASSUME NEW v \in Views, AnswersOK(v), NEW w \in Views, w.answers = v.answers, w.at >= v.at
  PROVE  AnswersOK(w)
BY PlacesAndHolds DEF AnswersOK, Views

\* The page that is answered is the one the cursor leaves.
LEMMA AcceptEffect ==
  ASSUME NEW v \in Views, now \in 0..MaxTime, NEW s, req[s].uuid = v.at, req[s].secret \in Nat,
         v.at \in Pages, AnswersOK(v)
  PROVE  LET w == Accept(v, s) IN Transaction(v, w) /\ AnswersOK(w)
<1> DEFINE a == [v EXCEPT !.answers = [v.answers EXCEPT ![v.at] = v.answers[v.at] + 1]]
           w == Advance(a)
           c == [secret |-> req[s].secret, next |-> w.at]
           x == [w EXCEPT !.receipt = [w.receipt EXCEPT ![v.at] = c]]
<1>1. v.at \in Places /\ v.at # End /\ v.at \notin Holds
  BY PlacesAndHolds DEF Views
<1>2. v.answers[v.at] = 0 /\ v.answers \in [Places -> Nat] /\ v.at \in Nat
  BY <1>1, PlacesAndHolds DEF AnswersOK, Views
<1>3. /\ a \in Views /\ a.at = v.at /\ a.failed = v.failed /\ a.link = v.link /\ a.rec = v.rec
      /\ \A i \in Places : a.answers[i] = IF i = v.at THEN 1 ELSE v.answers[i]
  BY <1>1, <1>2 DEF Views
<1> HIDE DEF a
<1>4. Transaction(a, w) /\ w.answers = a.answers /\ w.at > a.at
  BY <1>1, <1>3, AdvanceIsTransaction DEF StaleSettled
<1> HIDE DEF w
<1>5. w \in Views /\ w.at \in Nat /\ w.at > v.at
  BY <1>3, <1>4, PlacesAndHolds DEF Transaction, Views
<1>6. c \in Receipts
  BY <1>5 DEF Receipts
<1>7. /\ x \in Views /\ x.at = w.at /\ x.failed = w.failed /\ x.answers = w.answers
      /\ x.link = w.link /\ x.rec = w.rec
  <2> HIDE DEF c
  <2>. QED BY <1>1, <1>5, <1>6 DEF Views
<1>8. Accept(v, s) = x
  BY DEF Accept, a, w, Views
<1> HIDE DEF x
<1>9. Transaction(v, x)
  BY <1>1, <1>3, <1>4, <1>7 DEF Transaction, Recorded, Standing
<1>10. AnswersOK(x)
  <2> SUFFICES ASSUME NEW i \in Places
               PROVE  x.answers[i] <= 1 /\ (i >= x.at => x.answers[i] = 0)
    BY DEF AnswersOK
  <2>1. v.answers[i] \in Nat /\ v.answers[i] <= 1 /\ (i >= v.at => v.answers[i] = 0) /\ i \in Nat
    BY PlacesAndHolds DEF AnswersOK, Views
  <2>. QED
    BY <1>3, <1>4, <1>5, <1>7, <2>1, <1>2
<1>. QED
  BY <1>8, <1>9, <1>10

LEMMA CurrentEffect ==
  ASSUME HoldInv, NEW s \in Requests, req[s].pc = "locked", req[s].kind # "get",
         NEW v, v = Session(s), req[s].uuid = v.at
  PROVE  LET w == RespondCurrent(s, v, v.at) IN Transaction(v, w) /\ AnswersOK(w)
<1>1. /\ v \in Views /\ Standing(v) /\ AnswersOK(v) /\ v.at \in Places
      /\ now \in 0..MaxTime
  BY SessionFacts DEF Views, HoldInv
<1>2. req[s].secret \in Nat /\ (v.at \notin Holds => v.at \in Pages)
  BY DEF HoldInv, RequestOK, RequestRows
<1>3. CASE v.at \notin Holds
  BY <1>1, <1>2, <1>3, AcceptEffect DEF RespondCurrent
<1>4. CASE v.at \in Holds /\ Ready(v, v.at)
  <2>1. Left(v, LeaveHold(v))
    BY <1>1, <1>4, LeaveEffect
  <2>2. StaleSettled(v, v)
    BY <1>1 DEF StaleSettled
  <2>3. Transaction(v, LeaveHold(v)) /\ LeaveHold(v).answers = v.answers
        /\ LeaveHold(v).at >= v.at
    BY <1>1, <2>1, <2>2, LeftIsTransaction
  <2>4. LeaveHold(v) \in Views
    BY <2>3 DEF Transaction
  <2>5. AnswersOK(LeaveHold(v))
    BY <1>1, <2>3, <2>4, AnswersStay
  <2>. QED
    BY <1>4, <2>3, <2>5 DEF RespondCurrent
<1>5. CASE v.at \in Holds /\ ~Ready(v, v.at)
  <2> DEFINE w == AccountUntil(v, v.at, now)
  <2>1. Transaction(v, w) /\ w.answers = v.answers /\ w.at >= v.at
    BY <1>1, <1>5, AccountIsTransaction
  <2> HIDE DEF w
  <2>2. AnswersOK(w)
    BY <1>1, <2>1, AnswersStay DEF Transaction
  <2>. QED
    BY <1>5, <2>1, <2>2 DEF RespondCurrent, w
<1>. QED
  BY <1>3, <1>4, <1>5

LEMMA RespondEffect ==
  ASSUME HoldInv, NEW s \in Requests, req[s].pc = "locked"
  PROVE  LET w == Respond(s, Session(s)).v IN
         Transaction(Session(s), w) /\ AnswersOK(w)
<1> DEFINE v == Session(s)
           u == req[s].uuid
           x == SettleStale(v, u)
<1>1. /\ v \in Views /\ Standing(v) /\ AnswersOK(v) /\ now \in 0..MaxTime
      /\ \A k \in Holds : v.rec[k].started # Never => Good(v.rec[k], now)
  BY SessionFacts DEF HoldInv
<1>2. Transaction(v, v) /\ StaleSettled(v, v)
  BY <1>1, SameIsTransaction DEF StaleSettled
<1>. SUFFICES ASSUME NEW w, w = Respond(s, v).v
              PROVE  Transaction(v, w) /\ AnswersOK(w)
  OBVIOUS
<1>3. ASSUME Transaction(v, w), w.answers = v.answers
      PROVE  AnswersOK(w)
  <2> HIDE DEF v
  <2>. QED BY <1>1, <1>3, AnswersStay DEF Transaction
<1>4. CASE req[s].kind = "get"
  <2>1. w = AdvancePastReadyHolds(v)
    BY <1>4 DEF Respond
  <2> HIDE DEF v
  <2>2. Transaction(v, w) /\ w.answers = v.answers
    BY <1>1, <1>2, <2>1, SkipIsTransaction
  <2>. QED
    BY <1>3, <2>2
<1>5. CASE req[s].kind # "get"
  <2>1. w = RespondPost(s, v, u).v
    BY <1>5 DEF Respond
  <2>2. \/ w = v
        \/ Redirected(v) /\ w = Advance(x)
        \/ u # v.at /\ w = AdvancePastReadyHolds(x)
        \/ u = v.at /\ w = RespondCurrent(s, v, u)
    <3> HIDE DEF v, x
    <3>. QED BY <2>1 DEF RespondPost, x
  <2>3. CASE w = v
    <3> HIDE DEF v
    <3>. QED BY <1>1, <1>2, <2>3
  <2>4. CASE Redirected(v) /\ w = Advance(x)
    <3> HIDE DEF v
    <3>1. v.at \notin Holds /\ v.at # End
      BY <2>4 DEF Redirected
    <3>2. StaleSettled(v, x)
      BY <1>1, <3>1, StaleEffect
    <3> HIDE DEF x
    <3>3. Transaction(v, w) /\ w.answers = v.answers
      BY <1>1, <2>4, <3>1, <3>2, AdvanceIsTransaction
    <3>. QED
      BY <1>3, <3>3
  <2>5. CASE u # v.at /\ w = AdvancePastReadyHolds(x)
    <3> HIDE DEF v
    <3>2. StaleSettled(v, x)
      BY <1>1, <2>5, StaleEffect
    <3> HIDE DEF x
    <3>3. Transaction(v, w) /\ w.answers = v.answers
      BY <1>1, <2>5, <3>2, SkipIsTransaction
    <3>. QED
      BY <1>3, <3>3
  <2>6. CASE u = v.at /\ w = RespondCurrent(s, v, u)
    BY <1>5, <2>6, CurrentEffect
  <2>. QED
    BY <2>2, <2>3, <2>4, <2>5, <2>6
<1>. QED
  BY <1>4, <1>5
-----------------------------------------------------------------------------
(* Writing what a request has changed, over what others committed.         *)

LEMMA ChangedFields ==
  ASSUME NEW a \in Records, NEW b \in Records, NEW c \in Records
  PROVE  LET d == Changed(a, b, c) IN
         /\ d \in Records
         /\ d.started = IF b.started = a.started THEN c.started ELSE b.started
         /\ d.resumed = IF b.resumed = a.resumed THEN c.resumed ELSE b.resumed
         /\ d.actual = IF b.actual = a.actual THEN c.actual ELSE b.actual
         /\ d.credited = IF b.credited = a.credited THEN c.credited ELSE b.credited
         /\ b = a => d = c
BY DEF Changed, Records

\* A request that has counted a hold it read before: what it leaves is right,
\* although it may write over a record that has been counted meanwhile.
LEMMA MergeCounted ==
  ASSUME NEW seen \in Records, NEW mine \in Records, NEW theirs \in Records,
         now \in 0..MaxTime,
         Unresumed(seen, now), Good(theirs, now),
         seen.started = theirs.started, seen.actual <= theirs.actual,
         Counted(mine, seen, now),
         mine.resumed = now \/ (mine.resumed = Never /\ theirs.resumed = Never)
  PROVE  LET c == Changed(seen, mine, theirs) IN
         Counted(c, theirs, now) /\ c.resumed = mine.resumed
<1> DEFINE c == Changed(seen, mine, theirs)
<1>1. /\ c \in Records
      /\ c.started = IF mine.started = seen.started THEN theirs.started ELSE mine.started
      /\ c.resumed = IF mine.resumed = seen.resumed THEN theirs.resumed ELSE mine.resumed
      /\ c.actual = IF mine.actual = seen.actual THEN theirs.actual ELSE mine.actual
      /\ c.credited = IF mine.credited = seen.credited THEN theirs.credited ELSE mine.credited
  BY ChangedFields
<1> HIDE DEF c
<1>2. /\ seen.started \in Nat /\ seen.actual \in Nat /\ theirs.actual \in Nat
      /\ mine.actual = now - seen.started /\ theirs.actual <= now - seen.started
      /\ seen.credited = Least(seen.actual, MaxWait)
      /\ theirs.credited = Least(theirs.actual, MaxWait)
      /\ mine.credited = Least(mine.actual, MaxWait)
      /\ seen.resumed = Never /\ seen.started # Never /\ now # Never
      /\ seen.started <= now /\ mine.started = seen.started
  BY PlacesAndHolds DEF Unresumed, Good, Counted, Records
<1>3. c.started = theirs.started /\ c.resumed = mine.resumed /\ c.actual = now - c.started
  BY <1>1, <1>2
<1>4. c.credited = Least(c.actual, MaxWait)
  BY <1>1, <1>2, PlacesAndHolds DEF Least
<1>5. Counted(c, theirs, now)
  BY <1>1, <1>2, <1>3, <1>4, PlacesAndHolds DEF Counted, Good
<1>. QED
  BY <1>3, <1>5 DEF c

LEMMA WrittenEffect ==
  ASSUME HoldInv, NEW s \in Requests, NEW w, Transaction(Session(s), w), AnswersOK(w)
  PROVE  LET d == Written(s, w) IN
         Transaction(db, d) /\ AnswersOK(d)
<1> DEFINE v == Session(s)
           h == req[s].at
           c == Changed(req[s].seen, w.rec[h], db.rec[h])
           d == Written(s, w)
<1>1. /\ v \in Views /\ v.at = db.at /\ db \in Views /\ now \in 0..MaxTime
      /\ \A k \in Holds : v.rec[k] = IF k = h THEN req[s].seen ELSE db.rec[k]
      /\ Standing(v) /\ AtOK(db) /\ RecordsOK(db, now) /\ SeenOK(req[s])
  BY SessionFacts DEF HoldInv, RowOK
<1>2. Transaction(v, w)
  OBVIOUS
<1> HIDE DEF v
<1>3. w \in Views /\ w.at >= v.at /\ Standing(w) /\ Recorded(v, w)
  BY <1>2 DEF Transaction
<1>4. CASE h \notin Holds
  <2>1. d = [w EXCEPT !.wakes = {}]
    BY <1>4 DEF Written
  <2>2. d \in Views /\ d.at = w.at /\ d.rec = w.rec /\ d.link = w.link /\ d.failed = w.failed
        /\ d.answers = w.answers
    BY <1>3, <2>1 DEF Views
  <2>3. \A k \in Holds : v.rec[k] = db.rec[k]
    BY <1>1, <1>4
  <2> HIDE DEF d
  <2>4. Recorded(db, d)
    BY <1>1, <1>3, <2>2, <2>3 DEF Recorded
  <2>. QED
    BY <1>1, <1>2, <2>2, <2>4 DEF Transaction, Standing, AnswersOK, d
<1>5. CASE h \in Holds
  <2>1. req[s].seen \in Records /\ w.rec[h] \in Records /\ db.rec[h] \in Records
    BY <1>1, <1>3, <1>5 DEF Views, SeenOK, Good
  <2>2. c \in Records /\ (w.rec[h] = req[s].seen => c = db.rec[h])
    BY <2>1, ChangedFields
  <2>3. d = [w EXCEPT !.rec = [w.rec EXCEPT ![h] = c], !.wakes = {}]
    BY <1>3, <1>5 DEF Written, Views
  <2> HIDE DEF c
  <2>4. d \in Views /\ d.at = w.at /\ d.rec = [w.rec EXCEPT ![h] = c] /\ d.link = w.link
        /\ d.failed = w.failed /\ d.answers = w.answers
    <3>1. [w.rec EXCEPT ![h] = c] \in [Holds -> Records]
      BY <1>3, <2>2 DEF Views
    <3>. QED
      BY <1>3, <2>3, <3>1 DEF Views
  <2> HIDE DEF d
  <2>5. d.rec[h] = c /\ \A k \in Holds \ {h} : d.rec[k] = w.rec[k]
    BY <1>3, <1>5, <2>4 DEF Views
  <2>6. h <= db.at /\ Unresumed(req[s].seen, now) /\ Good(db.rec[h], now)
        /\ req[s].seen.started = db.rec[h].started
        /\ req[s].seen.actual <= db.rec[h].actual
        /\ v.rec[h] = req[s].seen
        /\ (h = db.at => db.rec[h].resumed = Never)
    <3>1. /\ h <= db.at /\ req[s].seen.started = db.rec[h].started
          /\ req[s].seen.started # Never /\ Good(req[s].seen, now)
          /\ req[s].seen.resumed = Never /\ req[s].seen.actual <= db.rec[h].actual
      BY <1>1, <1>5 DEF SeenOK
    <3>2. Good(db.rec[h], now)
      BY <1>1, <1>5, <3>1 DEF RecordsOK
    <3>3. h = db.at => db.rec[h].resumed = Never
      BY <1>1, <1>5 DEF AtOK
    <3>4. v.rec[h] = req[s].seen
      BY <1>1, <1>5
    <3>. QED
      BY <3>1, <3>2, <3>3, <3>4 DEF Unresumed
  <2>7. h \in Nat /\ w.at \in Nat /\ db.at \in Nat
    <3>1. w.at \in Places /\ db.at \in Places
      BY <1>1, <1>3 DEF Views
    <3>. QED
      BY <1>5, <3>1, PlacesAndHolds
  <2>8. \/ h = w.at /\ w.at = v.at /\ (c = db.rec[h] \/ Counted(c, db.rec[h], now))
             /\ Unresumed(c, now)
        \/ h # w.at /\ h # v.at /\ c = db.rec[h]
        \/ h # w.at /\ Settled(c, db.rec[h])
    <3>1. CASE w.rec[h] = req[s].seen
      <4>1. c = db.rec[h]
        BY <2>2, <3>1
      <4>2. CASE h = w.at
        BY <1>1, <1>3, <2>6, <2>7, <4>1, <4>2 DEF Unresumed
      <4>3. CASE h # w.at /\ h # v.at
        BY <4>1, <4>3
      <4>4. CASE h # w.at /\ h = v.at
        <5>1. Settled(w.rec[h], v.rec[h])
          BY <1>3, <1>5, <4>4 DEF Recorded
        <5>. QED
          BY <5>1, <2>6, <3>1, <1>1, PlacesAndHolds DEF Settled, Unresumed
      <4>. QED
        BY <4>2, <4>3, <4>4
    <3>2. CASE h = w.at /\ w.rec[h] # req[s].seen
      <4>1. w.at = v.at
        BY <1>1, <1>3, <2>6, <2>7, <3>2
      <4>2. Counted(w.rec[h], req[s].seen, now)
        BY <1>3, <1>5, <2>6, <3>2, <4>1 DEF Recorded
      <4>3. w.rec[h].resumed = Never /\ db.rec[h].resumed = Never
        BY <1>1, <1>3, <1>5, <2>6, <3>2, <4>1 DEF Standing, Unresumed
      <4>4. Counted(c, db.rec[h], now) /\ c.resumed = Never
        BY <1>1, <2>1, <2>6, <4>2, <4>3, MergeCounted DEF c
      <4>. QED
        BY <3>2, <4>1, <4>4 DEF Counted, Unresumed
    <3>3. CASE h # w.at /\ w.rec[h] # req[s].seen
      <4>1. Settled(w.rec[h], req[s].seen)
        BY <1>3, <1>5, <2>6, <3>3 DEF Recorded
      <4>2. Counted(c, db.rec[h], now) /\ c.resumed = now
        BY <1>1, <2>1, <2>6, <4>1, MergeCounted DEF Settled, c
      <4>. QED
        BY <3>3, <4>2 DEF Settled
    <3>. QED
      BY <3>1, <3>2, <3>3
  <2>9. Standing(d)
    BY <1>3, <2>4, <2>5, <2>8 DEF Standing
  <2>10. Recorded(db, d)
    <3> SUFFICES ASSUME NEW k \in Holds
                 PROVE \/ k = d.at /\ (d.at # db.at \/ d.rec[k] = db.rec[k]
                                       \/ Counted(d.rec[k], db.rec[k], now))
                       \/ k # d.at /\ k # db.at /\ d.rec[k] = db.rec[k]
                       \/ k # d.at /\ Settled(d.rec[k], db.rec[k])
      BY DEF Recorded
    <3>1. CASE k = h
      BY <1>1, <2>4, <2>5, <2>8, <3>1
    <3>2. CASE k # h
      BY <1>1, <1>3, <2>4, <2>5, <3>2 DEF Recorded
    <3>. QED
      BY <3>1, <3>2
  <2>. QED
    BY <1>1, <1>2, <2>4, <2>9, <2>10 DEF Transaction, AnswersOK, d
<1>. QED
  BY <1>4, <1>5
-----------------------------------------------------------------------------
(* The transactions of checks, of the poller and of others.                *)

LEMMA ReleaseIsTransaction ==
  ASSUME NEW v \in Views, now \in 0..MaxTime, v.at \in Holds, Standing(v)
  PROVE  LET w == ReleaseLink(v, v.at) IN
         Transaction(v, w) /\ w.answers = v.answers /\ w.at = v.at
<1> DEFINE w == ReleaseLink(v, v.at)
<1>1. /\ Touches(v, w, v.at) /\ w.link[v.at] = "released"
      /\ w.rec[v.at] = v.rec[v.at] \/ Counted(w.rec[v.at], v.rec[v.at], now)
      /\ Unresumed(w.rec[v.at], now)
  BY ReleaseEffect DEF Standing
<1> HIDE DEF w
<1>2. w \in Views /\ w.at = v.at /\ w.answers = v.answers /\ w.at >= v.at
  BY <1>1, PlacesAndHolds DEF Touches, Views
<1>3. Standing(w) /\ Recorded(v, w)
  BY <1>1, <1>2 DEF Standing, Recorded, Touches
<1>. QED
  BY <1>2, <1>3 DEF Transaction, w

LEMMA FailIsTransaction ==
  ASSUME NEW v \in Views, NEW w \in Views, Transaction(v, w), w.at = v.at, w.answers = v.answers
  PROVE  LET f == Fail(w) IN
         Transaction(v, f) /\ f.answers = v.answers /\ f.at = v.at
<1> DEFINE f == Fail(w)
<1>1. /\ f \in Views /\ f.failed /\ f.at = w.at /\ f.answers = w.answers
      /\ f.rec = w.rec /\ f.link = w.link
  BY FailEffect
<1> HIDE DEF f
<1>. QED
  BY <1>1 DEF Transaction, Standing, Recorded, f

\* What any transaction leaves to the others, once it has committed.
Grown ==
  /\ db'.at >= db.at
  /\ \A k \in Holds : k <= db.at /\ db.rec[k].started # Never =>
       db'.rec[k].started = db.rec[k].started /\ db'.rec[k].actual >= db.rec[k].actual

Leaves == \A h \in Holds : db.at = h /\ db'.at # h => db'.link[h] = "released" \/ db'.failed

LEMMA CommitEffect ==
  ASSUME HoldInv, NEW w, Transaction(db, w), AnswersOK(w),
         db' = w \/ db' = [w EXCEPT !.wakes = {}]
  PROVE  RowOK(db', now) /\ Grown /\ Leaves
<1>1. w \in Views /\ Standing(w) /\ Recorded(db, w) /\ w.at >= db.at
      /\ db \in Views /\ RecordsOK(db, now) /\ AtOK(db) /\ now \in 0..MaxTime
  BY DEF Transaction, HoldInv, RowOK
<1>2. /\ db' \in Views /\ db'.at = w.at /\ db'.rec = w.rec /\ db'.link = w.link
      /\ db'.failed = w.failed /\ db'.answers = w.answers
  BY <1>1 DEF Views
<1>3. AtOK(db')
  BY <1>1, <1>2 DEF AtOK, Standing, Unresumed
<1>4. AnswersOK(db')
  BY <1>2 DEF AnswersOK
<1>5. now # Never
  BY <1>1, PlacesAndHolds
<1>6. RecordsOK(db', now)
  <2> SUFFICES ASSUME NEW k \in Holds, w.rec[k].started # Never
               PROVE  Good(w.rec[k], now) /\ (k # w.at => w.rec[k].resumed # Never)
    BY <1>2 DEF RecordsOK
  <2>1. CASE k = w.at
    BY <1>1, <2>1 DEF Standing, Unresumed
  <2>2. CASE k # w.at
    BY <1>1, <1>5, <2>2 DEF Recorded, RecordsOK, Settled, Counted
  <2>. QED
    BY <2>1, <2>2
<1>7. Leaves
  BY <1>2 DEF Leaves, Transaction
<1>8. Grown
  <2> SUFFICES ASSUME NEW k \in Holds, k <= db.at, db.rec[k].started # Never
               PROVE  w.rec[k].started = db.rec[k].started /\ w.rec[k].actual >= db.rec[k].actual
    BY <1>1, <1>2 DEF Grown
  <2>1. Good(db.rec[k], now) /\ db.rec[k].actual \in Nat
    BY <1>1 DEF RecordsOK, Good, Records
  <2>2. k \in Nat /\ w.at \in Nat /\ db.at \in Nat
    BY <1>1, PlacesAndHolds DEF Views
  <2>3. w.rec[k] = db.rec[k] \/ Counted(w.rec[k], db.rec[k], now)
    BY <1>1, <2>2 DEF Recorded, Settled
  <2>4. CASE w.rec[k] = db.rec[k]
    BY <2>1, <2>4
  <2>5. CASE Counted(w.rec[k], db.rec[k], now)
    BY <2>1, <2>5 DEF Counted, Good
  <2>. QED
    BY <2>3, <2>4, <2>5
<1>. QED
  BY <1>2, <1>3, <1>4, <1>6, <1>7, <1>8 DEF RowOK
-----------------------------------------------------------------------------
(* The invariant and the steps.                                            *)

LEMMA InitHolds == Init => HoldInv
<1> SUFFICES ASSUME Init PROVE HoldInv
  OBVIOUS
<1>1. db = StartRow /\ now = 0 /\ check = "idle" /\ req = [s \in Requests |-> NoRequest]
  BY DEF Init
<1>2. /\ StartRow \in Views /\ StartRow.at = 1
      /\ \A i \in Places : StartRow.answers[i] = 0
      /\ \A h \in Holds : StartRow.rec[h] = NoRecord /\ StartRow.link[h] = "none"
  <2>1. 1 \in Places /\ 1 \in Nat /\ 0 \in Nat
    BY PlacesAndHolds
  <2>2. [i \in Places |-> 0] \in [Places -> Nat]
    BY <2>1
  <2>3. [i \in Places |-> NoReceipt] \in [Places -> Receipts]
    BY PlacesAndHolds
  <2>4. [h \in Holds |-> "none"] \in [Holds -> {"none", "waiting", "released"}]
    OBVIOUS
  <2>5. [h \in Holds |-> NoRecord] \in [Holds -> Records]
    BY PlacesAndHolds
  <2>. QED
    BY <2>1, <2>2, <2>3, <2>4, <2>5 DEF StartRow, Views
<1>3. /\ NoRequest \in RequestRows /\ NoRequest.pc = "idle" /\ NoRequest.at = 0
      /\ NoRequest.reply.at = 0
  <2>1. NoRecord \in Records /\ 0 \in Nat
    BY PlacesAndHolds
  <2>2. Refusal("none") \in Replies /\ Refusal("none").at = 0
    BY DEF Refusal, Replies
  <2>. QED
    BY <2>1, <2>2 DEF NoRequest, RequestRows
<1>4. 0 \notin Holds /\ 1 \notin Holds
  BY PlacesAndHolds, TimelineAssumption DEF Holds
<1>5. RowOK(db, now)
  <2>1. AnswersOK(StartRow)
    BY <1>2 DEF AnswersOK
  <2>2. AtOK(StartRow)
    BY <1>2, <1>4 DEF AtOK
  <2>3. RecordsOK(StartRow, now)
    BY <1>2, PlacesAndHolds DEF RecordsOK
  <2>. QED
    BY <1>1, <1>2, <2>1, <2>2, <2>3 DEF RowOK
<1>6. \A s \in Requests : req[s] = NoRequest
  BY <1>1
<1>7. LocksOK
  BY <1>1, <1>3, <1>6 DEF LocksOK
<1>8. now \in 0..MaxTime /\ req \in [Requests -> RequestRows]
  BY <1>1, <1>3, PlacesAndHolds
<1>9. ASSUME NEW s \in Requests
      PROVE  /\ RequestOK(req[s]) /\ SeenOK(req[s]) /\ Reached(req[s].reply.at)
             /\ req[s].pc = "link" => req[s].at \in Holds
  <2>1. NoRequest.kind = "none"
    BY DEF NoRequest
  <2>2. Reached(0)
    BY <1>1, <1>2, <1>4 DEF Reached
  <2>. QED
    BY <1>3, <1>4, <1>6, <2>1, <2>2 DEF RequestOK, SeenOK
<1>. QED
  BY <1>5, <1>7, <1>8, <1>9 DEF HoldInv

\* A request's own row.
RequestInv(s) ==
  /\ RequestOK(req[s]) /\ SeenOK(req[s]) /\ Reached(req[s].reply.at)
  /\ req[s].pc = "link" => req[s].at \in Holds

\* Where the participant stands, they have come to; a refusal shows nothing.
LEMMA CursorIsReached ==
  ASSUME now \in 0..MaxTime, RowOK(db, now)
  PROVE  Reached(db.at) /\ Reached(0)
<1>1. db.at \in Nat /\ db.at >= 1
  BY PlacesAndHolds DEF RowOK, Views
<1>. QED
  BY <1>1, PlacesAndHolds DEF Reached, RowOK, AtOK

LEMMA SameIsGrown ==
  ASSUME HoldInv, UNCHANGED db
  PROVE  Grown
<1>1. db.at \in Nat /\ \A k \in Holds : db.rec[k].actual \in Nat
  BY PlacesAndHolds DEF HoldInv, RowOK, Views, Records
<1>. QED
  BY <1>1 DEF Grown

LEMMA ReachedStays ==
  ASSUME HoldInv, Grown, db' \in Views, NEW x \in Nat, Reached(x)
  PROVE  Reached(x)'
<1>1. db.at \in Nat /\ db'.at \in Nat
  BY PlacesAndHolds DEF HoldInv, RowOK, Views
<1>. QED
  BY <1>1 DEF Reached, Grown

\* What others commit does not spoil what a request has read.
LEMMA SeenStays ==
  ASSUME HoldInv, Grown, RowOK(db', now), UNCHANGED now, NEW s \in Requests,
         req'[s].at = req[s].at, req'[s].seen = req[s].seen, req'[s].reply = req[s].reply
  PROVE  SeenOK(req[s])' /\ Reached(req[s].reply.at)'
<1>1. SeenOK(req[s]) /\ Reached(req[s].reply.at) /\ req[s].reply.at \in Nat
  BY DEF HoldInv, RequestRows, Replies
<1>4. Reached(req[s].reply.at)'
  <2> DEFINE x == req[s].reply.at
  <2>1. x \in Nat /\ Reached(x) /\ db' \in Views
    BY <1>1 DEF RowOK
  <2>2. x' = x
    OBVIOUS
  <2> HIDE DEF x
  <2>3. db'.at >= x /\ (x \in Holds => db'.rec[x].started # Never)
    BY <2>1, ReachedStays DEF Reached
  <2>. QED
    BY <2>2, <2>3 DEF Reached, x
<1> SUFFICES ASSUME req[s].at \in Holds
             PROVE  /\ req[s].at <= db'.at
                    /\ req[s].seen.started = db'.rec[req[s].at].started
                    /\ req[s].seen.actual <= db'.rec[req[s].at].actual
  BY <1>1, <1>4 DEF SeenOK
<1>2. /\ req[s].at <= db.at /\ db.rec[req[s].at].started = req[s].seen.started
      /\ req[s].seen.started # Never /\ req[s].seen.actual <= db.rec[req[s].at].actual
  BY <1>1 DEF SeenOK
<1>3. db.at \in Nat /\ db'.at \in Nat /\ req[s].at \in Nat
      /\ db.rec[req[s].at].actual \in Nat /\ db'.rec[req[s].at].actual \in Nat
      /\ req[s].seen.actual \in Nat
  BY PlacesAndHolds DEF HoldInv, RowOK, Views, Records, RequestRows
<1>. QED
  BY <1>2, <1>3 DEF Grown

LEMMA AnswerRow ==
  ASSUME HoldInv, NEW s \in Requests, NEW x \in Replies, Answer(s, x),
         x.at <= db'.at, x.at \in Holds => db'.rec[x.at].started # Never
  PROVE  /\ req' \in [Requests -> RequestRows] /\ RequestInv(s)' /\ req'[s].pc = "done"
         /\ \A r \in Requests \ {s} : req'[r] = req[r]
<1> DEFINE n == [NoRequest EXCEPT !.pc = "done", !.kind = req[s].kind, !.reply = x]
<1>1. req \in [Requests -> RequestRows] /\ req[s].kind \in {"none", "get", "resume", "submit"}
  BY DEF HoldInv, RequestRows
<1>2. n \in RequestRows /\ n.at = 0 /\ n.pc = "done" /\ n.reply = x
  BY <1>1, PlacesAndHolds DEF NoRequest, RequestRows
<1> HIDE DEF n
<1>3. req' = [req EXCEPT ![s] = n]
  BY DEF Answer, n
<1>4. req' \in [Requests -> RequestRows] /\ req'[s] = n
      /\ \A r \in Requests \ {s} : req'[r] = req[r]
  BY <1>1, <1>2, <1>3
<1>5. 0 \notin Holds
  BY PlacesAndHolds
<1>. QED
  BY <1>2, <1>4, <1>5 DEF RequestInv, RequestOK, SeenOK, Reached

\* A step that commits a transaction and leaves the requests alone.
LEMMA RowStep ==
  ASSUME HoldInv, NEW w, Transaction(db, w), w.answers = db.answers,
         db' = w \/ db' = [w EXCEPT !.wakes = {}],
         UNCHANGED <<req, now>>, LocksOK'
  PROVE  HoldInv' /\ Leaves /\ Grown
<1>1. db \in Views /\ AnswersOK(db) /\ w \in Views /\ w.at >= db.at
  BY DEF HoldInv, RowOK, Transaction
<1>2. AnswersOK(w)
  BY <1>1, AnswersStay
<1>3. RowOK(db', now) /\ Grown /\ Leaves
  BY <1>2, CommitEffect
<1>4. ASSUME NEW s \in Requests PROVE RequestInv(s)'
  <2>1. SeenOK(req[s])' /\ Reached(req[s].reply.at)'
    BY <1>3, SeenStays
  <2>. QED
    BY <2>1 DEF RequestInv, RequestOK, HoldInv
<1>. QED
  BY <1>3, <1>4 DEF HoldInv, RequestInv

\* A step that leaves the participant's row alone, and changes one request.
LEMMA RequestStep ==
  ASSUME HoldInv, NEW s \in Requests, UNCHANGED <<db, now>>,
         req' \in [Requests -> RequestRows], RequestInv(s)',
         \A r \in Requests \ {s} : req'[r] = req[r], LocksOK'
  PROVE  HoldInv' /\ Leaves /\ Grown
<1>1. ASSUME NEW r \in Requests PROVE RequestInv(r)'
  <2>1. CASE r = s
    BY <2>1
  <2>2. CASE r # s
    BY <2>2 DEF RequestInv, RequestOK, SeenOK, Reached, HoldInv
  <2>. QED
    BY <2>1, <2>2
<1>2. RowOK(db, now)' /\ now' \in 0..MaxTime
  BY DEF HoldInv, RowOK, AtOK, AnswersOK, RecordsOK
<1>. QED
  BY <1>1, <1>2, SameIsGrown DEF HoldInv, RequestInv, Leaves

\* The row of a request that has only moved on.
LEMMA MovedRow ==
  ASSUME HoldInv, NEW s \in Requests,
         NEW c \in {"read", "lock", "locked"}, req[s].pc \notin {"idle", "done"},
         req' = [req EXCEPT ![s].pc = c]
  PROVE  /\ req' \in [Requests -> RequestRows] /\ req'[s].pc = c
         /\ req'[s].at = req[s].at /\ req'[s].seen = req[s].seen
         /\ req'[s].reply = req[s].reply
         /\ RequestOK(req'[s])
         /\ \A r \in Requests \ {s} : req'[r] = req[r]
<1>1. req \in [Requests -> RequestRows] /\ RequestOK(req[s])
  BY DEF HoldInv
<1> DEFINE n == [req[s] EXCEPT !.pc = c]
<1>2. n \in RequestRows /\ n.pc = c /\ n.at = req[s].at /\ n.seen = req[s].seen
      /\ n.kind = req[s].kind /\ n.uuid = req[s].uuid /\ n.reply = req[s].reply
  BY <1>1 DEF RequestRows
<1>3. req' = [req EXCEPT ![s] = n]
  OBVIOUS
<1> HIDE DEF n
<1>4. req' \in [Requests -> RequestRows] /\ req'[s] = n
      /\ \A r \in Requests \ {s} : req'[r] = req[r]
  BY <1>1, <1>2, <1>3
<1>. QED
  BY <1>1, <1>2, <1>4 DEF RequestOK
-----------------------------------------------------------------------------
(* One step, action by action.                                             *)

LEMMA StandingRow ==
  ASSUME HoldInv
  PROVE  /\ db \in Views /\ Standing(db) /\ AnswersOK(db) /\ StaleSettled(db, db)
         /\ now \in 0..MaxTime /\ Transaction(db, db)
<1>1. db \in Views /\ AtOK(db) /\ RecordsOK(db, now) /\ AnswersOK(db) /\ now \in 0..MaxTime
  BY DEF HoldInv, RowOK
<1>2. Standing(db)
  BY <1>1 DEF Standing, Unresumed, AtOK, RecordsOK
<1>. QED
  BY <1>1, <1>2, SameIsTransaction DEF StaleSettled

\* Nobody holds the row: no request or check is in its critical section.
LEMMA RowIsFree ==
  ASSUME HoldInv, lock = None
  PROVE  check = "idle" /\ \A s \in Requests : req[s].pc # "locked"
BY TimelineAssumption DEF HoldInv, LocksOK

LEMMA LocksStay ==
  ASSUME HoldInv, UNCHANGED <<db, lock, check>>,
         \A s \in Requests : req'[s].pc = "locked" => req[s].pc = "locked"
  PROVE  LocksOK'
BY DEF HoldInv, LocksOK, Waiting

LEMMA ArriveStep ==
  ASSUME HoldInv, NEW s \in Requests, Arrive(s)
  PROVE  HoldInv' /\ Leaves /\ Grown
<1>1. PICK kind \in {"resume", "submit", "get"}, u \in Nat, c \in Nat :
        /\ Begin(s, kind, u, c)
        /\ kind = "resume" => u \in Holds
        /\ kind = "submit" => u \in Pages
  <2>1. Holds \subseteq Nat /\ Pages \subseteq Nat /\ Secrets \subseteq Nat /\ 0 \in Nat
    BY PlacesAndHolds, TimelineAssumption
  <2>. QED
    BY <2>1 DEF Arrive
<1> DEFINE pc == IF kind = "resume" THEN "read" ELSE IF kind = "get" THEN "enter" ELSE "lock"
           n == [NoRequest EXCEPT !.pc = pc, !.kind = kind, !.uuid = u, !.secret = c]
<1>2. pc \in {"read", "enter", "lock"}
  OBVIOUS
<1> HIDE DEF pc
<1>3. NoRequest \in RequestRows /\ NoRequest.at = 0 /\ NoRequest.reply.at = 0
  <2>1. NoRecord \in Records /\ 0 \in Nat
    BY PlacesAndHolds
  <2>2. Refusal("none") \in Replies /\ Refusal("none").at = 0
    BY DEF Refusal, Replies
  <2>. QED
    BY <2>1, <2>2 DEF NoRequest, RequestRows
<1>4. /\ n \in RequestRows /\ n.pc = pc /\ n.kind = kind /\ n.uuid = u /\ n.at = 0
      /\ n.reply.at = 0
  BY <1>2, <1>3 DEF RequestRows
<1>5. req' = [req EXCEPT ![s] = n]
  BY <1>1 DEF Begin, pc
<1> HIDE DEF n
<1>6. /\ req' \in [Requests -> RequestRows] /\ req'[s] = n
      /\ \A r \in Requests \ {s} : req'[r] = req[r]
  BY <1>4, <1>5 DEF HoldInv
<1>8. UNCHANGED <<db, now, lock, check>>
  BY DEF Arrive
<1>7. RequestInv(s)'
  <2>1. Reached(0)'
    BY <1>8, StandingRow, CursorIsReached DEF HoldInv, Reached
  <2>2. SeenOK(req[s])' /\ RequestOK(req'[s]) /\ req'[s].pc # "link"
    BY <1>1, <1>2, <1>4, <1>6, PlacesAndHolds DEF RequestOK, SeenOK
  <2>. QED
    BY <1>4, <1>6, <2>1, <2>2 DEF RequestInv, RequestOK, Reached
<1>9. LocksOK'
  BY <1>2, <1>4, <1>6, <1>8, LocksStay
<1>. QED
  BY <1>6, <1>7, <1>8, <1>9, RequestStep

LEMMA EnterStep ==
  ASSUME HoldInv, NEW s \in Requests, Enter(s)
  PROVE  HoldInv' /\ Leaves /\ Grown
<1> DEFINE w == IF db.failed /\ db.at \notin Holds \cup {End} THEN Advance(db) ELSE db
<1>1. Transaction(db, w) /\ w.answers = db.answers /\ w.at >= db.at
  <2>1. db.at >= db.at
    BY StandingRow, PlacesAndHolds DEF Views
  <2>. QED
    BY <2>1, StandingRow, AdvanceIsTransaction DEF Transaction
<1>2. db' = w /\ UNCHANGED <<lock, check, now>> /\ req[s].pc = "enter" /\ lock = None
      /\ req' = [req EXCEPT ![s].pc = "read"]
  BY DEF Enter
<1> HIDE DEF w
<1>3. AnswersOK(w)
  BY <1>1, StandingRow, AnswersStay DEF Transaction
<1>4. RowOK(db', now) /\ Grown /\ Leaves
  BY <1>1, <1>2, <1>3, CommitEffect
<1>5. /\ req' \in [Requests -> RequestRows] /\ req'[s].pc = "read"
      /\ req'[s].at = req[s].at /\ req'[s].seen = req[s].seen
      /\ req'[s].reply = req[s].reply
      /\ RequestOK(req'[s])
      /\ \A r \in Requests \ {s} : req'[r] = req[r]
  BY <1>2, MovedRow
<1>6. ASSUME NEW r \in Requests PROVE RequestInv(r)'
  <2>1. SeenOK(req[r])' /\ Reached(req[r].reply.at)'
    <3>1. req'[r].at = req[r].at /\ req'[r].seen = req[r].seen /\ req'[r].reply = req[r].reply
      BY <1>5
    <3>. QED
      BY <1>2, <1>4, <3>1, SeenStays
  <2>2. CASE r = s
    BY <1>5, <2>1, <2>2 DEF RequestInv, RequestOK
  <2>3. CASE r # s
    BY <1>5, <2>1, <2>3 DEF RequestInv, RequestOK, HoldInv
  <2>. QED
    BY <2>2, <2>3
<1>7. LocksOK'
  BY <1>2, <1>5, RowIsFree DEF LocksOK
<1>. QED
  BY <1>2, <1>4, <1>5, <1>6, <1>7 DEF HoldInv, RequestInv

LEMMA ReadStep ==
  ASSUME HoldInv, NEW s \in Requests, Read(s)
  PROVE  HoldInv' /\ Leaves /\ Grown
<1>1. UNCHANGED <<db, lock, check, now>> /\ req[s].pc = "read"
  BY DEF Read
<1>2. CASE \E x \in Replies : Answer(s, x) /\ x.at = db.at
  <2>1. PICK x \in Replies : Answer(s, x) /\ x.at = db.at
    BY <1>2
  <2>4. x.at <= db'.at /\ (x.at \in Holds => db'.rec[x.at].started # Never)
    BY <1>1, <2>1, CursorIsReached DEF HoldInv, Reached
  <2>2. /\ req' \in [Requests -> RequestRows] /\ RequestInv(s)' /\ req'[s].pc = "done"
        /\ \A r \in Requests \ {s} : req'[r] = req[r]
    BY <2>1, <2>4, AnswerRow
  <2>3. LocksOK'
    BY <1>1, <2>2, LocksStay
  <2>. QED
    BY <1>1, <2>2, <2>3, RequestStep
<1>3. CASE req' = [req EXCEPT ![s].pc = "lock"]
  <2>1. /\ req' \in [Requests -> RequestRows] /\ req'[s].pc = "lock"
        /\ req'[s].at = req[s].at /\ req'[s].seen = req[s].seen
        /\ req'[s].reply = req[s].reply
        /\ RequestOK(req'[s])
        /\ \A r \in Requests \ {s} : req'[r] = req[r]
    BY <1>1, <1>3, MovedRow
  <2>2. RequestInv(s)'
    BY <1>1, <2>1 DEF RequestInv, RequestOK, SeenOK, Reached, HoldInv
  <2>3. LocksOK'
    BY <1>1, <2>1, LocksStay
  <2>. QED
    BY <1>1, <2>1, <2>2, <2>3, RequestStep
<1>4. CASE db.at \in Holds /\ \E c \in {"lock", "link"} :
           req' = [req EXCEPT ![s].at = db.at, ![s].seen = db.rec[db.at], ![s].pc = c]
  <2>1. PICK c \in {"lock", "link"} :
           req' = [req EXCEPT ![s].at = db.at, ![s].seen = db.rec[db.at], ![s].pc = c]
    BY <1>4
  <2> DEFINE n == [req[s] EXCEPT !.at = db.at, !.seen = db.rec[db.at], !.pc = c]
  <2>2. db.rec[db.at] \in Records /\ db.at \in Nat
    BY <1>4, StandingRow, PlacesAndHolds DEF Views
  <2>3. req[s] \in RequestRows /\ RequestOK(req[s])
    BY DEF HoldInv
  <2>4. n \in RequestRows /\ n.pc = c /\ n.at = db.at /\ n.seen = db.rec[db.at]
        /\ n.kind = req[s].kind /\ n.uuid = req[s].uuid /\ n.reply = req[s].reply
    BY <2>2, <2>3 DEF RequestRows
  <2>5. req' = [req EXCEPT ![s] = n]
    BY <2>1 DEF HoldInv
  <2> HIDE DEF n
  <2>6. /\ req' \in [Requests -> RequestRows] /\ req'[s] = n
        /\ \A r \in Requests \ {s} : req'[r] = req[r]
    BY <2>4, <2>5 DEF HoldInv
  <2>7. RequestOK(n)
    BY <1>1, <2>3, <2>4 DEF RequestOK
  <2>8. SeenOK(req[s])'
    <3>1. Unresumed(db.rec[db.at], now)
      BY <1>4, StandingRow DEF Standing
    <3>. QED
      BY <1>1, <2>2, <2>4, <2>6, <3>1 DEF SeenOK, Unresumed, Records
  <2>11. Reached(req[s].reply.at)'
    BY <1>1, <2>4, <2>6 DEF HoldInv, Reached
  <2>9. RequestInv(s)'
    BY <1>4, <2>4, <2>6, <2>7, <2>8, <2>11 DEF RequestInv, RequestOK
  <2>10. LocksOK'
    BY <1>1, <2>4, <2>6, LocksStay
  <2>. QED
    BY <1>1, <2>6, <2>9, <2>10, RequestStep
<1>5. Page(db.at) \in Replies /\ Page(db.at).at = db.at
  BY StandingRow, PlacesAndHolds DEF Page, Replies, Views
<1>. QED
  BY <1>2, <1>3, <1>4, <1>5 DEF Read

LEMMA MoveStep ==
  ASSUME HoldInv, NEW s \in Requests, ReadLink(s) \/ Busy(s) \/ Lock(s)
  PROVE  HoldInv' /\ Leaves /\ Grown
<1>1. UNCHANGED <<db, check, now>>
  BY DEF ReadLink, Busy, Lock
<1>2. CASE (\E x \in Replies : Answer(s, x) /\ Reached(x.at)) /\ lock' = lock
  <2>1. PICK x \in Replies : Answer(s, x) /\ Reached(x.at)
    BY <1>2
  <2>4. x.at <= db'.at /\ (x.at \in Holds => db'.rec[x.at].started # Never)
    BY <1>1, <2>1 DEF Reached
  <2>2. /\ req' \in [Requests -> RequestRows] /\ RequestInv(s)' /\ req'[s].pc = "done"
        /\ \A r \in Requests \ {s} : req'[r] = req[r]
    BY <2>1, <2>4, AnswerRow
  <2>3. LocksOK'
    BY <1>1, <1>2, <2>2, LocksStay
  <2>. QED
    BY <1>1, <2>2, <2>3, RequestStep
<1>3. ASSUME NEW c \in {"lock", "locked"}, req[s].pc \in {"link", "lock"},
             req' = [req EXCEPT ![s].pc = c],
             c = "lock" => lock' = lock, c = "locked" => lock = None /\ lock' = s
      PROVE  HoldInv' /\ Leaves /\ Grown
  <2>1. /\ req' \in [Requests -> RequestRows] /\ req'[s].pc = c
        /\ req'[s].at = req[s].at /\ req'[s].seen = req[s].seen
        /\ req'[s].reply = req[s].reply
        /\ RequestOK(req'[s])
        /\ \A r \in Requests \ {s} : req'[r] = req[r]
    BY <1>3, MovedRow
  <2>2. RequestInv(s)'
    BY <1>1, <1>3, <2>1 DEF RequestInv, RequestOK, SeenOK, Reached, HoldInv
  <2>3. LocksOK'
    <3>1. CASE c = "lock"
      BY <1>1, <1>3, <2>1, <3>1, LocksStay
    <3>2. CASE c = "locked"
      BY <1>1, <1>3, <2>1, <3>2, RowIsFree DEF LocksOK
    <3>. QED
      BY <3>1, <3>2
  <2>. QED
    BY <1>1, <2>1, <2>2, <2>3, RequestStep
<1>4. CASE Busy(s)
  <2>1. Refusal("busy") \in Replies /\ Reached(Refusal("busy").at)
    BY CursorIsReached DEF HoldInv, Refusal, Replies
  <2>. QED
    BY <1>2, <1>4, <2>1 DEF Busy
<1>5. CASE ReadLink(s)
  <2>1. Page(req[s].at) \in Replies /\ Page(req[s].at).at = req[s].at
    BY DEF Page, Replies, HoldInv, RequestRows
  <2>4. Reached(req[s].at)
    <3>1. req[s].at \in Holds /\ SeenOK(req[s])
      BY <1>5 DEF ReadLink, HoldInv
    <3>. QED
      BY <3>1 DEF SeenOK, Reached
  <2>2. CASE db.link[req[s].at] = "waiting"
    BY <1>2, <1>5, <2>1, <2>2, <2>4 DEF ReadLink
  <2>3. CASE db.link[req[s].at] # "waiting"
    BY <1>3, <1>5, <2>3 DEF ReadLink
  <2>. QED
    BY <2>2, <2>3
<1>6. CASE Lock(s)
  BY <1>3, <1>6 DEF Lock
<1>. QED
  BY <1>4, <1>5, <1>6

LEMMA CommitStep ==
  ASSUME HoldInv, NEW s \in Requests, Commit(s)
  PROVE  HoldInv' /\ Leaves /\ Grown
<1> DEFINE w == Respond(s, Session(s)).v
           x == IF Respond(s, Session(s)).ok THEN Page(w.at) ELSE Refusal("rejected")
           d == Written(s, w)
<1>1. /\ req[s].pc = "locked" /\ db' = d /\ Answer(s, x) /\ lock' = None
      /\ UNCHANGED <<check, now>>
  BY DEF Commit
<1>2. Transaction(Session(s), w) /\ AnswersOK(w)
  BY <1>1, RespondEffect
<1>3. w \in Views
  BY <1>2 DEF Transaction
<1>10. d.at = w.at /\ x.at \in {w.at, 0}
  BY <1>3 DEF Written, Views, Page, Refusal
<1> HIDE DEF w
<1>4. Transaction(db, d) /\ AnswersOK(d)
  BY <1>2, WrittenEffect
<1> HIDE DEF d
<1>5. RowOK(db', now) /\ Grown /\ Leaves
  BY <1>1, <1>4, CommitEffect
<1>6. x \in Replies
  <2>1. w.at \in Nat
    BY <1>3, PlacesAndHolds DEF Views
  <2>. QED
    BY <2>1 DEF Page, Refusal, Replies
<1>11. x.at <= db'.at /\ (x.at \in Holds => db'.rec[x.at].started # Never)
  <2>1. db' \in Views /\ AtOK(db') /\ x.at \in {db'.at, 0}
    BY <1>1, <1>5, <1>10 DEF RowOK
  <2>. QED
    BY <2>1, PlacesAndHolds DEF Views, AtOK
<1> HIDE DEF x
<1>7. /\ req' \in [Requests -> RequestRows] /\ RequestInv(s)' /\ req'[s].pc = "done"
      /\ \A r \in Requests \ {s} : req'[r] = req[r]
  BY <1>1, <1>6, <1>11, AnswerRow
<1>8. ASSUME NEW r \in Requests PROVE RequestInv(r)'
  <2>1. CASE r = s
    BY <1>7, <2>1
  <2>2. CASE r # s
    <3>1. SeenOK(req[r])' /\ Reached(req[r].reply.at)'
      BY <1>1, <1>5, <1>7, <2>2, SeenStays
    <3>. QED
      BY <1>7, <2>2, <3>1 DEF RequestInv, RequestOK, HoldInv
  <2>. QED
    BY <2>1, <2>2
<1>9. LocksOK'
  BY <1>1, <1>7, TimelineAssumption DEF HoldInv, LocksOK
<1>. QED
  BY <1>1, <1>5, <1>7, <1>8, <1>9 DEF HoldInv, RequestInv

\* The check in a partner's request.
LEMMA CheckStep ==
  ASSUME HoldInv, CheckLock \/ CheckCommit
  PROVE  HoldInv' /\ Leaves /\ Grown
<1>1. CASE CheckLock
  <2>1. LocksOK'
    BY <1>1, RowIsFree DEF CheckLock, LocksOK, Waiting
  <2>2. UNCHANGED <<db, req, now>>
    BY <1>1 DEF CheckLock
  <2>. QED
    BY <2>1, <2>2, StandingRow, RowStep
<1>2. CASE CheckCommit
  <2> DEFINE w == ReleaseLink(db, db.at)
  <2>1. db.at \in Holds /\ lock = "check"
    BY <1>2 DEF CheckCommit, HoldInv, LocksOK, Waiting
  <2>2. Transaction(db, w) /\ w.answers = db.answers
    BY <2>1, StandingRow, ReleaseIsTransaction
  <2>3. db' = [w EXCEPT !.wakes = {}] /\ UNCHANGED <<req, now>> /\ check' = "idle"
    BY <1>2 DEF CheckCommit
  <2> HIDE DEF w
  <2>4. LocksOK'
    BY <2>1, <2>3, TimelineAssumption DEF HoldInv, LocksOK
  <2>. QED
    BY <2>2, <2>3, <2>4, RowStep
<1>. QED
  BY <1>1, <1>2

\* The poller, and failures elsewhere: they commit while nobody holds the row.
LEMMA PollerStep ==
  ASSUME HoldInv, SweepRelease \/ SweepOverdue \/ SweepSkip \/ FailElsewhere
  PROVE  HoldInv' /\ Leaves /\ Grown
<1>1. UNCHANGED <<lock, req, check, now>>
  BY DEF SweepRelease, SweepOverdue, SweepSkip, FailElsewhere
<1>2. ASSUME NEW w, Transaction(db, w), w.answers = db.answers, db' = [w EXCEPT !.wakes = {}],
             lock = None
      PROVE  HoldInv' /\ Leaves /\ Grown
  <2>1. LocksOK'
    BY <1>1, <1>2, RowIsFree DEF LocksOK
  <2>. QED
    BY <1>1, <1>2, <2>1, RowStep
<1>3. db.at \in Holds =>
        LET r == ReleaseLink(db, db.at) IN
        Transaction(db, r) /\ r.answers = db.answers /\ r.at = db.at /\ r \in Views
  BY StandingRow, ReleaseIsTransaction DEF Transaction
<1>4. CASE SweepRelease
  BY <1>2, <1>3, <1>4 DEF SweepRelease, Stash, Waiting
<1>5. CASE SweepOverdue
  <2> DEFINE r == ReleaseLink(db, db.at)
             w == ApplyTimeout(db, db.at)
  <2>1. Transaction(db, r) /\ r.answers = db.answers /\ r.at = db.at /\ r \in Views
    BY <1>3, <1>5 DEF SweepOverdue
  <2>2. w = r \/ w = Fail(r)
    BY DEF ApplyTimeout
  <2>3. db' = [w EXCEPT !.wakes = {}] /\ lock = None
    BY <1>5 DEF SweepOverdue, Stash
  <2> HIDE DEF r, w
  <2>4. Transaction(db, w) /\ w.answers = db.answers
    BY <2>1, <2>2, StandingRow, FailIsTransaction
  <2>. QED
    BY <1>2, <2>3, <2>4
<1>6. CASE SweepSkip
  <2>1. CASE lock = None
    <3> DEFINE w == AdvancePastReadyHolds(db)
    <3>1. Transaction(db, w) /\ w.answers = db.answers
      BY StandingRow, SkipIsTransaction
    <3>2. db' = [w EXCEPT !.wakes = {}]
      BY <1>6, <2>1 DEF SweepSkip, Stash
    <3> HIDE DEF w
    <3>. QED
      BY <1>2, <2>1, <3>1, <3>2
  <2>2. CASE lock # None
    <3>1. db' = [db EXCEPT !.wakes = {}]
      BY <1>6, <2>2 DEF SweepSkip, Stash
    <3>2. db'.at = db.at /\ db'.link = db.link /\ db'.failed = db.failed
      BY <3>1, StandingRow DEF Views
    <3>3. LocksOK'
      BY <1>1, <3>2 DEF HoldInv, LocksOK, Waiting
    <3>. QED
      BY <1>1, <3>1, <3>3, StandingRow, RowStep
  <2>. QED
    BY <2>1, <2>2
<1>7. CASE FailElsewhere
  <2> DEFINE w == Fail(db)
  <2>1. Transaction(db, w) /\ w.answers = db.answers
    BY StandingRow, FailIsTransaction
  <2>2. db' = [w EXCEPT !.wakes = {}] /\ lock = None
    BY <1>7 DEF FailElsewhere
  <2> HIDE DEF w
  <2>. QED
    BY <1>2, <2>1, <2>2
<1>. QED
  BY <1>4, <1>5, <1>6, <1>7

\* Time passes: a wait that has been counted may still grow.
LEMMA TickStep ==
  ASSUME HoldInv, Tick
  PROVE  HoldInv' /\ Leaves /\ Grown
<1>1. now \in 0..MaxTime /\ now' = now + 1 /\ now' \in 0..MaxTime
      /\ UNCHANGED <<db, lock, req, check>>
  BY PlacesAndHolds DEF Tick, HoldInv
<1>2. \A r : Good(r, now) => Good(r, now')
  BY <1>1 DEF Good, Records
<1>3. RowOK(db, now)'
  <2>1. RowOK(db, now)
    BY DEF HoldInv
  <2>. QED
    BY <1>1, <1>2, <2>1 DEF RowOK, AtOK, AnswersOK, RecordsOK
<1>4. ASSUME NEW s \in Requests PROVE RequestInv(s)'
  BY <1>1, <1>2 DEF HoldInv, RequestInv, RequestOK, SeenOK, Reached
<1>5. LocksOK'
  BY <1>1 DEF HoldInv, LocksOK, Waiting
<1>. QED
  BY <1>1, <1>3, <1>4, <1>5, SameIsGrown DEF HoldInv, RequestInv, Leaves

\* A step that touches neither the row, nor its lock, nor a request.
LEMMA IdleStep ==
  ASSUME HoldInv, UNCHANGED <<db, lock, req, check, now>>
  PROVE  HoldInv' /\ Leaves /\ Grown
<1>1. LocksOK'
  BY LocksStay
<1>. QED
  BY <1>1, StandingRow, RowStep

LEMMA ReplyStep ==
  ASSUME HoldInv, NEW s \in Requests, Reply(s)
  PROVE  HoldInv' /\ Leaves /\ Grown
<1>1. NoRequest \in RequestRows /\ NoRequest.at = 0 /\ NoRequest.pc = "idle"
      /\ NoRequest.kind = "none" /\ 0 \notin Holds /\ NoRequest.reply.at = 0
  <2>1. NoRecord \in Records /\ 0 \in Nat /\ 0 \notin Holds
    BY PlacesAndHolds
  <2>2. Refusal("none") \in Replies /\ Refusal("none").at = 0
    BY DEF Refusal, Replies
  <2>. QED
    BY <2>1, <2>2 DEF NoRequest, RequestRows
<1>2. req' = [req EXCEPT ![s] = NoRequest] /\ UNCHANGED <<db, lock, check, now>>
  BY DEF Reply
<1>3. /\ req' \in [Requests -> RequestRows] /\ req'[s] = NoRequest
      /\ \A r \in Requests \ {s} : req'[r] = req[r]
  BY <1>1, <1>2 DEF HoldInv
<1>6. Reached(0)'
  BY <1>2, CursorIsReached DEF HoldInv, Reached
<1>4. RequestInv(s)'
  BY <1>1, <1>3, <1>6 DEF RequestInv, RequestOK, SeenOK, Reached
<1>5. LocksOK'
  BY <1>1, <1>2, <1>3, LocksStay
<1>. QED
  BY <1>2, <1>3, <1>4, <1>5, RequestStep

LEMMA NextHolds == HoldInv /\ [Next]_server => HoldInv' /\ Leaves /\ Grown
<1> SUFFICES ASSUME HoldInv, [Next]_server PROVE HoldInv' /\ Leaves /\ Grown
  OBVIOUS
<1>1. ASSUME NEW s \in Requests, Arrive(s) PROVE HoldInv' /\ Leaves /\ Grown
  BY <1>1, ArriveStep
<1>2. ASSUME NEW s \in Requests, Enter(s) PROVE HoldInv' /\ Leaves /\ Grown
  BY <1>2, EnterStep
<1>3. ASSUME NEW s \in Requests, Read(s) PROVE HoldInv' /\ Leaves /\ Grown
  BY <1>3, ReadStep
<1>4. ASSUME NEW s \in Requests, ReadLink(s) \/ Busy(s) \/ Lock(s) PROVE HoldInv' /\ Leaves /\ Grown
  BY <1>4, MoveStep
<1>5. ASSUME NEW s \in Requests, Commit(s) PROVE HoldInv' /\ Leaves /\ Grown
  BY <1>5, CommitStep
<1>6. ASSUME NEW s \in Requests, Reply(s) PROVE HoldInv' /\ Leaves /\ Grown
  BY <1>6, ReplyStep
<1>7. CASE (\E t \in Places : Send(t)) \/ SweepFlush \/ SweepDies \/ UNCHANGED server
  BY <1>7, IdleStep DEF Send, SweepFlush, SweepDies, server
<1>8. CASE CheckLock \/ CheckCommit
  BY <1>8, CheckStep
<1>9. CASE SweepRelease \/ SweepOverdue \/ SweepSkip \/ FailElsewhere
  BY <1>9, PollerStep
<1>10. CASE Tick
  BY <1>10, TickStep
<1>. QED
  BY <1>1, <1>2, <1>3, <1>4, <1>5, <1>6, <1>7, <1>8, <1>9, <1>10 DEF Next, Serve, Sweep

LEMMA HoldInvariant == Spec => []HoldInv
<1>1. Init => HoldInv
  BY InitHolds
<1>2. HoldInv /\ [Next]_server => HoldInv'
  BY NextHolds
<1>. QED
  BY <1>1, <1>2, PTL DEF Spec
-----------------------------------------------------------------------------
\* However requests, checks, sweeps and retries interleave, and whatever a
\* request read before it had the row, a page is answered once at most.
THEOREM PagesAreAnsweredOnce == Spec => []AnsweredOnce
<1>1. HoldInv => AnsweredOnce
  BY DEF HoldInv, RowOK, AnswersOK, AnsweredOnce
<1>. QED
  BY <1>1, HoldInvariant, PTL

\* No stale record of a hold lets the cursor past a barrier that has neither
\* released the participant nor seen them fail.
THEOREM HoldsAreLeftWhenCleared == Spec => LeavesWhenCleared
<1>1. HoldInv /\ [Next]_server =>
        [\A h \in Holds : db.at = h /\ db'.at # h => db'.link[h] = "released" \/ db'.failed]_server
  BY NextHolds DEF Leaves
<1>. QED
  BY <1>1, HoldInvariant, PTL DEF Spec, LeavesWhenCleared

\* The record of a hold that was left counts the wait up to its resume, also
\* when a request wrote it over one that had been counted meanwhile.
THEOREM HoldsAreSettledWhenLeft == Spec => []LeftIsSettled
<1>1. HoldInv => LeftIsSettled
  BY PlacesAndHolds DEF HoldInv, RowOK, RecordsOK, Good, LeftIsSettled
<1>. QED
  BY <1>1, HoldInvariant, PTL
=============================================================================
