---------------------------- MODULE TimelineHold ----------------------------
(***************************************************************************)
(* The server's side of one participant's way through timeline holds       *)
(* (psynet/timeline_hold.py, psynet/sync.py and the request handlers of    *)
(* psynet/experiment.py): the participant's requests, the checks that      *)
(* release the barriers the holds wait for, and the poller.                *)
(*                                                                         *)
(* Requests read rows before they lock the participant's row.  The ORM     *)
(* refreshes the participant when it is locked, but keeps the hold record  *)
(* it has already read; an UPDATE writes only the columns a transaction    *)
(* changed.  Everybody who writes a hold record or a barrier link holds    *)
(* the participant's row, so what happens under it is one step, its commit.*)
(***************************************************************************)
EXTENDS Naturals, Sequences, FiniteSets

CONSTANTS
  Timeline,      \* the kind of each page, "page" or "hold", in order; the
                 \* participant starts at an ordinary page
  MaxWait,       \* max_wait_time of the barriers, in clock units
  MaxWaitFails,  \* whether their max_wait_action is "fail"
  Requests,      \* slots for requests the server is processing
  Secrets,       \* recording_recovery_secret of a submission
  None,          \* no request
  MaxTime        \* bound: the clock

ASSUME TimelineAssumption ==
  /\ Timeline \in Seq({"page", "hold"}) /\ Timeline # <<>> /\ Timeline[1] = "page"
  /\ MaxWait \in Nat \ {0} /\ MaxWaitFails \in BOOLEAN
  /\ MaxTime \in Nat
  /\ Secrets \subseteq Nat \ {0}
  /\ None \notin Requests \cup {"check"} /\ "check" \notin Requests

VARIABLES
  db,      \* the committed rows of the participant
  lock,    \* who holds the participant's row
  req,     \* the requests in progress
  check,   \* a last-arrival check in a partner's request
  sweep,   \* the poller, and the wakes it has stashed
  outbox,  \* wakes of committed transactions, not yet sent
  now

server == <<db, lock, req, check, sweep, outbox, now>>

\* Pages are named by their place in the timeline; each is consumed once, so
\* the place stands for its page_uuid and for a hold's wake_token.
End == Len(Timeline) + 1
Places == 1..End
Holds == {i \in DOMAIN Timeline : Timeline[i] = "hold"}
Never == MaxTime + 1

NoRecord == [started |-> Never, released |-> Never, resumed |-> Never,
             actual |-> 0, credited |-> 0, count |-> 0]

NoReceipt == [secret |-> 0, next |-> 0]

\* at: the cursor; count: page_count; credit: time_credit earned by waiting;
\* answers: accepted responses; receipt: recording_receipt of a page;
\* wakes: what the transaction in progress has queued (none when committed).
StartRow ==
  [at |-> 1, count |-> 1, failed |-> FALSE, credit |-> 0,
   answers |-> [i \in Places |-> 0], receipt |-> [i \in Places |-> NoReceipt],
   link |-> [h \in Holds |-> "none"], rec |-> [h \in Holds |-> NoRecord], wakes |-> {}]

\* A reply: the page the participant is at, or a refusal.
Page(x) == [is |-> "page", at |-> x]
Refusal(why) == [is |-> why, at |-> 0]

NoRequest == [pc |-> "idle", kind |-> "none", uuid |-> 0, secret |-> 0,
              at |-> 0, seen |-> NoRecord, reply |-> Refusal("none")]

Init ==
  /\ db = StartRow /\ lock = None
  /\ req = [s \in Requests |-> NoRequest]
  /\ check = "idle"
  /\ sweep = [pc |-> "idle", stash |-> {}]
  /\ outbox = {} /\ now = 0
-----------------------------------------------------------------------------
(* What a transaction does to its view v of the rows.                      *)

Least(a, b) == IF a < b THEN a ELSE b

\* TimelineHoldRecord.account_until
AccountUntil(v, h, t) ==
  LET r == v.rec[h]
      elapsed == Least(t, r.resumed) - r.started
      due == Least(elapsed, MaxWait)
  IN IF elapsed <= r.actual THEN v
     ELSE IF due <= r.credited THEN [v EXCEPT !.rec[h].actual = elapsed]
     ELSE [v EXCEPT !.rec[h].actual = elapsed, !.rec[h].credited = due,
                    !.credit = @ + (due - r.credited)]

MarkReleased(v, h, t) ==
  AccountUntil([v EXCEPT !.rec[h].released = Least(@, t)], h, t)

Settle(v, h, t) ==
  IF v.rec[h].resumed # Never THEN v
  ELSE [MarkReleased(v, h, t) EXCEPT !.rec[h].resumed = t]

\* A wake is queued for a hold that has not been resumed.
Wake(v, h) ==
  IF h \in Holds /\ v.rec[h].started # Never /\ v.rec[h].resumed = Never
  THEN [v EXCEPT !.wakes = @ \cup {h}] ELSE v

\* ParticipantLinkBarrier.release
ReleaseLink(v, h) ==
  IF v.link[h] # "waiting" THEN v
  ELSE Wake(MarkReleased([v EXCEPT !.link[h] = "released"], h, now), h)

\* Participant.fail: a redirect to the end is queued until the next advance.
Fail(v) == IF v.failed THEN v ELSE Wake([v EXCEPT !.failed = TRUE], v.at)

\* A barrier hold that was released does not time out.
TimedOut(r) == r.released = Never /\ now >= r.started + MaxWait

ApplyTimeout(v, h) == IF MaxWaitFails THEN Fail(ReleaseLink(v, h)) ELSE ReleaseLink(v, h)

\* is_ready_to_resume, and what prepare_resume_if_ready then does.
Ready(v, h) == v.failed \/ TimedOut(v.rec[h]) \/ v.link[h] # "waiting"

Prepare(v, h) ==
  IF v.failed THEN ReleaseLink(v, h)
  ELSE IF TimedOut(v.rec[h]) THEN ApplyTimeout(v, h) ELSE v

\* Timeline.advance_page: a queued redirect leads to the end; a hold page is
\* consumed by creating its record, and its barrier receives the participant.
Advance(v) ==
  LET next == IF v.failed THEN End ELSE v.at + 1
      u == [v EXCEPT !.at = next, !.count = @ + 1]
  IN IF next \in Holds
     THEN [u EXCEPT !.link[next] = "waiting",
                    !.rec[next] = [NoRecord EXCEPT !.started = now, !.count = u.count]]
     ELSE u

\* A variant that leaves the hold without settling it.
LeaveHoldUnsettled(v) == Advance(Prepare(v, v.at))

LeaveHold(v) == Advance(Settle(Prepare(v, v.at), v.at, now))

\* A variant that skips a hold whether it is ready or not.
AdvancePastAny(v) == IF v.at \in Holds THEN LeaveHold(v) ELSE v

\* One hold at most: the next one has just been consumed, and its barrier is
\* only checked after the commit.
AdvancePastReadyHolds(v) == IF v.at \in Holds /\ Ready(v, v.at) THEN LeaveHold(v) ELSE v

\* for_stale_hold_resume: since that hold the participant has met only holds.
CatchUp(v, u) ==
  /\ u \in Holds /\ v.rec[u].started # Never
  /\ v.count > v.rec[u].count
  /\ Cardinality({h \in Holds : v.rec[h].count > v.rec[u].count /\ v.rec[h].count < v.count})
       = v.count - v.rec[u].count - 1
-----------------------------------------------------------------------------
(* Requests: reading, then locking, then one commit.                       *)

\* The session of request s: the rows as they are now, except for the hold
\* record it read before.
Session(s) ==
  IF req[s].at \in Holds THEN [db EXCEPT !.rec[req[s].at] = req[s].seen] ELSE db

\* An UPDATE writes the columns that differ from what was loaded.
Changed(loaded, mine, theirs) ==
  [f \in DOMAIN loaded |-> IF mine[f] = loaded[f] THEN theirs[f] ELSE mine[f]]

Written(s, v) ==
  LET h == req[s].at IN
  [(IF h \in Holds THEN [v EXCEPT !.rec[h] = Changed(req[s].seen, @, db.rec[h])] ELSE v)
   EXCEPT !.wakes = {}]

Begin(s, kind, uuid, secret) ==
  req' = [req EXCEPT ![s] = [NoRequest EXCEPT
    !.pc = IF kind = "resume" THEN "read" ELSE IF kind = "get" THEN "enter" ELSE "lock",
    !.kind = kind, !.uuid = uuid, !.secret = secret]]

Answer(s, x) ==
  req' = [req EXCEPT ![s] = [NoRequest EXCEPT !.pc = "done", !.kind = req[s].kind, !.reply = x]]

\* GET /timeline first takes the row; get_current_page replaces an ordinary
\* page the participant has been redirected away from.
Enter(s) ==
  /\ req[s].pc = "enter" /\ lock = None
  /\ db' = IF db.failed /\ db.at \notin Holds \cup {End} THEN Advance(db) ELSE db
  /\ req' = [req EXCEPT ![s].pc = "read"]
  /\ UNCHANGED <<lock, check, sweep, outbox, now>>

\* _resolve_get_timeline_hold and _unready_hold_resume_result: the cursor and
\* the hold record are read without a lock.  Failed and timed-out holds need
\* nothing more to be ready.
Read(s) ==
  /\ req[s].pc = "read"
  /\ LET current == db.at \in Holds /\ (req[s].kind = "get" \/ req[s].uuid = db.at)
         seen == db.rec[db.at]
     IN IF current
        THEN req' = [req EXCEPT ![s].at = db.at, ![s].seen = seen,
                       ![s].pc = IF db.failed \/ TimedOut(seen) THEN "lock" ELSE "link"]
        ELSE IF req[s].kind = "get" THEN Answer(s, Page(db.at))
        ELSE req' = [req EXCEPT ![s].pc = "lock"]
  /\ UNCHANGED <<db, lock, check, sweep, outbox, now>>

\* participant_can_resume: a separate query, which sees later commits.  The
\* check a waiting GET then makes to recover a dropped one, and the lock it
\* takes after that, are left to CheckLock and to the next GET.
ReadLink(s) ==
  /\ req[s].pc = "link"
  /\ IF db.link[req[s].at] = "waiting" THEN Answer(s, Page(req[s].at))
     ELSE req' = [req EXCEPT ![s].pc = "lock"]
  /\ UNCHANGED <<db, lock, check, sweep, outbox, now>>

Lock(s) ==
  /\ req[s].pc = "lock" /\ lock = None
  /\ lock' = s
  /\ req' = [req EXCEPT ![s].pc = "locked"]
  /\ UNCHANGED <<db, check, sweep, outbox, now>>

\* 503: a resume takes the row NOWAIT, the others wait until lock_timeout.
Busy(s) ==
  /\ req[s].pc \in {"enter", "lock"} /\ lock # None
  /\ Answer(s, Refusal("busy"))
  /\ UNCHANGED <<db, lock, check, sweep, outbox, now>>

\* An ordinary answer: _accept_response, advance_page, and the receipt that
\* lets the same submission be replayed while its successor is current.
Accept(v, s) ==
  LET u == req[s].uuid
      w == Advance([v EXCEPT !.answers[u] = @ + 1])
  IN [w EXCEPT !.receipt[u] = [secret |-> req[s].secret, next |-> w.at]]

\* The hold a catch-up came from is settled, if it was not.
SettleStale(v, u) == IF CatchUp(v, u) THEN Settle(v, u, now) ELSE v

Redirected(v) == v.failed /\ v.at \notin Holds \cup {End}

\* process_response: what becomes of view v, and whether u is approved.
RespondCurrent(s, v, u) ==
  IF v.at \notin Holds THEN Accept(v, s)
  ELSE IF Ready(v, u) THEN LeaveHold(v) ELSE AccountUntil(v, u, now)

\* A variant that takes any answer for one to the current page.
RespondPostAny(s, v, u) ==
  IF req[s].kind = "submit" /\ v.at # End THEN [v |-> Accept(v, s), ok |-> TRUE]
  ELSE [v |-> v, ok |-> FALSE]

RespondPost(s, v, u) ==
  IF req[s].kind = "submit" /\ v.receipt[u].secret = req[s].secret
  THEN [v |-> v, ok |-> v.receipt[u].next = v.at]
  ELSE IF u # v.at /\ ~CatchUp(v, u) THEN [v |-> v, ok |-> FALSE]
  ELSE IF Redirected(v) THEN [v |-> Advance(SettleStale(v, u)), ok |-> TRUE]
  ELSE IF u # v.at THEN [v |-> AdvancePastReadyHolds(SettleStale(v, u)), ok |-> TRUE]
  ELSE [v |-> RespondCurrent(s, v, u), ok |-> TRUE]

\* GET only skips ready holds.
Respond(s, v) ==
  IF req[s].kind = "get" THEN [v |-> AdvancePastReadyHolds(v), ok |-> TRUE]
  ELSE RespondPost(s, v, req[s].uuid)

\* Wakes are sent after the commit.  An arrival check of the request's own, and
\* the skip after it, are left to CheckLock and to the participant's next GET.
Commit(s) ==
  /\ req[s].pc = "locked"
  /\ \E v \in {Session(s)} : \E r \in {Respond(s, v)} :
     /\ db' = Written(s, r.v)
     /\ outbox' = outbox \cup r.v.wakes
     /\ Answer(s, IF r.ok THEN Page(r.v.at) ELSE Refusal("rejected"))
  /\ lock' = None
  /\ UNCHANGED <<check, sweep, now>>
-----------------------------------------------------------------------------
(* Checks of the barrier the participant waits at.  They lock the row      *)
(* NOWAIT, and read the hold record after that.                            *)

Waiting == db.at \in Holds /\ db.link[db.at] = "waiting" /\ ~db.failed

\* In a partner's request: the cursor of the released participant stays.
CheckLock ==
  /\ check = "idle" /\ lock = None /\ Waiting
  /\ check' = "locked" /\ lock' = "check"
  /\ UNCHANGED <<db, req, sweep, outbox, now>>

CheckCommit ==
  /\ check = "locked"
  /\ LET v == ReleaseLink(db, db.at) IN
     /\ db' = [v EXCEPT !.wakes = {}]
     /\ outbox' = outbox \cup v.wakes
  /\ check' = "idle" /\ lock' = None
  /\ UNCHANGED <<req, sweep, now>>

\* In the poller: wakes are stashed until the end of the sweep, and the
\* participant it released is advanced in a second transaction.
Stash(v, pc) ==
  /\ db' = [v EXCEPT !.wakes = {}]
  /\ sweep' = [pc |-> pc, stash |-> sweep.stash \cup v.wakes]

SweepRelease ==
  /\ sweep.pc = "idle" /\ lock = None /\ Waiting
  /\ Stash(ReleaseLink(db, db.at), "skip")
  /\ UNCHANGED <<lock, req, check, outbox, now>>

\* _time_out_overdue_links
SweepOverdue ==
  /\ sweep.pc = "idle" /\ lock = None
  /\ db.at \in Holds /\ db.link[db.at] = "waiting" /\ ~db.failed /\ TimedOut(db.rec[db.at])
  /\ Stash(ApplyTimeout(db, db.at), "flush")
  /\ UNCHANGED <<lock, req, check, outbox, now>>

\* _advance_released_hold_waiters_after_commit: NOWAIT, a miss is left to the
\* participant's own requests.
SweepSkip ==
  /\ sweep.pc = "skip"
  /\ Stash(IF lock = None THEN AdvancePastReadyHolds(db) ELSE db, "flush")
  /\ UNCHANGED <<lock, req, check, outbox, now>>

SweepFlush ==
  /\ sweep.pc = "flush"
  /\ outbox' = outbox \cup sweep.stash
  /\ sweep' = [pc |-> "idle", stash |-> {}]
  /\ UNCHANGED <<db, lock, req, check, now>>

\* The poller's process dies: its stash is lost.
SweepDies ==
  /\ sweep.pc # "idle"
  /\ sweep' = [pc |-> "idle", stash |-> {}]
  /\ UNCHANGED <<db, lock, req, check, outbox, now>>

\* The participant is failed in another request, as when a partner leaves.
FailElsewhere ==
  /\ lock = None /\ ~db.failed /\ db.at # End
  /\ LET v == Fail(db) IN
     /\ db' = [v EXCEPT !.wakes = {}]
     /\ outbox' = outbox \cup v.wakes
  /\ UNCHANGED <<lock, req, check, sweep, now>>

Tick == now < MaxTime /\ now' = now + 1 /\ UNCHANGED <<db, lock, req, check, sweep, outbox>>
-----------------------------------------------------------------------------
(* The server alone: requests come from any tab, and replies may be lost.  *)

Pages == DOMAIN Timeline \ Holds

\* A slot is free again when its reply has been read or lost.  A request may
\* come at once when a wake is sent.
Arrive(s) ==
  /\ req[s].pc \in {"idle", "done"}
  /\ \/ \E u \in Holds : db.rec[u].started # Never /\ Begin(s, "resume", u, 0)
     \/ \E u \in Pages, c \in Secrets : u <= db.at /\ Begin(s, "submit", u, c)
     \/ Begin(s, "get", 0, 0)
  /\ outbox' = outbox \/ \E t \in outbox : outbox' = outbox \ {t}
  /\ UNCHANGED <<db, lock, check, sweep, now>>

Reply(s) ==
  /\ req[s].pc = "done"
  /\ req' = [req EXCEPT ![s] = NoRequest]
  /\ UNCHANGED <<db, lock, check, sweep, outbox, now>>

Send(t) ==
  /\ t \in outbox /\ outbox' = outbox \ {t}
  /\ UNCHANGED <<db, lock, req, check, sweep, now>>

Serve(s) == Enter(s) \/ Read(s) \/ ReadLink(s) \/ Lock(s) \/ Busy(s) \/ Commit(s)

Sweep ==
  SweepRelease \/ SweepOverdue \/ SweepSkip \/ SweepFlush \/ SweepDies

Next ==
  \/ \E s \in Requests : Arrive(s) \/ Serve(s) \/ Reply(s)
  \/ \E t \in Places : Send(t)
  \/ CheckLock \/ CheckCommit \/ Sweep \/ FailElsewhere \/ Tick

Spec == Init /\ [][Next]_server
-----------------------------------------------------------------------------
\* No page is answered twice, although submissions are repeated when their
\* reply is lost, come from other tabs, or arrive after the page was left.
AnsweredOnce == \A i \in Places : db.answers[i] <= 1

\* The cursor leaves a hold only when its barrier has released the
\* participant or the participant has failed, whatever was read before.
LeavesWhenCleared ==
  [][\A h \in Holds : db.at = h /\ db'.at # h => db'.link[h] = "released" \/ db'.failed]_server

\* A hold that was left has been settled, whichever request, sweep or
\* catch-up moved the cursor: its record counts the wait up to the resume.
LeftIsSettled ==
  \A h \in Holds : db.rec[h].started # Never /\ db.at # h =>
    /\ db.rec[h].resumed # Never
    /\ db.rec[h].credited = Least(db.rec[h].resumed - db.rec[h].started, MaxWait)

\* sync.py, participant_timed_out: "A release counts even if it came after
\* the deadline": no request fails a participant the barrier has released.
ReleasedGoesOn ==
  [][\A s \in Requests : lock = s /\ ~db.failed /\ db'.failed => db.link[db.at] # "released"]_server
=============================================================================
