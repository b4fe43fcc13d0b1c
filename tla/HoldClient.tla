----------------------------- MODULE HoldClient -----------------------------
(***************************************************************************)
(* The participant's browser tab on the way through TimelineHold's server: *)
(* submissions and their retries, the hold controller                      *)
(* (psynet/resources/scripts/psynet.js) and its socket                     *)
(* (psynet/resources/scripts/websocket-channel.js), on which the server's  *)
(* wakes arrive.                                                           *)
(*                                                                         *)
(* A tab has one request under way at most; requests it has given up on    *)
(* are still served.  Its pages record, so a submission whose reply was    *)
(* lost is sent again unchanged.  The waits between retries are left out.  *)
(***************************************************************************)
EXTENDS TimelineHold

CONSTANT MaxEvents  \* bound: faults, reloads, failures and clock ticks, together

ASSUME ClientAssumption == MaxEvents \in Nat

VARIABLES
  tab,     \* what the tab shows, and its submissionPageUuid
  secret,  \* of the unconfirmed submission (0: none), and how many were made
  hold,    \* the hold controller, its timers among it
  post,    \* the tab's request
  sock,    \* the hold's socket
  faults,  \* lost messages, dropped sockets, dead pollers
  others   \* reloads and failures of the participant

client == <<tab, secret, hold, post, sock>>
bounds == <<faults, others>>
vars == <<server, client, bounds>>

NoHold == [inFlight |-> FALSE, requested |-> FALSE, busyUsed |-> FALSE, timers |-> {}]
NoPost == [slot |-> None, kind |-> "none", busy |-> FALSE]

Room == faults + others + now < MaxEvents

\* The participant has started, in a tab that shows the first page.
ClientInit ==
  /\ Init
  /\ tab = [view |-> "page", page |-> 1]
  /\ secret = [unconfirmed |-> 0, made |-> 0]
  /\ hold = NoHold /\ post = NoPost
  /\ sock = "none"
  /\ faults = 0 /\ others = 0

\* stopTimelineHold, before the tab turns to view v of page p.
Leave(v, p) ==
  /\ tab' = [view |-> v, page |-> p]
  /\ hold' = NoHold /\ sock' = "none"

\* A request leaves the tab in a free slot, any of them.
Free == CHOOSE s \in Requests : req[s].pc = "idle"

Open(kind, uuid, c) ==
  /\ \E s \in Requests : req[s].pc = "idle"
  /\ Begin(Free, kind, uuid, c)
  /\ post' = [NoPost EXCEPT !.slot = Free, !.kind = kind]
-----------------------------------------------------------------------------
(* Submitting a page and loading one.                                      *)

\* nextPage, when nothing is pending.  An unconfirmed submission is sent again.
Submit ==
  /\ tab.view = "page" /\ tab.page \in Pages /\ post.slot = None
  /\ LET c == IF secret.unconfirmed # 0 THEN secret.unconfirmed ELSE secret.made + 1 IN
     /\ c \in Secrets
     /\ Open("submit", tab.page, c)
     /\ secret' = [unconfirmed |-> c, made |-> IF c > secret.made THEN c ELSE secret.made]
  /\ UNCHANGED <<db, lock, check, sweep, outbox, now, tab, hold, sock, bounds>>

\* The reply the tab reads; its slot is free again.
Got(kind) == post.slot # None /\ post.kind = kind /\ req[post.slot].pc = "done"
Reading == req[post.slot].reply.at
Answered == req[post.slot].reply.is
Taken == req' = [req EXCEPT ![post.slot] = NoRequest] /\ post' = NoPost

\* The same request again, after a busy reply.
Resend(again) ==
  /\ Begin(post.slot, post.kind, IF post.kind = "get" THEN 0 ELSE tab.page,
           IF post.kind = "submit" THEN secret.unconfirmed ELSE 0)
  /\ post' = again

\* handleApprovedResponse with a hold: beginTimelineHold keeps the controller
\* and its socket if there is one.
EnterHold(x, h) ==
  /\ tab' = [view |-> "hold", page |-> x]
  /\ hold' = [h EXCEPT !.busyUsed = FALSE,
                       !.timers = (@ \ {"busy"}) \cup {"safety", "timeout"}]
  /\ sock' = IF sock = "none" THEN "connecting" ELSE sock

Show(x) == IF x \in Holds THEN EnterHold(x, NoHold) ELSE Leave("page", x)

SubmitReply ==
  /\ Got("submit") /\ Answered # "busy"
  /\ Taken
  /\ secret' = [secret EXCEPT !.unconfirmed = 0]
  /\ IF Answered = "rejected" THEN UNCHANGED <<tab, hold, sock>> ELSE Show(Reading)
  /\ UNCHANGED <<db, lock, check, sweep, outbox, now, bounds>>

\* Busy: nothing was written.  Some retries later the participant is told.
SubmitBusy ==
  /\ Got("submit") /\ Answered = "busy"
  /\ \/ ~post.busy /\ Resend([post EXCEPT !.busy = TRUE])
     \/ Taken
  /\ UNCHANGED <<db, lock, check, sweep, outbox, now, tab, secret, hold, sock, bounds>>

\* GET /timeline: a busy page refreshes itself.
LoadReply ==
  /\ Got("get")
  /\ IF Answered = "busy" THEN Resend(post) /\ UNCHANGED <<tab, hold, sock>>
     ELSE Taken /\ Show(Reading)
  /\ UNCHANGED <<db, lock, check, sweep, outbox, now, secret, bounds>>

\* A new document: all that the tab knew is gone.
Load ==
  /\ Open("get", 0, 0)
  /\ Leave("loading", tab.page)
  /\ secret' = [secret EXCEPT !.unconfirmed = 0]

Reload ==
  /\ Room /\ others' = others + 1 /\ tab.page # End
  /\ Load
  /\ UNCHANGED <<db, lock, check, sweep, outbox, now, faults>>
-----------------------------------------------------------------------------
(* The hold controller.                                                    *)

Holding == tab.view = "hold"

\* resumeTimelineHold, with a controller h that has dropped what called it.
Resume(h) ==
  IF h.inFlight
  THEN hold' = [h EXCEPT !.requested = TRUE] /\ UNCHANGED <<req, post>>
  ELSE /\ hold' = [h EXCEPT !.inFlight = TRUE, !.requested = FALSE,
                            !.timers = @ \ {"safety"}]
       /\ Open("resume", tab.page, 0)

\* Its finally: a wake that came meanwhile is queued, else the poll is armed.
Finally(h) ==
  IF h.requested
  THEN [h EXCEPT !.inFlight = FALSE, !.requested = FALSE, !.timers = @ \cup {"queued"}]
  ELSE [h EXCEPT !.inFlight = FALSE, !.timers = @ \cup {"safety"}]

\* The hold still stands, or another has taken its place.  (A resume is
\* rejected only when another tab has answered a page since.)
ResumeHeld ==
  /\ Got("resume") /\ Answered = "page" /\ Reading \in Holds
  /\ Taken /\ EnterHold(Reading, Finally(hold))
  /\ UNCHANGED <<db, lock, check, sweep, outbox, now, secret, bounds>>

ResumePage ==
  /\ Got("resume") /\ Answered = "page" /\ Reading \notin Holds
  /\ Taken /\ Leave("page", Reading)
  /\ UNCHANGED <<db, lock, check, sweep, outbox, now, secret, bounds>>

\* handleBusyResponse: one retry in the request, one resume of its own.
ResumeBusy ==
  /\ Got("resume") /\ Answered = "busy"
  /\ IF ~post.busy THEN Resend([post EXCEPT !.busy = TRUE]) /\ UNCHANGED hold
     ELSE /\ Taken
          /\ hold' = Finally(IF hold.busyUsed THEN hold
                             ELSE [hold EXCEPT !.busyUsed = TRUE, !.timers = @ \cup {"busy"}])
  /\ UNCHANGED <<db, lock, check, sweep, outbox, now, tab, secret, sock, bounds>>

\* A timer fires, the deadline's not before it.
Timer(t) ==
  /\ t \in hold.timers
  /\ t = "timeout" => now >= db.rec[tab.page].started + MaxWait
  /\ Resume([hold EXCEPT !.timers = @ \ {t}])
  /\ UNCHANGED <<db, lock, check, sweep, outbox, now, tab, secret, sock>>

\* The safety poll: needed once something was lost, or the hold's own retries
\* met busy replies; before that, a poll is one of the bounded events.
Needed == faults > 0 \/ hold.busyUsed

SafetyPoll ==
  /\ Timer("safety")
  /\ IF Needed THEN UNCHANGED bounds ELSE Room /\ others' = others + 1 /\ UNCHANGED faults
-----------------------------------------------------------------------------
(* The socket.  "registered": directed sends reach it; "listening": the    *)
(* probe has come back; "deaf": it came back before the registration.      *)

Relaying == sock \in {"registered", "listening"}

Register ==
  /\ sock \in {"connecting", "deaf"}
  /\ sock' = IF sock = "deaf" THEN "listening" ELSE "registered"
  /\ UNCHANGED <<server, tab, secret, hold, post, bounds>>

\* markListening: onOpen resumes the hold.
Echo ==
  /\ sock = "registered" /\ sock' = "listening"
  /\ Resume(hold)
  /\ UNCHANGED <<db, lock, check, sweep, outbox, now, tab, secret, bounds>>

\* A variant that drops a wake for any other hold.
HeardOnlyOwn(t) == IF t = tab.page THEN Resume(hold) ELSE UNCHANGED <<hold, req, post>>

\* onDirect: a wake for another hold counts only while a resume is under way,
\* as its reply may bring that hold.
Heard(t) ==
  IF t = tab.page THEN Resume(hold)
  ELSE hold' = [hold EXCEPT !.requested = @ \/ hold.inFlight] /\ UNCHANGED <<req, post>>

\* A wake reaches the tab if its socket is registered, and is lost otherwise;
\* the delays of the sender and of the network are one.
Receive(t) ==
  /\ t \in outbox /\ outbox' = outbox \ {t}
  /\ IF Relaying THEN Heard(t) ELSE UNCHANGED <<hold, req, post>>
  /\ UNCHANGED <<db, lock, check, sweep, now, tab, secret, sock, bounds>>
-----------------------------------------------------------------------------
(* Faults.                                                                 *)

Fault == Room /\ faults' = faults + 1 /\ UNCHANGED others

\* The request, or its reply, is lost or late: the tab goes on without it,
\* the server may not.  A submission is sent again until its tries are used
\* up, a resume is left to the safety poll, a page that did not load to the
\* participant.
CutSubmit ==
  /\ post.kind = "submit" /\ Open("submit", tab.page, secret.unconfirmed)
  /\ UNCHANGED <<tab, hold, sock>>

\* A variant in which the request the tab gives up on stops at the server.
AbandonStops ==
  /\ req' = [req EXCEPT ![post.slot] = NoRequest]
  /\ post' = NoPost
  /\ IF post.kind = "get" THEN Leave("error", tab.page)
     ELSE /\ hold' = IF post.kind = "resume" THEN Finally(hold) ELSE hold
          /\ UNCHANGED <<tab, sock>>

Abandon ==
  /\ req' = [req EXCEPT ![post.slot] = IF @.pc = "done" THEN NoRequest ELSE @]
  /\ post' = NoPost
  /\ IF post.kind = "get" THEN Leave("error", tab.page)
     ELSE /\ hold' = IF post.kind = "resume" THEN Finally(hold) ELSE hold
          /\ UNCHANGED <<tab, sock>>

Cut ==
  /\ Fault /\ post.slot # None
  /\ CutSubmit \/ Abandon
  /\ UNCHANGED <<db, lock, check, sweep, outbox, now, secret>>

\* The echo overtakes a slow registration.
SlowRegistration ==
  /\ Fault /\ sock = "connecting" /\ sock' = "deaf"
  /\ Resume(hold)
  /\ UNCHANGED <<db, lock, check, sweep, outbox, now, tab, secret>>

\* The connection breaks; ReconnectingWebSocket opens another.
Drop ==
  /\ Fault /\ sock # "none" /\ sock' = "connecting"
  /\ UNCHANGED <<server, tab, secret, hold, post>>

PollerDies == Fault /\ SweepDies /\ UNCHANGED client

\* The reply to a request the tab has given up on.
Unread(s) == s # post.slot /\ Reply(s) /\ UNCHANGED <<client, bounds>>
-----------------------------------------------------------------------------
\* Who holds the participant's row commits.
Holder ==
  (CheckCommit \/ \E s \in Requests : Commit(s)) /\ UNCHANGED <<client, bounds>>

Server ==
  /\ \/ SweepSkip \/ SweepFlush
     \/ \E s \in Requests : Enter(s) \/ Read(s) \/ ReadLink(s) \/ Lock(s) \/ Busy(s)
  /\ UNCHANGED <<client, bounds>>

Others ==
  \/ (CheckLock \/ SweepRelease \/ SweepOverdue) /\ UNCHANGED <<client, bounds>>
  \/ Room /\ Tick /\ UNCHANGED <<client, bounds>>
  \/ Room /\ FailElsewhere /\ others' = others + 1 /\ UNCHANGED <<client, faults>>

Tab ==
  \/ SubmitReply \/ SubmitBusy \/ LoadReply
  \/ ResumeHeld \/ ResumePage \/ ResumeBusy
  \/ \E t \in hold.timers \ {"safety"} : Timer(t) /\ UNCHANGED bounds

Network ==
  Register \/ Echo \/ (\E t \in Places : Receive(t)) \/ (\E s \in Requests : Unread(s))

ClientNext ==
  \/ Holder \/ Server \/ Tab \/ Network \/ SafetyPoll \/ Others
  \/ Submit \/ Reload \/ Cut \/ SlowRegistration \/ Drop \/ PollerDies

ClientSpec == ClientInit /\ [][ClientNext]_vars

\* What has begun goes on: who holds the row commits, and the server, the
\* network and the browser's callbacks and timers, the safety poll among them
\* where it is needed, do not all stop.
FairSpec ==
  /\ ClientSpec
  /\ WF_vars(Holder)
  /\ WF_vars(Server \/ Tab \/ Network \/ (Needed /\ SafetyPoll))
-----------------------------------------------------------------------------
\* The tab uses the server as its own specification says it may be used:
\* whatever the browser sends, loses or repeats is a request that TimelineHold
\* allows, and a request that was given up on is still served.
ServerSpec == Spec

\* A tab does not stay in a hold that the participant may leave.
Cleared(h) == db.at # h \/ Ready(db, h)
HoldIsLeft == []<>~(Holding /\ Cleared(tab.page))
=============================================================================
