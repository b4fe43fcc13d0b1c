-------------------------- MODULE HoldClientProofs --------------------------
(***************************************************************************)
(* The browser tab keeps to TimelineHold: every step of a tab with its     *)
(* server is a step that the server's own specification allows, or none    *)
(* of the server's.                                                        *)
(***************************************************************************)
EXTENDS HoldClient, TimelineHoldProofs

Posts == [slot : Requests \cup {None}, kind : {"none", "get", "submit", "resume"},
          busy : BOOLEAN]

\* The tab shows what the participant has reached, and keeps a controller
\* and a socket in a hold only.
TabOK ==
  /\ tab.view \in {"page", "hold"} => tab.page \in Nat /\ Reached(tab.page)
  /\ tab.view = "hold" => tab.page \in Holds
  /\ tab.view # "hold" => hold.timers = {} /\ sock = "none"

\* Its request is about what it shows.
PostOK ==
  /\ post \in Posts
  /\ post.slot # None => post.kind # "none"
  /\ post.kind = "submit" =>
       tab.view = "page" /\ tab.page \in Pages /\ secret.unconfirmed \in Secrets
  /\ post.kind = "resume" => tab.view = "hold"

ClientInv == HoldInv /\ TabOK /\ PostOK

\* What a tab may ask.
Askable(kind, u, c) ==
  \/ kind = "get" /\ u = 0 /\ c = 0
  \/ kind = "submit" /\ u \in Pages /\ u <= db.at /\ c \in Secrets
  \/ kind = "resume" /\ u \in Holds /\ db.rec[u].started # Never /\ c = 0

\* The rows stay; a wake may be sent.
RowsStay ==
  /\ UNCHANGED <<db, lock, check, sweep, now>>
  /\ outbox' = outbox \/ \E t \in Places : t \in outbox /\ outbox' = outbox \ {t}

\* The server's part of a step, and the tab's.
Allowed == [Next]_server /\ TabOK' /\ PostOK'
-----------------------------------------------------------------------------
(* Requests the tab makes and replies it takes.                            *)

LEMMA BeginIsArrival ==
  ASSUME NEW s \in Requests, req[s].pc \in {"idle", "done"},
         NEW kind, NEW u, NEW c, Askable(kind, u, c), Begin(s, kind, u, c), RowsStay
  PROVE  Next
<1>1. outbox' = outbox \/ \E t \in outbox : outbox' = outbox \ {t}
  BY DEF RowsStay
<1>2. Arrive(s)
  BY <1>1 DEF Arrive, Askable, RowsStay
<1>. QED
  BY <1>2 DEF Next

LEMMA OpenIsArrival ==
  ASSUME NEW kind \in {"get", "submit", "resume"}, NEW u, NEW c,
         Askable(kind, u, c), Open(kind, u, c), RowsStay
  PROVE  Next /\ post' \in Posts /\ post'.kind = kind /\ post'.slot # None
<1>1. Free \in Requests /\ req[Free].pc = "idle"
  BY DEF Open, Free
<1>2. Begin(Free, kind, u, c) /\ post' = [NoPost EXCEPT !.slot = Free, !.kind = kind]
  BY DEF Open
<1> HIDE DEF Free
<1>3. Next
  BY <1>1, <1>2, BeginIsArrival
<1>4. Free # None
  BY <1>1, TimelineAssumption
<1>. QED
  BY <1>1, <1>2, <1>3, <1>4 DEF NoPost, Posts

LEMMA TakenIsReply ==
  ASSUME PostOK, NEW kind, Got(kind), Taken,
         UNCHANGED <<db, lock, check, sweep, outbox, now>>
  PROVE  Next /\ post' \in Posts /\ post'.kind = "none" /\ post'.slot = None
<1>1. post.slot \in Requests
  BY DEF Got, PostOK, Posts
<1>2. Reply(post.slot)
  BY DEF Reply, Got, Taken
<1>. QED
  BY <1>1, <1>2 DEF Next, Taken, NoPost, Posts

\* A busy reply: the same again.
LEMMA ResendIsArrival ==
  ASSUME ClientInv, NEW kind \in {"get", "submit", "resume"}, Got(kind),
         NEW again \in {post, [post EXCEPT !.busy = TRUE]}, Resend(again),
         UNCHANGED <<db, lock, check, sweep, outbox, now, tab, secret, hold, sock>>
  PROVE  Allowed
<1>1. post.slot \in Requests /\ req[post.slot].pc = "done" /\ post.kind = kind
      /\ post \in Posts /\ post.slot # None
  BY DEF Got, ClientInv, PostOK, Posts
<1> DEFINE u == IF post.kind = "get" THEN 0 ELSE tab.page
           c == IF post.kind = "submit" THEN secret.unconfirmed ELSE 0
<1>2. Begin(post.slot, kind, u, c) /\ post' = again
  BY <1>1 DEF Resend
<1>3. Askable(kind, u, c)
  BY <1>1 DEF Askable, ClientInv, TabOK, PostOK, Reached
<1>4. RowsStay
  BY DEF RowsStay
<1> HIDE DEF u, c
<1>5. Next
  BY <1>1, <1>2, <1>3, <1>4, BeginIsArrival
<1>6. post' \in Posts /\ post'.kind = post.kind /\ post'.slot = post.slot
  BY <1>1, <1>2 DEF Posts
<1>7. TabOK' /\ PostOK'
  BY <1>6 DEF ClientInv, TabOK, PostOK, Reached
<1>. QED
  BY <1>5, <1>7 DEF Allowed

LEMMA ReplyIsReached ==
  ASSUME ClientInv, NEW kind, Got(kind)
  PROVE  Reading \in Nat /\ Reached(Reading)
<1>1. post.slot \in Requests
  BY DEF Got, ClientInv, PostOK, Posts
<1>. QED
  BY <1>1 DEF ClientInv, HoldInv, RequestRows, Replies, Reading

\* The tab turns to what the reply shows.
LEMMA TurnTo ==
  ASSUME NEW x \in Nat, Reached(x), UNCHANGED db,
         (x \in Holds /\ \E h : EnterHold(x, h)) \/ Leave("page", x)
  PROVE  TabOK'
<1>1. CASE x \in Holds /\ \E h : EnterHold(x, h)
  <2>1. tab' = [view |-> "hold", page |-> x]
    BY <1>1 DEF EnterHold
  <2>. QED
    BY <1>1, <2>1 DEF TabOK, Reached
<1>2. CASE Leave("page", x)
  BY <1>2 DEF Leave, NoHold, TabOK, Reached
<1>. QED
  BY <1>1, <1>2

\* A tab that is left, with nothing to show.
LEMMA TurnAway ==
  ASSUME NEW v \in {"loading", "error"}, NEW p, Leave(v, p)
  PROVE  TabOK' /\ tab'.view = v
BY DEF Leave, NoHold, TabOK

LEMMA ResumeIsAllowed ==
  ASSUME ClientInv, tab.view = "hold", NEW h, Resume(h), RowsStay,
         tab' = tab, secret' = secret,
         sock' = sock \/ sock' \in {"listening", "deaf"}
  PROVE  Allowed
<1>1. UNCHANGED db
  BY DEF RowsStay
<1>2. TabOK'
  BY <1>1 DEF ClientInv, TabOK, Reached
<1>3. CASE h.inFlight
  <2>1. UNCHANGED <<req, post>>
    BY <1>3 DEF Resume
  <2>2. [Next]_server
    <3>1. CASE outbox' = outbox
      BY <2>1, <3>1 DEF RowsStay, server
    <3>2. CASE \E t \in Places : t \in outbox /\ outbox' = outbox \ {t}
      BY <2>1, <3>2 DEF RowsStay, Next, Send
    <3>. QED
      BY <3>1, <3>2 DEF RowsStay
  <2>3. PostOK'
    BY <2>1 DEF ClientInv, PostOK
  <2>. QED
    BY <1>2, <2>2, <2>3 DEF Allowed
<1>4. CASE ~h.inFlight
  <2>1. Open("resume", tab.page, 0)
    BY <1>4 DEF Resume
  <2>2. Askable("resume", tab.page, 0)
    BY DEF Askable, ClientInv, TabOK, Reached
  <2>3. Next /\ post' \in Posts /\ post'.kind = "resume" /\ post'.slot # None
    BY <2>1, <2>2, OpenIsArrival
  <2>4. PostOK'
    BY <2>3 DEF PostOK
  <2>. QED
    BY <1>2, <2>3, <2>4 DEF Allowed
<1>. QED
  BY <1>3, <1>4
-----------------------------------------------------------------------------
(* One step, action by action.                                             *)

LEMMA SubmitStep ==
  ASSUME ClientInv, Submit
  PROVE  Allowed
<1> DEFINE c == IF secret.unconfirmed # 0 THEN secret.unconfirmed ELSE secret.made + 1
<1>1. /\ tab.view = "page" /\ tab.page \in Pages /\ c \in Secrets
      /\ Open("submit", tab.page, c) /\ secret'.unconfirmed = c
      /\ UNCHANGED <<db, lock, check, sweep, outbox, now, tab, hold, sock>>
  BY DEF Submit
<1> HIDE DEF c
<1>2. Askable("submit", tab.page, c)
  BY <1>1 DEF Askable, ClientInv, TabOK, Reached
<1>3. RowsStay
  BY <1>1 DEF RowsStay
<1>4. Next /\ post' \in Posts /\ post'.kind = "submit" /\ post'.slot # None
  BY <1>1, <1>2, <1>3, OpenIsArrival
<1>5. TabOK' /\ PostOK'
  BY <1>1, <1>4 DEF ClientInv, TabOK, PostOK, Reached
<1>. QED
  BY <1>4, <1>5 DEF Allowed

\* Taking a reply, whatever the tab makes of it.
LEMMA TakenIsAllowed ==
  ASSUME ClientInv, NEW kind, Got(kind), Taken, TabOK',
         UNCHANGED <<db, lock, check, sweep, outbox, now>>
  PROVE  Allowed
<1>1. Next /\ post' \in Posts /\ post'.kind = "none" /\ post'.slot = None
  BY TakenIsReply DEF ClientInv
<1>. QED
  BY <1>1 DEF Allowed, PostOK

LEMMA ReplyTakenStep ==
  ASSUME ClientInv,
         SubmitReply \/ SubmitBusy \/ LoadReply \/ ResumeHeld \/ ResumePage \/ ResumeBusy
  PROVE  Allowed
<1>1. UNCHANGED <<db, lock, check, sweep, outbox, now>>
  BY DEF SubmitReply, SubmitBusy, LoadReply, ResumeHeld, ResumePage, ResumeBusy
<1>2. UNCHANGED <<tab, hold, sock>> => TabOK'
  BY <1>1 DEF ClientInv, TabOK, Reached
<1>3. ASSUME NEW kind, Got(kind), Show(Reading) PROVE TabOK'
  <2> DEFINE x == Reading
  <2>1. x \in Nat /\ Reached(x)
    BY <1>3, ReplyIsReached
  <2>2. (x \in Holds /\ \E h : EnterHold(x, h)) \/ Leave("page", x)
    BY <1>3 DEF Show
  <2> HIDE DEF x
  <2>. QED
    BY <1>1, <2>1, <2>2, TurnTo
<1>4. CASE SubmitReply
  <2>1. Got("submit") /\ Taken
    BY <1>4 DEF SubmitReply
  <2>2. TabOK'
    BY <1>2, <1>3, <1>4, <2>1 DEF SubmitReply
  <2>. QED
    BY <1>1, <2>1, <2>2, TakenIsAllowed
<1>5. CASE SubmitBusy
  <2>1. Got("submit") /\ UNCHANGED <<tab, secret, hold, sock>>
    BY <1>5 DEF SubmitBusy
  <2>2. CASE Resend([post EXCEPT !.busy = TRUE])
    BY <1>1, <2>1, <2>2, ResendIsArrival
  <2>3. CASE Taken
    BY <1>1, <1>2, <2>1, <2>3, TakenIsAllowed
  <2>. QED
    BY <1>5, <2>2, <2>3 DEF SubmitBusy
<1>6. CASE LoadReply
  <2>1. Got("get") /\ UNCHANGED secret
    BY <1>6 DEF LoadReply
  <2>2. CASE Answered = "busy"
    BY <1>1, <1>6, <2>1, <2>2, ResendIsArrival DEF LoadReply
  <2>3. CASE Answered # "busy"
    <3>1. Taken /\ Show(Reading)
      BY <1>6, <2>3 DEF LoadReply
    <3>. QED
      BY <1>1, <1>3, <2>1, <3>1, TakenIsAllowed
  <2>. QED
    BY <2>2, <2>3
<1>7. CASE ResumeHeld \/ ResumePage
  <2> DEFINE x == Reading
  <2>1. Got("resume") /\ Taken
    BY <1>7 DEF ResumeHeld, ResumePage
  <2>2. x \in Nat /\ Reached(x)
    BY <2>1, ReplyIsReached
  <2>3. (x \in Holds /\ \E h : EnterHold(x, h)) \/ Leave("page", x)
    BY <1>7 DEF ResumeHeld, ResumePage
  <2> HIDE DEF x
  <2>4. TabOK'
    BY <1>1, <2>2, <2>3, TurnTo
  <2>. QED
    BY <1>1, <2>1, <2>4, TakenIsAllowed
<1>8. CASE ResumeBusy
  <2>1. Got("resume") /\ UNCHANGED <<tab, secret, sock>> /\ tab.view = "hold"
    BY <1>8 DEF ResumeBusy, Got, ClientInv, PostOK
  <2>2. CASE ~post.busy
    BY <1>1, <1>8, <2>1, <2>2, ResendIsArrival DEF ResumeBusy
  <2>3. CASE post.busy
    <3>1. TabOK'
      BY <1>1, <2>1 DEF ClientInv, TabOK, Reached
    <3>. QED
      BY <1>1, <1>8, <2>1, <2>3, <3>1, TakenIsAllowed DEF ResumeBusy
  <2>. QED
    BY <2>2, <2>3
<1>. QED
  BY <1>4, <1>5, <1>6, <1>7, <1>8

LEMMA ReloadStep ==
  ASSUME ClientInv, Reload
  PROVE  Allowed
<1>1. Open("get", 0, 0) /\ Leave("loading", tab.page)
      /\ UNCHANGED <<db, lock, check, sweep, outbox, now>>
  BY DEF Reload, Load
<1>2. Askable("get", 0, 0) /\ RowsStay
  BY <1>1 DEF Askable, RowsStay
<1>3. Next /\ post' \in Posts /\ post'.kind = "get" /\ post'.slot # None
  BY <1>1, <1>2, OpenIsArrival
<1>4. TabOK'
  BY <1>1, TurnAway
<1>. QED
  BY <1>3, <1>4 DEF Allowed, PostOK

\* What makes the controller resume: a timer, its socket, a wake.
LEMMA ResumeStep ==
  ASSUME ClientInv,
         \/ \E t \in hold.timers : Timer(t)
         \/ Echo \/ SlowRegistration
         \/ \E t \in Places : Receive(t)
  PROVE  Allowed
<1>1. CASE \E t \in hold.timers : Timer(t)
  <2>1. PICK t \in hold.timers : Timer(t)
    BY <1>1
  <2>2. tab.view = "hold"
    BY DEF ClientInv, TabOK
  <2>3. RowsStay /\ UNCHANGED <<tab, secret, sock>>
    BY <2>1 DEF Timer, RowsStay
  <2>. QED
    BY <2>1, <2>2, <2>3, ResumeIsAllowed DEF Timer
<1>2. CASE Echo \/ SlowRegistration
  <2>1. sock # "none" /\ sock' \in {"listening", "deaf"} /\ Resume(hold)
    BY <1>2 DEF Echo, SlowRegistration
  <2>2. tab.view = "hold"
    BY <2>1 DEF ClientInv, TabOK
  <2>3. RowsStay /\ UNCHANGED <<tab, secret>>
    BY <1>2 DEF Echo, SlowRegistration, RowsStay
  <2>. QED
    BY <2>1, <2>2, <2>3, ResumeIsAllowed
<1>3. CASE \E t \in Places : Receive(t)
  <2>1. PICK t \in Places : Receive(t)
    BY <1>3
  <2>3. CASE Relaying /\ t = tab.page
    <3>1. tab.view = "hold"
      BY <2>3 DEF Relaying, ClientInv, TabOK
    <3>2. RowsStay /\ UNCHANGED <<tab, secret, sock>> /\ Resume(hold)
      BY <2>1, <2>3 DEF Receive, RowsStay, Heard
    <3>. QED
      BY <3>1, <3>2, ResumeIsAllowed
  <2>4. CASE ~(Relaying /\ t = tab.page)
    <3>1. UNCHANGED <<req, post, tab, secret, sock>>
          /\ (tab.view # "hold" => UNCHANGED hold)
      BY <2>1, <2>4 DEF Receive, Heard, Relaying, ClientInv, TabOK
    <3>2. Send(t) /\ UNCHANGED db
      BY <2>1, <3>1 DEF Receive, Send
    <3>3. TabOK' /\ PostOK'
      BY <3>1, <3>2 DEF ClientInv, TabOK, PostOK, Reached
    <3>. QED
      BY <3>2, <3>3 DEF Allowed, Next
  <2>. QED
    BY <2>3, <2>4
<1>. QED
  BY <1>1, <1>2, <1>3

\* A request the tab gives up on stays with the server, or had been answered.
LEMMA CutStep ==
  ASSUME ClientInv, Cut
  PROVE  Allowed
<1>1. post.slot \in Requests /\ post \in Posts /\ post.slot # None
      /\ UNCHANGED <<db, lock, check, sweep, outbox, now, secret>>
  BY DEF Cut, ClientInv, PostOK, Posts
<1>2. CASE CutSubmit
  <2>1. /\ post.kind = "submit" /\ Open("submit", tab.page, secret.unconfirmed)
        /\ UNCHANGED <<tab, hold, sock>>
    BY <1>2 DEF CutSubmit
  <2>2. Askable("submit", tab.page, secret.unconfirmed) /\ RowsStay
    BY <1>1, <2>1 DEF Askable, RowsStay, ClientInv, TabOK, PostOK, Reached
  <2>3. Next /\ post' \in Posts /\ post'.kind = "submit" /\ post'.slot # None
    BY <2>1, <2>2, OpenIsArrival
  <2>4. TabOK' /\ PostOK'
    BY <1>1, <2>1, <2>3 DEF ClientInv, TabOK, PostOK, Reached
  <2>. QED
    BY <2>3, <2>4 DEF Allowed
<1>3. CASE Abandon
  <2>1. [Next]_server
    <3>1. CASE req[post.slot].pc = "done"
      <4>1. Reply(post.slot)
        BY <1>1, <1>3, <3>1 DEF Abandon, Reply
      <4>. QED
        BY <1>1, <4>1 DEF Next
    <3>2. CASE req[post.slot].pc # "done"
      <4>1. req' = [req EXCEPT ![post.slot] = req[post.slot]]
        BY <1>3, <3>2 DEF Abandon
      <4>2. req' = req
        BY <4>1 DEF ClientInv, HoldInv
      <4>. QED
        BY <1>1, <4>2 DEF server
    <3>. QED
      BY <3>1, <3>2
  <2>2. post' \in Posts /\ post'.kind = "none" /\ post'.slot = None
    BY <1>3 DEF Abandon, NoPost, Posts
  <2>3. TabOK'
    <3>1. CASE post.kind = "get"
      BY <1>3, <3>1, TurnAway DEF Abandon
    <3>2. CASE post.kind # "get"
      <4>1. UNCHANGED <<tab, sock>> /\ (tab.view # "hold" => UNCHANGED hold)
        BY <1>3, <3>2 DEF Abandon, ClientInv, PostOK
      <4>. QED
        BY <1>1, <4>1 DEF ClientInv, TabOK, Reached
    <3>. QED
      BY <3>1, <3>2
  <2>. QED
    BY <2>1, <2>2, <2>3 DEF Allowed, PostOK
<1>. QED
  BY <1>2, <1>3 DEF Cut

\* The socket's own comings and goings.
LEMMA SocketStep ==
  ASSUME ClientInv, Register \/ Drop
  PROVE  Allowed
<1>1. UNCHANGED <<server, tab, secret, hold, post>> /\ tab.view = "hold"
  BY DEF Register, Drop, ClientInv, TabOK
<1>. QED
  BY <1>1 DEF Allowed, ClientInv, TabOK, PostOK, Reached, server

\* The server's own steps, and replies nobody reads.
LEMMA ServerStep ==
  ASSUME ClientInv, Next, UNCHANGED client
  PROVE  Allowed
<1>1. Grown /\ HoldInv'
  BY NextHolds DEF ClientInv
<1>2. db' \in Views /\ UNCHANGED <<tab, secret, hold, post, sock>>
  BY <1>1 DEF HoldInv, RowOK, client
<1>3. PostOK'
  BY <1>2 DEF ClientInv, PostOK
<1>4. TabOK'
  <2>1. CASE tab.view \in {"page", "hold"}
    <3>1. Reached(tab.page) /\ tab.page \in Nat
      BY <2>1 DEF ClientInv, TabOK
    <3>2. PICK x \in Nat : x = tab.page
      BY <3>1
    <3>3. Reached(x)'
      BY <1>1, <1>2, <3>1, <3>2, ReachedStays DEF ClientInv
    <3>. QED
      BY <1>2, <3>2, <3>3 DEF ClientInv, TabOK, Reached
  <2>2. CASE tab.view \notin {"page", "hold"}
    BY <1>2, <2>2 DEF ClientInv, TabOK
  <2>. QED
    BY <2>1, <2>2
<1>. QED
  BY <1>3, <1>4 DEF Allowed
-----------------------------------------------------------------------------
LEMMA ClientStep == ClientInv /\ [ClientNext]_vars => Allowed
<1> SUFFICES ASSUME ClientInv, [ClientNext]_vars PROVE Allowed
  OBVIOUS
<1>1. CASE Submit
  BY <1>1, SubmitStep
<1>2. CASE SubmitReply \/ SubmitBusy \/ LoadReply \/ ResumeHeld \/ ResumePage \/ ResumeBusy
  BY <1>2, ReplyTakenStep
<1>3. CASE Reload
  BY <1>3, ReloadStep
<1>4. CASE (\E t \in hold.timers : Timer(t)) \/ Echo \/ SlowRegistration
           \/ \E t \in Places : Receive(t)
  BY <1>4, ResumeStep
<1>5. CASE SafetyPoll
  <2>1. \E t \in hold.timers : Timer(t)
    BY <1>5 DEF SafetyPoll, Timer
  <2>. QED
    BY <2>1, ResumeStep
<1>6. CASE Cut
  BY <1>6, CutStep
<1>7. CASE Register \/ Drop
  BY <1>7, SocketStep
<1>8. CASE Holder \/ Server \/ Others \/ PollerDies \/ \E s \in Requests : Unread(s)
  <2>1. UNCHANGED client
    BY <1>8 DEF Holder, Server, Others, PollerDies, Unread
  <2>2. Next
    BY <1>8 DEF Holder, Server, Others, PollerDies, Unread, Next, Serve, Sweep
  <2>. QED
    BY <2>1, <2>2, ServerStep
<1>9. CASE UNCHANGED vars
  BY <1>9 DEF vars, server, client, Allowed, ClientInv, TabOK, PostOK, Reached
<1>10. ClientNext => \/ Submit \/ Reload \/ Cut \/ SafetyPoll \/ Drop \/ Register
                     \/ (SubmitReply \/ SubmitBusy \/ LoadReply \/ ResumeHeld \/ ResumePage
                           \/ ResumeBusy)
                     \/ ((\E t \in hold.timers : Timer(t)) \/ Echo \/ SlowRegistration
                           \/ \E t \in Places : Receive(t))
                     \/ (Holder \/ Server \/ Others \/ PollerDies
                           \/ \E s \in Requests : Unread(s))
  BY DEF ClientNext, Tab, Network
<1>. QED
  BY <1>1, <1>2, <1>3, <1>4, <1>5, <1>6, <1>7, <1>8, <1>9, <1>10

LEMMA ClientInitHolds == ClientInit => Init /\ ClientInv
<1> SUFFICES ASSUME ClientInit PROVE Init /\ ClientInv
  OBVIOUS
<1>1. Init /\ HoldInv
  BY InitHolds DEF ClientInit
<1>2. db.at = 1 /\ 1 \notin Holds /\ 1 \in Nat
  BY <1>1, TimelineAssumption DEF Init, StartRow, Holds
<1>3. TabOK
  BY <1>2 DEF ClientInit, TabOK, Reached, NoHold
<1>4. PostOK
  BY DEF ClientInit, PostOK, Posts, NoPost
<1>. QED
  BY <1>1, <1>3, <1>4 DEF ClientInv

LEMMA ClientInvariant == ClientSpec => []ClientInv
<1>1. ClientInv /\ [ClientNext]_vars => ClientInv'
  <2> SUFFICES ASSUME ClientInv, [ClientNext]_vars PROVE ClientInv'
    OBVIOUS
  <2>1. Allowed
    BY ClientStep
  <2>2. HoldInv'
    BY <2>1, NextHolds DEF Allowed, ClientInv
  <2>. QED
    BY <2>1, <2>2 DEF Allowed, ClientInv
<1>. QED
  BY <1>1, ClientInitHolds, PTL DEF ClientSpec

\* Whatever a tab submits, repeats, gives up on, reloads or resumes, and
\* whatever its socket brings or loses, its requests are those that
\* TimelineHold allows a client to make.
THEOREM ClientImplementsServer == ClientSpec => ServerSpec
<1>1. ClientInit => Init
  BY ClientInitHolds
<1>2. ClientInv /\ [ClientNext]_vars => [Next]_server
  BY ClientStep DEF Allowed
<1>. QED
  BY <1>1, <1>2, ClientInvariant, PTL DEF ClientSpec, ServerSpec, Spec

\* So what is proved of the server alone holds with its tab: pages are
\* answered once, and holds are left when cleared, and settled.
COROLLARY ClientIsServed ==
  ClientSpec => []AnsweredOnce /\ LeavesWhenCleared /\ []LeftIsSettled
BY ClientImplementsServer, PagesAreAnsweredOnce, HoldsAreLeftWhenCleared,
   HoldsAreSettledWhenLeft, PTL DEF ServerSpec
=============================================================================
