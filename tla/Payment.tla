------------------------------ MODULE Payment ------------------------------
(***************************************************************************)
(* The bonus of one participant (psynet/experiment.py).  Submission events *)
(* and their replays report the outcome automatically, at most once: they  *)
(* claim the report under the participant's row lock, commit the claim and *)
(* only then call the platform.  A claim whose result is not recorded is   *)
(* left to the dashboard, where an experimenter pays or dismisses it.      *)
(***************************************************************************)
EXTENDS Naturals

CONSTANTS
  Handlers,      \* automatic calls: events, replays, return-for-bonus jobs
  Tabs,          \* dashboard requests
  Nobody,
  Decided,       \* the decided bonus, in units that are transferred
  Recruiters,    \* the kinds of recruiter the participant may come from
  MaxFaults      \* bound: processes that die

Actors == Handlers \cup Tabs

ASSUME PaymentAssumption ==
  /\ Handlers \cap Tabs = {} /\ Nobody \notin Actors
  /\ Decided \in Nat /\ MaxFaults \in Nat
  /\ Recruiters \subseteq [reports : BOOLEAN, reportsZero : BOOLEAN, commitsEarly : BOOLEAN]

VARIABLES
  recruiter, \* it never changes
  status,    \* bonus_status
  bonus,     \* the recorded bonus
  progress,  \* bonus_attempt_detail says that a dashboard payment runs
  room,      \* what hard_max_experiment_payment leaves
  row,       \* who holds the participant's row
  tx,        \* where each actor is, and what it has decided to pay
  paid,      \* what the platform has paid
  shown,     \* what the platform reports as paid
  reports,   \* automatic calls made to the platform
  reviewed,  \* what the dashboard has paid
  confirmed, \* the platform has confirmed an outcome
  faults

vars == <<recruiter, status, bonus, progress, room, row, tx, paid, shown, reports, reviewed, confirmed, faults>>

Reports == recruiter.reports            \* the platform reports what it has paid (Prolific)
ReportsZero == recruiter.reportsZero    \* outcomes are reported even without a bonus (Lucid, lab)
CommitsEarly == recruiter.commitsEarly  \* it commits once the platform confirms (Lucid)

Idle == [pc |-> "idle", amount |-> 0, already |-> 0, capped |-> FALSE]

Init ==
  /\ recruiter \in Recruiters
  /\ status = "not_due" /\ bonus = 0 /\ progress = FALSE
  /\ room \in 0..Decided /\ row = Nobody
  /\ tx = [c \in Actors |-> Idle]
  /\ paid = 0 /\ shown = 0 /\ reports = 0 /\ reviewed = 0
  /\ confirmed = FALSE /\ faults = 0

\* clip_bonus_for_spend_caps
Capped == Decided > room
Payable == IF Capped THEN room ELSE Decided
SettledHard == IF Capped THEN "hard_capped" ELSE "success"
Settled == IF Capped THEN "capped" ELSE "success"

\* bonus_needs_review, on an external platform
NeedsReview == status = "unconfirmed"

\* A recruiter that commits the confirmation does not call the platform again.
ToldNever == FALSE
Told == CommitsEarly /\ confirmed

Record(outcome, amount) == status' = outcome /\ bonus' = amount /\ progress' = FALSE
-----------------------------------------------------------------------------
(* pay_decided_bonus                                                       *)

\* A variant that commits the claim only with its result.
ClaimLate(h) ==
  /\ tx[h].pc = "idle" /\ row = Nobody /\ status = "not_due"
  /\ tx' = [tx EXCEPT ![h] = [pc |-> "claimed", amount |-> Payable, already |-> 0,
                                 capped |-> Capped]]
  /\ UNCHANGED <<status, bonus, progress, room, row, paid, shown, reports, reviewed, confirmed, faults>>

\* Without anything to report the bonus is settled locally; otherwise the claim
\* is committed, which frees the row, before the platform is called.
Claim(h) ==
  /\ tx[h].pc = "idle" /\ row = Nobody /\ status = "not_due"
  /\ IF Payable = 0 /\ ~ReportsZero
     THEN Record(Settled, 0) /\ UNCHANGED tx
     ELSE /\ status' = "unconfirmed"
          /\ tx' = [tx EXCEPT ![h] = [pc |-> "claimed", amount |-> Payable, already |-> 0,
                                     capped |-> Capped]]
          /\ UNCHANGED <<bonus, progress>>
  /\ UNCHANGED <<room, row, paid, shown, reports, reviewed, confirmed, faults>>

Report(h) ==
  /\ tx[h].pc = "claimed"
  /\ \/ /\ tx' = [tx EXCEPT ![h].pc = "paid"] /\ confirmed' = TRUE
        /\ paid' = IF Told THEN paid ELSE paid + tx[h].amount
     \/ ~Told /\ tx' = [tx EXCEPT ![h].pc = "refused"] /\ UNCHANGED <<paid, confirmed>>
  /\ reports' = reports + 1
  /\ UNCHANGED <<status, bonus, progress, room, row, shown, reviewed, faults>>

\* A variant that records the bonus whatever the platform answered.
SettleAnyway(h) ==
  /\ tx[h].pc \in {"paid", "refused"} /\ row = Nobody
  /\ Record(IF tx[h].capped THEN "capped" ELSE "success", tx[h].amount)
  /\ tx' = [tx EXCEPT ![h] = Idle]
  /\ UNCHANGED <<room, row, paid, shown, reports, reviewed, confirmed, faults>>

\* The result is written without looking at the row again.
Settle(h) ==
  /\ tx[h].pc \in {"paid", "refused"} /\ row = Nobody
  /\ IF tx[h].pc = "paid"
     THEN Record(IF tx[h].capped THEN "capped" ELSE "success", tx[h].amount)
     ELSE progress' = FALSE /\ UNCHANGED <<status, bonus>>
  /\ tx' = [tx EXCEPT ![h] = Idle]
  /\ UNCHANGED <<room, row, paid, shown, reports, reviewed, confirmed, faults>>
-----------------------------------------------------------------------------
(* pay_review_bonus and dismiss_review_bonus                               *)

\* A variant that frees the row before it pays.
ReviewUnlocked(d) ==
  /\ tx[d].pc = "idle" /\ row = Nobody /\ NeedsReview /\ ~progress
  /\ tx' = [tx EXCEPT ![d] = [pc |-> "claimed", amount |-> Payable, already |-> 0,
                                 capped |-> Capped]]
  /\ UNCHANGED <<status, bonus, progress, room, row, paid, shown, reports, reviewed, confirmed, faults>>

\* Under the row lock: record what the platform reports, or pay the rest.
Review(d) ==
  LET already == IF Reports THEN shown ELSE 0 IN
  /\ tx[d].pc = "idle" /\ row = Nobody /\ NeedsReview /\ ~progress
  /\ IF already >= Payable /\ (Reports \/ ~ReportsZero)
     THEN Record(Settled, Payable) /\ UNCHANGED <<row, tx>>
     ELSE /\ row' = d
          /\ tx' = [tx EXCEPT ![d] = [pc |-> "claimed", amount |-> Payable - already,
                                      already |-> already, capped |-> Capped]]
          /\ UNCHANGED <<status, bonus, progress>>
  /\ UNCHANGED <<room, paid, shown, reports, reviewed, confirmed, faults>>

\* report_submission_outcome, whose commit also saves the claim
Pay(d) ==
  /\ tx[d].pc = "claimed"
  /\ \/ /\ Told /\ tx' = [tx EXCEPT ![d].pc = "paid"]
        /\ UNCHANGED <<paid, reviewed, confirmed, row, progress>>
     \/ /\ ~Told /\ tx' = [tx EXCEPT ![d].pc = "paid"]
        /\ paid' = paid + tx[d].amount /\ reviewed' = reviewed + tx[d].amount
        /\ confirmed' = TRUE
        /\ IF CommitsEarly THEN row' = Nobody /\ progress' = TRUE
           ELSE UNCHANGED <<row, progress>>
     \/ /\ ~Told /\ tx' = [tx EXCEPT ![d].pc = "refused"]
        /\ UNCHANGED <<paid, reviewed, confirmed, row, progress>>
  /\ UNCHANGED <<status, bonus, room, shown, reports, faults>>

Conclude(d) ==
  /\ tx[d].pc \in {"paid", "refused"} /\ row \in {d, Nobody}
  /\ IF tx[d].pc = "paid"
     THEN Record(IF tx[d].capped THEN "capped" ELSE "success", tx[d].already + tx[d].amount)
     ELSE UNCHANGED <<status, bonus, progress>>
  /\ tx' = [tx EXCEPT ![d] = Idle] /\ row' = Nobody
  /\ UNCHANGED <<room, paid, shown, reports, reviewed, confirmed, faults>>

Dismiss(d) ==
  /\ tx[d].pc = "idle" /\ row = Nobody /\ NeedsReview
  /\ status' = "dismissed"
  /\ UNCHANGED <<bonus, progress, room, row, tx, paid, shown, reports, reviewed, confirmed, faults>>
-----------------------------------------------------------------------------
(* A process dies, the platform catches up, others spend or return money.  *)

Crash(c) ==
  /\ tx[c].pc # "idle" /\ faults < MaxFaults
  /\ faults' = faults + 1
  /\ tx' = [tx EXCEPT ![c] = Idle]
  /\ row' = IF row = c THEN Nobody ELSE row
  /\ UNCHANGED <<status, bonus, progress, room, paid, shown, reports, reviewed, confirmed>>

Show ==
  /\ shown # paid /\ shown' = paid
  /\ UNCHANGED <<status, bonus, progress, room, row, tx, paid, reports, reviewed, confirmed, faults>>

Spend ==
  /\ room' \in 0..Decided \ {room}
  /\ UNCHANGED <<status, bonus, progress, row, tx, paid, shown, reports, reviewed, confirmed, faults>>

Next ==
  /\ \/ \E h \in Handlers : Claim(h) \/ Report(h) \/ Settle(h)
     \/ \E d \in Tabs : Review(d) \/ Pay(d) \/ Conclude(d) \/ Dismiss(d)
     \/ \E c \in Actors : Crash(c)
     \/ Show \/ Spend
  /\ UNCHANGED recruiter

Spec == Init /\ [][Next]_vars
-----------------------------------------------------------------------------
TypeOK ==
  /\ recruiter \in Recruiters
  /\ status \in {"not_due", "unconfirmed", "success", "capped", "dismissed"}
  /\ bonus \in 0..Decided /\ progress \in BOOLEAN
  /\ room \in 0..Decided /\ row \in Actors \cup {Nobody}
  /\ tx \in [Actors -> [pc : {"idle", "claimed", "paid", "refused"}, amount : 0..Decided,
                        already : Nat, capped : BOOLEAN]]
  /\ paid \in Nat /\ shown \in Nat /\ reports \in Nat /\ reviewed \in Nat /\ confirmed \in BOOLEAN
  /\ faults \in 0..MaxFaults

\* The outcome is reported automatically at most once, over every replay of the
\* event and every crash.
AutomaticOnce == reports <= 1

\* Overlapping dashboard payments do not pay twice, unless one of them died.
ReviewedOnce == faults = 0 => reviewed <= Decided

\* No bonus is recorded that the platform has not paid, unless the recruiter
\* commits early: its confirmation may be of another amount than a later retry.
RecordedWasPaid == ~CommitsEarly => bonus <= paid

\* Without crashes the participant is paid the decided bonus at most.
PaidOnce == faults = 0 => paid <= Decided
=============================================================================
