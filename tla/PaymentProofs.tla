--------------------------- MODULE PaymentProofs ---------------------------
(***************************************************************************)
(* Proofs about Payment, for any number of calls, any bonus and any number *)
(* of crashes.                                                             *)
(***************************************************************************)
EXTENDS Payment, TLAPS

\* An unclaimed bonus has no automatic call in progress, and at most one call
\* has claimed it without having called the platform yet.
ClaimInv ==
  /\ status = "not_due" => reports = 0 /\ \A h \in Handlers : tx[h].pc = "idle"
  /\ \A h \in Handlers : tx[h].pc = "claimed" =>
       reports = 0 /\ \A g \in Handlers : tx[g].pc = "claimed" => g = h
  /\ reports <= 1

\* What a call that was answered will record has been paid.
PaidInv ==
  /\ shown <= paid /\ bonus <= paid
  /\ \A h \in Handlers : tx[h].pc = "paid" => tx[h].amount <= paid
  /\ \A d \in Tabs : tx[d].already <= paid
  /\ \A d \in Tabs : tx[d].pc = "paid" => tx[d].already + tx[d].amount <= paid

\* What is paid already and what a call adds to it make a bonus at most.
SumInv == \A c \in Actors : tx[c].already + tx[c].amount <= Decided

LEMMA PayableType ==
  ASSUME TypeOK
  PROVE  Payable \in 0..Decided /\ Settled \in {"capped", "success"} /\ Capped \in BOOLEAN
BY PaymentAssumption DEF TypeOK, Payable, Settled, Capped

Call == [pc : {"idle", "claimed", "paid", "refused"}, amount : 0..Decided,
         already : Nat, capped : BOOLEAN]

LEMMA CallTypes ==
  /\ Idle \in Call /\ Idle.already + Idle.amount <= Decided
  /\ Idle.pc = "idle" /\ Idle.already = 0 /\ Idle.amount = 0
  /\ \A a \in 0..Decided, b \in Nat, f \in BOOLEAN :
       [pc |-> "claimed", amount |-> a, already |-> b, capped |-> f] \in Call
BY PaymentAssumption DEF Call, Idle

\* Replacing a call by one of the right type keeps the type and the sums.
LEMMA CallReplaced ==
  ASSUME TypeOK, SumInv, NEW c \in Actors, NEW r \in Call, r.already + r.amount <= Decided,
         tx' = [tx EXCEPT ![c] = r]
  PROVE  tx' \in [Actors -> Call] /\ SumInv'
<1>1. tx \in [Actors -> Call]
  BY DEF TypeOK, Call
<1>2. tx' \in [Actors -> Call]
  BY <1>1, Zenon
<1>3. \A d \in Actors : tx'[d] = IF d = c THEN r ELSE tx[d]
  BY <1>1
<1> QED BY <1>2, <1>3 DEF SumInv, Actors

\* Moving a call to another place keeps them too.
LEMMA CallMoved ==
  ASSUME TypeOK, SumInv, NEW c \in Actors, NEW p \in {"paid", "refused"},
         tx[c].already + tx[c].amount <= Decided,
         tx' = [tx EXCEPT ![c].pc = p]
  PROVE  tx' \in [Actors -> Call] /\ SumInv'
<1> DEFINE r == [tx[c] EXCEPT !.pc = p]
<1>1. tx[c] \in Call
  BY DEF TypeOK, Call
<1>2. r \in Call /\ r.already + r.amount <= Decided
  BY <1>1 DEF Call
<1>3. tx' = [tx EXCEPT ![c] = r]
  BY DEF TypeOK
<1> HIDE DEF r
<1> QED BY <1>2, <1>3, CallReplaced
-----------------------------------------------------------------------------
\* TypeOK without the calls: the ranges and the flags
Ranges ==
  /\ status \in {"not_due", "unconfirmed", "success", "capped", "dismissed"}
  /\ bonus \in 0..Decided /\ room \in 0..Decided /\ row \in Actors \cup {Nobody}
  /\ paid \in Nat /\ shown \in Nat /\ reports \in Nat /\ reviewed \in Nat
  /\ faults \in 0..MaxFaults

Flags == progress \in BOOLEAN /\ confirmed \in BOOLEAN

LEMMA TypeParts ==
  TypeOK <=> recruiter \in Recruiters /\ Ranges /\ Flags /\ tx \in [Actors -> Call]
BY Zenon DEF TypeOK, Ranges, Flags, Call

\* Every step keeps the flags Boolean.
LEMMA FlagStep ==
  ASSUME Flags, Next
  PROVE  Flags'
<1> USE DEF Flags, Record
<1>1. ASSUME NEW h \in Handlers, Claim(h) \/ Report(h) \/ Settle(h) PROVE Flags'
  BY <1>1, Zenon DEF Claim, Report, Settle
<1>2. ASSUME NEW d \in Tabs, Review(d) \/ Pay(d) \/ Conclude(d) \/ Dismiss(d) PROVE Flags'
  BY <1>2, Zenon DEF Review, Pay, Conclude, Dismiss
<1>3. ASSUME NEW c \in Actors, Crash(c) PROVE Flags'
  BY <1>3, Zenon DEF Crash
<1>4. CASE Show \/ Spend
  BY <1>4, Zenon DEF Show, Spend
<1> QED BY <1>1, <1>2, <1>3, <1>4 DEF Next

\* Every step either leaves the calls alone or replaces or moves one of them.
LEMMA CallStep ==
  ASSUME TypeOK, SumInv, Next
  PROVE  tx' \in [Actors -> Call] /\ SumInv'
<1>0. tx \in [Actors -> Call] /\ Handlers \subseteq Actors /\ Tabs \subseteq Actors
  BY DEF TypeOK, Call, Actors
<1>a. \A c \in Actors : tx[c].already + tx[c].amount <= Decided
  BY DEF SumInv
<1>b. ASSUME tx' = tx PROVE tx' \in [Actors -> Call] /\ SumInv'
  BY <1>0, <1>b DEF SumInv
<1>c. ASSUME NEW c \in Actors, tx' = [tx EXCEPT ![c] = Idle]
      PROVE  tx' \in [Actors -> Call] /\ SumInv'
  BY <1>c, CallTypes, CallReplaced
<1>1. ASSUME NEW h \in Handlers, Claim(h) PROVE tx' \in [Actors -> Call] /\ SumInv'
  <2>1. CASE Payable = 0 /\ ~ReportsZero
    BY <1>1, <2>1, <1>b DEF Claim
  <2>2. CASE ~(Payable = 0 /\ ~ReportsZero)
    <3> DEFINE r == [pc |-> "claimed", amount |-> Payable, already |-> 0, capped |-> Capped]
    <3>1. tx' = [tx EXCEPT ![h] = r]
      BY <1>1, <2>2 DEF Claim
    <3>2. r \in Call /\ r.already + r.amount <= Decided
      BY PayableType, CallTypes, PaymentAssumption
    <3> HIDE DEF r
    <3> QED BY <1>0, <3>1, <3>2, CallReplaced
  <2> QED BY <2>1, <2>2
<1>2. ASSUME NEW h \in Handlers, Report(h) PROVE tx' \in [Actors -> Call] /\ SumInv'
  <2>1. PICK p \in {"paid", "refused"} : tx' = [tx EXCEPT ![h].pc = p]
    BY <1>2 DEF Report
  <2> QED BY <1>0, <1>a, <2>1, CallMoved
<1>3. ASSUME NEW h \in Handlers, Settle(h) PROVE tx' \in [Actors -> Call] /\ SumInv'
  BY <1>0, <1>3, <1>c DEF Settle
<1>4. ASSUME NEW d \in Tabs, Review(d) PROVE tx' \in [Actors -> Call] /\ SumInv'
  <2> DEFINE already == IF Reports THEN shown ELSE 0
             settles == already >= Payable /\ (Reports \/ ~ReportsZero)
             r == [pc |-> "claimed", amount |-> Payable - already, already |-> already,
                   capped |-> Capped]
  <2>1. CASE settles
    BY <1>4, <2>1, <1>b DEF Review
  <2>2. CASE ~settles
    <3>1. tx' = [tx EXCEPT ![d] = r]
      BY <1>4, <2>2 DEF Review
    <3>2. already \in Nat /\ Payable - already \in 0..Decided /\ already + (Payable - already) <= Decided
      BY <2>2, PayableType, PaymentAssumption DEF TypeOK
    <3> HIDE DEF already
    <3>3. r \in Call /\ r.already + r.amount <= Decided
      BY <3>2, PayableType, CallTypes
    <3> HIDE DEF r
    <3> QED BY <1>0, <3>1, <3>3, CallReplaced
  <2> QED BY <2>1, <2>2
<1>5. ASSUME NEW d \in Tabs, Pay(d) PROVE tx' \in [Actors -> Call] /\ SumInv'
  <2>1. PICK p \in {"paid", "refused"} : tx' = [tx EXCEPT ![d].pc = p]
    BY <1>5 DEF Pay
  <2> QED BY <1>0, <1>a, <2>1, CallMoved
<1>6. ASSUME NEW d \in Tabs, Conclude(d) PROVE tx' \in [Actors -> Call] /\ SumInv'
  BY <1>0, <1>6, <1>c DEF Conclude
<1>7. ASSUME NEW d \in Tabs, Dismiss(d) PROVE tx' \in [Actors -> Call] /\ SumInv'
  BY <1>7, <1>b DEF Dismiss
<1>8. ASSUME NEW c \in Actors, Crash(c) PROVE tx' \in [Actors -> Call] /\ SumInv'
  BY <1>8, <1>c DEF Crash
<1>9. CASE Show \/ Spend
  BY <1>9, <1>b DEF Show, Spend
<1> QED BY <1>1, <1>2, <1>3, <1>4, <1>5, <1>6, <1>7, <1>8, <1>9 DEF Next

\* The type invariant: every field of the participant and of the calls keeps its
\* range.  The recorded bonus needs the amounts to add up.
THEOREM TypeCorrect == Spec => [](TypeOK /\ SumInv)
<1>1. Init => TypeOK /\ SumInv
  <2> SUFFICES ASSUME Init PROVE TypeOK /\ SumInv
    OBVIOUS
  <2>1. \A c \in Actors : tx[c] = Idle
    BY DEF Init
  <2>2. tx \in [Actors -> Call]
    BY <2>1, CallTypes DEF Init
  <2>3. SumInv
    BY <2>1, CallTypes DEF SumInv
  <2>4. Ranges
    BY PaymentAssumption DEF Init, Ranges
  <2>5. Flags
    BY Zenon DEF Init, Flags
  <2>6. recruiter \in Recruiters
    BY DEF Init
  <2> QED BY <2>2, <2>3, <2>4, <2>5, <2>6, TypeParts
<1>2. TypeOK /\ SumInv /\ [Next]_vars => TypeOK' /\ SumInv'
  <2> SUFFICES ASSUME TypeOK, SumInv, [Next]_vars PROVE TypeOK' /\ SumInv'
    OBVIOUS
  <2>1. CASE UNCHANGED vars
    BY <2>1 DEF vars, TypeOK, SumInv
  <2> SUFFICES ASSUME Next PROVE TypeOK' /\ SumInv'
    BY <2>1
  <2>2. tx' \in [Actors -> Call] /\ SumInv'
    BY CallStep
  <2>3. Ranges /\ Flags
    BY TypeParts
  <2>4. \A c \in Actors : /\ tx[c].amount \in 0..Decided /\ tx[c].already \in Nat
                          /\ tx[c].already + tx[c].amount \in 0..Decided
    BY PaymentAssumption DEF TypeOK, SumInv
  <2> USE <2>3, <2>4, PaymentAssumption DEF Ranges, Actors
  <2>5. ASSUME NEW h \in Handlers, Claim(h) PROVE Ranges'
    BY <2>5, PayableType DEF Claim, Record
  <2>6. ASSUME NEW h \in Handlers, Report(h) PROVE Ranges'
    BY <2>6 DEF Report, Told
  <2>7. ASSUME NEW h \in Handlers, Settle(h) PROVE Ranges'
    BY <2>7 DEF Settle, Record
  <2>8. ASSUME NEW d \in Tabs, Review(d) PROVE Ranges'
    BY <2>8, PayableType DEF Review, Record
  <2>9. ASSUME NEW d \in Tabs, Pay(d) PROVE Ranges'
    BY <2>9 DEF Pay, Told
  <2>10. ASSUME NEW d \in Tabs, Conclude(d) PROVE Ranges'
    BY <2>10 DEF Conclude, Record
  <2>11. ASSUME NEW d \in Tabs, Dismiss(d) PROVE Ranges'
    BY <2>11 DEF Dismiss
  <2>12. ASSUME NEW c \in Actors, Crash(c) PROVE Ranges'
    BY <2>12 DEF Crash
  <2>13. ASSUME Show \/ Spend PROVE Ranges'
    BY <2>13 DEF Show, Spend
  <2>14. Ranges'
    BY <2>5, <2>6, <2>7, <2>8, <2>9, <2>10, <2>11, <2>12, <2>13 DEF Next
  <2>15. Flags'
    BY <2>3, FlagStep
  <2>16. recruiter' \in Recruiters
    BY Zenon, TypeParts DEF Next
  <2> QED BY <2>2, <2>14, <2>15, <2>16, Zenon DEF TypeOK, Ranges, Flags, Call
<1> QED BY <1>1, <1>2, PTL DEF Spec
-----------------------------------------------------------------------------
\* The claim is preserved by every step: it is made under the row lock only for
\* an unclaimed bonus, and nothing makes a claimed bonus unclaimed.
LEMMA ClaimInvStep ==
  ASSUME TypeOK, ClaimInv, [Next]_vars
  PROVE  ClaimInv'
<1> USE PaymentAssumption, PayableType DEF TypeOK, Actors, ClaimInv, Record
<1>1. ASSUME NEW h \in Handlers, Claim(h) PROVE ClaimInv'
  <2>1. CASE Payable = 0 /\ ~ReportsZero
    BY <1>1, <2>1 DEF Claim
  <2>2. CASE ~(Payable = 0 /\ ~ReportsZero)
    <3>1. status' = "unconfirmed" /\ reports' = reports /\ reports = 0
      BY <1>1, <2>2 DEF Claim
    <3>2. \A g \in Handlers \ {h} : tx'[g] = tx[g] /\ tx[g].pc # "claimed"
      BY <1>1, <2>2 DEF Claim
    <3> QED BY <3>1, <3>2
  <2> QED BY <2>1, <2>2
<1>2. ASSUME NEW h \in Handlers, Report(h) PROVE ClaimInv'
  <2>1. \A g \in Handlers : tx'[g].pc # "claimed"
    BY <1>2 DEF Report
  <2>2. status' = status /\ status # "not_due" /\ reports' = 1
    BY <1>2 DEF Report
  <2> QED BY <2>1, <2>2
<1>3. ASSUME NEW h \in Handlers, Settle(h) PROVE ClaimInv'
  BY <1>3 DEF Settle, Idle
<1>4. ASSUME NEW d \in Tabs, Review(d) PROVE ClaimInv'
  BY <1>4 DEF Review, NeedsReview
<1>5. ASSUME NEW d \in Tabs, Pay(d) PROVE ClaimInv'
  BY <1>5 DEF Pay
<1>6. ASSUME NEW d \in Tabs, Conclude(d) PROVE ClaimInv'
  BY <1>6 DEF Conclude, Idle
<1>7. ASSUME NEW d \in Tabs, Dismiss(d) PROVE ClaimInv'
  BY <1>7 DEF Dismiss, NeedsReview
<1>8. ASSUME NEW c \in Actors, Crash(c) PROVE ClaimInv'
  BY <1>8 DEF Crash, Idle
<1>9. CASE Show \/ Spend \/ UNCHANGED vars
  BY <1>9 DEF Show, Spend, vars
<1> QED BY <1>1, <1>2, <1>3, <1>4, <1>5, <1>6, <1>7, <1>8, <1>9 DEF Next

\* AutomaticOnce, for every number of calls, every bonus and every number of
\* crashes: events, replays and retries report the outcome at most once.
THEOREM AutomaticReportOnce == Spec => []AutomaticOnce
<1>1. Init => ClaimInv
  BY DEF Init, ClaimInv, Actors, Idle
<1>2. TypeOK /\ ClaimInv /\ [Next]_vars => ClaimInv'
  BY ClaimInvStep
<1>3. ClaimInv => AutomaticOnce
  BY DEF ClaimInv, AutomaticOnce
<1> QED BY <1>1, <1>2, <1>3, TypeCorrect, PTL DEF Spec
-----------------------------------------------------------------------------
\* Payments only add up, and a call pays what it will record before it records
\* it; an answer that was never sent (Told) would break this.
LEMMA PaidInvStep ==
  ASSUME TypeOK, PaidInv, [Next]_vars, ~CommitsEarly
  PROVE  PaidInv'
<1>0. \A c \in Actors : tx[c].amount \in Nat /\ tx[c].already \in Nat
  BY PaymentAssumption DEF TypeOK
<1>p. Payable \in Nat /\ bonus \in Nat /\ paid \in Nat /\ shown \in Nat /\ ~Told
  BY PayableType, PaymentAssumption DEF TypeOK, Told
<1>t. DOMAIN tx = Actors /\ tx = [c \in Actors |-> tx[c]]
  BY DEF TypeOK
<1> USE <1>0, <1>p, <1>t, PaymentAssumption DEF Actors, PaidInv, Record
<1>1. ASSUME NEW h \in Handlers, Claim(h) PROVE PaidInv'
  <2>1. CASE tx' = tx /\ bonus' = 0 /\ UNCHANGED <<paid, shown>>
    BY <2>1
  <2>2. CASE /\ tx' = [tx EXCEPT ![h] = [pc |-> "claimed", amount |-> Payable, already |-> 0,
                                        capped |-> Capped]]
             /\ UNCHANGED <<bonus, paid, shown>>
    <3>1. \A c \in Actors : tx'[c] = tx[c] \/ (tx'[c].pc = "claimed" /\ tx'[c].already = 0)
      BY <2>2
    <3> QED BY <2>2, <3>1
  <2> QED BY <1>1, <2>1, <2>2, Zenon DEF Claim
<1>2. ASSUME NEW h \in Handlers, Report(h) PROVE PaidInv'
  <2>0. tx[h].amount \in Nat /\ tx[h].already \in Nat
    OBVIOUS
  <2>1. CASE tx' = [tx EXCEPT ![h].pc = "paid"] /\ paid' = paid + tx[h].amount
    <3>1. bonus' = bonus /\ shown' = shown
      BY <1>2 DEF Report
    <3>2. \A c \in Actors : /\ tx'[c].amount = tx[c].amount /\ tx'[c].already = tx[c].already
                            /\ c # h => tx'[c].pc = tx[c].pc
      BY <2>1
    <3>3. paid' \in Nat /\ paid <= paid' /\ tx[h].amount <= paid'
      BY ONLY <2>0, <2>1, <1>p
    <3>4. shown' <= paid' /\ bonus' <= paid'
      BY <3>1, <3>3
    <3>5. \A g \in Handlers : tx'[g].pc = "paid" => tx'[g].amount <= paid'
      BY ONLY PaidInv, <1>0, <1>p, <3>2, <3>3 DEF PaidInv, Actors
    <3>6. \A e \in Tabs : tx'[e].already <= paid'
      BY ONLY PaidInv, <1>0, <1>p, <3>2, <3>3 DEF PaidInv, Actors
    <3>7. \A e \in Tabs : tx'[e].pc = "paid" => tx'[e].already + tx'[e].amount <= paid'
      BY ONLY PaidInv, <1>0, <1>p, <2>0, <2>1, <3>2, <3>3 DEF PaidInv, Actors
    <3> QED BY <3>4, <3>5, <3>6, <3>7
  <2>2. CASE tx' = [tx EXCEPT ![h].pc = "refused"] /\ paid' = paid
    <3>1. bonus' = bonus /\ shown' = shown
      BY <1>2 DEF Report
    <3> QED BY <2>2, <3>1
  <2>3. \/ tx' = [tx EXCEPT ![h].pc = "paid"] /\ paid' = paid + tx[h].amount
        \/ tx' = [tx EXCEPT ![h].pc = "refused"] /\ paid' = paid
    BY ONLY <1>2, ~Told, Zenon DEF Report
  <2> QED BY <2>1, <2>2, <2>3
<1>3. ASSUME NEW h \in Handlers, Settle(h) PROVE PaidInv'
  BY <1>3 DEF Settle, Idle
<1>4. ASSUME NEW d \in Tabs, Review(d) PROVE PaidInv'
  <2> DEFINE already == IF Reports THEN shown ELSE 0
             settles == already >= Payable /\ (Reports \/ ~ReportsZero)
             r == [pc |-> "claimed", amount |-> Payable - already, already |-> already,
                   capped |-> Capped]
  <2>0. already \in Nat /\ already <= paid
    OBVIOUS
  <2>1. CASE settles
    <3>1. tx' = tx /\ bonus' = Payable /\ UNCHANGED <<paid, shown>>
      BY <1>4, <2>1 DEF Review
    <3> HIDE DEF already
    <3>2. Payable <= paid
      BY <2>0, <2>1
    <3> QED BY <3>1, <3>2
  <2>2. CASE ~settles
    <3>1. tx' = [tx EXCEPT ![d] = r] /\ UNCHANGED <<bonus, paid, shown>>
      BY <1>4, <2>2 DEF Review
    <3>2. r.already <= paid /\ r.pc = "claimed"
      BY <2>0
    <3> HIDE DEF r
    <3> QED BY <3>1, <3>2
  <2> QED BY <2>1, <2>2
<1>5. ASSUME NEW d \in Tabs, Pay(d) PROVE PaidInv'
  <2>0. tx[d].amount \in Nat /\ tx[d].already \in Nat /\ tx[d].already <= paid
    OBVIOUS
  <2>1. CASE tx' = [tx EXCEPT ![d].pc = "paid"] /\ paid' = paid + tx[d].amount
    <3>1. bonus' = bonus /\ shown' = shown
      BY <1>5 DEF Pay
    <3>2. \A c \in Actors : /\ tx'[c].amount = tx[c].amount /\ tx'[c].already = tx[c].already
                            /\ c # d => tx'[c].pc = tx[c].pc
      BY <2>1
    <3>3. paid' \in Nat /\ paid <= paid' /\ tx[d].amount <= paid'
          /\ tx[d].already + tx[d].amount <= paid + tx[d].amount
      BY ONLY <2>0, <2>1, <1>p
    <3>4. shown' <= paid' /\ bonus' <= paid'
      BY <3>1, <3>3
    <3>5. \A g \in Handlers : tx'[g].pc = "paid" => tx'[g].amount <= paid'
      BY ONLY PaidInv, <1>0, <1>p, <3>2, <3>3 DEF PaidInv, Actors
    <3>6. \A e \in Tabs : tx'[e].already <= paid'
      BY ONLY PaidInv, <1>0, <1>p, <3>2, <3>3 DEF PaidInv, Actors
    <3>7. \A e \in Tabs : tx'[e].pc = "paid" => tx'[e].already + tx'[e].amount <= paid'
      BY ONLY PaidInv, <1>0, <1>p, <2>0, <2>1, <3>2, <3>3 DEF PaidInv, Actors
    <3> QED BY <3>4, <3>5, <3>6, <3>7
  <2>2. CASE tx' = [tx EXCEPT ![d].pc = "refused"] /\ paid' = paid
    <3>1. bonus' = bonus /\ shown' = shown
      BY <1>5 DEF Pay
    <3> QED BY <2>2, <3>1
  <2>3. \/ tx' = [tx EXCEPT ![d].pc = "paid"] /\ paid' = paid + tx[d].amount
        \/ tx' = [tx EXCEPT ![d].pc = "refused"] /\ paid' = paid
    BY ONLY <1>5, ~Told, Zenon DEF Pay
  <2> QED BY <2>1, <2>2, <2>3
<1>6. ASSUME NEW d \in Tabs, Conclude(d) PROVE PaidInv'
  BY <1>6 DEF Conclude, Idle
<1>7. ASSUME NEW d \in Tabs, Dismiss(d) PROVE PaidInv'
  BY <1>7 DEF Dismiss
<1>8. ASSUME NEW c \in Actors, Crash(c) PROVE PaidInv'
  BY <1>8 DEF Crash, Idle
<1>9. ASSUME Show \/ Spend \/ UNCHANGED vars PROVE PaidInv'
  BY <1>9 DEF Show, Spend, vars
<1> QED BY <1>1, <1>2, <1>3, <1>4, <1>5, <1>6, <1>7, <1>8, <1>9 DEF Next

\* RecordedWasPaid, for every number of calls, every mix of recruiters and every
\* movement of the caps: a recorded bonus has been paid, whoever recorded it.
THEOREM RecordedBonusWasPaid == Spec => []RecordedWasPaid
<1> DEFINE Inv == ~CommitsEarly => PaidInv
<1>1. Init => Inv
  BY DEF Init, PaidInv, Actors, Idle
<1>2. TypeOK /\ Inv /\ [Next]_vars => Inv'
  <2> SUFFICES ASSUME TypeOK, Inv, [Next]_vars, ~CommitsEarly' PROVE PaidInv'
    OBVIOUS
  <2>1. ~CommitsEarly
    BY Zenon DEF Next, vars, CommitsEarly
  <2> QED BY <2>1, PaidInvStep
<1>3. Inv => RecordedWasPaid
  BY DEF PaidInv, RecordedWasPaid
<1> QED BY <1>1, <1>2, <1>3, TypeCorrect, PTL DEF Spec
-----------------------------------------------------------------------------
\* Whoever is about to pay holds the row of an unconfirmed bonus.  What was paid
\* is guarded afterwards: by the row until the outcome is recorded, by the outcome
\* then, and by the platform's confirmation if the recruiter freed the row early.
Guarded ==
  \/ CommitsEarly /\ confirmed
  \/ ~CommitsEarly /\ \/ status \in {"success", "capped", "dismissed"}
                      \/ \E d \in Tabs : row = d /\ tx[d].pc = "paid"

ReviewInv ==
  /\ \A d \in Tabs : tx[d].pc = "claimed" => row = d /\ status = "unconfirmed"
  /\ \A d \in Tabs : tx[d].pc = "refused" => row = d
  /\ \A d \in Tabs : tx[d].pc = "paid" /\ ~CommitsEarly => row = d
  /\ reviewed # 0 => Guarded
  /\ reviewed <= Decided

LEMMA ReviewInvStep ==
  ASSUME TypeOK, ReviewInv, Next, faults' = 0
  PROVE  ReviewInv'
<1>0. tx = [c \in Actors |-> tx[c]] /\ recruiter' = recruiter
  BY DEF TypeOK, Next
<1>. USE <1>0, PaymentAssumption DEF ReviewInv, Guarded, Actors, CommitsEarly, Record
<1>1. ASSUME NEW h \in Handlers, Claim(h) PROVE ReviewInv'
  BY <1>1 DEF Claim
<1>2. ASSUME NEW h \in Handlers, Report(h) PROVE ReviewInv'
  BY <1>2 DEF Report
<1>3. ASSUME NEW h \in Handlers, Settle(h) PROVE ReviewInv'
  BY <1>3 DEF Settle, Idle, TypeOK
<1>4. ASSUME NEW d \in Tabs, Review(d) PROVE ReviewInv'
  BY <1>4 DEF Review, NeedsReview
<1>5. ASSUME NEW d \in Tabs, Pay(d) PROVE ReviewInv'
  <2>1. tx[d].pc = "claimed" /\ row = d /\ status = "unconfirmed" /\ status' = status
    BY <1>5 DEF Pay
  <2>2. \A e \in Tabs \ {d} : tx[e].pc \notin {"claimed", "refused"} /\ (tx[e].pc = "paid" => CommitsEarly)
    BY <2>1
  <2>3. ASSUME NEW p \in {"paid", "refused"}, tx' = [tx EXCEPT ![d].pc = p]
        PROVE  tx'[d].pc = p /\ \A e \in Tabs \ {d} : tx'[e] = tx[e]
    BY <2>3 DEF TypeOK
  <2>4. CASE tx' = [tx EXCEPT ![d].pc = "refused"] /\ UNCHANGED <<reviewed, confirmed, row>>
    BY <2>1, <2>2, <2>3, <2>4
  <2>5. CASE Told /\ tx' = [tx EXCEPT ![d].pc = "paid"] /\ UNCHANGED <<reviewed, confirmed, row>>
    BY <2>1, <2>2, <2>3, <2>5 DEF Told
  <2>6. CASE /\ ~Told /\ tx' = [tx EXCEPT ![d].pc = "paid"]
             /\ reviewed' = reviewed + tx[d].amount /\ confirmed' = TRUE
             /\ IF CommitsEarly THEN row' = Nobody ELSE row' = row
    <3>1. reviewed = 0
      BY <2>1, <2>2, <2>6 DEF Told
    <3>2. tx[d].amount \in 0..Decided
      BY DEF TypeOK
    <3>3. reviewed' <= Decided
      BY <2>6, <3>1, <3>2
    <3>4. Guarded'
      BY <2>1, <2>3, <2>6
    <3>5. \A e \in Tabs : /\ tx'[e].pc \notin {"claimed", "refused"}
                          /\ tx'[e].pc = "paid" /\ ~CommitsEarly => row' = e
      BY <2>1, <2>2, <2>3, <2>6
    <3>. QED
      BY <3>3, <3>4, <3>5
  <2>. QED
    BY <1>5, <2>4, <2>5, <2>6, Zenon DEF Pay
<1>6. ASSUME NEW d \in Tabs, Conclude(d) PROVE ReviewInv'
  BY <1>6 DEF Conclude, Idle
<1>7. ASSUME NEW d \in Tabs, Dismiss(d) PROVE ReviewInv'
  BY <1>7 DEF Dismiss, NeedsReview
<1>8. ASSUME NEW c \in Actors, Crash(c) PROVE FALSE
  BY <1>8 DEF Crash, TypeOK
<1>9. CASE Show \/ Spend
  BY <1>9 DEF Show, Spend
<1>. QED
  BY <1>1, <1>2, <1>3, <1>4, <1>5, <1>6, <1>7, <1>8, <1>9 DEF Next

\* ReviewedOnce, for every number of dashboard requests and automatic calls, every
\* bonus and every recruiter: without a crash the dashboard pays the bonus once,
\* although its row is free while some recruiters record it.
THEOREM ReviewPaysOnce == Spec => []ReviewedOnce
<1>. DEFINE Inv == faults = 0 => ReviewInv
<1>1. Init => Inv
  BY PaymentAssumption DEF Init, ReviewInv, Actors, Idle
<1>2. TypeOK /\ Inv /\ [Next]_vars => Inv'
  <2>. SUFFICES ASSUME TypeOK, Inv, [Next]_vars, faults' = 0 PROVE ReviewInv'
    OBVIOUS
  <2>1. CASE UNCHANGED vars
    BY <2>1 DEF vars, ReviewInv, Guarded, CommitsEarly
  <2>2. CASE Next
    <3>1. faults = 0
      BY <2>2 DEF Next, TypeOK, Claim, Report, Settle, Review, Pay, Conclude, Dismiss, Crash, Show, Spend
    <3>. QED
      BY <2>2, <3>1, ReviewInvStep
  <2>. QED
    BY <2>1, <2>2
<1>3. Inv => ReviewedOnce
  BY DEF ReviewInv, ReviewedOnce
<1>. QED
  BY <1>1, <1>2, <1>3, TypeCorrect, PTL DEF Spec
=============================================================================
