------------------------ MODULE TrialFinalizeProofs ------------------------
(***************************************************************************)
(* Proofs about TrialFinalize for any number of assets, deposited by async *)
(* jobs or by uploads, and any number of faults.                           *)
(***************************************************************************)
EXTENDS TrialFinalize, FiniteSetTheorems, TLAPS

TrialRow == [complete : BOOLEAN, requested : BOOLEAN, analysed : BOOLEAN,
             finalized : BOOLEAN, failed : {"no", "other", "recording"}]
Tx == [pc : {"idle", "entered", "loaded", "planned"}, from : TrialRow, to : TrialRow,
       deposits : SUBSET Assets, queues : BOOLEAN, leaves : BOOLEAN,
       on : Workers \cup {Nobody}, next : {"ended", "recheck"}]

TrialTypeOK == trial \in TrialRow /\ tx \in [Actors -> Tx] /\ finals \in Nat /\ analyses \in Nat

\* Who has entered holds the participant, and so does who will finalize the
\* trial, which nobody else has.  Who will queue the analysis holds the trial,
\* and it has not been requested.
Writes(c) ==
  /\ tx[c].pc # "planned" => tx[c].queues = FALSE
  /\ tx[c].pc \in {"entered", "loaded"} => row = c
  /\ tx[c].pc = "loaded" => c = Request /\ tx[c].from.finalized = trial.finalized
  /\ tx[c].pc = "planned" =>
       /\ tx[c].to.finalized # tx[c].from.finalized =>
            tx[c].to.finalized = TRUE /\ row = c /\ trial.finalized = FALSE
       /\ tx[c].to.requested # tx[c].from.requested => tx[c].queues = TRUE
       /\ tx[c].queues = TRUE =>
            /\ tx[c].to.requested = TRUE /\ tx[c].from.requested = FALSE
            /\ trialRow = c /\ trial.requested = FALSE

\* on_finalized has run, and the analysis has been queued, as the row says.
Counted ==
  /\ finals = (IF trial.finalized = TRUE THEN 1 ELSE 0)
  /\ analyses = (IF trial.requested = TRUE THEN 1 ELSE 0)

TrialInv == TrialTypeOK /\ (\A c \in Actors : Writes(c)) /\ Counted
-----------------------------------------------------------------------------
LEMMA IdleType == NewTrial \in TrialRow /\ Idle \in Tx /\ Idle.pc = "idle" /\ Idle.queues = FALSE
<1>1. NewTrial \in TrialRow
  BY DEF NewTrial, TrialRow
<1>. QED
  BY <1>1 DEF Idle, Tx

LEMMA InitTrial == Init => TrialInv
<1>. SUFFICES ASSUME Init PROVE TrialInv
  OBVIOUS
<1>1. TrialTypeOK
  BY IdleType DEF Init, TrialTypeOK
<1>2. \A c \in Actors : Writes(c)
  BY IdleType DEF Init, Writes
<1>3. Counted
  BY DEF Init, Counted, NewTrial
<1>. QED
  BY <1>1, <1>2, <1>3 DEF TrialInv

\* A step of one process that commits nothing leaves the others what they hold.
LEMMA OthersKeep ==
  ASSUME TrialInv, NEW c \in Actors, UNCHANGED <<trial, finals, analyses>>,
         NEW r \in Tx, tx' = [tx EXCEPT ![c] = r],
         row' \in {row, c} \/ row' = Freed(row, c), row' = c => row \in {Nobody, c},
         trialRow' \in {trialRow, c} \/ trialRow' = Freed(trialRow, c),
         trialRow' = c => trialRow \in {Nobody, c},
         Writes(c)'
  PROVE  TrialInv'
<1>1. tx \in [Actors -> Tx]
  BY DEF TrialInv, TrialTypeOK
<1>2. tx' \in [Actors -> Tx] /\ tx'[c] = r /\ \A d \in Actors \ {c} : tx'[d] = tx[d]
  BY <1>1
<1>3. ASSUME NEW d \in Actors, d # c PROVE Writes(d)'
  <2>1. Writes(d) /\ tx'[d] = tx[d]
    BY <1>2, <1>3 DEF TrialInv
  <2>2. (row = d => row' = d) /\ (trialRow = d => trialRow' = d)
    BY <1>3, TrialAssumption DEF Freed
  <2>. QED
    BY <2>1, <2>2 DEF Writes
<1>4. TrialTypeOK' /\ Counted'
  BY <1>2 DEF TrialInv, TrialTypeOK, Counted
<1>. QED
  BY <1>2, <1>3, <1>4 DEF TrialInv

\* A plan is a transaction of the right type.
LEMMA PlanIs ==
  ASSUME TrialTypeOK, NEW c \in Actors, NEW from \in TrialRow, NEW to \in TrialRow,
         NEW dep \in SUBSET Assets, NEW queues \in BOOLEAN, NEW next \in {"ended", "recheck"},
         Plan(c, from, to, dep, queues, next)
  PROVE  \E r \in Tx : /\ tx' = [tx EXCEPT ![c] = r] /\ tx'[c] = r
                       /\ r.pc = "planned" /\ r.from = from /\ r.to = to /\ r.queues = queues
<1>. DEFINE r == [tx[c] EXCEPT !.pc = "planned", !.from = from, !.to = to,
                               !.deposits = dep, !.queues = queues, !.next = next]
<1>1. tx[c] \in Tx
  BY DEF TrialTypeOK
<1>4. r \in Tx /\ r.pc = "planned" /\ r.from = from /\ r.to = to /\ r.queues = queues
  BY <1>1 DEF Tx
<1>3. tx' = [tx EXCEPT ![c] = r] /\ tx'[c] = r
  BY DEF Plan, TrialTypeOK
<1>. QED
  BY <1>3, <1>4

\* The decisions keep the type, and change what they say.
LEMMA FinalizedIs ==
  ASSUME NEW t \in TrialRow, NEW dep
  PROVE  /\ Finalized(t, dep) \in TrialRow
         /\ Finalized(t, dep).requested = t.requested
         /\ t.finalized = TRUE => Finalized(t, dep).finalized = TRUE
BY DEF Finalized, TrialRow

LEMMA FailedIs ==
  ASSUME NEW t \in TrialRow, NEW reason \in {"other", "recording"}
  PROVE  /\ Failed(t, reason) \in TrialRow
         /\ Failed(t, reason).requested = t.requested
         /\ Failed(t, reason).finalized = t.finalized
BY DEF Failed, TrialRow

LEMMA WantsIs ==
  ASSUME NEW t \in TrialRow, NEW dep
  PROVE  WantsAnalysis(t, dep) \in BOOLEAN /\ (WantsAnalysis(t, dep) => t.requested = FALSE)
BY TrialAssumption DEF WantsAnalysis, TrialRow

\* A process may plan to finalize what it has loaded under the participant's row,
\* and to queue the analysis under the trial's.
LEMMA PlanKeeps ==
  ASSUME TrialInv, NEW c \in Actors, NEW from \in TrialRow, NEW to \in TrialRow,
         NEW dep \in SUBSET Assets, NEW queues \in BOOLEAN, NEW next \in {"ended", "recheck"},
         Plan(c, from, to, dep, queues, next), UNCHANGED <<trial, finals, analyses>>,
         row' \in {row, c}, row' = c => row \in {Nobody, c},
         trialRow' \in {trialRow, c}, trialRow' = c => trialRow \in {Nobody, c},
         to.finalized # from.finalized => to.finalized = TRUE /\ row' = c /\ trial.finalized = FALSE,
         to.requested # from.requested => queues = TRUE,
         queues = TRUE => /\ to.requested = TRUE /\ from.requested = FALSE
                          /\ trialRow' = c /\ trial.requested = FALSE
  PROVE  TrialInv'
<1>1. PICK r \in Tx : /\ tx' = [tx EXCEPT ![c] = r] /\ tx'[c] = r
                      /\ r.pc = "planned" /\ r.from = from /\ r.to = to /\ r.queues = queues
  BY PlanIs DEF TrialInv
<1>2. Writes(c)'
  BY <1>1 DEF Writes
<1>. QED
  BY <1>1, <1>2, OthersKeep

LEMMA EnterStep ==
  ASSUME TrialInv, NEW c \in Actors, Enter(c)
  PROVE  TrialInv'
<1>. DEFINE r == [tx[c] EXCEPT !.pc = IF c = Request THEN "loaded" ELSE "entered", !.from = trial]
<1>1. tx[c] \in Tx /\ trial \in TrialRow
  BY DEF TrialInv, TrialTypeOK
<1>2. r \in Tx /\ r.from = trial /\ r.queues = tx[c].queues
      /\ r.pc = IF c = Request THEN "loaded" ELSE "entered"
  BY <1>1 DEF Tx
<1>3. /\ tx' = [tx EXCEPT ![c] = r] /\ row = Nobody /\ row' = c /\ tx[c].pc = "idle"
      /\ UNCHANGED <<trial, trialRow, finals, analyses>>
  BY DEF Enter
<1>. HIDE DEF r
<1>4. tx'[c] = r
  BY <1>3 DEF TrialInv, TrialTypeOK
<1>5. Writes(c)'
  BY <1>2, <1>3, <1>4 DEF TrialInv, Writes
<1>6. trialRow' = c => trialRow \in {Nobody, c}
  BY <1>3
<1>. QED
  BY <1>2, <1>3, <1>5, <1>6, OthersKeep

LEMMA CompleteStep ==
  ASSUME TrialInv, Complete
  PROVE  TrialInv'
<1>. DEFINE old == tx[Request].from
            t == [old EXCEPT !.complete = TRUE]
            asks == WantsAnalysis(t, deposited)
            from == IF asks THEN [old EXCEPT !.requested = trial.requested] ELSE old
            to == IF asks THEN [t EXCEPT !.requested = TRUE] ELSE t
            queues == asks /\ ~trial.requested
<1>1. old \in TrialRow /\ trial \in TrialRow /\ Request \in Actors
  BY DEF TrialInv, TrialTypeOK, Tx, Actors
<1>2. t \in TrialRow /\ t.requested = old.requested /\ t.finalized = old.finalized
  BY <1>1 DEF TrialRow
<1>3. asks \in BOOLEAN
  BY <1>2, WantsIs
<1>4. from \in TrialRow /\ from.finalized = old.finalized
      /\ from.requested = (IF asks THEN trial.requested ELSE old.requested)
  BY <1>1 DEF TrialRow
<1>5. to \in TrialRow /\ to.finalized = old.finalized
      /\ to.requested = (IF asks THEN TRUE ELSE old.requested)
  BY <1>2 DEF TrialRow
<1>6. /\ Plan(Request, from, Finalized(to, deposited), {}, queues, "ended")
      /\ trialRow' = (IF asks THEN Request ELSE trialRow) /\ (asks => trialRow = Nobody)
      /\ tx[Request].pc = "loaded" /\ UNCHANGED <<trial, row, finals, analyses>>
  BY DEF Complete
<1>7. row = Request /\ old.finalized = trial.finalized
  BY <1>1, <1>6 DEF TrialInv, Writes
<1>8. queues \in BOOLEAN /\ (queues = TRUE => asks /\ trial.requested = FALSE)
      /\ (asks /\ trial.requested = FALSE => queues = TRUE)
  BY <1>1, <1>3 DEF TrialRow
<1>. HIDE DEF old, t, asks, from, to, queues
<1>9. /\ Finalized(to, deposited) \in TrialRow
      /\ Finalized(to, deposited).requested = to.requested
      /\ to.finalized = TRUE => Finalized(to, deposited).finalized = TRUE
  BY <1>5, FinalizedIs
<1>. DEFINE fin == Finalized(to, deposited)
<1>. HIDE DEF fin
<1>10. fin.finalized # from.finalized => fin.finalized = TRUE /\ row' = Request /\ trial.finalized = FALSE
  BY <1>1, <1>4, <1>5, <1>6, <1>7, <1>9 DEF fin, TrialRow
<1>11. fin.requested # from.requested => queues = TRUE
  BY <1>1, <1>4, <1>5, <1>8, <1>9 DEF fin, TrialRow
<1>12. queues = TRUE => /\ fin.requested = TRUE /\ from.requested = FALSE
                        /\ trialRow' = Request /\ trial.requested = FALSE
  BY <1>4, <1>5, <1>6, <1>8, <1>9 DEF fin
<1>13. Plan(Request, from, fin, {}, queues, "ended") /\ fin \in TrialRow
  BY <1>6, <1>9 DEF fin
<1>14. trialRow' \in {trialRow, Request} /\ (trialRow' = Request => trialRow \in {Nobody, Request})
  BY <1>6
<1>. QED
  BY <1>1, <1>4, <1>6, <1>7, <1>8, <1>10, <1>11, <1>12, <1>13, <1>14, PlanKeeps

\* Whoever has taken both rows plans from the trial as it is.
LEMMA FreshPlan ==
  ASSUME TrialInv, NEW c \in Actors, NEW to \in TrialRow,
         NEW dep \in SUBSET Assets, NEW queues \in BOOLEAN, NEW next \in {"ended", "recheck"},
         Plan(c, trial, to, dep, queues, next), UNCHANGED <<trial, finals, analyses>>,
         row' \in {row, c}, row' = c => row \in {Nobody, c},
         trialRow' \in {trialRow, c}, trialRow' = c => trialRow \in {Nobody, c},
         to.finalized = trial.finalized \/ (row' = c /\ (trial.finalized = TRUE => to.finalized = TRUE)),
         to.requested # trial.requested => queues = TRUE,
         queues = TRUE => to.requested = TRUE /\ trial.requested = FALSE /\ trialRow' = c
  PROVE  TrialInv'
<1>1. trial \in TrialRow
  BY DEF TrialInv, TrialTypeOK
<1>2. to.finalized # trial.finalized => to.finalized = TRUE /\ row' = c /\ trial.finalized = FALSE
  BY <1>1 DEF TrialRow
<1>. QED
  BY <1>1, <1>2, PlanKeeps

LEMMA AskedTrial ==
  ASSUME NEW t \in TrialRow, NEW asks \in BOOLEAN
  PROVE  /\ [t EXCEPT !.requested = @ \/ asks] \in TrialRow
         /\ [t EXCEPT !.requested = @ \/ asks].finalized = t.finalized
         /\ [t EXCEPT !.requested = @ \/ asks].requested # t.requested => asks = TRUE
         /\ asks = TRUE => [t EXCEPT !.requested = @ \/ asks].requested = TRUE
BY DEF TrialRow

LEMMA LockedStep ==
  ASSUME TrialInv, FailParticipant \/ Sweep \/ \E w \in Workers : Recheck(w)
  PROVE  TrialInv'
<1>0. trial \in TrialRow /\ Exit \in Actors /\ Backstop \in Actors /\ Workers \subseteq Actors
  BY DEF TrialInv, TrialTypeOK, Actors
<1>f. /\ Finalized(trial, deposited) \in TrialRow
      /\ Finalized(trial, deposited).requested = trial.requested
      /\ trial.finalized = TRUE => Finalized(trial, deposited).finalized = TRUE
  BY <1>0, FinalizedIs
<1>o. /\ Failed(trial, "other") \in TrialRow
      /\ Failed(trial, "other").requested = trial.requested
      /\ Failed(trial, "other").finalized = trial.finalized
  BY <1>0, FailedIs
<1>1. CASE FailParticipant
  <2>. DEFINE to == IF Spared THEN trial ELSE Failed(trial, "other")
              r == [tx[Exit] EXCEPT !.pc = "planned", !.leaves = TRUE, !.from = trial, !.to = to]
  <2>1. tx[Exit] \in Tx
    BY <1>0 DEF TrialInv, TrialTypeOK
  <2>2. /\ tx' = [tx EXCEPT ![Exit] = r] /\ tx[Exit].pc = "entered"
        /\ UNCHANGED <<trial, row, finals, analyses>>
        /\ trialRow' \in {trialRow, Exit} /\ (trialRow' = Exit => trialRow \in {Nobody, Exit})
    BY <1>1 DEF FailParticipant
  <2>3. to \in TrialRow /\ to.requested = trial.requested /\ to.finalized = trial.finalized
    BY <1>0, <1>o
  <2>. HIDE DEF to
  <2>4. r \in Tx /\ r.pc = "planned" /\ r.from = trial /\ r.to = to
        /\ r.queues = tx[Exit].queues
    BY <1>0, <2>1, <2>3 DEF Tx
  <2>. HIDE DEF r
  <2>5. tx'[Exit] = r
    BY <1>0, <2>2 DEF TrialInv, TrialTypeOK
  <2>6. Writes(Exit)'
    BY <1>0, <2>2, <2>3, <2>4, <2>5 DEF TrialInv, Writes
  <2>. QED
    BY <1>0, <2>2, <2>4, <2>6, OthersKeep
<1>2. CASE Sweep
  BY <1>0, <1>f, <1>o, <1>2, FreshPlan DEF Sweep
<1>3. ASSUME NEW w \in Workers, Recheck(w) PROVE TrialInv'
  <2>1. /\ tx[w].pc = "entered" /\ trialRow = Nobody /\ trialRow' = w
        /\ UNCHANGED <<trial, row, finals, analyses>>
        /\ Plan(w, trial, Finalized(trial, deposited), {}, FALSE, "ended")
    BY <1>3 DEF Recheck, LockTrial
  <2>2. row = w
    BY <1>0, <2>1 DEF TrialInv, Writes
  <2>. QED
    BY <1>0, <1>f, <2>1, <2>2, FreshPlan
<1>. QED
  BY <1>1, <1>2, <1>3

LEMMA UploadStep ==
  ASSUME TrialInv, NEW a \in Assets, ResolveUpload(a) \/ Deposit(a)
  PROVE  TrialInv'
<1>. DEFINE dep == deposited \cup {a}
            wants == WantsAnalysis(trial, dep)
<1>0. trial \in TrialRow /\ a \in Actors
  BY DEF TrialInv, TrialTypeOK, Actors, Workers
<1>1. wants \in BOOLEAN /\ (wants => trial.requested = FALSE)
  BY <1>0, WantsIs
<1>2. CASE Deposit(a)
  <2>1. /\ Plan(a, trial, [trial EXCEPT !.requested = @ \/ wants], {a}, wants, "recheck")
        /\ (wants => trialRow = Nobody) /\ trialRow' = (IF wants THEN a ELSE trialRow)
        /\ UNCHANGED <<trial, row, finals, analyses>>
    BY <1>2 DEF Deposit
  <2>. HIDE DEF wants
  <2>2. /\ [trial EXCEPT !.requested = @ \/ wants] \in TrialRow
        /\ [trial EXCEPT !.requested = @ \/ wants].finalized = trial.finalized
        /\ [trial EXCEPT !.requested = @ \/ wants].requested # trial.requested => wants = TRUE
        /\ wants = TRUE => [trial EXCEPT !.requested = @ \/ wants].requested = TRUE
    BY <1>0, <1>1, AskedTrial
  <2>. DEFINE to == [trial EXCEPT !.requested = @ \/ wants]
  <2>. HIDE DEF to
  <2>3. /\ to \in TrialRow /\ to.finalized = trial.finalized
        /\ to.requested # trial.requested => wants = TRUE
        /\ wants = TRUE => to.requested = TRUE
        /\ Plan(a, trial, to, {a}, wants, "recheck")
    BY <2>1, <2>2 DEF to
  <2>4. row' = a => row \in {Nobody, a}
    BY <2>1
  <2>5. trialRow' \in {trialRow, a} /\ (trialRow' = a => trialRow \in {Nobody, a})
    BY <2>1
  <2>6. wants = TRUE => to.requested = TRUE /\ trial.requested = FALSE /\ trialRow' = a
    BY <1>1, <2>1, <2>3
  <2>. QED
    BY <1>0, <1>1, <2>1, <2>3, <2>4, <2>5, <2>6, FreshPlan
<1>3. CASE ResolveUpload(a)
  <2>. DEFINE asks == trial.failed = "no" /\ wants
  <2>1. trialRow = Nobody /\ trialRow' = a /\ UNCHANGED <<trial, row, finals, analyses>>
    BY <1>3 DEF ResolveUpload, LockTrial
  <2>2. \/ Plan(a, trial, [trial EXCEPT !.requested = @ \/ asks], {a}, asks, "recheck")
        \/ Plan(a, trial, Failed(trial, "recording"), {}, FALSE, "ended")
    BY <1>3, Zenon DEF ResolveUpload
  <2>3. asks \in BOOLEAN /\ (asks = TRUE => trial.requested = FALSE)
    BY <1>1
  <2>4. row' = a => row \in {Nobody, a}
    BY <2>1
  <2>5. CASE Plan(a, trial, Failed(trial, "recording"), {}, FALSE, "ended")
    BY <1>0, <2>1, <2>4, <2>5, FailedIs, FreshPlan
  <2>6. CASE Plan(a, trial, [trial EXCEPT !.requested = @ \/ asks], {a}, asks, "recheck")
    <3>. HIDE DEF asks
    <3>. DEFINE to == [trial EXCEPT !.requested = @ \/ asks]
    <3>1. /\ to \in TrialRow /\ to.finalized = trial.finalized
          /\ to.requested # trial.requested => asks = TRUE
          /\ asks = TRUE => to.requested = TRUE
          /\ Plan(a, trial, to, {a}, asks, "recheck")
      BY <1>0, <2>3, <2>6, AskedTrial
    <3>. HIDE DEF to
    <3>2. asks = TRUE => to.requested = TRUE /\ trial.requested = FALSE /\ trialRow' = a
      BY <2>1, <2>3, <3>1
    <3>. QED
      BY <1>0, <2>1, <2>3, <2>4, <3>1, <3>2, FreshPlan
  <2>. QED
    BY <2>2, <2>5, <2>6
<1>. QED
  BY <1>2, <1>3

\* Async jobs fail the trial or analyse it.
LEMMA JobStep ==
  ASSUME TrialInv, Analyse \/ \E j \in Workers : HandleError(j) \/ TimeOut(j)
  PROVE  TrialInv'
<1>0. trial \in TrialRow /\ Analysis \in Actors /\ Clock \in Actors /\ Workers \subseteq Actors
  BY DEF TrialInv, TrialTypeOK, Actors, Workers
<1>o. /\ Failed(trial, "other") \in TrialRow
      /\ Failed(trial, "other").requested = trial.requested
      /\ Failed(trial, "other").finalized = trial.finalized
  BY <1>0, FailedIs
<1>1. CASE Analyse
  <2>1. PICK t \in {trial, Failed(trial, "other")} :
          Plan(Analysis, trial, [t EXCEPT !.analysed = trial.failed # "recording"], {}, FALSE, "recheck")
    BY <1>1 DEF Analyse
  <2>2. t \in TrialRow /\ t.requested = trial.requested /\ t.finalized = trial.finalized
    BY <1>0, <1>o
  <2>. DEFINE to == [t EXCEPT !.analysed = trial.failed # "recording"]
  <2>3. to \in TrialRow /\ to.requested = trial.requested /\ to.finalized = trial.finalized
    BY <2>2 DEF TrialRow
  <2>4. UNCHANGED <<trial, row, trialRow, finals, analyses>>
    BY <1>1 DEF Analyse
  <2>5. Plan(Analysis, trial, to, {}, FALSE, "recheck")
    BY <2>1
  <2>. HIDE DEF to
  <2>. QED
    BY <1>0, <2>3, <2>4, <2>5, FreshPlan
<1>2. ASSUME NEW j \in Workers, HandleError(j) PROVE TrialInv'
  <2>1. PICK to \in {trial, Failed(trial, "other")} : Plan(j, trial, to, {}, FALSE, "recheck")
    BY <1>2 DEF HandleError
  <2>2. to \in TrialRow /\ to.requested = trial.requested /\ to.finalized = trial.finalized
    BY <1>0, <1>o
  <2>3. UNCHANGED <<trial, row, trialRow, finals, analyses>>
    BY <1>2 DEF HandleError
  <2>. QED
    BY <1>0, <2>1, <2>2, <2>3, FreshPlan
<1>3. ASSUME NEW j \in Workers, TimeOut(j) PROVE TrialInv'
  <2>. DEFINE to == IF j \in stored /\ trial.finalized THEN trial ELSE Failed(trial, "other")
              r == [tx[Clock] EXCEPT !.pc = "planned", !.on = j, !.from = trial, !.to = to]
  <2>1. to \in TrialRow /\ to.requested = trial.requested /\ to.finalized = trial.finalized
    BY <1>0, <1>o
  <2>2. /\ tx' = [tx EXCEPT ![Clock] = r] /\ tx[Clock].pc = "idle"
        /\ UNCHANGED <<trial, row, trialRow, finals, analyses>>
    BY <1>3 DEF TimeOut
  <2>. HIDE DEF to
  <2>3. tx[Clock] \in Tx
    BY <1>0 DEF TrialInv, TrialTypeOK
  <2>4. /\ r \in Tx /\ r.pc = "planned" /\ r.from = trial /\ r.to = to
        /\ r.queues = tx[Clock].queues
    BY <1>0, <2>1, <2>3 DEF Tx
  <2>. HIDE DEF r
  <2>5. tx'[Clock] = r
    BY <1>0, <2>2 DEF TrialInv, TrialTypeOK
  <2>6. Writes(Clock)'
    BY <1>0, <2>1, <2>2, <2>4, <2>5 DEF TrialInv, Writes
  <2>. QED
    BY <1>0, <2>2, <2>4, <2>6, OthersKeep
<1>. QED
  BY <1>1, <1>2, <1>3

\* A transaction that ends without a commit, and steps that touch neither the
\* trial nor a transaction.
LEMMA AbortStep ==
  ASSUME TrialInv, NEW c \in Actors, Abort(c) \/ (c \in Workers /\ RecheckTimesOut(c))
  PROVE  TrialInv'
<1>1. /\ tx' = [tx EXCEPT ![c] = Idle] /\ row' = Freed(row, c)
      /\ trialRow' \in {trialRow, Freed(trialRow, c)} /\ UNCHANGED <<trial, finals, analyses>>
  BY DEF Abort, RecheckTimesOut
<1>2. tx'[c] = Idle
  BY <1>1 DEF TrialInv, TrialTypeOK
<1>3. Writes(c)'
  BY <1>2, IdleType DEF Writes
<1>4. (row' = c => row \in {Nobody, c}) /\ (trialRow' = c => trialRow \in {Nobody, c})
  BY <1>1 DEF Freed
<1>5. trialRow' \in {trialRow, c} \/ trialRow' = Freed(trialRow, c)
  BY <1>1
<1>. QED
  BY <1>1, <1>3, <1>4, <1>5, IdleType, OthersKeep

LEMMA QuietStep ==
  ASSUME TrialInv, UNCHANGED <<trial, row, trialRow, tx, finals, analyses>>
  PROVE  TrialInv'
BY DEF TrialInv, TrialTypeOK, Writes, Counted

\* A commit writes the columns that its transaction changed.  Whoever finalizes
\* is alone, and so is whoever queues the analysis.
LEMMA CommitStep ==
  ASSUME TrialInv, NEW c \in Actors, Commit(c)
  PROVE  TrialInv'
<1>. DEFINE t == tx[c]
<1>0. trial \in TrialRow /\ t \in Tx /\ t.pc = "planned" /\ Writes(c)
  BY DEF TrialInv, TrialTypeOK, Commit
<1>1. t.from \in TrialRow /\ t.to \in TrialRow /\ t.queues \in BOOLEAN
  BY <1>0 DEF Tx
<1>2. /\ trial' = [f \in DOMAIN trial |-> IF t.to[f] = t.from[f] THEN trial[f] ELSE t.to[f]]
      /\ finals' = (IF t.to.finalized /\ ~t.from.finalized THEN finals + 1 ELSE finals)
      /\ analyses' = (IF t.queues THEN analyses + 1 ELSE analyses)
      /\ row' = Freed(row, c) /\ trialRow' = Freed(trialRow, c)
      /\ tx' = [tx EXCEPT ![c] = Idle]
  BY DEF Commit
<1>3. tx'[c] = Idle /\ tx' \in [Actors -> Tx] /\ \A d \in Actors \ {c} : tx'[d] = tx[d]
  BY <1>2, IdleType DEF TrialInv, TrialTypeOK
<1>. HIDE DEF t
<1>4. trial' \in TrialRow
  BY <1>0, <1>1, <1>2 DEF TrialRow
<1>5. /\ trial'.finalized = (IF t.to.finalized = t.from.finalized THEN trial.finalized ELSE t.to.finalized)
      /\ trial'.requested = (IF t.to.requested = t.from.requested THEN trial.requested ELSE t.to.requested)
  BY <1>0, <1>2 DEF TrialRow
<1>6. /\ t.to.finalized # t.from.finalized =>
           t.to.finalized = TRUE /\ row = c /\ trial.finalized = FALSE
      /\ t.to.requested # t.from.requested => t.queues = TRUE
      /\ t.queues = TRUE => /\ t.to.requested = TRUE /\ t.from.requested = FALSE
                            /\ trialRow = c /\ trial.requested = FALSE
  BY <1>0 DEF t, Writes
<1>7. row # c => trial'.finalized = trial.finalized
  BY <1>5, <1>6
<1>8. trialRow # c => trial'.requested = trial.requested
  BY <1>5, <1>6
<1>9. ASSUME NEW d \in Actors PROVE Writes(d)'
  <2>1. CASE d = c
    BY <1>3, <2>1, IdleType DEF Writes
  <2>2. CASE d # c
    <3>1. Writes(d) /\ tx'[d] = tx[d]
      BY <1>3, <2>2 DEF TrialInv
    <3>2. (row = d => row' = d /\ row # c) /\ (trialRow = d => trialRow' = d /\ trialRow # c)
      BY <1>2, <2>2, TrialAssumption DEF Freed
    <3>3. tx[d].pc \in {"entered", "loaded"} => row' = d
      BY <3>1, <3>2 DEF Writes
    <3>4. tx[d].pc = "loaded" => d = Request /\ tx[d].from.finalized = trial'.finalized
      BY <1>7, <3>1, <3>2 DEF Writes
    <3>5. tx[d].pc = "planned" /\ tx[d].to.finalized # tx[d].from.finalized =>
            tx[d].to.finalized = TRUE /\ row' = d /\ trial'.finalized = FALSE
      BY <1>7, <3>1, <3>2 DEF Writes
    <3>6. tx[d].pc = "planned" =>
            /\ tx[d].to.requested # tx[d].from.requested => tx[d].queues = TRUE
            /\ tx[d].queues = TRUE =>
                 /\ tx[d].to.requested = TRUE /\ tx[d].from.requested = FALSE
                 /\ trialRow' = d /\ trial'.requested = FALSE
      BY <1>8, <3>1, <3>2 DEF Writes
    <3>7. tx[d].pc # "planned" => tx[d].queues = FALSE
      BY <3>1 DEF Writes
    <3>. QED
      BY <3>1, <3>3, <3>4, <3>5, <3>6, <3>7 DEF Writes
  <2>. QED
    BY <2>1, <2>2
<1>10. finals = (IF trial.finalized = TRUE THEN 1 ELSE 0) /\ analyses = (IF trial.requested = TRUE THEN 1 ELSE 0)
  BY DEF TrialInv, Counted
<1>11. finals' = (IF trial'.finalized = TRUE THEN 1 ELSE 0)
  <2>1. CASE t.to.finalized = t.from.finalized
    BY <1>1, <1>2, <1>5, <1>10, <2>1 DEF TrialRow
  <2>2. CASE t.to.finalized # t.from.finalized
    <3>1. t.to.finalized = TRUE /\ t.from.finalized = FALSE /\ trial.finalized = FALSE
      BY <1>1, <1>6, <2>2 DEF TrialRow
    <3>. QED
      BY <1>2, <1>5, <1>10, <3>1
  <2>. QED
    BY <2>1, <2>2
<1>12. analyses' = (IF trial'.requested = TRUE THEN 1 ELSE 0)
  <2>1. CASE t.queues = TRUE
    BY <1>2, <1>5, <1>6, <1>10, <2>1
  <2>2. CASE t.queues = FALSE
    BY <1>2, <1>5, <1>6, <1>10, <2>2
  <2>. QED
    BY <1>1, <2>1, <2>2
<1>13. TrialTypeOK' /\ Counted'
  BY <1>3, <1>4, <1>11, <1>12 DEF TrialTypeOK, Counted
<1>. QED
  BY <1>9, <1>13 DEF TrialInv

LEMMA TrialInvariant == Spec => []TrialInv
<1>1. ASSUME TrialInv, [Next]_vars PROVE TrialInv'
  <2>0. Workers \subseteq Actors
    BY DEF Actors
  <2>1. CASE \E c \in Actors : Enter(c) \/ Commit(c) \/ Abort(c)
    BY <1>1, <2>1, EnterStep, CommitStep, AbortStep
  <2>2. CASE Complete
    BY <1>1, <2>2, CompleteStep
  <2>3. CASE FailParticipant \/ Sweep \/ \E w \in Workers : Recheck(w)
    BY <1>1, <2>3, LockedStep
  <2>4. CASE \E a \in Assets : ResolveUpload(a) \/ Deposit(a)
    BY <1>1, <2>4, UploadStep
  <2>5. CASE Analyse \/ \E j \in Workers : HandleError(j) \/ TimeOut(j)
    BY <1>1, <2>5, JobStep
  <2>6. CASE \E w \in Workers : RecheckTimesOut(w)
    BY <1>1, <2>0, <2>6, AbortStep
  <2>7. CASE (\E j \in Workers : Start(j) \/ Lose(j)) \/ UNCHANGED vars
    BY <1>1, <2>7, QuietStep DEF Start, Lose, vars, state
  <2>. QED
    BY <1>1, <2>1, <2>2, <2>3, <2>4, <2>5, <2>6, <2>7 DEF Next
<1>. QED
  BY <1>1, InitTrial, PTL DEF Spec
-----------------------------------------------------------------------------
\* However many assets and workers there are, and whatever is lost or rolled
\* back, on_finalized runs in one commit only.
THEOREM FinalizesOnce == Spec => []FinalizedOnce
<1>1. TrialInv => FinalizedOnce
  BY DEF TrialInv, Counted, FinalizedOnce
<1>. QED
  BY <1>1, TrialInvariant, PTL

\* The analysis is queued in one commit only, whether the last deposit, an
\* upload or the answer finds that nothing is left to wait for.
THEOREM AnalysesOnce == Spec => []AnalysedOnce
<1>1. TrialInv => AnalysedOnce
  BY DEF TrialInv, Counted, AnalysedOnce
<1>. QED
  BY <1>1, TrialInvariant, PTL
-----------------------------------------------------------------------------
(* A trial class with an analysis: how far the jobs of a trial can be from *)
(* its analysis.  Finalizing waits for the analysis, which waits for every *)
(* deposit, and a job that is done cannot fail the trial any more.         *)

Done(j) == work[j] \in {"recheck", "ended"} /\ job[j].pending = FALSE /\ tx[Clock].on # j

Ready == trial.requested = TRUE /\ trial.analysed = TRUE

JobTypeOK ==
  /\ stored \in SUBSET Assets /\ deposited \in SUBSET Assets
  /\ work \in [Workers -> {"absent", "queued", "running", "erring", "recheck", "ended", "lost"}]
  /\ job \in [Workers -> [pending : BOOLEAN, failed : BOOLEAN, finished : BOOLEAN]]

JobsInv ==
  /\ trial.analysed = TRUE => trial.requested = TRUE /\ Done(Analysis)
  /\ trial.requested = TRUE => Assets \subseteq deposited
  /\ work[Analysis] # "absent" => trial.requested = TRUE
  /\ \A a \in stored \cap deposited : Done(a)
  /\ \A j \in Workers : job[j].pending = TRUE \/ work[j] = "erring" => j \in Jobs

\* A worker has a transaction only while it works, and the clock one about a
\* job only while it times it out.
Busy(c) ==
  /\ c \in Workers /\ tx[c].pc # "idle" => work[c] \in {"running", "erring", "recheck"}
  /\ tx[c].pc # "planned" => tx[c].deposits = {} /\ tx[c].on = Nobody
  /\ tx[c].on # Nobody => c = Clock /\ tx[c].on \in Jobs
  /\ tx[c].pc = "planned" /\ c = Clock => tx[c].on # Nobody

\* What the request has loaded still tells what it needs to know.
Loads(c) ==
  tx[c].pc = "loaded" =>
    /\ tx[c].from.requested = TRUE => trial.requested = TRUE
    /\ tx[c].from.failed # "no" => trial.failed # "no"
    /\ tx[c].from.analysed = TRUE =>
         tx[c].from.requested = TRUE /\ Ready /\ tx[c].from.failed = trial.failed

\* Who deposits, requests the analysis, and ends it.
Writing(c) ==
  tx[c].pc = "planned" =>
    /\ tx[c].deposits # {} => c \in Assets /\ tx[c].deposits = {c} /\ work[c] = "running"
    /\ tx[c].to.requested # tx[c].from.requested => Assets \subseteq deposited \cup tx[c].deposits
    /\ tx[c].to.analysed # tx[c].from.analysed => c = Analysis /\ work[c] = "running"

\* Who fails the trial holds the participant or speaks of an unfinished job.
Failing(c) ==
  tx[c].pc = "planned" /\ tx[c].to.failed # tx[c].from.failed =>
    /\ tx[c].to.failed # "no"
    /\ row = c \/ c = Clock \/ (c \in Jobs /\ work[c] \in {"running", "erring"})

\* Who finalizes it keeps the others from failing it, by the trial's row or
\* because every job is done.
Finalizing(c) ==
  HasAnalysis /\ tx[c].pc = "planned" /\ tx[c].to.finalized # tx[c].from.finalized =>
    trial.failed = "no" /\ (trialRow = c \/ Ready)

\* Without stored assets, deposits and answers take the participant in turn,
\* and the last of them requests the analysis.
Asks(c) ==
  tx[c].pc = "planned" =>
    /\ tx[c].to.finalized # tx[c].from.finalized => trial.analysed = TRUE
    /\ tx[c].deposits # {} \/ tx[c].to.complete # tx[c].from.complete =>
         /\ row = c
         /\ Assets \subseteq deposited \cup tx[c].deposits =>
              \/ trial.requested = TRUE \/ trial.failed # "no"
              \/ tx[c].to.requested # tx[c].from.requested

Requested ==
  /\ trial.failed = "no" /\ trial.complete = TRUE /\ Assets \subseteq deposited =>
       trial.requested = TRUE
  /\ trial.finalized = TRUE => trial.analysed = TRUE

Plans(c) == Busy(c) /\ Loads(c) /\ Writing(c) /\ Failing(c) /\ Finalizing(c)

AnalysisInv ==
  /\ JobTypeOK /\ JobsInv /\ \A c \in Actors : Plans(c)
  /\ HasAnalysis /\ stored = {} => Requested /\ \A c \in Actors : Asks(c)

LEMMA IdlePlans ==
  /\ Idle.deposits = {} /\ Idle.on = Nobody /\ Idle.pc = "idle"
  /\ Nobody # Clock /\ Nobody \notin Workers /\ Clock \notin Workers /\ Request \notin Workers
  /\ Exit \notin Workers /\ Backstop \notin Workers
BY TrialAssumption DEF Idle, Actors

LEMMA OthersDiffer == Request # Clock /\ Exit # Clock /\ Backstop # Clock
<1>1. ASSUME NEW a, NEW b PROVE Cardinality({a, b, Clock}) <= 3
  <2>2. IsFiniteSet({Clock}) /\ Cardinality({Clock}) = 1
    BY FS_Singleton
  <2>3. {b, Clock} = {Clock} \cup {b} /\ {a, b, Clock} = {b, Clock} \cup {a}
    OBVIOUS
  <2>4. IsFiniteSet({b, Clock}) /\ Cardinality({b, Clock}) <= 2
    BY <2>2, <2>3, FS_AddElement
  <2>5. IsFiniteSet({a, b, Clock})
        /\ Cardinality({a, b, Clock}) \in {Cardinality({b, Clock}), Cardinality({b, Clock}) + 1}
    BY <2>3, <2>4, FS_AddElement
  <2>. QED
    BY <2>4, <2>5, FS_CardinalityType
<1>2. \A a, b : {Request, Exit, Backstop, Clock} # {a, b, Clock}
  <2>. SUFFICES ASSUME NEW a, NEW b, {Request, Exit, Backstop, Clock} = {a, b, Clock} PROVE FALSE
    OBVIOUS
  <2>1. Cardinality({a, b, Clock}) = 4
    BY TrialAssumption, Zenon
  <2>2. Cardinality({a, b, Clock}) <= 3
    BY <1>1
  <2>. DEFINE n == Cardinality({a, b, Clock})
  <2>3. n = 4 /\ n <= 3
    BY <2>1, <2>2
  <2>. HIDE DEF n
  <2>. QED
    BY <2>3
<1>3. Request # Clock
  <2>1. {Request, Exit, Backstop, Clock} # {Exit, Backstop, Clock}
    BY <1>2
  <2>. QED
    BY <2>1
<1>4. Exit # Clock
  <2>1. {Request, Exit, Backstop, Clock} # {Request, Backstop, Clock}
    BY <1>2
  <2>. QED
    BY <2>1
<1>5. Backstop # Clock
  <2>1. {Request, Exit, Backstop, Clock} # {Request, Exit, Clock}
    BY <1>2
  <2>. QED
    BY <2>1
<1>. QED
  BY <1>3, <1>4, <1>5

LEMMA InitAnalysis == Init => AnalysisInv
<1>. SUFFICES ASSUME Init PROVE AnalysisInv
  OBVIOUS
<1>1. JobTypeOK
  <2>1. stored \in SUBSET Assets
    BY TrialAssumption DEF Init
  <2>2. \A j \in Workers : [NewJob EXCEPT !.pending = (j \in stored)] \in
                             [pending : BOOLEAN, failed : BOOLEAN, finished : BOOLEAN]
    <3>1. \A b \in BOOLEAN : [NewJob EXCEPT !.pending = b] \in
                             [pending : BOOLEAN, failed : BOOLEAN, finished : BOOLEAN]
      BY DEF NewJob
    <3>2. \A j \in Workers : (j \in stored) \in BOOLEAN
      OBVIOUS
    <3>. QED
      BY <3>1, <3>2
  <2>. QED
    BY <2>1, <2>2 DEF Init, JobTypeOK
<1>2. \A j \in Workers : (job[j].pending = TRUE => j \in stored) /\ work[j] # "erring"
  BY DEF Init, NewJob
<1>3. JobsInv
  BY <1>2 DEF Init, JobsInv, NewTrial, Workers, Jobs
<1>4. ASSUME NEW c \in Actors PROVE Plans(c) /\ Asks(c)
  <2>1. tx[c] = Idle
    BY DEF Init
  <2>. QED
    BY <2>1, IdlePlans DEF Plans, Busy, Loads, Writing, Failing, Finalizing, Asks
<1>5. Requested
  BY DEF Init, Requested, NewTrial
<1>. QED
  BY <1>1, <1>3, <1>4, <1>5 DEF AnalysisInv

\* A step of one process that commits nothing leaves the others as they are.
LEMMA OneKeeps ==
  ASSUME TrialInv, AnalysisInv, UNCHANGED <<stored, trial, deposited>>,
         NEW c \in Actors, NEW r, tx' = [tx EXCEPT ![c] = r],
         \A d \in Actors \ {c} : (row = d => row' = d) /\ (trialRow = d => trialRow' = d),
         JobTypeOK',
         \A d \in Workers \ {c} : tx[d].pc # "idle" => work'[d] = work[d],
         \A j \in Jobs : Done(j) => Done(j)',
         work'[Analysis] # "absent" => work[Analysis] # "absent",
         \A j \in Workers : job'[j].pending = TRUE \/ work'[j] = "erring" => j \in Jobs,
         Plans(c)', HasAnalysis /\ stored = {} => Asks(c)'
  PROVE  AnalysisInv'
<1>1. tx'[c] = r /\ \A d \in Actors \ {c} : tx'[d] = tx[d]
  BY DEF TrialInv, TrialTypeOK
<1>2. Jobs' = Jobs /\ Workers \subseteq Actors /\ Assets \subseteq Workers /\ Analysis \in Workers
      /\ Jobs \subseteq Workers /\ stored \subseteq Jobs /\ Analysis \in Jobs
  BY DEF Jobs, Actors, Workers, AnalysisInv, JobTypeOK
<1>3. JobsInv'
  BY <1>2 DEF AnalysisInv, JobsInv, JobTypeOK
<1>4. ASSUME NEW d \in Actors, d # c PROVE Plans(d)' /\ (HasAnalysis /\ stored = {} => Asks(d)')
  <2>1. tx'[d] = tx[d] /\ (row = d => row' = d) /\ (trialRow = d => trialRow' = d)
    BY <1>1, <1>4
  <2>2. d \in Workers /\ tx[d].pc # "idle" => work'[d] = work[d]
    BY <1>4
  <2>3. Plans(d) /\ (HasAnalysis /\ stored = {} => Asks(d))
    BY <1>4 DEF AnalysisInv
  <2>4. Busy(d)'
    BY <1>2, <2>1, <2>2, <2>3 DEF Plans, Busy
  <2>5. Loads(d)' /\ Finalizing(d)'
    BY <2>1, <2>3 DEF Plans, Loads, Finalizing, Ready
  <2>6. Writing(d)'
    BY <1>2, <2>1, <2>2, <2>3 DEF Plans, Writing
  <2>7. Failing(d)'
    BY <1>2, <2>1, <2>2, <2>3 DEF Plans, Failing
  <2>8. HasAnalysis /\ stored = {} => Asks(d)'
    BY <2>1, <2>3 DEF Asks
  <2>. QED
    BY <2>4, <2>5, <2>6, <2>7, <2>8 DEF Plans
<1>5. HasAnalysis /\ stored = {} => Requested'
  BY DEF AnalysisInv, Requested
<1>. QED
  BY <1>3, <1>4, <1>5 DEF AnalysisInv

\* What a transaction may plan that will hold the rows rw and tr.
Fits(c, from, to, dep, rw, tr) ==
  /\ tx[c].pc # "planned" /\ c # Clock
  /\ c \in Workers => work[c] \in {"running", "erring", "recheck"}
  /\ dep # {} => c \in Assets /\ dep = {c} /\ work[c] = "running"
  /\ to.requested # from.requested => Assets \subseteq deposited \cup dep
  /\ to.analysed # from.analysed => c = Analysis /\ work[c] = "running"
  /\ to.failed # from.failed =>
       to.failed # "no" /\ (rw = c \/ (c \in Jobs /\ work[c] \in {"running", "erring"}))
  /\ HasAnalysis /\ to.finalized # from.finalized => trial.failed = "no" /\ (tr = c \/ Ready)
  /\ HasAnalysis /\ stored = {} =>
       /\ to.finalized # from.finalized => trial.analysed = TRUE
       /\ dep # {} \/ to.complete # from.complete =>
            /\ rw = c
            /\ Assets \subseteq deposited \cup dep =>
                 trial.requested = TRUE \/ trial.failed # "no" \/ to.requested # from.requested

LEMMA PlanFits ==
  ASSUME TrialInv, AnalysisInv, UNCHANGED <<stored, trial, deposited, work, job>>,
         NEW c \in Actors, NEW from, NEW to, NEW dep, NEW queues, NEW next,
         Plan(c, from, to, dep, queues, next), Fits(c, from, to, dep, row', trialRow'),
         row' = row \/ (row = Nobody /\ row' = c),
         trialRow' = trialRow \/ (trialRow = Nobody /\ trialRow' = c)
  PROVE  AnalysisInv'
<1> DEFINE r == [tx[c] EXCEPT !.pc = "planned", !.from = from, !.to = to,
                              !.deposits = dep, !.queues = queues, !.next = next]
<1>1. tx[c] \in Tx /\ tx \in [Actors -> Tx]
  BY DEF TrialInv, TrialTypeOK
<1>2. /\ r.pc = "planned" /\ r.from = from /\ r.to = to /\ r.deposits = dep
      /\ r.on = tx[c].on
  BY <1>1 DEF Tx
<1>3. tx' = [tx EXCEPT ![c] = r]
  BY DEF Plan
<1> HIDE DEF r
<1>4. tx'[c] = r /\ \A d \in Actors \ {c} : tx'[d] = tx[d]
  BY <1>1, <1>3
<1>5. r.on = Nobody
  BY <1>2 DEF AnalysisInv, Plans, Busy, Fits
<1>6. \A d \in Actors \ {c} : (row = d => row' = d) /\ (trialRow = d => trialRow' = d)
  BY TrialAssumption DEF Actors
<1>7. Jobs' = Jobs
  BY DEF Jobs
<1>8. \A j \in Jobs : Done(j) => Done(j)'
  BY <1>4 DEF Fits, Done, Actors
<1>9. Plans(c)'
  <2>1. Busy(c)'
    BY <1>2, <1>4, <1>5 DEF Busy, Fits
  <2>2. Loads(c)' /\ Writing(c)'
    BY <1>2, <1>4 DEF Loads, Writing, Fits
  <2>3. Failing(c)'
    BY <1>2, <1>4, <1>7 DEF Failing, Fits
  <2>4. Finalizing(c)'
    BY <1>2, <1>4 DEF Finalizing, Fits, Ready
  <2>. QED
    BY <2>1, <2>2, <2>3, <2>4 DEF Plans
<1>10. HasAnalysis /\ stored = {} => Asks(c)'
  BY <1>2, <1>4 DEF Asks, Fits
<1>11. /\ JobTypeOK' /\ work'[Analysis] = work[Analysis]
       /\ \A j \in Workers : job'[j].pending = TRUE \/ work'[j] = "erring" => j \in Jobs
  BY DEF AnalysisInv, JobTypeOK, JobsInv
<1>. QED
  BY <1>3, <1>6, <1>8, <1>9, <1>10, <1>11, OneKeeps

LEMMA EnterKeeps ==
  ASSUME TrialInv, AnalysisInv, UNCHANGED stored, NEW c \in Actors, Enter(c)
  PROVE  AnalysisInv'
<1>. DEFINE r == [tx[c] EXCEPT !.pc = IF c = Request THEN "loaded" ELSE "entered", !.from = trial]
<1>1. tx[c] \in Tx /\ tx \in [Actors -> Tx]
  BY DEF TrialInv, TrialTypeOK
<1>2. /\ r.pc = (IF c = Request THEN "loaded" ELSE "entered") /\ r.from = trial
      /\ r.deposits = tx[c].deposits /\ r.on = tx[c].on
  BY <1>1 DEF Tx
<1>3. /\ tx' = [tx EXCEPT ![c] = r] /\ row = Nobody /\ tx[c].pc = "idle"
      /\ UNCHANGED <<trial, deposited, work, job, trialRow>>
      /\ c \in Workers => work[c] \in {"running", "recheck"}
  BY IdlePlans DEF Enter
<1>4. tx[c].deposits = {} /\ tx[c].on = Nobody
  BY <1>3 DEF AnalysisInv, Plans, Busy
<1>. HIDE DEF r
<1>5. tx'[c] = r /\ \A d \in Actors \ {c} : tx'[d] = tx[d]
  BY <1>1, <1>3
<1>6. \A d \in Actors \ {c} : (row = d => row' = d) /\ (trialRow = d => trialRow' = d)
  BY <1>3, TrialAssumption DEF Actors
<1>7. Plans(c)' /\ Asks(c)'
  <2>1. Busy(c)'
    BY <1>2, <1>3, <1>4, <1>5 DEF Busy
  <2>2. Loads(c)'
    BY <1>2, <1>3, <1>5 DEF Loads, Ready, AnalysisInv, JobsInv
  <2>. QED
    BY <1>2, <1>5, <2>1, <2>2 DEF Plans, Writing, Failing, Finalizing, Asks
<1>8. \A j \in Jobs : Done(j) => Done(j)'
  BY <1>2, <1>3, <1>4, <1>5, IdlePlans DEF Done, Actors
<1>9. /\ JobTypeOK' /\ work' = work
      /\ \A j \in Workers : job'[j].pending = TRUE \/ work'[j] = "erring" => j \in Jobs
  BY <1>3 DEF AnalysisInv, JobTypeOK, JobsInv
<1>. QED
  BY <1>3, <1>6, <1>7, <1>8, <1>9, OneKeeps

LEMMA FinalizedGives ==
  ASSUME NEW t \in TrialRow, NEW dep, NEW f, f = Finalized(t, dep)
  PROVE  /\ f \in TrialRow /\ f.complete = t.complete /\ f.requested = t.requested
         /\ f.analysed = t.analysed /\ f.failed = t.failed
         /\ f.finalized # t.finalized =>
              /\ t.complete = TRUE /\ t.failed = "no" /\ Assets \subseteq dep
              /\ t.requested = TRUE => t.analysed = TRUE
BY DEF Finalized, TrialRow

LEMMA FailedGives ==
  ASSUME NEW t \in TrialRow, NEW reason \in {"other", "recording"}, NEW f, f = Failed(t, reason)
  PROVE  /\ f \in TrialRow /\ f.complete = t.complete /\ f.requested = t.requested
         /\ f.analysed = t.analysed /\ f.finalized = t.finalized
         /\ f.failed # t.failed => f.failed # "no"
BY DEF Failed, TrialRow

\* The request finalizes only a trial that it has loaded with its analysis.
LEMMA CompleteKeeps ==
  ASSUME TrialInv, AnalysisInv, UNCHANGED stored, Complete
  PROVE  AnalysisInv'
<1>. DEFINE old == tx[Request].from
            t == [old EXCEPT !.complete = TRUE]
            asks == WantsAnalysis(t, deposited)
            from == IF asks THEN [old EXCEPT !.requested = trial.requested] ELSE old
            to == IF asks THEN [t EXCEPT !.requested = TRUE] ELSE t
            queues == asks /\ ~trial.requested
            fin == Finalized(to, deposited)
<1>1. old \in TrialRow /\ trial \in TrialRow /\ Request \in Actors
  BY DEF TrialInv, TrialTypeOK, Tx, Actors
<1>2. /\ t \in TrialRow /\ t.requested = old.requested /\ t.finalized = old.finalized
      /\ t.analysed = old.analysed /\ t.failed = old.failed /\ t.complete = TRUE
  BY <1>1 DEF TrialRow
<1>3. asks \in BOOLEAN
  BY <1>2, WantsIs
<1>4. /\ from \in TrialRow /\ from.finalized = old.finalized /\ from.analysed = old.analysed
      /\ from.requested = (IF asks THEN trial.requested ELSE old.requested)
      /\ from.failed = old.failed /\ from.complete = old.complete
  BY <1>1 DEF TrialRow
<1>5. /\ to \in TrialRow /\ to.finalized = old.finalized /\ to.analysed = old.analysed
      /\ to.requested = (IF asks THEN TRUE ELSE old.requested)
      /\ to.failed = old.failed /\ to.complete = TRUE
  BY <1>2 DEF TrialRow
<1>6. /\ Plan(Request, from, fin, {}, queues, "ended")
      /\ trialRow' = (IF asks THEN Request ELSE trialRow) /\ (asks => trialRow = Nobody)
      /\ tx[Request].pc = "loaded" /\ UNCHANGED <<trial, deposited, work, job, row>>
  BY DEF Complete
<1>7. row = Request
  BY <1>1, <1>6 DEF TrialInv, Writes
<1>8. /\ asks => HasAnalysis /\ old.requested = FALSE /\ Assets \subseteq deposited
      /\ HasAnalysis /\ ~asks /\ Assets \subseteq deposited =>
           old.requested = TRUE \/ old.failed = "recording"
  BY <1>1, <1>2 DEF WantsAnalysis, TrialRow
<1>9. /\ old.requested = TRUE => trial.requested = TRUE
      /\ old.failed # "no" => trial.failed # "no"
      /\ old.analysed = TRUE => old.requested = TRUE /\ Ready /\ old.failed = trial.failed
  BY <1>1, <1>6 DEF AnalysisInv, Plans, Loads
<1>. HIDE DEF old, t, asks, from, to, queues
<1>10. /\ fin.complete = TRUE /\ fin.requested = to.requested
       /\ fin.analysed = to.analysed /\ fin.failed = to.failed
       /\ fin.finalized # to.finalized =>
            /\ to.failed = "no" /\ Assets \subseteq deposited
            /\ to.requested = TRUE => to.analysed = TRUE
  BY <1>5, FinalizedGives
<1>. HIDE DEF fin
<1>11. HasAnalysis /\ fin.finalized # from.finalized => trial.failed = "no" /\ Ready
  <2>. SUFFICES ASSUME HasAnalysis, fin.finalized # from.finalized
                PROVE  trial.failed = "no" /\ Ready
    OBVIOUS
  <2>1. /\ old.failed = "no" /\ Assets \subseteq deposited
        /\ to.requested = TRUE => old.analysed = TRUE
    BY <1>4, <1>5, <1>10
  <2>2. old.requested = TRUE /\ ~asks
    BY <1>5, <1>8, <1>9, <2>1
  <2>. QED
    BY <1>5, <1>9, <2>1, <2>2
<1>12. Assets \subseteq deposited =>
         \/ ~HasAnalysis \/ trial.requested = TRUE \/ trial.failed # "no"
         \/ fin.requested # from.requested
  BY <1>3, <1>4, <1>5, <1>8, <1>9, <1>10
<1>13. fin.requested # from.requested => Assets \subseteq deposited
  BY <1>4, <1>5, <1>8, <1>10
<1>14. Fits(Request, from, fin, {}, row', trialRow')
  BY <1>4, <1>5, <1>6, <1>7, <1>10, <1>11, <1>12, <1>13, IdlePlans, OthersDiffer DEF Fits, Ready
<1>. QED
  BY <1>1, <1>6, <1>14, PlanFits

\* Whoever has taken both rows sees the trial as it is.
LEMMA LockedKeeps ==
  ASSUME TrialInv, AnalysisInv, UNCHANGED stored,
         FailParticipant \/ Sweep \/ \E w \in Workers : Recheck(w)
  PROVE  AnalysisInv'
<1>0. /\ trial \in TrialRow /\ Exit \in Actors /\ Backstop \in Actors /\ Workers \subseteq Actors
      /\ Exit # Clock /\ Backstop # Clock
  BY OthersDiffer DEF TrialInv, TrialTypeOK, Actors
<1>f. ASSUME NEW f, f = Finalized(trial, deposited)
      PROVE  /\ f.complete = trial.complete /\ f.requested = trial.requested
             /\ f.analysed = trial.analysed /\ f.failed = trial.failed
             /\ f.finalized # trial.finalized => trial.failed = "no"
             /\ HasAnalysis /\ stored = {} /\ f.finalized # trial.finalized => trial.analysed = TRUE
  <2>1. /\ f.complete = trial.complete /\ f.requested = trial.requested
        /\ f.analysed = trial.analysed /\ f.failed = trial.failed
        /\ f.finalized # trial.finalized =>
             /\ trial.complete = TRUE /\ trial.failed = "no" /\ Assets \subseteq deposited
             /\ trial.requested = TRUE => trial.analysed = TRUE
    <3>1. trial \in TrialRow /\ f = Finalized(trial, deposited)
      BY <1>0, <1>f
    <3>. QED
      BY <3>1 DEF Finalized, TrialRow
  <2>2. HasAnalysis /\ stored = {} => Requested
    BY DEF AnalysisInv
  <2>. QED
    BY <2>1, <2>2 DEF Requested
<1>o. /\ Failed(trial, "other").complete = trial.complete
      /\ Failed(trial, "other").requested = trial.requested
      /\ Failed(trial, "other").analysed = trial.analysed
      /\ Failed(trial, "other").finalized = trial.finalized
      /\ Failed(trial, "other").failed # trial.failed => Failed(trial, "other").failed # "no"
  BY <1>0, FailedGives
<1>1. CASE FailParticipant
  <2>. DEFINE to == IF Spared THEN trial ELSE Failed(trial, "other")
              r == [tx[Exit] EXCEPT !.pc = "planned", !.leaves = TRUE, !.from = trial, !.to = to]
  <2>1. tx[Exit] \in Tx /\ tx \in [Actors -> Tx]
    BY <1>0 DEF TrialInv, TrialTypeOK
  <2>2. /\ r.pc = "planned" /\ r.from = trial /\ r.to = to
        /\ r.deposits = tx[Exit].deposits /\ r.on = tx[Exit].on
    BY <2>1 DEF Tx
  <2>3. /\ tx' = [tx EXCEPT ![Exit] = r] /\ tx[Exit].pc = "entered"
        /\ trialRow' = trialRow \/ (trialRow = Nobody /\ trialRow' = Exit)
        /\ UNCHANGED <<trial, deposited, work, job, row>>
    BY <1>1 DEF FailParticipant
  <2>t. /\ to.complete = trial.complete /\ to.requested = trial.requested
        /\ to.analysed = trial.analysed /\ to.finalized = trial.finalized
        /\ to.failed # trial.failed => to.failed # "no"
    BY <1>o
  <2>4. row = Exit /\ tx[Exit].deposits = {} /\ tx[Exit].on = Nobody
    BY <1>0, <2>3 DEF TrialInv, Writes, AnalysisInv, Plans, Busy
  <2>. HIDE DEF r, to
  <2>5. tx'[Exit] = r /\ \A d \in Actors \ {Exit} : tx'[d] = tx[d]
    BY <1>0, <2>1, <2>3
  <2>6. \A d \in Actors \ {Exit} : (row = d => row' = d) /\ (trialRow = d => trialRow' = d)
    BY <2>3, TrialAssumption DEF Actors
  <2>7. Plans(Exit)' /\ Asks(Exit)'
    <3>1. Busy(Exit)'
      BY <1>0, <2>2, <2>4, <2>5, IdlePlans DEF Busy
    <3>2. Loads(Exit)' /\ Writing(Exit)'
      BY <2>t, <2>2, <2>4, <2>5 DEF Loads, Writing
    <3>3. Failing(Exit)' /\ Finalizing(Exit)' /\ Asks(Exit)'
      BY <2>t, <2>2, <2>3, <2>4, <2>5 DEF Failing, Finalizing, Asks
    <3>. QED
      BY <3>1, <3>2, <3>3 DEF Plans
  <2>8. \A j \in Jobs : Done(j) => Done(j)'
    BY <1>0, <2>3, <2>5 DEF Done, Actors
  <2>9. /\ JobTypeOK' /\ work' = work
        /\ \A j \in Workers : job'[j].pending = TRUE \/ work'[j] = "erring" => j \in Jobs
    BY <2>3 DEF AnalysisInv, JobTypeOK, JobsInv
  <2>. QED
    BY <1>0, <2>3, <2>6, <2>7, <2>8, <2>9, OneKeeps
<1>2. CASE Sweep
  <2>1. /\ tx[Backstop].pc = "idle" /\ row = Nobody /\ trialRow = Nobody
        /\ row' = Backstop /\ trialRow' = Backstop /\ UNCHANGED <<trial, deposited, work, job>>
    BY <1>2 DEF Sweep
  <2>2. PICK to \in {Finalized(trial, deposited), Failed(trial, "other")} :
          Plan(Backstop, trial, to, {}, FALSE, "ended")
    BY <1>2 DEF Sweep
  <2>3. /\ to.complete = trial.complete /\ to.requested = trial.requested
        /\ to.analysed = trial.analysed /\ (to.failed # trial.failed => to.failed # "no")
        /\ to.finalized # trial.finalized => trial.failed = "no"
        /\ HasAnalysis /\ stored = {} /\ to.finalized # trial.finalized => trial.analysed = TRUE
    BY <1>f, <1>o, <2>2
  <2>4. Fits(Backstop, trial, to, {}, row', trialRow')
    BY <1>0, <2>1, <2>3, IdlePlans DEF Fits
  <2>. QED
    BY <1>0, <2>1, <2>2, <2>4, PlanFits
<1>3. ASSUME NEW w \in Workers, Recheck(w) PROVE AnalysisInv'
  <2>. DEFINE to == Finalized(trial, deposited)
  <2>1. /\ tx[w].pc = "entered" /\ trialRow = Nobody /\ trialRow' = w /\ work[w] = "recheck"
        /\ UNCHANGED <<trial, deposited, work, job, row>>
        /\ Plan(w, trial, to, {}, FALSE, "ended")
    BY <1>3 DEF Recheck, LockTrial
  <2>2. /\ to.complete = trial.complete /\ to.requested = trial.requested
        /\ to.analysed = trial.analysed /\ to.failed = trial.failed
        /\ to.finalized # trial.finalized => trial.failed = "no"
        /\ HasAnalysis /\ stored = {} /\ to.finalized # trial.finalized => trial.analysed = TRUE
    BY <1>f
  <2>. HIDE DEF to
  <2>3. Fits(w, trial, to, {}, row', trialRow')
    BY <2>1, <2>2, IdlePlans DEF Fits
  <2>. QED
    BY <1>0, <2>1, <2>3, PlanFits
<1>. QED
  BY <1>1, <1>2, <1>3

\* The last upload requests the analysis in the commit of its deposit.
LEMMA ResolveKeeps ==
  ASSUME TrialInv, AnalysisInv, UNCHANGED stored, NEW a \in Assets, ResolveUpload(a)
  PROVE  AnalysisInv'
<1>. DEFINE dep == deposited \cup {a}
            asks == trial.failed = "no" /\ WantsAnalysis(trial, dep)
            asked == [trial EXCEPT !.requested = @ \/ asks]
            expired == Failed(trial, "recording")
<1>0. /\ trial \in TrialRow /\ a \in Actors /\ a \in Workers
  BY DEF TrialInv, TrialTypeOK, Actors, Workers
<1>1. /\ tx[a].pc = "entered" /\ trialRow = Nobody /\ trialRow' = a /\ work[a] = "running"
      /\ UNCHANGED <<trial, deposited, work, job, row>>
  BY DEF ResolveUpload, LockTrial
<1>2. row = a
  BY <1>0, <1>1 DEF TrialInv, Writes
<1>3. \/ Plan(a, trial, asked, {a}, asks, "recheck") \/ Plan(a, trial, expired, {}, FALSE, "ended")
  BY Zenon DEF ResolveUpload
<1>4. /\ asks \in BOOLEAN
      /\ asks => Assets \subseteq dep /\ trial.requested = FALSE
      /\ HasAnalysis /\ trial.failed = "no" /\ trial.requested = FALSE /\ Assets \subseteq dep => asks
  BY <1>0 DEF WantsAnalysis, TrialRow
<1>. HIDE DEF asks
<1>5. /\ asked.complete = trial.complete /\ asked.finalized = trial.finalized
      /\ asked.analysed = trial.analysed /\ asked.failed = trial.failed
      /\ asked.requested # trial.requested => asks = TRUE
      /\ asks = TRUE => asked.requested = TRUE
  BY <1>0, <1>4 DEF TrialRow
<1>6. /\ expired.complete = trial.complete /\ expired.requested = trial.requested
      /\ expired.analysed = trial.analysed /\ expired.finalized = trial.finalized
      /\ expired.failed # trial.failed => expired.failed # "no"
  BY <1>0, FailedGives
<1>. HIDE DEF asked, expired
<1>7. CASE Plan(a, trial, asked, {a}, asks, "recheck")
  <2>1. trial.requested \in BOOLEAN
    BY <1>0 DEF TrialRow
  <2>2. Fits(a, trial, asked, {a}, row', trialRow')
    BY <1>0, <1>1, <1>2, <1>4, <1>5, <2>1, IdlePlans DEF Fits
  <2>. QED
    BY <1>0, <1>1, <1>7, <2>2, PlanFits
<1>8. CASE Plan(a, trial, expired, {}, FALSE, "ended")
  <2>1. Fits(a, trial, expired, {}, row', trialRow')
    BY <1>0, <1>1, <1>2, <1>6, IdlePlans DEF Fits
  <2>. QED
    BY <1>0, <1>1, <1>8, <2>1, PlanFits
<1>. QED
  BY <1>3, <1>7, <1>8

LEMMA DepositKeeps ==
  ASSUME TrialInv, AnalysisInv, UNCHANGED stored, NEW a \in Assets, Deposit(a)
  PROVE  AnalysisInv'
<1>. DEFINE dep == deposited \cup {a}
            asks == WantsAnalysis(trial, dep)
            asked == [trial EXCEPT !.requested = @ \/ asks]
<1>0. trial \in TrialRow /\ a \in Actors /\ a \in Workers
  BY DEF TrialInv, TrialTypeOK, Actors, Workers
<1>1. /\ tx[a].pc = "idle" /\ a \in stored /\ work[a] = "running"
      /\ (asks => trialRow = Nobody) /\ trialRow' = (IF asks THEN a ELSE trialRow)
      /\ UNCHANGED <<trial, deposited, work, job, row>>
      /\ Plan(a, trial, asked, {a}, asks, "recheck")
  BY DEF Deposit
<1>2. asks \in BOOLEAN /\ (asks => Assets \subseteq dep)
  BY <1>0 DEF WantsAnalysis, TrialRow
<1>. HIDE DEF asks
<1>3. /\ asked.complete = trial.complete /\ asked.finalized = trial.finalized
      /\ asked.analysed = trial.analysed /\ asked.failed = trial.failed
      /\ asked.requested # trial.requested => asks = TRUE
  BY <1>0, <1>2 DEF TrialRow
<1>. HIDE DEF asked
<1>4. Fits(a, trial, asked, {a}, row', trialRow')
  BY <1>0, <1>1, <1>2, <1>3, IdlePlans DEF Fits
<1>5. trialRow' = trialRow \/ (trialRow = Nobody /\ trialRow' = a)
  BY <1>1, <1>2
<1>. QED
  BY <1>0, <1>1, <1>4, <1>5, PlanFits

\* A job fails or analyses the trial only before it is done.
LEMMA JobKeeps ==
  ASSUME TrialInv, AnalysisInv, UNCHANGED stored,
         Analyse \/ \E j \in Workers : HandleError(j) \/ TimeOut(j)
  PROVE  AnalysisInv'
<1>0. trial \in TrialRow /\ Analysis \in Workers /\ Clock \in Actors /\ Workers \subseteq Actors
      /\ Analysis \in Jobs
  BY DEF TrialInv, TrialTypeOK, Actors, Workers, Jobs
<1>o. ASSUME NEW t \in {trial, Failed(trial, "other")}
      PROVE  /\ t \in TrialRow /\ t.complete = trial.complete /\ t.requested = trial.requested
             /\ t.analysed = trial.analysed /\ t.finalized = trial.finalized
             /\ t.failed # trial.failed => t.failed # "no"
  BY <1>0, FailedGives
<1>1. CASE Analyse
  <2>1. PICK t \in {trial, Failed(trial, "other")} :
          Plan(Analysis, trial, [t EXCEPT !.analysed = trial.failed # "recording"], {}, FALSE, "recheck")
    BY <1>1 DEF Analyse
  <2>. DEFINE to == [t EXCEPT !.analysed = trial.failed # "recording"]
  <2>2. /\ to.complete = trial.complete /\ to.requested = trial.requested
        /\ to.finalized = trial.finalized /\ (to.failed # trial.failed => to.failed # "no")
    BY <1>o DEF TrialRow
  <2>3. /\ work[Analysis] = "running" /\ tx[Analysis].pc = "idle"
        /\ UNCHANGED <<trial, deposited, work, job, row, trialRow>>
        /\ Plan(Analysis, trial, to, {}, FALSE, "recheck")
    BY <1>1, <2>1 DEF Analyse
  <2>. HIDE DEF to
  <2>4. Fits(Analysis, trial, to, {}, row', trialRow')
    BY <1>0, <2>2, <2>3, IdlePlans DEF Fits
  <2>. QED
    BY <1>0, <2>3, <2>4, PlanFits
<1>2. ASSUME NEW j \in Workers, HandleError(j) PROVE AnalysisInv'
  <2>1. PICK to \in {trial, Failed(trial, "other")} : Plan(j, trial, to, {}, FALSE, "recheck")
    BY <1>2 DEF HandleError
  <2>2. /\ work[j] = "erring" /\ tx[j].pc = "idle"
        /\ UNCHANGED <<trial, deposited, work, job, row, trialRow>>
    BY <1>2 DEF HandleError
  <2>3. j \in Jobs
    BY <2>2 DEF AnalysisInv, JobsInv
  <2>4. Fits(j, trial, to, {}, row', trialRow')
    BY <1>o, <2>2, <2>3, IdlePlans DEF Fits
  <2>. QED
    BY <1>0, <2>1, <2>2, <2>4, PlanFits
<1>3. ASSUME NEW j \in Workers, TimeOut(j) PROVE AnalysisInv'
  <2>. DEFINE to == IF j \in stored /\ trial.finalized THEN trial ELSE Failed(trial, "other")
              r == [tx[Clock] EXCEPT !.pc = "planned", !.on = j, !.from = trial, !.to = to]
  <2>1. /\ to.complete = trial.complete /\ to.requested = trial.requested
        /\ to.analysed = trial.analysed /\ to.finalized = trial.finalized
        /\ to.failed # trial.failed => to.failed # "no"
    BY <1>o
  <2>2. /\ tx' = [tx EXCEPT ![Clock] = r] /\ tx[Clock].pc = "idle"
        /\ UNCHANGED <<trial, deposited, work, job, row, trialRow>>
        /\ job[j].pending
    BY <1>3 DEF TimeOut, Overdue, Unfinished
  <2>. HIDE DEF to
  <2>3. tx[Clock] \in Tx /\ tx \in [Actors -> Tx]
    BY <1>0 DEF TrialInv, TrialTypeOK
  <2>4. /\ r.pc = "planned" /\ r.from = trial /\ r.to = to /\ r.on = j
        /\ r.deposits = tx[Clock].deposits
    BY <2>3 DEF Tx
  <2>. HIDE DEF r
  <2>5. tx'[Clock] = r /\ \A d \in Actors \ {Clock} : tx'[d] = tx[d]
    BY <1>0, <2>2, <2>3
  <2>6. tx[Clock].deposits = {} /\ j \in Jobs /\ job[j].pending = TRUE
    BY <1>0, <2>2 DEF AnalysisInv, Plans, Busy, JobsInv, JobTypeOK
  <2>7. Plans(Clock)' /\ Asks(Clock)'
    <3>1. Busy(Clock)'
      BY <2>2, <2>4, <2>5, <2>6, IdlePlans DEF Busy, Jobs
    <3>2. Loads(Clock)' /\ Writing(Clock)'
      BY <2>1, <2>4, <2>5, <2>6 DEF Loads, Writing
    <3>3. Failing(Clock)' /\ Finalizing(Clock)' /\ Asks(Clock)'
      BY <2>1, <2>4, <2>5, <2>6 DEF Failing, Finalizing, Asks
    <3>. QED
      BY <3>1, <3>2, <3>3 DEF Plans
  <2>8. \A k \in Jobs : Done(k) => Done(k)'
    BY <2>2, <2>4, <2>5, <2>6 DEF Done
  <2>9. /\ JobTypeOK' /\ work' = work
        /\ \A k \in Workers : job'[k].pending = TRUE \/ work'[k] = "erring" => k \in Jobs
    BY <2>2 DEF AnalysisInv, JobTypeOK, JobsInv
  <2>. QED
    BY <1>0, <2>2, <2>7, <2>8, <2>9, OneKeeps
<1>. QED
  BY <1>1, <1>2, <1>3

\* A job starts or is lost before it is done.
LEMMA StartKeeps ==
  ASSUME TrialInv, AnalysisInv, UNCHANGED stored, NEW j \in Workers, Start(j) \/ Lose(j)
  PROVE  AnalysisInv'
<1>1. /\ work[j] = "queued" /\ UNCHANGED <<trial, deposited, row, trialRow, tx>>
      /\ \E w \in {"running", "ended", "lost"} : work' = [work EXCEPT ![j] = w]
      /\ job' = job \/ job' = [job EXCEPT ![j].pending = @ /\ ~job[j].failed]
  BY DEF Start, Lose
<1>2. PICK w \in {"running", "ended", "lost"} : work' = [work EXCEPT ![j] = w]
  BY <1>1
<1>3. /\ work \in [Workers -> {"absent", "queued", "running", "erring", "recheck", "ended", "lost"}]
      /\ job \in [Workers -> [pending : BOOLEAN, failed : BOOLEAN, finished : BOOLEAN]]
      /\ Analysis \in Workers /\ Workers \subseteq Actors
  BY DEF AnalysisInv, JobTypeOK, Actors, Workers
<1>4. /\ job' \in [Workers -> [pending : BOOLEAN, failed : BOOLEAN, finished : BOOLEAN]]
      /\ \A k \in Workers : job'[k].pending = TRUE => job[k].pending = TRUE
  <2>1. CASE job' = job
    BY <1>3, <2>1
  <2>2. CASE job' = [job EXCEPT ![j].pending = @ /\ ~job[j].failed]
    <3>. DEFINE p == job[j].pending /\ ~job[j].failed
    <3>1. job' = [job EXCEPT ![j] = [job[j] EXCEPT !.pending = p]]
      BY <1>3, <2>2
    <3>2. p \in BOOLEAN /\ (p = TRUE => job[j].pending = TRUE)
      BY <1>3
    <3>. HIDE DEF p
    <3>3. job[j] \in [pending : BOOLEAN, failed : BOOLEAN, finished : BOOLEAN]
      BY <1>3
    <3>4. /\ [job[j] EXCEPT !.pending = p] \in [pending : BOOLEAN, failed : BOOLEAN, finished : BOOLEAN]
          /\ [job[j] EXCEPT !.pending = p].pending = p
      BY <3>2, <3>3
    <3>. QED
      BY <1>3, <3>1, <3>2, <3>4
  <2>. QED
    BY <1>1, <2>1, <2>2
<1>5. /\ work'[j] = w /\ (\A k \in Workers \ {j} : work'[k] = work[k])
      /\ work' \in [Workers -> {"absent", "queued", "running", "erring", "recheck", "ended", "lost"}]
  BY <1>2, <1>3
<1>6. JobTypeOK'
  BY <1>1, <1>4, <1>5 DEF AnalysisInv, JobTypeOK
<1>7. tx[j].pc = "idle"
  BY <1>1, <1>3 DEF AnalysisInv, Plans, Busy
<1>8. \A k \in Jobs : Done(k) => Done(k)'
  <2>1. (\A k \in Workers : job'[k].pending \in BOOLEAN) /\ Jobs \subseteq Workers
    BY <1>4 DEF Jobs, Workers, AnalysisInv, JobTypeOK
  <2>. QED
    BY <1>1, <1>4, <1>5, <2>1 DEF Done
<1>9. Plans(j)' /\ (HasAnalysis /\ stored = {} => Asks(j)')
  <2>1. Plans(j)
    BY <1>3 DEF AnalysisInv
  <2>2. Jobs' = Jobs
    BY DEF Jobs
  <2>. QED
    BY <1>1, <1>7, <2>1, <2>2 DEF Plans, Busy, Loads, Writing, Failing, Finalizing, Asks
<1>10. \A k \in Workers : job'[k].pending = TRUE \/ work'[k] = "erring" => k \in Jobs
  BY <1>4, <1>5 DEF AnalysisInv, JobsInv
<1>11. work'[Analysis] # "absent" => work[Analysis] # "absent"
  BY <1>1, <1>3, <1>5
<1>12. tx' = [tx EXCEPT ![j] = tx[j]]
  <2>1. tx \in [Actors -> Tx]
    BY DEF TrialInv, TrialTypeOK
  <2>. QED
    BY <1>1, <2>1
<1>13. \A d \in Workers \ {j} : tx[d].pc # "idle" => work'[d] = work[d]
  BY <1>5
<1>. QED
  BY <1>1, <1>3, <1>6, <1>8, <1>9, <1>10, <1>11, <1>12, <1>13, OneKeeps

LEMMA AbortKeeps ==
  ASSUME TrialInv, AnalysisInv, UNCHANGED stored, NEW c \in Actors,
         Abort(c) \/ (c \in Workers /\ RecheckTimesOut(c))
  PROVE  AnalysisInv'
<1>1. /\ tx' = [tx EXCEPT ![c] = Idle] /\ row' = Freed(row, c)
      /\ trialRow' \in {trialRow, Freed(trialRow, c)} /\ UNCHANGED <<trial, deposited, job>>
  BY DEF Abort, RecheckTimesOut
<1>2. /\ work \in [Workers -> {"absent", "queued", "running", "erring", "recheck", "ended", "lost"}]
      /\ Analysis \in Workers /\ Workers \subseteq Actors /\ tx \in [Actors -> Tx]
  BY DEF AnalysisInv, JobTypeOK, Actors, Workers, TrialInv, TrialTypeOK
<1>3. /\ c \notin Workers => work' = work
      /\ c \in Workers => \E w \in {"running", "ended", "erring", "lost"} :
           /\ work' = [work EXCEPT ![c] = w]
           /\ work[c] = "recheck" => w = "ended" \/ c \in Uploads
           /\ w = "erring" => c \in Jobs
           /\ work[c] \in {"running", "erring", "recheck"}
  <2>1. CASE c \in Workers /\ RecheckTimesOut(c)
    BY <2>1 DEF RecheckTimesOut
  <2>2. CASE Abort(c)
    <3>1. CASE c \in Workers
      <4>1. PICK w \in (CASE work[c] = "recheck" -> {"ended"}
                          [] c \in Uploads -> {"running"}
                          [] OTHER -> {"erring", "lost"}) : work' = [work EXCEPT ![c] = w]
        BY <2>2, <3>1 DEF Abort
      <4>2. work[c] \in {"running", "erring", "recheck"}
        BY <1>2, <2>2, <3>1 DEF Abort, AnalysisInv, Plans, Busy
      <4>3. c \notin Uploads => c \in Jobs
        BY <3>1 DEF Uploads, Jobs, Workers
      <4>4. CASE work[c] = "recheck"
        <5>1. w = "ended" \/ (c \in Uploads /\ w = "running")
          BY <4>1, <4>4
        <5>. QED
          BY <3>1, <4>1, <4>4, <5>1
      <4>5. CASE work[c] # "recheck"
        <5>1. w \in {"running", "erring", "lost"} /\ (w = "erring" => c \notin Uploads)
          BY <4>1, <4>5
        <5>. QED
          BY <3>1, <4>1, <4>2, <4>3, <4>5, <5>1
      <4>. QED
        BY <4>4, <4>5
    <3>2. CASE c \notin Workers
      BY <2>2, <3>2 DEF Abort
    <3>. QED
      BY <3>1, <3>2
  <2>. QED
    BY <2>1, <2>2
<1>4. tx'[c] = Idle /\ \A d \in Actors \ {c} : tx'[d] = tx[d]
  BY <1>1, <1>2
<1>5. \A d \in Actors \ {c} : (row = d => row' = d) /\ (trialRow = d => trialRow' = d)
  BY <1>1 DEF Freed
<1>6. /\ \A d \in Workers \ {c} : work'[d] = work[d]
      /\ work' \in [Workers -> {"absent", "queued", "running", "erring", "recheck", "ended", "lost"}]
      /\ c \in Workers =>
           /\ work[c] = "recheck" => work'[c] = "ended" \/ c \in Uploads
           /\ work'[c] = "erring" => c \in Jobs
           /\ work[c] \in {"running", "erring", "recheck"}
  BY <1>2, <1>3
<1>7. JobTypeOK'
  BY <1>1, <1>6 DEF AnalysisInv, JobTypeOK
<1>8. \A k \in Jobs : Done(k) => Done(k)'
  <2>1. tx'[Clock].on = tx[Clock].on \/ tx'[Clock].on \notin Workers
    BY <1>4, IdlePlans DEF Actors
  <2>2. Jobs \subseteq Workers /\ Jobs \cap Uploads = {}
    BY TrialAssumption DEF Jobs, Uploads, Workers, AnalysisInv, JobTypeOK
  <2>. QED
    BY <1>1, <1>6, <2>1, <2>2 DEF Done
<1>9. Plans(c)' /\ Asks(c)'
  BY <1>4, IdlePlans DEF Plans, Busy, Loads, Writing, Failing, Finalizing, Asks
<1>10. \A k \in Workers : job'[k].pending = TRUE \/ work'[k] = "erring" => k \in Jobs
  BY <1>1, <1>6 DEF AnalysisInv, JobsInv
<1>11. work'[Analysis] # "absent" => work[Analysis] # "absent"
  BY <1>2, <1>6
<1>. QED
  BY <1>1, <1>5, <1>6, <1>7, <1>8, <1>9, <1>10, <1>11, OneKeeps

\* What a commit does to the columns of the trial: neither the request of the
\* analysis nor its end is taken back, and once every job is done only who
\* holds the participant can still fail the trial.
LEMMA CommitTrial ==
  ASSUME TrialInv, AnalysisInv, UNCHANGED stored, NEW c \in Actors, Commit(c)
  PROVE  /\ trial.requested = TRUE \/ tx[c].to.requested # tx[c].from.requested =>
              trial'.requested = TRUE
         /\ trial'.requested = TRUE => Assets \subseteq deposited'
         /\ trial.failed # "no" => trial'.failed # "no"
         /\ trial.analysed = TRUE => trial'.analysed = TRUE
         /\ trial'.analysed = TRUE =>
              trial.analysed = TRUE \/ (c = Analysis /\ work[c] = "running")
         /\ Ready /\ row # c => trial'.failed = trial.failed
         /\ trialRow \notin {Nobody, c} => trial'.failed = trial.failed
         /\ trial'.complete = TRUE => trial.complete = TRUE \/ tx[c].to.complete # tx[c].from.complete
         /\ trial'.finalized = TRUE =>
              trial.finalized = TRUE \/ tx[c].to.finalized # tx[c].from.finalized
         /\ tx[c].queues = TRUE => trial.requested = FALSE /\ trial'.requested = TRUE
<1>. DEFINE t == tx[c]
<1>0. trial \in TrialRow /\ t \in Tx /\ t.pc = "planned" /\ Writes(c) /\ Plans(c)
  BY DEF TrialInv, TrialTypeOK, Commit, AnalysisInv
<1>1. t.from \in TrialRow /\ t.to \in TrialRow
  BY <1>0 DEF Tx
<1>2. /\ trial' = [f \in DOMAIN trial |-> IF t.to[f] = t.from[f] THEN trial[f] ELSE t.to[f]]
      /\ deposited' = deposited \cup t.deposits /\ WaitsFor(c) = {}
  BY DEF Commit
<1>w. t.to # t.from => trialRow \in {Nobody, c}
  BY <1>0, <1>2 DEF WaitsFor
<1>b. t.queues \in BOOLEAN /\ Busy(c)
  BY <1>0 DEF Tx, Plans
<1>3. /\ t.to.requested # t.from.requested => t.queues = TRUE
      /\ t.queues = TRUE => t.to.requested = TRUE /\ t.from.requested = FALSE /\ trial.requested = FALSE
  BY <1>0 DEF Writes
<1>4. /\ t.to.requested # t.from.requested => Assets \subseteq deposited \cup t.deposits
      /\ t.to.analysed # t.from.analysed => c = Analysis /\ work[c] = "running"
  BY <1>0 DEF Plans, Writing
<1>5. t.to.failed # t.from.failed =>
        /\ t.to.failed # "no"
        /\ row = c \/ c = Clock \/ (c \in Jobs /\ work[c] \in {"running", "erring"})
  BY <1>0 DEF Plans, Failing
<1>6. c = Clock => t.on \in Jobs /\ tx[Clock].on = t.on
  BY <1>0, <1>b DEF Busy
<1>. HIDE DEF t
<1>7. /\ trial'.requested = (IF t.to.requested = t.from.requested THEN trial.requested ELSE t.to.requested)
      /\ trial'.failed = (IF t.to.failed = t.from.failed THEN trial.failed ELSE t.to.failed)
      /\ trial'.analysed = (IF t.to.analysed = t.from.analysed THEN trial.analysed ELSE t.to.analysed)
      /\ trial'.complete = (IF t.to.complete = t.from.complete THEN trial.complete ELSE t.to.complete)
      /\ trial'.finalized = (IF t.to.finalized = t.from.finalized THEN trial.finalized ELSE t.to.finalized)
  BY <1>0, <1>2 DEF TrialRow
<1>8. /\ trial.requested = TRUE \/ t.to.requested # t.from.requested => trial'.requested = TRUE
      /\ t.queues = TRUE => trial.requested = FALSE /\ trial'.requested = TRUE
  BY <1>3, <1>7
<1>9. trial'.requested = TRUE => Assets \subseteq deposited'
  BY <1>2, <1>4, <1>7 DEF AnalysisInv, JobsInv
<1>10. trial.failed # "no" => trial'.failed # "no"
  BY <1>5, <1>7
<1>11. trial.analysed = TRUE => trial'.analysed = TRUE
  BY <1>4, <1>7 DEF AnalysisInv, JobsInv, Done
<1>12. trial'.analysed = TRUE => trial.analysed = TRUE \/ (c = Analysis /\ work[c] = "running")
  BY <1>4, <1>7
<1>13. ASSUME Ready, row # c PROVE trial'.failed = trial.failed
  <2>1. \A j \in Jobs : Done(j)
    BY <1>13 DEF Ready, Jobs, AnalysisInv, JobsInv, JobTypeOK
  <2>2. c # Clock
    BY <1>6, <2>1 DEF Done
  <2>3. ~(c \in Jobs /\ work[c] \in {"running", "erring"})
    BY <2>1 DEF Done
  <2>. QED
    BY <1>5, <1>7, <1>13, <2>1, <2>2, <2>3
<1>14. trialRow \notin {Nobody, c} => trial'.failed = trial.failed
  BY <1>w, <1>7
<1>. QED
  BY <1>7, <1>8, <1>9, <1>10, <1>11, <1>12, <1>13, <1>14 DEF t

\* And to the jobs: what is done stays done, and so is the committed one.
LEMMA CommitJobs ==
  ASSUME TrialInv, AnalysisInv, UNCHANGED stored, NEW c \in Actors, Commit(c)
  PROVE  /\ JobTypeOK'
         /\ \A j \in Jobs : Done(j) => Done(j)'
         /\ c \in Jobs /\ work[c] = "running" => (tx[c].queues = TRUE /\ c = Analysis) \/ Done(c)'
         /\ \A j \in Workers : job'[j].pending = TRUE \/ work'[j] = "erring" => j \in Jobs
         /\ \A d \in Workers \ {c} : tx[d].pc # "idle" => work'[d] = work[d]
         /\ work'[Analysis] # "absent" => work[Analysis] # "absent" \/ tx[c].queues = TRUE
<1>. DEFINE t == tx[c]
            J == [pending : BOOLEAN, failed : BOOLEAN, finished : BOOLEAN]
            S == {"absent", "queued", "running", "erring", "recheck", "ended", "lost"}
            one == IF c = Clock THEN [job EXCEPT ![t.on] = [@ EXCEPT !.failed = TRUE, !.pending = FALSE]]
                   ELSE JobAfter(c)
            at == IF c \in Workers THEN [work EXCEPT ![c] = t.next] ELSE work
<1>0. /\ t \in Tx /\ t.pc = "planned" /\ Writes(c) /\ Busy(c)
      /\ tx \in [Actors -> Tx] /\ work \in [Workers -> S] /\ job \in [Workers -> J]
      /\ Jobs \subseteq Workers /\ Analysis \in Jobs /\ Workers \subseteq Actors /\ Clock \in Actors
  BY DEF TrialInv, TrialTypeOK, Commit, AnalysisInv, Plans, JobTypeOK, Jobs, Workers, Actors
<1>1. t.next \in {"ended", "recheck"} /\ t.queues \in BOOLEAN /\ t.deposits \in SUBSET Assets
  BY <1>0 DEF Tx
<1>2. /\ deposited' = deposited \cup t.deposits /\ tx' = [tx EXCEPT ![c] = Idle]
      /\ job' = (IF t.queues THEN [one EXCEPT ![Analysis] = NewJob] ELSE one)
      /\ work' = (IF t.queues THEN [at EXCEPT ![Analysis] = "queued"] ELSE at)
      /\ WaitsFor(c) = {}
  BY DEF Commit
<1>w. c # Clock => tx[Clock].on # c
  BY <1>0, <1>2 DEF WaitsFor
<1>3. c = Clock => t.on \in Jobs
  BY <1>0 DEF Busy
<1>4. c \in Workers => work[c] \in {"running", "erring", "recheck"}
  BY <1>0 DEF Busy
<1>5. t.queues = TRUE => work[Analysis] = "absent" /\ tx[Analysis].pc = "idle"
  <2>1. t.queues = TRUE => trial.requested = FALSE
    BY <1>0 DEF Writes
  <2>2. t.queues = TRUE => work[Analysis] = "absent"
    BY <2>1 DEF AnalysisInv, JobsInv
  <2>. QED
    BY <1>0, <2>2 DEF AnalysisInv, Plans, Busy
<1>n. NewJob \in J
  BY DEF NewJob
<1>6. /\ one \in [Workers -> J]
      /\ \A j \in Workers : one[j].pending = TRUE => job[j].pending = TRUE
      /\ c \in Jobs /\ work[c] = "running" => one[c].pending = FALSE
  <2>1. CASE c = Clock
    <3>. DEFINE r == [job[t.on] EXCEPT !.failed = TRUE, !.pending = FALSE]
    <3>1. one = [job EXCEPT ![t.on] = r] /\ r \in J /\ r.pending = FALSE
      BY <1>0, <1>3, <2>1
    <3>2. c \notin Jobs
      BY <1>0, <2>1, IdlePlans
    <3>. HIDE DEF r, one
    <3>. QED
      BY <1>0, <1>3, <2>1, <3>1, <3>2
  <2>2. CASE c # Clock /\ (c \notin Jobs \/ work[c] \in {"recheck", "absent"})
    BY <1>0, <2>2 DEF JobAfter
  <2>3. CASE c # Clock /\ ~(c \notin Jobs \/ work[c] \in {"recheck", "absent"})
    <3>. DEFINE ran == work[c] = "running"
                erred == work[c] = "erring"
                r == [job[c] EXCEPT !.pending = FALSE, !.finished = @ \/ ran, !.failed = @ \/ erred]
    <3>1. job[c] \in J /\ one = JobAfter(c)
      BY <1>0, <2>3
    <3>2. JobAfter(c) = [job EXCEPT ![c].pending = FALSE, ![c].finished = @ \/ ran,
                                    ![c].failed = @ \/ erred]
      BY <2>3 DEF JobAfter
    <3>3. JobAfter(c) = [job EXCEPT ![c] = [job[c] EXCEPT !.pending = FALSE,
                           !.finished = @ \/ ran, !.failed = @ \/ erred]]
      BY <1>0, <2>3, <3>2
    <3>4. (job[c].finished \/ ran) \in BOOLEAN /\ (job[c].failed \/ erred) \in BOOLEAN
      OBVIOUS
    <3>5. one = [job EXCEPT ![c] = r] /\ r \in J /\ r.pending = FALSE
      BY <3>1, <3>3, <3>4
    <3>. HIDE DEF r, one
    <3>. QED
      BY <1>0, <2>3, <3>5
  <2>. QED
    BY <2>1, <2>2, <2>3
<1>7. /\ at \in [Workers -> S]
      /\ \A j \in Workers : at[j] = work[j] \/ (j = c /\ at[j] \in {"ended", "recheck"})
      /\ c \in Workers => at[c] \in {"ended", "recheck"}
  BY <1>0, <1>1
<1>. HIDE DEF one, at, t
<1>8. /\ job' \in [Workers -> J] /\ work' \in [Workers -> S]
      /\ \A j \in Workers : (t.queues = TRUE /\ j = Analysis) \/ (job'[j] = one[j] /\ work'[j] = at[j])
      /\ t.queues = TRUE => work'[Analysis] = "queued"
  BY <1>0, <1>1, <1>2, <1>6, <1>7, <1>n
<1>. HIDE DEF J, S
<1>9. JobTypeOK'
  BY <1>1, <1>2, <1>8 DEF J, S, AnalysisInv, JobTypeOK
<1>10. tx'[Clock].on = tx[Clock].on \/ tx'[Clock].on = Nobody
  BY <1>0, <1>2, IdlePlans
<1>b. \A j \in Workers : job'[j].pending \in BOOLEAN /\ one[j].pending \in BOOLEAN
  BY <1>6, <1>8 DEF J
<1>11. ASSUME NEW j \in Jobs, Done(j) PROVE Done(j)'
  <2>1. job'[j] = one[j] /\ work'[j] = at[j]
    BY <1>0, <1>5, <1>8, <1>11 DEF Done
  <2>2. at[j] \in {"ended", "recheck"} /\ one[j].pending = FALSE
    BY <1>0, <1>6, <1>7, <1>11, <1>b DEF Done
  <2>. QED
    BY <1>0, <1>10, <1>11, <2>1, <2>2, IdlePlans DEF Done
<1>12. ASSUME c \in Jobs, work[c] = "running", ~(t.queues = TRUE /\ c = Analysis) PROVE Done(c)'
  <2>1. job'[c] = one[c] /\ work'[c] = at[c] /\ c # Clock
    BY <1>0, <1>8, <1>12, IdlePlans
  <2>. QED
    BY <1>0, <1>6, <1>7, <1>10, <1>12, <1>w, <2>1, IdlePlans DEF Done
<1>13. ASSUME NEW j \in Workers, job'[j].pending = TRUE \/ work'[j] = "erring" PROVE j \in Jobs
  <2>1. CASE t.queues = TRUE /\ j = Analysis
    BY <1>0, <2>1
  <2>2. CASE job'[j] = one[j] /\ work'[j] = at[j]
    BY <1>6, <1>7, <1>13, <2>2 DEF AnalysisInv, JobsInv
  <2>. QED
    BY <1>8, <2>1, <2>2
<1>14. ASSUME NEW d \in Workers \ {c}, tx[d].pc # "idle" PROVE work'[d] = work[d]
  BY <1>5, <1>7, <1>8, <1>14
<1>15. work'[Analysis] # "absent" => work[Analysis] # "absent" \/ t.queues = TRUE
  BY <1>0, <1>4, <1>7, <1>8
<1>. QED
  BY <1>9, <1>11, <1>12, <1>13, <1>14, <1>15 DEF t

\* Nobody else finds what it knows undone by a commit.
LEMMA CommitKeeps ==
  ASSUME TrialInv, AnalysisInv, UNCHANGED stored, NEW c \in Actors, Commit(c)
  PROVE  AnalysisInv'
<1>. DEFINE t == tx[c]
<1>0. /\ tx \in [Actors -> Tx] /\ t.pc = "planned" /\ Plans(c) /\ Writes(c)
      /\ Jobs' = Jobs /\ Workers \subseteq Actors /\ Assets \subseteq Workers
      /\ stored \subseteq Jobs /\ Jobs \subseteq Workers /\ Analysis \in Jobs
      /\ HasAnalysis /\ stored = {} => Requested /\ Asks(c)
  BY DEF TrialInv, TrialTypeOK, Commit, AnalysisInv, Jobs, Workers, Actors, JobTypeOK
<1>1. /\ deposited' = deposited \cup t.deposits /\ tx' = [tx EXCEPT ![c] = Idle]
      /\ row' = Freed(row, c) /\ trialRow' = Freed(trialRow, c)
  BY DEF Commit
<1>2. tx'[c] = Idle /\ \A d \in Actors \ {c} : tx'[d] = tx[d]
  BY <1>0, <1>1
<1>3. \A d \in Actors \ {c} :
        (row = d => row' = d /\ row # c) /\ (trialRow = d => trialRow' = d /\ trialRow \notin {Nobody, c})
  BY <1>1, TrialAssumption DEF Freed
<1>t. /\ trial.requested = TRUE \/ t.to.requested # t.from.requested => trial'.requested = TRUE
      /\ trial'.requested = TRUE => Assets \subseteq deposited'
      /\ trial.failed # "no" => trial'.failed # "no"
      /\ trial.analysed = TRUE => trial'.analysed = TRUE
      /\ trial'.analysed = TRUE => trial.analysed = TRUE \/ (c = Analysis /\ work[c] = "running")
      /\ Ready /\ row # c => trial'.failed = trial.failed
      /\ trialRow \notin {Nobody, c} => trial'.failed = trial.failed
      /\ trial'.complete = TRUE => trial.complete = TRUE \/ t.to.complete # t.from.complete
      /\ trial'.finalized = TRUE => trial.finalized = TRUE \/ t.to.finalized # t.from.finalized
      /\ t.queues = TRUE => trial.requested = FALSE /\ trial'.requested = TRUE
  BY CommitTrial
<1>j. /\ JobTypeOK'
      /\ \A j \in Jobs : Done(j) => Done(j)'
      /\ c \in Jobs /\ work[c] = "running" => (t.queues = TRUE /\ c = Analysis) \/ Done(c)'
      /\ \A j \in Workers : job'[j].pending = TRUE \/ work'[j] = "erring" => j \in Jobs
      /\ \A d \in Workers \ {c} : tx[d].pc # "idle" => work'[d] = work[d]
      /\ work'[Analysis] # "absent" => work[Analysis] # "absent" \/ t.queues = TRUE
  BY CommitJobs
<1>d. t.deposits # {} => c \in Assets /\ t.deposits = {c} /\ work[c] = "running"
  BY <1>0 DEF Plans, Writing
<1>. HIDE DEF t
<1>r. Ready => trial'.requested = TRUE /\ trial'.analysed = TRUE
  BY <1>t DEF Ready
<1>4. JobsInv'
  <2>1. trial'.analysed = TRUE => trial'.requested = TRUE /\ Done(Analysis)'
    <3>1. CASE trial.analysed = TRUE
      BY <1>0, <1>t, <1>j, <3>1 DEF AnalysisInv, JobsInv
    <3>2. CASE c = Analysis /\ work[c] = "running"
      <4>1. trial.requested = TRUE
        BY <3>2 DEF AnalysisInv, JobsInv
      <4>. QED
        BY <1>0, <1>t, <1>j, <3>2, <4>1
    <3>. QED
      BY <1>t, <3>1, <3>2
  <2>2. work'[Analysis] # "absent" => trial'.requested = TRUE
    BY <1>t, <1>j DEF AnalysisInv, JobsInv
  <2>3. ASSUME NEW a \in stored \cap deposited' PROVE Done(a)'
    <3>1. CASE a \in deposited
      BY <1>0, <1>j, <3>1 DEF AnalysisInv, JobsInv
    <3>2. CASE a \in t.deposits
      <4>1. a = c /\ c \in Assets /\ work[c] = "running"
        BY <1>d, <3>2
      <4>2. c # Analysis /\ c \in Jobs
        BY <1>0, <4>1, TrialAssumption
      <4>. QED
        BY <1>j, <4>1, <4>2
    <3>. QED
      BY <1>1, <3>1, <3>2 DEF t
  <2>. QED
    BY <1>0, <1>t, <1>j, <2>1, <2>2, <2>3 DEF JobsInv
<1>5. Plans(c)' /\ Asks(c)'
  BY <1>2, IdlePlans DEF Plans, Busy, Loads, Writing, Failing, Finalizing, Asks
<1>6. ASSUME NEW d \in Actors, d # c PROVE Plans(d)' /\ (HasAnalysis /\ stored = {} => Asks(d)')
  <2>1. /\ tx'[d] = tx[d] /\ (row = d => row' = d /\ row # c)
        /\ trialRow = d => trialRow' = d /\ trialRow \notin {Nobody, c}
        /\ d \in Workers /\ tx[d].pc # "idle" => work'[d] = work[d]
    BY <1>2, <1>3, <1>6, <1>j
  <2>2. Plans(d) /\ Writes(d) /\ (HasAnalysis /\ stored = {} => Asks(d))
    BY <1>6 DEF AnalysisInv, TrialInv
  <2>3. Busy(d)'
    BY <1>0, <2>1, <2>2 DEF Plans, Busy
  <2>4. Loads(d)'
    <3>. SUFFICES ASSUME tx[d].pc = "loaded"
                  PROVE  /\ tx[d].from.requested = TRUE => trial'.requested = TRUE
                         /\ tx[d].from.failed # "no" => trial'.failed # "no"
                         /\ tx[d].from.analysed = TRUE =>
                              tx[d].from.requested = TRUE /\ Ready' /\ tx[d].from.failed = trial'.failed
      BY <2>1 DEF Loads
    <3>1. row # c
      BY <2>1, <2>2 DEF Writes
    <3>. QED
      BY <1>r, <1>t, <2>2, <3>1 DEF Plans, Loads, Ready
  <2>5. Writing(d)'
    BY <1>0, <1>1, <2>1, <2>2 DEF Plans, Writing, t
  <2>6. Failing(d)'
    BY <1>0, <2>1, <2>2 DEF Plans, Failing
  <2>7. Finalizing(d)'
    <3>. SUFFICES ASSUME HasAnalysis, tx[d].pc = "planned", tx[d].to.finalized # tx[d].from.finalized
                  PROVE  trial'.failed = "no" /\ (trialRow' = d \/ Ready')
      BY <2>1 DEF Finalizing
    <3>1. trial.failed = "no" /\ (trialRow = d \/ Ready) /\ row # c
      BY <2>1, <2>2 DEF Plans, Finalizing, Writes
    <3>. QED
      BY <1>r, <1>t, <2>1, <3>1 DEF Ready
  <2>8. ASSUME HasAnalysis, stored = {} PROVE Asks(d)'
    <3>1. row # c => t.deposits = {}
      BY <1>0, <2>8 DEF Asks, t
    <3>2. Asks(d)
      BY <2>2, <2>8
    <3>3. row # c => deposited' = deposited
      BY <1>1, <3>1 DEF t
    <3>. QED
      BY <1>t, <2>1, <3>2, <3>3 DEF Asks
  <2>. QED
    BY <2>3, <2>4, <2>5, <2>6, <2>7, <2>8 DEF Plans
<1>7. ASSUME HasAnalysis, stored = {} PROVE Requested'
  <2>0. Requested /\ Asks(c)
    BY <1>0, <1>7
  <2>1. ASSUME trial'.failed = "no", trial'.complete = TRUE, Assets \subseteq deposited'
        PROVE  trial'.requested = TRUE
    <3>1. trial.failed = "no"
      BY <1>t, <2>1
    <3>2. CASE t.deposits # {} \/ t.to.complete # t.from.complete
      <4>1. \/ trial.requested = TRUE \/ trial.failed # "no"
            \/ t.to.requested # t.from.requested
        BY <1>0, <1>1, <2>0, <2>1, <3>2 DEF Asks, t
      <4>. QED
        BY <1>t, <3>1, <4>1
    <3>3. CASE t.deposits = {} /\ t.to.complete = t.from.complete
      <4>1. trial.complete = TRUE /\ Assets \subseteq deposited
        BY <1>1, <1>t, <2>1, <3>3 DEF t
      <4>. QED
        BY <1>t, <2>0, <3>1, <4>1 DEF Requested
    <3>. QED
      BY <3>2, <3>3
  <2>2. trial'.finalized = TRUE => trial'.analysed = TRUE
    <3>1. t.to.finalized # t.from.finalized => trial.analysed = TRUE
      BY <1>0, <2>0 DEF Asks, t
    <3>. QED
      BY <1>t, <2>0, <3>1 DEF Requested
  <2>. QED
    BY <2>1, <2>2 DEF Requested
<1>. QED
  BY <1>4, <1>5, <1>6, <1>7, <1>j DEF AnalysisInv

LEMMA AnalysisInvariant == Spec => [](TrialInv /\ AnalysisInv)
<1>1. ASSUME TrialInv, AnalysisInv, [Next]_vars PROVE AnalysisInv'
  <2>0. Workers \subseteq Actors
    BY DEF Actors
  <2>1. CASE UNCHANGED vars
    <3>1. UNCHANGED <<stored, trial, deposited, work, job, row, trialRow, tx>>
      BY <2>1 DEF vars, state
    <3>2. JobTypeOK'
      BY <1>1, <3>1 DEF AnalysisInv, JobTypeOK
    <3>3. JobsInv'
      BY <1>1, <3>1 DEF AnalysisInv, JobsInv, Done, Jobs
    <3>4. Requested => Requested'
      BY <3>1 DEF Requested
    <3>5. ASSUME NEW c \in Actors PROVE (Plans(c) => Plans(c)') /\ (Asks(c) => Asks(c)')
      BY <3>1 DEF Plans, Busy, Loads, Writing, Failing, Finalizing, Asks, Ready, Jobs
    <3>. QED
      BY <1>1, <3>1, <3>2, <3>3, <3>4, <3>5 DEF AnalysisInv
  <2>2. CASE Next
    <3>0. UNCHANGED stored
      BY <2>2 DEF Next
    <3>1. ASSUME NEW c \in Actors, Enter(c) \/ Commit(c) \/ Abort(c) PROVE AnalysisInv'
      BY <1>1, <3>0, <3>1, EnterKeeps, CommitKeeps, AbortKeeps
    <3>2. CASE Complete
      BY <1>1, <3>0, <3>2, CompleteKeeps
    <3>3. CASE FailParticipant \/ Sweep \/ \E w \in Workers : Recheck(w)
      BY <1>1, <3>0, <3>3, LockedKeeps
    <3>4. ASSUME NEW a \in Assets, ResolveUpload(a) \/ Deposit(a) PROVE AnalysisInv'
      BY <1>1, <3>0, <3>4, ResolveKeeps, DepositKeeps
    <3>5. CASE Analyse \/ \E j \in Workers : HandleError(j) \/ TimeOut(j)
      BY <1>1, <3>0, <3>5, JobKeeps
    <3>6. ASSUME NEW w \in Workers, RecheckTimesOut(w) PROVE AnalysisInv'
      BY <1>1, <2>0, <3>0, <3>6, AbortKeeps
    <3>7. ASSUME NEW j \in Workers, Start(j) \/ Lose(j) PROVE AnalysisInv'
      BY <1>1, <3>0, <3>7, StartKeeps
    <3>. QED
      BY <2>2, <3>1, <3>2, <3>3, <3>4, <3>5, <3>6, <3>7 DEF Next
  <2>. QED
    BY <1>1, <2>1, <2>2
<1>. QED
  BY <1>1, InitAnalysis, TrialInvariant, PTL DEF Spec
-----------------------------------------------------------------------------
\* With an analysis, whoever finalizes a trial knows that nothing can have
\* failed it meanwhile: it holds the trial's row, or every job has ended.
THEOREM FailedStaysUnfinalized == ASSUME HasAnalysis PROVE Spec => FailedIsNotFinalized
<1>1. ASSUME TrialInv, AnalysisInv, [Next]_vars, trial.failed # "no"
      PROVE  trial'.finalized = trial.finalized
  <2>1. CASE UNCHANGED trial
    BY <2>1
  <2>2. ASSUME NEW c \in Actors, Commit(c) PROVE trial'.finalized = trial.finalized
    <3>1. /\ trial' = [f \in DOMAIN trial |->
                         IF tx[c].to[f] = tx[c].from[f] THEN trial[f] ELSE tx[c].to[f]]
          /\ tx[c].pc = "planned"
      BY <2>2 DEF Commit
    <3>2. tx[c].to.finalized = tx[c].from.finalized
      BY <1>1, <3>1 DEF AnalysisInv, Plans, Finalizing
    <3>3. "finalized" \in DOMAIN trial
      BY <1>1 DEF TrialInv, TrialTypeOK, TrialRow
    <3>. QED
      BY <3>1, <3>2, <3>3
  <2>. QED
    BY <1>1, <2>1, <2>2
    DEF Next, vars, state, Enter, Abort, Complete, FailParticipant, LockTrial, Sweep, Analyse,
        ResolveUpload, Deposit, Recheck, RecheckTimesOut, Start, HandleError, TimeOut, Lose
<1>2. TrialInv /\ AnalysisInv /\ [Next]_vars =>
        [trial.failed # "no" => trial'.finalized = trial.finalized]_vars
  BY <1>1
<1>. QED
  BY <1>2, AnalysisInvariant, PTL DEF Spec, FailedIsNotFinalized

\* A trial whose assets are all recordings is not finalized before its
\* analysis: whoever deposits or answers last has requested it.
THEOREM UploadsWaitForAnalysis == Spec => []UploadsAreAnalysed
<1>1. TrialInv /\ AnalysisInv => UploadsAreAnalysed
  BY DEF AnalysisInv, Requested, UploadsAreAnalysed, FinalizedIsAnalysed
<1>. QED
  BY <1>1, AnalysisInvariant, PTL
=============================================================================
