--------------------------- MODULE TrialFinalize ---------------------------
(***************************************************************************)
(* One trial on its way to finalization (psynet/trial/main.py): the        *)
(* participant answers it, its assets are deposited in the background,     *)
(* async_post_trial analyses it, and whoever clears the last blocker       *)
(* finalizes it - the participant's request, the worker's recheck after    *)
(* its commit, or the backstop.  Async jobs (psynet/async_job.py) may be   *)
(* lost, crash, raise or time out.                                         *)
(*                                                                         *)
(* A transaction loads the trial, plans its writes and commits later,      *)
(* writing only the columns it changed; in between it holds row locks on   *)
(* the participant and the trial.                                          *)
(***************************************************************************)
EXTENDS Naturals, FiniteSets

CONSTANTS
  Assets,        \* assets of the trial
  StoredSets,    \* which of them async jobs may deposit (Asset.deposit)
  HasAnalysis,   \* the trial class defines async_post_trial
  Analysis,      \* its async job
  Request, Exit, Backstop, Clock,  \* the other processes
  Nobody,
  MaxFaults      \* bound: errors, crashes, lost jobs

Workers == Assets \cup {Analysis}
Actors == Workers \cup {Request, Exit, Backstop, Clock}

ASSUME TrialAssumption ==
  /\ StoredSets \subseteq SUBSET Assets /\ Analysis \notin Assets
  /\ Cardinality({Request, Exit, Backstop, Clock}) = 4
  /\ {Request, Exit, Backstop, Clock} \cap Workers = {}
  /\ Nobody \notin Actors
  /\ HasAnalysis \in BOOLEAN /\ MaxFaults \in Nat

VARIABLES
  stored,     \* the assets that async jobs deposit; it never changes
  trial,      \* the committed trial row
  deposited,  \* assets whose deposit is committed
  left,       \* whether the participant has been failed
  work,       \* where the worker of an asset or of the analysis is
  job,        \* the async_job rows
  row,        \* who holds the participant's row
  trialRow,   \* who holds the trial's row
  tx,         \* each process's transaction
  finals,     \* commits in which on_finalized has run
  analyses,   \* commits that enqueued async_post_trial
  faults

state == <<trial, deposited, left, work, job, row, trialRow, tx, finals, analyses, faults>>
vars == <<stored, state>>

\* The others are recordings, deposited by media_upload under row locks.
Uploads == Assets \ stored
Jobs == stored \cup {Analysis}

NewTrial == [complete |-> FALSE, requested |-> FALSE, analysed |-> FALSE,
             finalized |-> FALSE, failed |-> "no"]

Idle == [pc |-> "idle", from |-> NewTrial, to |-> NewTrial, deposits |-> {},
         queues |-> FALSE, leaves |-> FALSE, on |-> Nobody, next |-> "ended"]

NewJob == [pending |-> TRUE, failed |-> FALSE, finished |-> FALSE]

Init ==
  /\ stored \in StoredSets /\ trial = NewTrial
  /\ deposited = {} /\ left = FALSE
  /\ work = [w \in Workers |-> IF w = Analysis THEN "absent"
                               ELSE IF w \in Uploads THEN "running" ELSE "queued"]
  /\ job = [j \in Workers |-> [NewJob EXCEPT !.pending = (j \in stored)]]
  /\ row = Nobody /\ trialRow = Nobody
  /\ tx = [c \in Actors |-> Idle]
  /\ finals = 0 /\ analyses = 0 /\ faults = 0
-----------------------------------------------------------------------------
(* Decisions about a loaded trial t, with dep seen as deposited.           *)

\* Variants of Finalized: without the failed check, and without the analysis.
FinalizedFailed(t, dep) ==
  [t EXCEPT !.finalized = @ \/ (t.complete /\ Assets \subseteq dep /\ (t.requested => t.analysed))]
FinalizedUngated(t, dep) ==
  [t EXCEPT !.finalized = @ \/ (t.complete /\ t.failed = "no" /\ Assets \subseteq dep)]

\* check_if_can_mark_as_finalized
Finalized(t, dep) ==
  [t EXCEPT !.finalized = @ \/ /\ t.complete /\ t.failed = "no" /\ Assets \subseteq dep
                               /\ t.requested => t.analysed]

\* check_if_can_run_async_post_trial, up to the re-read of the flag
WantsAnalysis(t, dep) ==
  HasAnalysis /\ t.failed # "recording" /\ ~t.requested /\ Assets \subseteq dep

\* Trial.fail: an early return if it has failed.
Failed(t, reason) == [t EXCEPT !.failed = IF @ = "no" THEN reason ELSE @]

Held(lock, c) == lock \notin {Nobody, c}

\* Requests, exits and uploads hold the participant FOR UPDATE, rechecks and
\* the backstop only FOR NO KEY UPDATE: inserting a job that references the
\* participant waits for the former.
HeldForUpdate(c) ==
  /\ Held(row, c)
  /\ row \in {Request, Exit} \/ (row \in Uploads /\ work[row] = "running")

\* An exit leaves the answered trials of its participant alone, and the failed.
Spared == trial.complete \/ trial.failed # "no"

Freed(lock, c) == IF lock = c THEN Nobody ELSE lock

\* An UPDATE of the trial waits for its row, an INSERT of the analysis job for
\* the participant, and an UPDATE of a job for the clock.
WaitsFor(c) ==
  IF tx[c].pc = "entered"
  THEN (IF c = Exit /\ Spared THEN {} ELSE {trialRow} \ {Nobody, c})
  ELSE IF tx[c].pc = "planned"
  THEN (IF tx[c].to # tx[c].from THEN {trialRow} \ {Nobody, c} ELSE {})
       \cup (IF tx[c].queues /\ HeldForUpdate(c) THEN {row} ELSE {})
       \cup (IF c # Clock /\ tx[Clock].on = c THEN {Clock} ELSE {})
  ELSE {}

Plan(c, from, to, dep, queues, next) ==
  tx' = [tx EXCEPT ![c] = [@ EXCEPT !.pc = "planned", !.from = from, !.to = to,
                                    !.deposits = dep, !.queues = queues, !.next = next]]

\* A variant that leaves a failed job pending.
JobAfterPending(c) ==
  IF c \notin Jobs \/ work[c] \in {"recheck", "absent"} THEN job
  ELSE [job EXCEPT ![c].pending = @ /\ work[c] = "erring",
                   ![c].finished = @ \/ work[c] = "running",
                   ![c].failed = @ \/ work[c] = "erring"]

\* The job of worker c after a transaction that leaves it at next.
JobAfter(c) ==
  IF c \notin Jobs \/ work[c] \in {"recheck", "absent"} THEN job
  ELSE [job EXCEPT ![c].pending = FALSE,
                   ![c].finished = @ \/ work[c] = "running",
                   ![c].failed = @ \/ work[c] = "erring"]

Commit(c) ==
  LET t == tx[c] IN
  /\ t.pc = "planned" /\ WaitsFor(c) = {}
  /\ trial' = [f \in DOMAIN trial |-> IF t.to[f] = t.from[f] THEN trial[f] ELSE t.to[f]]
  /\ deposited' = deposited \cup t.deposits
  /\ left' = (left \/ t.leaves)
  /\ finals' = IF t.to.finalized /\ ~t.from.finalized THEN finals + 1 ELSE finals
  /\ analyses' = IF t.queues THEN analyses + 1 ELSE analyses
  /\ LET j == IF c = Clock THEN [job EXCEPT ![t.on] = [@ EXCEPT !.failed = TRUE, !.pending = FALSE]]
              ELSE JobAfter(c)
     IN job' = IF t.queues THEN [j EXCEPT ![Analysis] = NewJob] ELSE j
  /\ LET w == IF c \in Workers THEN [work EXCEPT ![c] = t.next] ELSE work
     IN work' = IF t.queues THEN [w EXCEPT ![Analysis] = "queued"] ELSE w
  /\ row' = Freed(row, c) /\ trialRow' = Freed(trialRow, c)
  /\ tx' = [tx EXCEPT ![c] = Idle]
  /\ UNCHANGED faults
-----------------------------------------------------------------------------
(* Processes that lock the participant first.                              *)

\* A request, participant.fail, an upload, or the recheck of a worker.
Enter(c) ==
  /\ tx[c].pc = "idle" /\ row = Nobody
  /\ \/ c = Request /\ ~trial.complete /\ ~left
     \/ c = Exit /\ ~left
     \/ c \in Uploads /\ work[c] = "running"
     \/ c \in Workers /\ work[c] = "recheck"
  /\ row' = c
  /\ tx' = [tx EXCEPT ![c] = [@ EXCEPT
       !.pc = IF c = Request THEN "loaded" ELSE "entered",
       !.from = trial]]
  /\ UNCHANGED <<trial, deposited, left, work, job, trialRow, finals, analyses, faults>>

\* A variant of Complete that does not ask whether the analysis was requested.
CompleteUnasked ==
  LET asks == HasAnalysis /\ Assets \subseteq deposited
      t == [tx[Request].from EXCEPT !.complete = TRUE, !.requested = @ \/ asks]
  IN
  /\ tx[Request].pc = "loaded"
  /\ Plan(Request, tx[Request].from, Finalized(t, deposited), {}, asks, "ended")
  /\ UNCHANGED <<trial, deposited, left, work, job, row, trialRow, finals, analyses, faults>>

\* Trial._finalize_trial: answer, queue the analysis if nothing is left to
\* deposit, finalize if nothing blocks.  The trial was loaded when the request
\* began; only the requested flag is read again, under the trial's row lock.
Complete ==
  LET t == [tx[Request].from EXCEPT !.complete = TRUE]
      asks == WantsAnalysis(t, deposited)
      from == IF asks THEN [tx[Request].from EXCEPT !.requested = trial.requested]
                      ELSE tx[Request].from
      to == IF asks THEN [t EXCEPT !.requested = TRUE] ELSE t
  IN
  /\ tx[Request].pc = "loaded"
  /\ asks => trialRow = Nobody
  /\ trialRow' = IF asks THEN Request ELSE trialRow
  /\ Plan(Request, from, Finalized(to, deposited), {}, asks /\ ~trial.requested, "ended")
  /\ UNCHANGED <<trial, deposited, left, work, job, row, finals, analyses, faults>>

\* Uploads and rechecks lock the trial as well and load it afresh.
LockTrial(c) ==
  /\ tx[c].pc = "entered" /\ trialRow = Nobody
  /\ trialRow' = c
  /\ UNCHANGED <<trial, deposited, left, work, job, row, finals, analyses, faults>>

\* participant.fail and its _fail_incomplete_trials
FailParticipant ==
  /\ tx[Exit].pc = "entered" /\ (Spared \/ trialRow = Nobody)
  /\ trialRow' = IF Spared THEN trialRow ELSE Exit
  /\ tx' = [tx EXCEPT ![Exit] = [@ EXCEPT
       !.pc = "planned", !.leaves = TRUE, !.from = trial,
       !.to = IF Spared THEN trial ELSE Failed(trial, "other")]]
  /\ UNCHANGED <<trial, deposited, left, work, job, row, finals, analyses, faults>>

\* _deposit_recording, or the recording expired or could not be processed.
ResolveUpload(a) ==
  LET dep == deposited \cup {a}
      asks == trial.failed = "no" /\ WantsAnalysis(trial, dep)
  IN
  /\ a \in Uploads /\ work[a] = "running" /\ LockTrial(a)
  /\ \/ Plan(a, trial, [trial EXCEPT !.requested = @ \/ asks], {a}, asks, "recheck")
     \/ Plan(a, trial, Failed(trial, "recording"), {}, FALSE, "ended")

\* Trial.recheck_finalization, after the worker's commit
Recheck(w) ==
  /\ work[w] = "recheck" /\ LockTrial(w)
  /\ Plan(w, trial, Finalized(trial, deposited), {}, FALSE, "ended")

\* Its lock timeout leaves the trial to the backstop.
RecheckTimesOut(w) ==
  /\ work[w] = "recheck"
  /\ IF tx[w].pc = "entered" THEN Held(trialRow, w) ELSE tx[w].pc = "idle" /\ Held(row, w)
  /\ work' = [work EXCEPT ![w] = "ended"]
  /\ row' = Freed(row, w)
  /\ tx' = [tx EXCEPT ![w] = Idle]
  /\ UNCHANGED <<trial, deposited, left, job, trialRow, finals, analyses, faults>>

\* A variant of Sweep that takes no lock.
SweepUnlocked ==
  /\ tx[Backstop].pc = "idle" /\ ~trial.finalized /\ Finalized(trial, deposited).finalized
  /\ Plan(Backstop, trial, Finalized(trial, deposited), {}, FALSE, "ended")
  /\ UNCHANGED <<trial, deposited, left, work, job, row, trialRow, finals, analyses, faults>>

\* finalize_pending_trials takes both rows SKIP LOCKED; a finalization that
\* raises there fails the trial.
Sweep ==
  /\ tx[Backstop].pc = "idle" /\ row = Nobody /\ trialRow = Nobody
  /\ ~trial.finalized /\ Finalized(trial, deposited).finalized
  /\ row' = Backstop /\ trialRow' = Backstop
  /\ \/ Plan(Backstop, trial, Finalized(trial, deposited), {}, FALSE, "ended")
        /\ UNCHANGED faults
     \/ /\ faults < MaxFaults /\ faults' = faults + 1
        /\ Plan(Backstop, trial, Failed(trial, "other"), {}, FALSE, "ended")
  /\ UNCHANGED <<trial, deposited, left, work, job, finals, analyses>>
-----------------------------------------------------------------------------
(* Async jobs.                                                             *)

\* call_function locks the job's row: a job that failed meanwhile is skipped.
Start(j) ==
  /\ work[j] = "queued" /\ tx[Clock].on # j
  /\ work' = [work EXCEPT ![j] = IF job[j].failed THEN "ended" ELSE "running"]
  /\ job' = [job EXCEPT ![j].pending = @ /\ ~job[j].failed]
  /\ UNCHANGED <<trial, deposited, left, row, trialRow, tx, finals, analyses, faults>>

\* _call_receive_deposit and after_deposit, without the participant's row.
Deposit(a) ==
  LET dep == deposited \cup {a}
      asks == WantsAnalysis(trial, dep)
  IN
  /\ a \in stored /\ work[a] = "running" /\ tx[a].pc = "idle"
  /\ asks => trialRow = Nobody
  /\ trialRow' = IF asks THEN a ELSE trialRow
  /\ Plan(a, trial, [trial EXCEPT !.requested = @ \/ asks], {a}, asks, "recheck")
  /\ UNCHANGED <<trial, deposited, left, work, job, row, finals, analyses, faults>>

\* call_async_post_trial, which may fail the trial itself
Analyse ==
  /\ work[Analysis] = "running" /\ tx[Analysis].pc = "idle"
  /\ \E t \in {trial, Failed(trial, "other")} :
       Plan(Analysis, trial, [t EXCEPT !.analysed = trial.failed # "recording"], {}, FALSE, "recheck")
  /\ UNCHANGED <<trial, deposited, left, work, job, row, trialRow, finals, analyses, faults>>

\* An exception fails the job, and with it the trial.
HandleError(j) ==
  /\ work[j] = "erring" /\ tx[j].pc = "idle"
  /\ Plan(j, trial, IF j \in stored /\ trial.finalized THEN trial ELSE Failed(trial, "other"),
          {}, FALSE, "recheck")
  /\ UNCHANGED <<trial, deposited, left, work, job, row, trialRow, finals, analyses, faults>>

Unfinished(j) == job[j].pending /\ ~job[j].failed /\ ~job[j].finished

\* A job is overdue if it ran too long, or is lost before its start (a thread
\* that has not started is); and a variant that forgets the second.
OverdueStarted(j) == Unfinished(j) /\ work[j] \in {"running", "erring"}
Overdue(j) ==
  /\ Unfinished(j)
  /\ work[j] \in {"running", "erring", "lost"} \/ (work[j] = "queued" /\ j \in stored)

\* check_timeouts
TimeOut(j) ==
  /\ tx[Clock].pc = "idle" /\ Overdue(j)
  /\ tx' = [tx EXCEPT ![Clock] = [@ EXCEPT
       !.pc = "planned", !.on = j, !.from = trial,
       !.to = IF j \in stored /\ trial.finalized THEN trial ELSE Failed(trial, "other")]]
  /\ UNCHANGED <<trial, deposited, left, work, job, row, trialRow, finals, analyses, faults>>

\* The launch failed or Redis forgot the job.
Lose(j) ==
  /\ work[j] = "queued" /\ faults < MaxFaults
  /\ faults' = faults + 1
  /\ work' = [work EXCEPT ![j] = "lost"]
  /\ UNCHANGED <<trial, deposited, left, job, row, trialRow, tx, finals, analyses>>

\* A transaction is rolled back: by an error or a crash, or because PostgreSQL
\* breaks a deadlock.  A worker's job then fails, or dies with its process.
Deadlocked(c) == \E d \in WaitsFor(c) : c \in WaitsFor(d)

Abort(c) ==
  /\ tx[c].pc # "idle"
  /\ \/ Deadlocked(c) /\ UNCHANGED faults
     \/ faults < MaxFaults /\ faults' = faults + 1
  /\ row' = Freed(row, c) /\ trialRow' = Freed(trialRow, c)
  /\ tx' = [tx EXCEPT ![c] = Idle]
  /\ IF c \in Workers
     THEN \E next \in CASE work[c] = "recheck" -> {"ended"}
                        [] c \in Uploads -> {"running"}
                        [] OTHER -> {"erring", "lost"} :
            work' = [work EXCEPT ![c] = next]
     ELSE UNCHANGED work
  /\ UNCHANGED <<trial, deposited, left, job, finals, analyses>>
-----------------------------------------------------------------------------
Next ==
  /\ \/ \E c \in Actors : Enter(c) \/ Commit(c) \/ Abort(c)
     \/ Complete \/ FailParticipant \/ Sweep \/ Analyse
     \/ \E a \in Assets : ResolveUpload(a) \/ Deposit(a)
     \/ \E w \in Workers : Recheck(w) \/ RecheckTimesOut(w)
     \/ \E j \in Workers : Start(j) \/ HandleError(j) \/ TimeOut(j) \/ Lose(j)
  /\ UNCHANGED stored

Spec == Init /\ [][Next]_vars

\* Transactions end (PostgreSQL breaks deadlocks, and spares no worker each
\* time), jobs start, and the clock keeps running both of its tasks.
Ends(c) == Commit(c) \/ (Abort(c) /\ Deadlocked(c))

Fairness ==
  /\ \A c \in Workers : SF_state(c \in Jobs /\ Ends(c))
  /\ \A c \in Actors : WF_state(Ends(c))
  /\ WF_state(Complete) /\ WF_state(FailParticipant) /\ WF_state(Sweep) /\ WF_state(Analyse)
  /\ \A a \in Assets : /\ SF_state(a \in Uploads /\ Enter(a))
                       /\ WF_state(Deposit(a)) /\ WF_state(ResolveUpload(a))
  /\ \A w \in Workers : /\ WF_state(Recheck(w) \/ RecheckTimesOut(w))
                        /\ WF_state(Start(w)) /\ WF_state(HandleError(w)) /\ WF_state(TimeOut(w))

FairSpec == Spec /\ Fairness
-----------------------------------------------------------------------------
\* on_finalized, which allocates the performance reward, runs in one commit
\* only, although the request, every worker and the backstop may try.
FinalizedOnce == finals <= 1

\* The analysis is enqueued once: the last deposit and the answer may both
\* find that nothing is left to wait for.
AnalysedOnce == analyses <= 1

\* A trial that any process has failed is not finalized afterwards by one
\* that loaded it before.
FailedIsNotFinalized ==
  [][trial.failed # "no" => trial'.finalized = trial.finalized]_vars

\* What failure_semantics.rst says of a finalized trial: its analysis has
\* finished.  Two assets that async jobs deposit at the same time break it.
FinalizedIsAnalysed == HasAnalysis /\ trial.finalized => trial.analysed

\* So it is for recordings, whose deposits take the participant's row in turn:
\* whichever is last requests the analysis, in the commit of its deposit.
UploadsAreAnalysed == stored = {} => FinalizedIsAnalysed

\* An answered trial does not stay unfinished: lost jobs, crashed workers and
\* missed rechecks end in a finalized or a failed trial.
AnsweredIsSettled == trial.complete ~> (trial.finalized \/ trial.failed # "no")

\* No job stays pending for ever.
JobsEnd == \A j \in Workers : job[j].pending ~> ~job[j].pending
=============================================================================
