-------------------------- MODULE RecordingUpload --------------------------
(***************************************************************************)
(* One asynchronous recording (psynet/media_upload.py) from its            *)
(* reservation to its resolution.  Receivers stream the browser's bytes to *)
(* a private file under a cross-process file lock, and publish it under    *)
(* the recording's row lock; a worker stores the bytes and deposits the    *)
(* recording; the poller and the participant's own requests expire it.     *)
(*                                                                         *)
(* Deadlines are abstracted to whether they have passed: the lease of a    *)
(* pending upload can be renewed until its lifetime is over, the bound on  *)
(* processing cannot.                                                      *)
(***************************************************************************)
EXTENDS Naturals, FiniteSets

CONSTANTS
  Receivers,   \* upload requests; each writes a file of its own
  Nobody,
  Required,    \* the trial cannot do without the recording
  MaxFaults    \* bound: crashes, disconnects, storage errors, rollbacks

ASSUME RecordingAssumption ==
  Nobody \notin Receivers /\ Required \in BOOLEAN /\ MaxFaults \in Nat

VARIABLES
  status,    \* upload_status
  path,      \* input_path: the published file, by its receiver
  lease,     \* upload_deadline: "live", "lapsed", or "over" with the lifetime
  due,       \* upload_processing_deadline has passed
  trial,     \* "live", "failed" by this recording, "gone" for another reason
  files,     \* files on the shared volume
  receiver,  \* where each receiver is
  flock,     \* who holds the receipt lock
  job,       \* where the processing job is
  work,      \* the file the job has claimed
  request,   \* what the participant's request has done but not committed
  leftover,  \* file the poller has yet to unlink after its commit
  deposits,  \* times the deposit was published
  faults

vars == <<status, path, lease, due, trial, files, receiver, flock, job, work, request,
          leftover, deposits, faults>>

Open == {"pending", "received", "queued", "processing"}
Final == {"deposited", "failed", "expired"}

\* _reserve_recording, committed with the accepted response
Init ==
  /\ status = "pending" /\ path = Nobody
  /\ lease = "live" /\ due = FALSE /\ trial = "live"
  /\ files = {} /\ receiver = [r \in Receivers |-> "idle"] /\ flock = Nobody
  /\ job = "none" /\ work = Nobody /\ request = "idle" /\ leftover = Nobody
  /\ deposits = 0 /\ faults = 0

\* _check_receivable
Receivable == status = "pending" /\ lease = "live"

\* A variant that waits for workers without a bound.
ElapsedPending == status = "pending" /\ lease # "live"

\* _due_recordings, and the same test under the row lock
Elapsed == IF status = "pending" THEN lease # "live" ELSE status \in Open /\ due

\* The participant's request has locked the participant, or the recording too.
ParticipantFree == request = "idle"
RecordingFree == request # "expiring"

Fault == faults < MaxFaults /\ faults' = faults + 1
-----------------------------------------------------------------------------
(* Receiving.                                                              *)

At(r, pc) == receiver' = [receiver EXCEPT ![r] = pc]

\* _receive_recording, before the lock
Authenticate(r) ==
  /\ receiver[r] = "idle" /\ Receivable
  /\ At(r, "checked")
  /\ UNCHANGED <<status, path, lease, due, trial, files, flock, job, work, request, leftover,
                 deposits, faults>>

\* A variant without the second check.
LockReceiptUnchecked(r) ==
  /\ receiver[r] = "checked"
  /\ IF flock = Nobody
     THEN At(r, "reading") /\ flock' = r /\ files' = {r}
     ELSE At(r, "idle") /\ UNCHANGED <<flock, files>>
  /\ UNCHANGED <<status, path, lease, due, trial, job, work, request, leftover, deposits, faults>>

\* The lock, the second check, and the files dead receivers left behind.  A
\* lock that is taken turns the browser away.
LockReceipt(r) ==
  /\ receiver[r] = "checked"
  /\ IF flock = Nobody /\ Receivable
     THEN At(r, "reading") /\ flock' = r /\ files' = {r}
     ELSE At(r, "idle") /\ UNCHANGED <<flock, files>>
  /\ UNCHANGED <<status, path, lease, due, trial, job, work, request, leftover, deposits, faults>>

Read(r) ==
  /\ receiver[r] = "reading"
  /\ At(r, "whole")
  /\ UNCHANGED <<status, path, lease, due, trial, files, flock, job, work, request, leftover,
                 deposits, faults>>

\* The stream breaks, is refused, stalls, or the lease cannot be renewed.
Interrupt(r) ==
  /\ receiver[r] = "reading"
  /\ \/ lease # "live" /\ UNCHANGED faults
     \/ Fault
  /\ At(r, "idle") /\ flock' = Nobody /\ files' = files \ {r}
  /\ UNCHANGED <<status, path, lease, due, trial, job, work, request, leftover, deposits>>

\* A variant that publishes without looking at the status again.
PublishUnchecked(r) ==
  /\ receiver[r] = "whole" /\ RecordingFree
  /\ status' = "received" /\ path' = r /\ due' = FALSE
  /\ At(r, "idle") /\ flock' = Nobody
  /\ UNCHANGED <<lease, trial, files, job, work, request, leftover, deposits, faults>>

\* The last transaction of _receive_recording_body
Publish(r) ==
  /\ receiver[r] = "whole" /\ RecordingFree
  /\ IF Receivable
     THEN status' = "received" /\ path' = r /\ due' = FALSE /\ UNCHANGED files
     ELSE files' = files \ {r} /\ UNCHANGED <<status, path, due>>
  /\ At(r, "idle") /\ flock' = Nobody
  /\ UNCHANGED <<lease, trial, job, work, request, leftover, deposits, faults>>

\* The process dies: the system frees its lock and its file stays.
Die(r) ==
  /\ receiver[r] \in {"reading", "whole"} /\ Fault
  /\ At(r, "idle") /\ flock' = Nobody
  /\ UNCHANGED <<status, path, lease, due, trial, files, job, work, request, leftover, deposits>>
-----------------------------------------------------------------------------
(* Resolving: the outcome of _resolve_recording, under every row lock.     *)

Outcome(error) == IF Elapsed THEN "expired" ELSE IF error THEN "failed" ELSE "deposited"

\* A variant that fails the trial only on a timeout, then what the code does.
FailedByTimeout(outcome) == IF Required /\ outcome = "expired" /\ trial = "live" THEN "failed" ELSE trial
FailedBy(outcome) ==
  IF Required /\ outcome # "deposited" /\ trial = "live" THEN "failed" ELSE trial

Resolve(error) ==
  /\ status' = Outcome(error)
  /\ trial' = FailedBy(Outcome(error))
  /\ path' = Nobody

\* _expire_recordings: commit, then unlink the file.
Expire ==
  /\ Elapsed /\ ParticipantFree /\ leftover = Nobody
  /\ Resolve(TRUE) /\ leftover' = path
  /\ UNCHANGED <<lease, due, files, receiver, flock, job, work, request, deposits, faults>>

Unlink ==
  /\ leftover # Nobody
  /\ files' = files \ {leftover} /\ leftover' = Nobody
  /\ UNCHANGED <<status, path, lease, due, trial, receiver, flock, job, work, request, deposits, faults>>

\* _clean_abandoned_receipts, under the receipt lock; variants that keep the
\* files of deposited recordings and that do not take the lock.
AbandonedUnresolved == status \in {"failed", "expired"} \/ (status = "pending" /\ lease # "live")
Abandoned == status \in Final \/ (status = "pending" /\ lease # "live")

CleanUnlocked(f) ==
  /\ f \in files /\ Abandoned
  /\ files' = files \ {f}
  /\ UNCHANGED <<status, path, lease, due, trial, receiver, flock, job, work, request, leftover,
                 deposits, faults>>
Clean(f) ==
  /\ f \in files /\ flock = Nobody /\ Abandoned
  /\ files' = files \ {f}
  /\ UNCHANGED <<status, path, lease, due, trial, receiver, flock, job, work, request, leftover,
                 deposits, faults>>

\* _expire_participant_recordings: the file goes before the request commits.
ExpireInRequest ==
  /\ request = "idle" /\ Elapsed
  /\ request' = "expiring" /\ files' = files \ {path}
  /\ UNCHANGED <<status, path, lease, due, trial, receiver, flock, job, work, leftover, deposits, faults>>

\* _recover_recording_receipt reads the lease without the recording's lock.
Recover ==
  /\ request = "idle" /\ Receivable
  /\ request' = "renewing"
  /\ UNCHANGED <<status, path, lease, due, trial, files, receiver, flock, job, work, leftover,
                 deposits, faults>>

\* The request commits, or is rolled back.
EndRequest ==
  /\ request # "idle" /\ request' = "idle"
  /\ \/ request = "expiring" /\ Resolve(TRUE) /\ UNCHANGED <<lease, faults>>
     \/ /\ request = "renewing"
        /\ lease' = IF lease = "over" THEN "over" ELSE "live"
        /\ UNCHANGED <<status, path, trial, faults>>
     \/ Fault /\ UNCHANGED <<status, path, trial, lease>>
  /\ UNCHANGED <<due, files, receiver, flock, job, work, leftover, deposits>>
-----------------------------------------------------------------------------
(* Processing.                                                             *)

\* _queue_received_recordings: the job and the status in one transaction
Queue ==
  /\ status = "received" /\ ~due /\ RecordingFree
  /\ status' = "queued" /\ job' = "queued"
  /\ UNCHANGED <<path, lease, due, trial, files, receiver, flock, work, request, leftover,
                 deposits, faults>>

\* _claim_recording
Claim ==
  /\ job = "queued" /\ RecordingFree
  /\ IF status \in {"received", "queued"} /\ ~due
     THEN job' = "storing" /\ status' = "processing" /\ work' = path
     ELSE job' = "ended" /\ UNCHANGED <<status, work>>
  /\ UNCHANGED <<path, lease, due, trial, files, receiver, flock, request, leftover, deposits, faults>>

\* _store_recording_bytes raises without the file, or by chance.
Store ==
  /\ job = "storing"
  /\ \/ job' = (IF work \in files THEN "stored" ELSE "erring") /\ UNCHANGED faults
     \/ Fault /\ job' = "erring"
  /\ UNCHANGED <<status, path, lease, due, trial, files, receiver, flock, work, request,
                 leftover, deposits>>

\* _deposit_recording or, after an exception, _complete_recording.  A recording
\* that was resolved meanwhile is left alone.  Callbacks that keep failing fail
\* the trial, not the deposit.
Deposit ==
  /\ job \in {"stored", "erring"} /\ ParticipantFree
  /\ IF status # "processing" THEN UNCHANGED <<status, path, trial, deposits, faults>>
     ELSE IF Outcome(job = "erring") # "deposited"
     THEN Resolve(job = "erring") /\ UNCHANGED <<deposits, faults>>
     ELSE /\ status' = "deposited" /\ path' = Nobody /\ deposits' = deposits + 1
          /\ \/ UNCHANGED <<trial, faults>>
             \/ Required /\ trial = "live" /\ Fault /\ trial' = "gone"
  /\ job' = "unlinking"
  /\ UNCHANGED <<lease, due, files, receiver, flock, work, request, leftover>>

Finish ==
  /\ job = "unlinking"
  /\ files' = files \ {work} /\ job' = "ended"
  /\ UNCHANGED <<status, path, lease, due, trial, receiver, flock, work, request, leftover,
                 deposits, faults>>

\* The job is lost in the queue, or its worker dies.
Lose ==
  /\ job \in {"queued", "storing", "stored", "erring", "unlinking"} /\ Fault
  /\ job' = "lost"
  /\ UNCHANGED <<status, path, lease, due, trial, files, receiver, flock, work, request, leftover, deposits>>
-----------------------------------------------------------------------------
(* Time, and the rest of the system.                                       *)

\* Nothing renewed the lease.
Lapse ==
  /\ status = "pending" /\ lease = "live"
  /\ lease' = "lapsed"
  /\ UNCHANGED <<status, path, due, trial, files, receiver, flock, job, work, request, leftover,
                 deposits, faults>>

Outlive ==
  /\ status = "pending" /\ lease # "over"
  /\ lease' = "over"
  /\ UNCHANGED <<status, path, due, trial, files, receiver, flock, job, work, request, leftover,
                 deposits, faults>>

PassBound ==
  /\ status \in {"received", "queued", "processing"} /\ ~due
  /\ due' = TRUE
  /\ UNCHANGED <<status, path, lease, trial, files, receiver, flock, job, work, request, leftover,
                 deposits, faults>>

\* The trial fails for another reason.
LoseTrial ==
  /\ trial = "live" /\ ParticipantFree
  /\ trial' = "gone"
  /\ UNCHANGED <<status, path, lease, due, files, receiver, flock, job, work, request, leftover,
                 deposits, faults>>

Next ==
  \/ \E r \in Receivers : \/ Authenticate(r) \/ LockReceipt(r) \/ Read(r)
                          \/ Interrupt(r) \/ Publish(r) \/ Die(r)
  \/ Expire \/ Unlink \/ \E f \in Receivers : Clean(f)
  \/ ExpireInRequest \/ Recover \/ EndRequest
  \/ Queue \/ Claim \/ Store \/ Deposit \/ Finish \/ Lose
  \/ Lapse \/ Outlive \/ PassBound \/ LoseTrial

Spec == Init /\ [][Next]_vars

\* Deadlines pass, transactions and uploads end, and the poller runs.  Workers
\* need not.
Fairness ==
  /\ WF_vars(Outlive) /\ WF_vars(PassBound)
  /\ WF_vars(EndRequest) /\ WF_vars(Expire) /\ WF_vars(Unlink)
  /\ \A f \in Receivers : WF_vars(Clean(f))
  /\ \A r \in Receivers :
       WF_vars(LockReceipt(r)) /\ WF_vars(Read(r) \/ Interrupt(r)) /\ WF_vars(Publish(r))

FairSpec == Spec /\ Fairness
-----------------------------------------------------------------------------
\* A file that has been published stays on the volume until the recording is
\* processed or its bound has passed, although retries, cleaning and expiry
\* delete files of the same recording.
PublishedIsThere ==
  /\ status \in {"received", "queued"} /\ ~due => path \in files
  /\ status = "processing" /\ job \in {"storing", "stored"} /\ ~due => path = work /\ work \in files

\* One receiver at a time works on the recording's files, and nobody deletes the
\* file under it.
OneReceiver ==
  \A r \in Receivers : receiver[r] \in {"reading", "whole"} => flock = r /\ r \in files

\* A resolved recording is not resolved again: late bytes, a late worker and a
\* rolled-back request cannot revive it.
FinalIsFinal == [][(status \in Final) => UNCHANGED <<status, work, deposits>>]_vars

\* The trial fails with the recording exactly if it cannot do without it.
FailsWithRecording ==
  trial # "gone" => (trial = "failed" <=> Required /\ status \in {"failed", "expired"})

\* Every recording is resolved in the end, whether or not a worker runs.
Resolves == <>(status \in Final)

\* No file is left on the volume, whatever died while it was there.
VolumeIsCleared == <>[](files = {})
=============================================================================
