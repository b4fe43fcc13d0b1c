----------------------- MODULE RecordingUploadProofs -----------------------
(***************************************************************************)
(* Proofs about RecordingUpload for any number of upload requests and      *)
(* faults.                                                                 *)
(***************************************************************************)
EXTENDS RecordingUpload, TLAPS

TypeOK ==
  /\ status \in Open \cup Final
  /\ path \in Receivers \cup {Nobody} /\ work \in Receivers \cup {Nobody}
  /\ lease \in {"live", "lapsed", "over"} /\ due \in BOOLEAN
  /\ trial \in {"live", "failed", "gone"}
  /\ files \subseteq Receivers
  /\ receiver \in [Receivers -> {"idle", "checked", "reading", "whole"}]
  /\ flock \in Receivers \cup {Nobody} /\ leftover \in Receivers \cup {Nobody}
  /\ job \in {"none", "queued", "storing", "stored", "erring", "unlinking", "ended", "lost"}
  /\ request \in {"idle", "expiring", "renewing"}
  /\ deposits \in Nat

\* While somebody receives, and before anybody has, nothing is published and
\* nothing is processed.
Untouched == path = Nobody /\ work = Nobody /\ leftover = Nobody /\ job = "none"
NothingPublished ==
  /\ status = "pending" => Untouched
  /\ \A r \in Receivers : receiver[r] \in {"reading", "whole"} =>
       Untouched /\ status \notin {"received", "queued", "processing"}

\* How far the job and the status can be apart.
JobFollows ==
  /\ status = "received" => job = "none"
  /\ job \in {"storing", "stored", "erring"} => status \in {"processing"} \cup Final
  /\ job = "unlinking" => status \in Final

\* What has been read without the recording's lock, or decided before a commit.
Decided ==
  /\ leftover # Nobody => status \in Final
  /\ request = "expiring" => Elapsed

RecordingInv ==
  TypeOK /\ OneReceiver /\ NothingPublished /\ JobFollows /\ Decided
    /\ PublishedIsThere /\ FailsWithRecording

\* What FinalIsFinal says of a step.
FinalStays == status \in Final => UNCHANGED <<status, work, deposits>>
-----------------------------------------------------------------------------
USE DEF Open, Final

LEMMA InitRecording == Init => RecordingInv
<1>. SUFFICES ASSUME Init PROVE RecordingInv
  OBVIOUS
<1>1. TypeOK
  BY DEF Init, TypeOK
<1>2. OneReceiver /\ NothingPublished
  BY DEF Init, OneReceiver, NothingPublished, Untouched
<1>3. JobFollows /\ Decided /\ PublishedIsThere /\ FailsWithRecording
  BY DEF Init, JobFollows, Decided, PublishedIsThere, FailsWithRecording
<1>. QED
  BY <1>1, <1>2, <1>3 DEF RecordingInv

\* Receiving.
LEMMA ReceiveStep ==
  ASSUME RecordingInv, NEW r \in Receivers,
         Authenticate(r) \/ LockReceipt(r) \/ Read(r) \/ Interrupt(r) \/ Publish(r) \/ Die(r)
  PROVE  RecordingInv' /\ FinalStays
<1>. USE RecordingAssumption DEF RecordingInv, TypeOK, At, Receivable, Fault
<1>1. TypeOK'
  <2>1. CASE Authenticate(r) \/ Read(r)
    BY <2>1 DEF Authenticate, Read
  <2>2. CASE LockReceipt(r)
    <3>1. UNCHANGED <<status, path, lease, due, trial, job, work, request, leftover, deposits>>
      BY <2>2 DEF LockReceipt
    <3>2. status' \in Open \cup Final /\ path' \in Receivers \cup {Nobody} /\ work' \in Receivers \cup {Nobody}
      BY <3>1
    <3>3. lease' \in {"live", "lapsed", "over"} /\ due' \in BOOLEAN
      BY <3>1
    <3>4. files' \subseteq Receivers /\ flock' \in Receivers \cup {Nobody}
      BY <2>2 DEF LockReceipt
    <3>5. receiver' \in [Receivers -> {"idle", "checked", "reading", "whole"}]
      BY <2>2 DEF LockReceipt
    <3>6. /\ job' \in {"none", "queued", "storing", "stored", "erring", "unlinking", "ended", "lost"}
          /\ request' \in {"idle", "expiring", "renewing"} /\ deposits' \in Nat
          /\ trial' \in {"live", "failed", "gone"} /\ leftover' \in Receivers \cup {Nobody}
      BY <3>1
    <3>. QED
      BY <3>2, <3>3, <3>4, <3>5, <3>6
  <2>3. CASE Interrupt(r) \/ Die(r)
    BY <2>3 DEF Interrupt, Die
  <2>4. CASE Publish(r)
    <3>1. due' \in BOOLEAN /\ status' \in Open \cup Final
      BY <2>4 DEF Publish
    <3>2. path' \in Receivers \cup {Nobody} /\ files' \subseteq Receivers /\ flock' \in Receivers \cup {Nobody}
      BY <2>4 DEF Publish
    <3>3. receiver' \in [Receivers -> {"idle", "checked", "reading", "whole"}]
      BY <2>4 DEF Publish
    <3>4. /\ job' \in {"none", "queued", "storing", "stored", "erring", "unlinking", "ended", "lost"}
          /\ request' \in {"idle", "expiring", "renewing"} /\ deposits' \in Nat
          /\ work' \in Receivers \cup {Nobody} /\ leftover' \in Receivers \cup {Nobody}
          /\ lease' \in {"live", "lapsed", "over"} /\ trial' \in {"live", "failed", "gone"}
      BY <2>4 DEF Publish
    <3>. QED
      BY <3>1, <3>2, <3>3, <3>4
  <2>. QED
    BY <2>1, <2>2, <2>3, <2>4
<1>2. OneReceiver'
  BY DEF OneReceiver, Authenticate, LockReceipt, Read, Interrupt, Publish, Die
<1>3. NothingPublished'
  BY DEF OneReceiver, NothingPublished, Untouched, Authenticate, LockReceipt, Read, Interrupt, Publish, Die
<1>4. JobFollows' /\ Decided' /\ FinalStays
  BY DEF NothingPublished, Untouched, JobFollows, Decided, Elapsed, FinalStays, RecordingFree,
     Authenticate, LockReceipt, Read, Interrupt, Publish, Die
<1>5. PublishedIsThere'
  BY DEF OneReceiver, NothingPublished, Untouched, JobFollows, PublishedIsThere, Authenticate, LockReceipt, Read,
     Interrupt, Publish, Die
<1>6. FailsWithRecording'
  BY DEF FailsWithRecording, Authenticate, LockReceipt, Read, Interrupt, Publish, Die
<1>. QED
  BY <1>1, <1>2, <1>3, <1>4, <1>5, <1>6

\* Expiring and cleaning.
LEMMA ExpireStep ==
  ASSUME RecordingInv,
         Expire \/ Unlink \/ (\E f \in Receivers : Clean(f)) \/ ExpireInRequest \/ Recover \/ EndRequest
  PROVE  RecordingInv' /\ FinalStays
<1>. USE RecordingAssumption DEF RecordingInv, TypeOK, Fault, Resolve, Outcome, Elapsed
<1>1. TypeOK'
  BY DEF Expire, Unlink, Clean, ExpireInRequest, Recover, EndRequest, FailedBy
<1>2. OneReceiver'
  BY DEF OneReceiver, NothingPublished, Untouched, Expire, Unlink, Clean, ExpireInRequest, Recover, EndRequest
<1>3. NothingPublished'
  BY DEF NothingPublished, Untouched, Decided, Expire, Unlink, Clean, ExpireInRequest, Recover, EndRequest
<1>4. JobFollows' /\ FinalStays
  BY DEF JobFollows, Decided, FinalStays, Expire, Unlink, Clean, ExpireInRequest, Recover, EndRequest
<1>5. Decided'
  BY DEF Decided, ParticipantFree, Expire, Unlink, Clean, ExpireInRequest, Recover, EndRequest
<1>6. PublishedIsThere'
  BY DEF PublishedIsThere, Decided, Abandoned, Expire, Unlink, Clean, ExpireInRequest, Recover, EndRequest
<1>7. FailsWithRecording'
  BY DEF FailsWithRecording, Decided, FailedBy, Expire, Unlink, Clean, ExpireInRequest, Recover, EndRequest
<1>. QED
  BY <1>1, <1>2, <1>3, <1>4, <1>5, <1>6, <1>7

\* Processing.
LEMMA ProcessStep ==
  ASSUME RecordingInv, Queue \/ Claim \/ Store \/ Deposit \/ Finish \/ Lose
  PROVE  RecordingInv' /\ FinalStays
<1>. USE RecordingAssumption DEF RecordingInv, TypeOK, Fault, Resolve, Outcome
<1>1. TypeOK'
  BY DEF Queue, Claim, Store, Deposit, Finish, Lose, FailedBy
<1>2. OneReceiver'
  BY DEF OneReceiver, NothingPublished, Untouched, Queue, Claim, Store, Deposit, Finish, Lose
<1>3. NothingPublished'
  BY DEF NothingPublished, Untouched, JobFollows, Queue, Claim, Store, Deposit, Finish, Lose
<1>4. JobFollows' /\ FinalStays
  BY DEF JobFollows, FinalStays, Queue, Claim, Store, Deposit, Finish, Lose
<1>5. Decided'
  BY DEF Decided, Elapsed, ParticipantFree, RecordingFree, Queue, Claim, Store, Deposit, Finish, Lose
<1>6. PublishedIsThere'
  BY DEF PublishedIsThere, JobFollows, Queue, Claim, Store, Deposit, Finish, Lose
<1>7. FailsWithRecording'
  BY DEF FailsWithRecording, Elapsed, FailedBy, Queue, Claim, Store, Deposit, Finish, Lose
<1>. QED
  BY <1>1, <1>2, <1>3, <1>4, <1>5, <1>6, <1>7

\* Time, the rest of the system, and stuttering.
LEMMA PassStep ==
  ASSUME RecordingInv, Lapse \/ Outlive \/ PassBound \/ LoseTrial \/ UNCHANGED vars
  PROVE  RecordingInv' /\ FinalStays
<1>. USE RecordingAssumption DEF RecordingInv, TypeOK, Lapse, Outlive, PassBound, LoseTrial, vars
<1>1. TypeOK'
  <2>1. CASE UNCHANGED vars
    BY <2>1
  <2>2. CASE Lapse \/ Outlive
    BY <2>2
  <2>3. CASE PassBound
    BY <2>3
  <2>4. CASE LoseTrial
    BY <2>4
  <2>. QED
    BY <2>1, <2>2, <2>3, <2>4
<1>2. OneReceiver' /\ NothingPublished' /\ JobFollows' /\ FinalStays
  BY DEF OneReceiver, NothingPublished, Untouched, JobFollows, FinalStays
<1>3. Decided'
  BY DEF Decided, Elapsed
<1>4. PublishedIsThere' /\ FailsWithRecording'
  BY DEF PublishedIsThere, FailsWithRecording
<1>. QED
  BY <1>1, <1>2, <1>3, <1>4

LEMMA NextRecording == RecordingInv /\ [Next]_vars => RecordingInv' /\ FinalStays
<1>. SUFFICES ASSUME RecordingInv, [Next]_vars PROVE RecordingInv' /\ FinalStays
  OBVIOUS
<1>1. CASE \E r \in Receivers : \/ Authenticate(r) \/ LockReceipt(r) \/ Read(r)
                                \/ Interrupt(r) \/ Publish(r) \/ Die(r)
  BY <1>1, ReceiveStep
<1>2. CASE Expire \/ Unlink \/ (\E f \in Receivers : Clean(f)) \/ ExpireInRequest \/ Recover \/ EndRequest
  BY <1>2, ExpireStep
<1>3. CASE Queue \/ Claim \/ Store \/ Deposit \/ Finish \/ Lose
  BY <1>3, ProcessStep
<1>4. CASE Lapse \/ Outlive \/ PassBound \/ LoseTrial \/ UNCHANGED vars
  BY <1>4, PassStep
<1>. QED
  BY <1>1, <1>2, <1>3, <1>4 DEF Next

LEMMA RecordingInvariant == Spec => []RecordingInv
BY InitRecording, NextRecording, PTL DEF Spec
-----------------------------------------------------------------------------
\* However many uploads are retried, and whoever dies, one receiver at a time
\* works on the files, and nobody deletes the one it writes.
THEOREM OneReceiverAtATime == Spec => []OneReceiver
<1>1. RecordingInv => OneReceiver
  BY DEF RecordingInv
<1>. QED
  BY <1>1, RecordingInvariant, PTL

\* What was published is there until the recording is processed or its bound
\* has passed.
THEOREM PublishedStays == Spec => []PublishedIsThere
<1>1. RecordingInv => PublishedIsThere
  BY DEF RecordingInv
<1>. QED
  BY <1>1, RecordingInvariant, PTL

\* A required recording fails its trial exactly when it fails or expires,
\* whoever resolves it.
THEOREM TrialFailsWithRecording == Spec => []FailsWithRecording
<1>1. RecordingInv => FailsWithRecording
  BY DEF RecordingInv
<1>. QED
  BY <1>1, RecordingInvariant, PTL

\* No late upload, worker or request revives a recording that is resolved.
THEOREM ResolutionIsFinal == Spec => FinalIsFinal
<1>1. RecordingInv /\ [Next]_vars => [(status \in Final) => UNCHANGED <<status, work, deposits>>]_vars
  BY NextRecording DEF FinalStays
<1>. QED
  BY <1>1, RecordingInvariant, PTL DEF Spec, FinalIsFinal
=============================================================================
