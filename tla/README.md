# A verification project for PsyNet

PsyNet runs online behavioural experiments in which participants are grouped,
wait for each other, take trials on chains, upload recordings and are paid.
A web server (many processes, many greenlets), a pool of workers, a clock and
two pollers all work on one PostgreSQL database. There is no shared memory:
what one process does to another goes through **committed rows, row locks and
advisory locks**, at isolation level READ COMMITTED. The messages that matter
are those between the server and a participant's browser: requests, replies,
and the wakes that tell a waiting tab to ask again. The interesting errors are therefore
transactions that decide on rows they read earlier, locks that are taken in
different orders or skipped, work that is queued for after a commit, and
processes that die between two commits.

All modules below use the same reading of the code:

* variables that stand for tables hold *committed* rows;
* a transaction is a record of its own (`tx`, `check`, `req`, `plan`, ...):
  what it read, what it locked, what it will write. Reading, locking and
  committing are separate steps, so every interleaving of transactions is
  explored at the points where the database lets them interleave;
* a commit writes only the columns that the transaction changed, as SQLAlchemy
  does, over whatever was committed in between;
* a rollback, a crash or a lost job drops the record and the locks, and is
  counted by `faults`.

## 1. Inventory

| Component | State it keeps | Operations | Hard behaviour | What makes it correct |
|---|---|---|---|---|
| Waiting pools: `Barrier`, `BarrierInstance`, `Grouper`, `SimpleGrouper` (`sync.py`) | `barrier_instance` rows (visits), `participant_link_barrier` rows, advisory claims of pool and visit | arrival, check, release, migration of leftovers, poller sweep | many checkers of one visit; two visits of one pool; NOWAIT and SKIP LOCKED misses; rollback | one active visit; disjoint groups of the right size out of people who still wait; a full pool is emptied |
| Sync groups and `GroupBarrier` (`sync.py`, `dashboard/sync_groups.py`) | `sync_group` rows (count, leader, active, dissolving), links, barrier links | release, kick, fail, join, dissolve, recount | members leave while a check counts them; busy rows are skipped and finished later | members pass together, in step, with a leader; no overfull group; dissolution ends; counts settle |
| Async jobs (`async_job.py`) | `async_job` rows, RQ queues | enqueue after commit, run, fail, time out, cancel, recheck | job lost before its start, worker dies, timeout races the answer | every job ends; a failed job does not take effect |
| Trial finalization (`trial/main.py`) | `trial` row flags, assets, jobs | answer, deposit, analyse, recheck, backstop, fail | three processes find the trial ready; deposits race; lock order | hooks run once, after the analysis, not on failed trials; answered trials are settled |
| Recordings (`media_upload.py`) | `upload_status`, lease, deadlines, files on a volume, lock files | reserve, receive, publish, store, deposit, expire, clean, recover | retried uploads, dead receivers, leases that lapse during the last bytes | nothing published is lost, one writer, final is final, everything resolves, files go |
| Chains and networks (`trial/chain.py`) | networks (head, full), nodes, trials | choose node, claim, create, finalize, grow, fail | growers race; readiness read before commits; cascades | nodes not overfilled or grown twice; nobody left behind; chains grow |
| Chain designs (`imitation_chain`, `mcmcp`, `gibbs`, `graph`, `staircase`) | node definitions | summarize, create definition | graph chains wait for several parents | a node's definition depends on its parents only |
| Static trials (`static`, `dense`, `create_and_rate`) | chains of one node | choose block and node | as chains | as chains |
| Payments (`experiment.py`, `participant.py`) | `bonus_status`, bonus, attempt detail | automatic report, review, pay, dismiss | claim, commit, call, record: crash between any two; two tabs | nobody is paid twice; what is recorded was paid |
| Recruiters (`recruiters.py`, `lucid/`) | external services, base-payment retries | report, poll, complete, recruit | answers lost or late | idempotent outcomes |
| Database sessions (`db.py`) | per-session queues, savepoint snapshots, commit guards | queue, hand over after commit, restore on rollback | nested savepoints | handed over exactly when the root transaction commits |
| Timeline holds (`timeline_hold.py`) | `timeline_hold` rows, pending and deferred wakes | hold, release, resume, time out, catch up, wake | rows read before they are locked; wakes lost with their process | a hold is left when its barrier lets go, and only then; its wait is counted; nobody who was released is failed |
| Requests and responses (`experiment.py`, `page.py`) | participant row, page uuid, responses, recording receipts | GET timeline, POST response, hold resume | duplicate submissions, several tabs, stale pages | a page is answered once |
| The browser tab (`resources/scripts/psynet.js`, `websocket-channel.js`) | page uuid, unconfirmed submission, hold controller with its timers, socket | submit, retry, resume, poll, reload, reconnect | lost replies and wakes; a wake during a resume; requests given up but still served | a hold that may be left is left; the server sees nothing it does not allow |
| Timeline (`timeline.py`, `field.py`) | element id, module states | advance, loops, switches, modules | (sequential for one participant) | control flow |
| Participants (`participant.py`) | status, failed, links | fail, append tags, credit | failing cascades to groups, trials and holds | no effect on others' work |
| Assets (`asset.py`, `media.py`, `artifact.py`) | asset rows, files | deposit, export | asynchronous deposits | a deposited asset is there |
| Capacity, exits, chat rooms (`capacity.py`, `exit.py`, `chatroom.py`) | little | admit, end, relay | advisory | — |
| Dashboard | — | displays; kicks, fails, grows, pays | races with participants | as the parts it acts on |
| Bots, command line, scaffolding, export, notifier, profiling, page content | — | tooling and content | — | — |

Interactions: a request that fails a participant (`Participant.fail`) removes
them from their sync group, fails their trials and frees their holds; a barrier
check releases holds and queues wakes for after its commit, and the poller
advances whom it released in a second transaction; a tab that hears a wake, or
whose timer fires, asks to resume; a deposit
(`media_upload`, `asset`) requests the analysis of its trial; a finalized trial
grows its chain; the clock fails overdue jobs, expires recordings, finalizes
trials that were missed (the backstop) and recounts groups; the barrier poller
sweeps visits and finishes dissolutions; the grow poller grows chains.

## 2. Modules

| Module | Stands for | Lines of code read |
|---|---|---|
| `Grouping` | abstract: waiting people are put once into disjoint groups | what a `SimpleGrouper` promises |
| `BarrierPool` | one waiting pool, its visits, checks and poller | `sync.py` 242-437, 866-1070, 1920-1992, 2246-2378, 2726-3043 |
| `SyncGroups` | one sync group passing group barriers | `sync.py` 1137-1530, 1835-2196, 2921-3088, `participant.py` 1071-1151, `dashboard/sync_groups.py` |
| `TrialFinalize` | one trial with its assets, analysis and jobs | `trial/main.py` 860-1145 and 1343-1450, `async_job.py` 241-660, parts of `asset.py`, `media_upload.py` |
| `RecordingUpload` | one recording from reservation to resolution | `media_upload.py` 111-984 |
| `Payment` | the bonus of one participant | `experiment.py` 3632-4103, `participant.py` 60-102, parts of `recruiters.py`, `lucid/` |
| `ChainGrowth` | one chain of nodes | `trial/chain.py` 429-627, 864-1103, 1267-1290, 2487-3320, `experiment.py` 2347-2400 |
| `TimelineHold` | the server's side of one participant's holds: requests, checks, poller | `timeline_hold.py` 104-602, `experiment.py` 4167-4591, 7139-7331, `sync.py` 607-678, 861, 1073-1134, 2487-2592, 2779-3038, parts of `media_upload.py`, `timeline.py`, `participant.py` |
| `HoldClient` | the participant's tab and its socket, composed with `TimelineHold` | `psynet.js` 990-1251, 3145-3631, 3805-4052, `websocket-channel.js` 23-225 |
| `BarrierPoolProofs`, `SyncGroupsProofs`, `TrialFinalizeProofs`, `RecordingUploadProofs`, `PaymentProofs`, `ChainGrowthProofs`, `TimelineHoldProofs`, `HoldClientProofs` | theorems | |
| `MC...` | values of constants and symmetry sets for TLC | |

`PROJECT.json` names, for every definition that models code, the lines it
stands for. Operators that only keep the books of transactions and row locks
(`Plan`, `Idle`, `WaitsFor`, ...) are marked there as external: they stand for
what SQLAlchemy sessions and PostgreSQL do. Operators whose comment starts with
"Variant" are not part of any specification: they are plausible mistakes that the properties must notice.

### BarrierPool

`visit` is `barrier_instance.active`; `link` the unreleased barrier link of a
participant; `poolKey` and `claim` the advisory locks of pool and visit; `req`
a participant's own request; `check` the check transaction of an arriver or of
the poller. An arrival (`Arrive`, `TakePoolKey`, `ArriveCommit`) follows
`receive_participant` and `for_arrival`: look for the active visit without a
lock, wait for the pool key (the request has "joined" a visit or is "opening"
one), look again. A check (`Claim`, `Load`,
`LockWaiters`, `RecheckEmpty`, `CheckCommit`) follows `_check_and_skip_held_instance`:
read the visit, take over the waiters of a leftover visit under the pool key,
lock everybody NOWAIT, group by id, commit. `PollBegin`/`PollEnd` is a waiting
participant's own request, which holds their row and may fail them.
Participants are numbers because the code orders waiters by row id.

### SyncGroups

`members`, `failed`, `arrived`, `round` and `group` are the committed rows. A
transaction computes a `View`: the rows as it will leave them. The operators on
views are the methods of `SyncGroup` (`CheckNumbers`, `CheckLeader`, `Dissolve`,
`RemoveParticipant`), and take as `busy` the rows that others hold, because the
code takes those with SKIP LOCKED. `Plan` stores the difference with what was
read, `Commit` applies it, column by column. `Settle`/`Released` is
`GroupBarrier.choose_who_to_release`.

`grouper` is how the group was formed, chosen at the start: a closed group of
given sizes, or one that takes others in (`accepts_top_ups`). `TimeOutLate`
treats the late members one after the other, from the last: a recursive
function on sets, so that it can be proved about.

### TimelineHold

`db` holds the participant's rows: cursor, links to the barriers, hold records,
accepted answers and the receipts by which a repeated submission is recognised.
A request (`req`) is served in the code's order: `Enter` (a GET locks the row
and may be redirected), `Read` (cursor and hold record, no lock), `ReadLink` (is
the barrier still waiting, a later query), `Lock`, `Commit`. `Session` is what
the request then works on: the committed row, but the hold record it has read
before, because locking with `populate_existing` refreshes the participant and
not the record. `Written` is the UPDATE of the columns that changed.
`RespondPost` is `process_response` from the recovered receipt to the answer:
replay, mismatch, redirect, catch-up, answer or resume. A last-arrival check
(`CheckLock`, `CheckCommit`) and the poller (`Sweep...`) release, time out and
skip; the poller stashes wakes and sends them at its end, or dies.

### HoldClient

EXTENDS `TimelineHold` by one tab. `tab` is what it shows, `secret` its
unconfirmed submission, `hold` the controller (`resumeInFlight`,
`resumeRequested`, `busyRetryUsed` and its timers), `post` the request under way
and `sock` the socket with its probe. `Resume`, `Finally` and `Heard` are
`resumeTimelineHold`, its `finally`, and `onDirect`. A request the tab gives up
on (`Cut`) goes on at the server. There is one tab: a resume can then not be
rejected (`handleRejectedResponse` reloads the page), which takes a second tab
that has answered a page meanwhile; `TimelineHold` has requests of any tab. docs/developer/timeline_hold_traces.rst
lists scenarios of this protocol by hand, and names a model checker as the
next step.

### TrialFinalize

A trial with a set of assets. `stored` says which of them are deposited by an
async job (`LocalAsyncJob`); the others are recordings, deposited by
`media_upload` under the participant's and the trial's row. The request, the
exit of the participant, the workers, the rechecks after a worker's commit, the
backstop and the clock are actors. `WaitsFor` says whose rows a commit needs,
including the lock an `INSERT` takes on the participant it references, so that
deadlocks arise as they do in PostgreSQL, which then aborts one side
(`Deadlocked`, `Abort`). An exit fails the trial unless it has been answered or
has failed (`Spared`). `finals` and `analyses` count the commits in which
`on_finalized` ran and in which the analysis was enqueued.

### RecordingUpload

Deadlines are abstracted to whether they have passed. `lease` is the upload
deadline of a pending recording (renewable until "over"), `due` the deadline of
its processing. `files` is the shared volume, `flock` the lock file. A receiver
that dies frees its lock and leaves its file. `leftover` is what the poller
deletes after its commit; a participant's request deletes before its commit.

### Payment

`pay_decided_bonus` is `Claim`, `Report`, `Settle`: its commit between the
first two is where everything can happen. `pay_review_bonus` is `Review`,
`Pay`, `Conclude`, under the row lock, unless the recruiter commits the
confirmation itself (`CommitsEarly`, Lucid). `shown` is what the platform
reports as paid, which lags behind `paid`; `room` is what the spending cap
leaves, which others move.

### ChainGrowth

`plan` is what a process will commit: a node to add, or nodes and trials to
fail. The poller and the dashboard hold the network's row meanwhile, the
request that finalizes the last trial does not. `NodeHeld` is the row lock of
`_claim_node_capacity` and of a failure. `Line` is the failure cascade.
docs/developer/running_tests.rst:489-502 says that the dashboard's route locks
network and nodes; the code (`experiment.py` 6158-6172) locks the network only,
and so does the model.

## 3. Runs

Every run that is expected to pass has, for each of its properties, a change of
one definition that makes it fail under the same configuration; they are listed
in `PROJECT.json`.

| Run | Instance | Shows |
|---|---|---|
| `BarrierPool` | 3 participants, 2 visits, pairs, 1 hold poll, 1 rollback, fairness | one active visit; exact groups; locked waiters stay; **implements `Grouping`**; a full pool is always emptied again; arrivals get their key |
| `SyncGroups` | 3 members on 2 barriers with minimum 2, or 1 founder with candidates for 1 place; kick on both timeouts, 2 further requests, 1 rollback | in step, pass whole, and led unless the leader is replaced meanwhile, locks hold, a closed group is empty, never above the maximum |
| `SyncGroupsLive` | the closed group, or 2 founders who are joined; 1 barrier, fail on both timeouts, members below the minimum go on alone, fairness | whoever can pass does, also when two fail at once; dissolutions end; the count settles |
| `HoldClient` | a page and two holds, two requests at a time, 2 submissions, 1 event out of faults, reloads, failures, extra polls and the deadline, fairness | a page is answered once; holds are left when cleared and settled; **the tab uses the server as `TimelineHold` allows**; a hold that may be left is left |
| `TimelineHoldStale` | page, hold, page; two requests from any tab; the deadline passes | **violation**: released and yet failed |
| `TrialFinalize` | 2 assets, both recordings or one of each kind, analysis, 1 fault | hooks and analysis once, in order, not after a failure; answered trials and jobs end |
| `TrialFinalizeTwo` | 2 assets deposited by async jobs, no fault | **violation**: finalized without analysis |
| `RecordingUpload` | 3 upload attempts, 3 faults | published files are there, one receiver, final is final, resolved, volume cleared |
| `Payment` | 2 events, 2 tabs, bonus 2, every kind of recruiter, 1 crash; calls symmetric | reported once, reviewed once, recorded means paid |
| `PaymentInFlight` | the same, Prolific, no crash | **violation**: paid twice |
| `ChainGrowth` | 5 trials, 2 a node, at most 2 generations, 1 fault: a grow error, a rollback, or a finalized trial failed by hand | nodes not overfilled; whoever will grow a node has counted every live trial on it and is alone; the chain grows; while it is undisturbed, one live node of each degree |
| `ChainGrowthFailed` | 3 trials, 1 a node, 3 generations, 1 fault | **violation**: descendants of a failed node live |

`AnsweredOnce` is what docs/code/pages/recording.rst:217 promises ("the answer
is not recorded twice"). `ServerSpec` matters because the proofs about
`TimelineHold` are about any requests: it says that this browser sends no others.

### Bounds, and why they are enough

* Pool: a race needs two checkers of one visit or a checker and an arrival;
  three participants give two arrivals and a poller on two visits, with an odd
  one out who is left in the pool. Two visits, because a third is opened only
  after one of two is finished, and is then like it. One hold poll stands for
  each request that holds a waiter's row; one rollback for each kind of fault.
* Groups: three members are the least with which some can be ready, one be
  leaving and one be busy; two barriers the least on which a group can fall
  apart. Two requests besides the arrivals let two members leave at once.
  Two candidates and one free place are the least for a race of joiners.
* Holds: two holds in a row are the least with which one can be skipped, caught
  up with, or be woken while the other is being left; the second starts when
  the first is done and so does any later one. Two requests overlap, one of
  which the tab may have given up. `MaxTime` lets the deadline pass; with
  `MaxWaitFails` it fails the participant. `MaxEvents` bounds lost messages,
  broken sockets, dead pollers, reloads, failures, unneeded polls and clock
  ticks together: each is met at any point, on its own. The proofs in
  `TimelineHoldProofs` have none of these bounds, except that the clock ends.
* Trial: the races are between two deposits, and between one deposit and the
  answer. One fault at any point; further ones repeat it.
* Recording: three attempts, so that a dead one, a slow one and a retry
  overlap; three faults let each of them, or the worker and the poller, fail.
* Payment: two of each call, since every race is between two; the cap moves
  freely within the bonus, so each amount that matters occurs.
* Chain: a node with room for two and five participants, so that a node is
  contended, filled, and contended again in the next generation, and one is
  left to work on a node that fails. With one fault TLC reaches what the
  conditions of the properties are about: a trial finalized on a failed node, two
  processes that are about to grow one node, and a counted trial that is failed.

### Fairness

* A transaction that began ends: requests have timeouts and PostgreSQL breaks
  deadlocks. That is weak fairness of the commit, and strong fairness where a
  commit waits for a row that changes hands, because PostgreSQL queues those
  who wait for a row or an advisory lock.
* The pollers and the clock repeat their tasks every one or two seconds and
  look at the least recently checked visit first: fairness of the sweeps, the
  recounts, the timeouts, the backstop and the growth. (`SF` of `PollerClaim`
  says that the sweep reaches a visit whose claim is free again and again.)
* Participants need not come, answer, upload or leave: no fairness. Nor is
  there any for the workers of `RecordingUpload`: a recording must be resolved
  even if no worker ever runs. In `TrialFinalize` a job that was launched and
  not lost starts, as RQ has workers.
* `HoldClient` states two fairness conditions only. Whoever holds the
  participant's row commits. And among the server, the network and the
  browser's callbacks and timers, not all stop: what has been sent arrives or is
  lost, replies are read, timers fire. The safety poll belongs to them only
  where the code leaves the hold to it (`Needed`): after something was lost, or
  when the hold's own retries met busy replies. Elsewhere the wakes and the
  resumes that follow them must be enough.
* `CHECK_DEADLOCK FALSE` everywhere: participants may all be done or gone, and
  all bounds used up. That nobody waits for ever is what the leads-to
  properties say.

## 4. Findings

* **TrialFinalizeTwo.** Two assets of a trial that async jobs deposit at the
  same time each see the other undeposited; nobody requests the analysis, and
  the recheck or the backstop finalizes the trial without it. Recordings are
  not affected: their deposits hold the participant's row (`UploadsAreAnalysed`).
* **PaymentInFlight.** The automatic report commits its claim without a mark of
  being in progress; while the call to the platform runs, the dashboard offers
  the bonus for payment, and both pay.
* **ChainGrowthFailed.** Failing a finalized trial fails the node built from it
  as it was when the failure was planned; and `ChainNode.fail` moves the head
  only if the failing node is the head, which leaves the head on a failed node
  after a longer cascade.

* **TimelineHoldStale.** A resume (and a GET of the timeline) reads the hold
  record before it locks the participant's row. If the deadline passes and the
  barrier releases the participant in between, the request still sees an
  unreleased record, times the participant out and fails them, against the
  docstring of `_BarrierHoldPage.participant_timed_out` (`sync.py` 633-640). The
  same stale record lets the request credit a wait that the release has already
  credited; `LeftIsSettled` holds, since the record itself stays consistent.

Not findings of a run, but noted in the hazards: two of three members who fail
at the same time leave a group below its minimum size that is not marked as
dissolving (`sync.py` 2153) until the third waits at a barrier, where
`DueIsReleased` shows that they are let go. A check that passes a group keeps
the leader it has read, while a request that had planned to replace the same
missing leader may commit somebody who has left since (`Overtaken`). A claim on
a node does not look whether the node is still the head (`trial/chain.py` 3036),
so that a trial can be finalized on a failed node; it then grows the head
without the network's lock, and the head may be grown twice (excepted in
`OneGrower` and `Undisturbed`). Failing a finalized trial by hand between the
poller's query and its commit makes room on a head that is being left: whoever
takes that place may grow it too. `prepare_trial` raises (`trial/main.py` 3056)
when a node it found full has room at the next selection and is full again at
the next claim. A trial class without analysis can finalize a failed trial
(`trial/main.py` 914). A lapsed lease can be revived by a
recovery that read it earlier (`media_upload.py` 983).

## 5. Proofs

Checked by TLAPS for every value of the constants that satisfies the named
assumption of the module; TLC evaluates the assumptions in the runs above.

`BarrierPoolProofs` (from `PoolAssumption`: finitely many numbered
participants, group and batch sizes at least 1):

* `PoolTypeCorrect`: `Spec => []TypeOK`, on which the others rest.
* `PoolHasOneActiveVisit`. `OneActiveVisit` is not inductive: a request may be
  about to commit a new visit, a check about to reactivate one. The invariant
  adds that whoever will make a visit active holds the pool key and has seen no
  active one since taking it, and that nobody else can hold it.
* `PoolLocksHold`: a row is held by one transaction, and only a transaction
  that holds it removes a waiter.
* `PoolGroupsAreExact`: what a check will form is a partition of rows it has
  locked; with `PoolLocksHold`, none of them has been grouped by anyone else.
* `PoolImplementsGrouping`: `Spec => GroupingSpec`. An arrival's commit is
  `Enter`, a failure `Abandon`, a check that forms groups `Form`, everything
  else stutters.

`SyncGroupsProofs` (from `GroupAssumption`: finitely many numbered
participants, and a group starts with a leader among its founders, between its
minimum and its maximum size):

* `MembersStayInStep`, `ClosedGroupsAreEmpty`, `GroupLocksHold`,
  `GroupsStayWithinMaxSize` and `GroupsPassWhole`: everything the run
  `SyncGroups` checks, for any number of barriers, requests and faults.
* What a transaction decides on is stale, since it counts members whose rows it
  does not hold. `SyncInv` therefore speaks of what its plan will do to the
  members there are when it commits: those who stay in the group all go on, or
  none of them does (`Goes`); it closes the group over nobody (`Closes`). Others
  cannot break this in between, because a member leaves by a transaction that
  holds their row (`OwnsRows`), with one exception: a check that kicks late
  members does not lock them. It holds a member who waits for them, and by
  `InStep` no other check can then release anybody (`Kicks`). Who joins has
  counted under the group's row (`Joins`).
* `Sound` is what every computation on a view keeps; each method of `SyncGroup`
  has a lemma that says so, and `PlanStep` carries it into the invariant.
* Timing out the late members is a recursion on finite sets. That the function
  exists (`LaterExists`) and keeps a view sound follows by induction without an
  operator parameter: the members of a set of good cases are all cases, as a
  least one outside it would be below none (`SubsetInduction`, from the
  library's facts about well-founded orderings).

`PaymentProofs` (from `PaymentAssumption`: the two kinds of calls are distinct,
the bonus is a natural number):

* `TypeCorrect`, together with the sum of what a call found paid and what it
  adds, which is at most the bonus.
* `AutomaticReportOnce`, from `ClaimInv`: an unclaimed bonus has no call, and a
  claimed one at most one that has yet to report.
* `RecordedBonusWasPaid`, from `PaidInv`: what an answered call will record has
  been paid, and what a platform shows was paid. The theorem is about all
  recruiters; the property excepts those that commit early.
* `ReviewPaysOnce`, from `ReviewInv`, which holds until a process dies: whoever
  is about to pay holds the row of an unconfirmed bonus, and what was paid stays
  guarded (`Guarded`): by the row, then by the recorded outcome, or by the
  platform's confirmation if the recruiter frees the row before it records.

`TrialFinalizeProofs` (from `TrialAssumption`: the processes are distinct, and
async jobs deposit some of the assets):

* `FinalizesOnce` and `AnalysesOnce`. The counts agree with the row (`Counted`),
  which is only inductive with what a transaction that has not committed may do
  (`Writes`): whoever will finalize holds the participant's row since before it
  loaded an unfinalized trial, and whoever will queue the analysis holds the
  trial's row and has read there that it was not requested. `CommitStep` shows
  that writing only the changed columns of a stale trial keeps this true for
  everyone else.
* `FailedStaysUnfinalized` (with `HasAnalysis`). A failure may come from a
  transaction without the trial's row: the clock's or a worker's. `AnalysisInv`
  says why it is no danger to whoever is about to finalize: that process holds
  the trial's row, or has seen the analysis finished (`Finalizing`), which is
  requested when everything is deposited, so that every job is done and neither
  a worker nor the clock can speak of one any more (`JobsInv`, `Failing`). The
  assumption is needed: without an analysis TLC finds a trial that the clock
  fails for a job after the request has loaded it; the job deposits all the
  same, and the request finalizes.
* `UploadsWaitForAnalysis`. Deposits of recordings and the answer take the
  participant's row in turn, so that the last of them sees the others (`Asks`)
  and requests the analysis; `Requested` follows. Stored assets do not, which is
  the finding of `TrialFinalizeTwo`.

`RecordingUploadProofs` (from `RecordingAssumption`):

* `OneReceiverAtATime`, `PublishedStays`, `TrialFailsWithRecording` and
  `ResolutionIsFinal`, for any number of upload requests and faults.
* `RecordingInv` adds to the properties that nothing is published or processed
  while somebody receives, or before anybody has (`NothingPublished`), how far
  the job and the status can be apart (`JobFollows`), and that what was read
  without a lock or decided before a commit still holds when it is used
  (`Decided`).

`ChainGrowthProofs` (from `ChainAssumption`: a positive number of trials per
node, the processes are distinct; there may be infinitely many participants):

* `NodesAreNotOverfilled`. The bound holds for the places of a node that are
  taken (`Taken`): its live trials, and the one that has been counted under the
  node's lock and is not created yet. Every other step, whatever it does to the
  chain, takes no place (`FewerFit`).
* `OneProcessGrows` and `NobodyIsLeftBehind`, under no condition on the chain:
  growing may fail, any trial may be failed by hand, and trials are finalized on
  failed nodes. The poller and the dashboard plan without knowing who works on
  the head, and what they decide is used after others have committed. A plan to
  grow keeps the trials it counted as usable; `GrowInv` says of it (`Counts`)
  that one of them has failed since, or that they are exactly the live trials of
  the node, which then has no room, so that nobody can join it. That every one
  of them is finalized but the grower's own (`Counted`) is why there is no
  second grower: it would have counted the first one's trial before it was
  finalized. The exception in `OneGrower` is a request whose own trial is not on
  the node that it will grow: it has finalized it on a failed node.
* That no node is built twice (`OneNodePerDegree`) is not a theorem. It is false
  of the code in general: with five trials, one finalized on a failed node grows
  the head a second time, and so does a trial that takes the place of a counted
  one. TLC checks it for chains that neither happens to (`Undisturbed`).

`TimelineHoldProofs` (from `TimelineAssumption`: a timeline of pages and holds
that starts with a page, a positive maximum wait, a clock that ends):

* `PagesAreAnsweredOnce`, `HoldsAreLeftWhenCleared`, `HoldsAreSettledWhenLeft`:
  the three properties of the server in the run `HoldClient`, for every
  timeline, any number of requests from any number of tabs, and every schedule.
* None of them is inductive, because a request works on a record that others
  have changed since. `HoldInv` says of what a request has read (`SeenOK`) that
  its hold has been reached and that its record has only grown since; of a
  reply, that the participant has reached what it shows (`Reached`); of the
  rows (`RowOK`) that a page ahead has no answer, that the current hold is not
  resumed and that every hold behind is; and that one request or check has the
  row (`LocksOK`).
* What a request does is the relation `Transaction(v, w)` between the view it
  starts from and the one it ends in: each operator on views has a lemma that
  puts it into the relation. `WrittenEffect` then shows that writing only the
  changed columns keeps the relation for the committed row, although the view
  was stale: a record that is counted later is counted further
  (`MergeCounted`).

`HoldClientProofs` (from the same assumption, with any number of submissions,
faults and reloads):

* `ClientImplementsServer`. Every step of the tab with its server is a step of
  `TimelineHold` or leaves the server alone (`Allowed`), so the specification
  of the server, whose requests come from anywhere, covers the browser of
  `psynet.js`: a request sent again, given up on or made by a timer, a socket
  or a wake is one that `Arrive` admits. Besides `HoldInv` this needs that the
  tab shows what the participant has reached and has a controller and a socket
  in a hold only (`TabOK`), and that its request is about what it shows
  (`PostOK`).
* `ClientIsServed`. Hence the three properties of the server hold with the tab.

The invariants and action properties of the passing runs are theorems, and so
are the two refinements. Only model-checked: `OneNodePerDegree`, for the reason
above, and the liveness properties (`FullPoolForms`, `ArrivalFinishes`,
`CountSettles`, `DueIsReleased`, `DissolutionFinishes`, `AnsweredIsSettled`,
`JobsEnd`, `Resolves`, `VolumeIsCleared`, `ChainGrows`, `HoldIsLeft`), because
fairness and ENABLED are beyond the prover. No theorem says what a recursive
definition such as `Line` computes; those about chains hold whatever fails.

## 6. Not modelled

* External services (recruiters, storage back-ends), the content of pages,
  trials and nodes, tooling, and reporting. Most of the JavaScript in the
  repository is vendored libraries and experiment demos; of PsyNet's own, the
  submission, hold and socket code is modelled, the media players, recorders
  and page layout are not.
* `db.py`: the queues that belong to a session, their savepoints and the guard
  against commits by author code. They are sequential within one session; the
  modules assume their result, that what a transaction queues is handed over if
  and only if it commits, and that author code cannot commit.
* One pool, group, trial, recording, participant or chain at a time: rows of
  others interact with them only through the locks and actors that the modules
  have. In particular the spending cap is shared by all participants, and the
  concurrent use of it (`experiment.py` 3653) is seen only as a cap that moves.
* Author-supplied hooks are taken to do nothing but raise. Holds that wait for
  a condition instead of a barrier, arrival notices, priorities and
  cancellation of jobs, several groups of one participant, sync-group followers
  on a chain, repeat trials and the balancing of networks are left out.
* In `TimelineHold`, what a request does about barriers itself. After the commit
  that brought its participant to a hold it runs the arrival check, locks the
  row again with everything expired, and skips the hold if that is ready
  (`experiment.py` 7333-7501); then it brings the page named in the receipt up
  to date (`media_upload.py` 940-956). A GET that finds the hold waiting makes
  the same check, to recover one that was dropped, before it answers
  (`experiment.py` 7211-7224, 7276-7280). In the model the request has answered
  by then: what the check does to the rows is `CheckLock` and `CheckCommit`, at
  any time, and the skip is that of a later GET with a fresh record. A repeated
  submission that the refreshed receipt would answer is rejected instead, which
  accepts no more answers.
* In `TrialFinalize`, an exit leaves answered trials alone, as the code does;
  the performance check of a trial maker that fails them all the same
  (`trial/main.py` 2034-2040) is left out.
* Timeline control flow (loops, switches, modules), exits, consent and bots
  are sequential for one participant and have no interleaving to check; the
  capacity limit is advisory by its own documentation.

## 7. Where to go next

1. A second participant in `Payment`, for the cap.
2. Sync-group followers and a second network in `ChainGrowth`; two barriers of
   one group type.
3. A claim that looks whether its node is alive, in `ChainGrowth`, to check that
   the exceptions of `OneGrower` and `Undisturbed` for trials on failed nodes
   are then not needed.
4. `TimelineHold` with a hold record that is refreshed under the lock, to check
   a repair of the finding before it is made.
