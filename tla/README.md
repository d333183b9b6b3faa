# TLA+ models of ST Score Restore Engine

This directory holds TLA+ specifications of the parts of the engine whose correctness depends on
the order in which things happen, the TLC configurations that check them on small instances, and
proofs, checked by TLAPS, that hold for every instance. The Python package is
`src/src/st_score_restore/`; file names below are relative to it.

Contents: 1 inventory of the system, 2 modules, 3 runs, 4 proofs, 5 what the models found,
6 what is not modelled, 7 plan.

## 1. The system

A teacher uploads pages of a score. A job goes through analysis, restoration and validation by a
worker, waits for the teacher's decision page by page, and is exported. Bytes are kept for a
limited time. Around this service stand contracts for the custody of artifacts, data sets,
production access and the stages of the project's own release process.

| Component | State | Operations | Interacts with |
|---|---|---|---|
| Work queue and fencing (`durable_job_store*.py`, `job_service.py`) | jobs, `work_queue` rows with lease owner, token and expiry, the process-local claim | claim, renew, release, fence, recover, flush; create, cancel, retry, review, expire a job | every lock block of the job service is one SQLite transaction; several processes share the file |
| Blob store and retention (`durable_blob_store.py`, `durable_job_store_{writing,loading,maintenance}.py`) | artifact rows, `pending_blob_deletions`, blob files, shard directories, `_transaction_new_blobs` | write before commit, discard on rollback, drain, sweep, read a snapshot, start | rows and files share no transaction; the other processes' starts and expiries |
| Jobs: pages, review, evidence (`job_service_*.py`, `review_evidence_*.py`) | per page: candidate, safety report, evidence bundle, decision, selection; attempts; export | process an attempt, prepare evidence, review a batch, export, retry, cancel, expire | the worker under a claim, reviewers with stale screens |
| Custody reference (`stage1b_reference_drill.py`) | record with version and fence, copies, identities, grants, audit chain, removal control, receipts | ingest, promote, grant, read, snapshot, restore, persist intent, publish barrier, advance checkpoint, revoke, confirm, finalize, restart | a producer of removal intents, several actors |
| HTTP transport and worker thread (`http_*.py`) | request slots, stop flag, thread | accept, reject when busy, poll, clean up | job service |
| Request routing and parsing (`http_*.py`, `production_http_auth.py`) | none | parse, route to an operation | transport, production access |
| Production access (`production_http_auth.py`, `production_identity.py`) | job binding per tenant and owner, scoped idempotency keys | authenticate, authorize, create and bind | the local API and an external store |
| Secrets, keys, identities (`production_secrets_kms_iam.py`) | grants, key state and audit events, all external | resolve a secret, encrypt, decrypt | providers that fail between two steps |
| Network, storage, deployment gates (`production_network.py`, `production_storage_deployment.py`) | none of their own | authorize on evidence, with an audit record | audit sink |
| Operational drills (`stage6_operational_drills.py`, `stage6_integration_security_regression.py`) | fencing and idempotency ledgers | claim, commit once, run the gates | the gates |
| Custody contracts (`custody_contract.py`, `stage1b_exit_contract.py`, `stage2_`/`stage3_custody_execution.py`, purpose grants) | none | validate a recorded execution | custody records |
| Data-set contracts (`dataset_*.py`, `fixture_manifest.py`) | none | validate catalog, snapshot, item | evidence files |
| Engine choice (`st_restore_selector.py`, `multi_engine_comparator.py`, `preview_release.py`, `docres_optional_candidate.py`) | none | choose among candidates, fall back to the source | music-safety decision |
| Music safety (`music_safety_*.py`, `music_symbol_preservation.py`, `safe_restoration.py`) | none | measure, veto | restoration |
| V2a adapter, staging API, shadow (`stage11_v2a_*.py`) | none; a shadow run adds artifacts and an audit event to a job | tile, stitch, observe | job service, in two lock blocks |
| Calibration (`stage4_*.py`) | none | derive targets, evaluate, accept | evidence |
| Stage authorizations, exits and truths (`stage5_*` to `stage11_*`) | the documents in the repository | validate a document against constants and other documents | each other, as a chain, in continuous integration |
| Training and data sets (`stage11_*`, offline) | recorded runs | train, record, authorize | the chain of documents |
| Tools, schemas, docs (`src/tools/`, `src/schemas/` of the repository) | none | run validators, drills, the server | all of the above |
| Image and byte processing (`input_inspection.py`, `quality_analysis.py`, `pdf_pipeline.py`, `restoration_*.py`, `review_evidence.py`) | none | pure functions of bytes | job service |

What is hard in it: a worker computes for minutes between two transactions while its lease may
lapse; workers and processes are lost anywhere; files and rows are changed by separate steps, any
of which may fail; a reviewer decides from a screen that is out of date; a batch is checked in one
transaction and carried out in another; a deletion stops half-way and must never give bytes out
again; a job and its owner are written to two stores; a provider acts before the audit record of it
is written; the model of a shadow run computes while teachers decide. `PROJECT.json` lists these
hazards one by one, at the line where each bites, with the properties that cover it.

What makes each modelled component correct, with the properties that say it:

- queue: the row of a job exists exactly while the job is active; a worker that still holds a claim
  finds the job where it left it; nobody takes a lease with a second to run; an active job settles;
  a client sees only the life cycle of `JobLifecycle`;
- blobs: a committed row always has its bytes; bytes without a row are erased in the end;
- pages: an approval concerns what is current and what was seen; an export says what is decided
  now; a batch is all or nothing; nothing but expiry comes between two blocks of a worker
  (`WorkerInStep`); an expired job holds nothing;
- shadow runs: an observation is recorded for the attempt under review only, before any decision,
  and of the candidate that is decided on (`ShadowBesideReview`);
- access: a key makes one job, which is handed once, to the principal of the key, whatever failed
  between the two stores (`RefinesOwnership`); who is not concerned is answered with no job and
  changes none (`OwnersOnly`, `UnboundUntouched`);
- keys: nothing is handed out before its own audit event is durable (`NothingUnaudited`) or outside
  the context it was sealed for (`OwnContextOnly`), or by a version that was disabled all along
  (`DisabledServesNobody`);
- HTTP: no request slot is lost or given back twice (`SlotsAccounted`); every connection ends and the
  worker comes back after any job (`ServerGoesOn`);
- custody: nothing is given out once a removal is asked for, and copies only become fewer from its
  beginning on (`RefinesRemoval`); receipts are true of the copies; a confirmed
  revocation is anchored in the audit chain; executor and verifier are different people;
- drills: the report does not depend on the order of the threads (`DrillsConclude`);
- governance: what a document claims was given by a decision that is in the repository
  (`ClaimsBacked`);
- engine choice: the source is left only for bytes nothing speaks against (`SelectedIsProven`);
- tiling: patches cover a page of any size and none begins outside it (`PatchesFit`).

## 2. Modules

`JobStates` has the states of a job and the sets of them the code tests (`job_service_support.py`
and the stores). Three modules are abstract and say what a client may rely on. `JobLifecycle` has the
phases of a job, its attempts, and the moves between them; both `WorkQueue`, from the side of the
queue, and `JobPages`, from the side of the review, are shown to implement it. `JobOwnership` has
the jobs that keys have made, their owners, and nothing of threads and stores; `ProductionAccess`
implements it. `CustodyRemoval` has the places an artifact is kept at, who asked for its removal and
for whom a receipt was made, and nothing of barriers, checkpoints and restarts; `CustodyReference`
implements it.

### WorkQueue

One action is one `with store.lock` block: `SQLiteJobStore` begins an IMMEDIATE transaction,
reloads, checks and renews the claim when a worker is inside `processing_claim`, runs the body,
flushes and commits, so writers exclude one another for the whole block. What a worker does between
blocks is its `pc`. The variables are the tables (`jobs`, `queue`, and `ahead` for the order of
`enqueued_at`), the thread-local claim and position of each worker, and the clock.

- `ClaimNext`, `Renewed`, `ReleaseClaim` and `WorkerCommit`, the fence of each pipeline block, follow
  `claim_next_pending`, `renew_claim`, `release_claim` and `_fence_active_claim_locked`.
- `Flushed` is the rewriting of `work_queue` from the jobs at every commit.
- A raised error rolls the block back; a worker that loses its claim gives up.
- Time is relative: a row has the ticks left of its lease. Expiry is compared as text in the code,
  and `phase` says where in its second the present instant is. `Resolution` is the number of ticks
  in a second.
- That a new token is none of those still known (`FreshTokens`) is an assumption of the model: the
  code draws 192 random bits and compares them with nothing.

`Lifecycle` maps jobs to phases; `RefinesLifecycle` states that the queue implements it.

### BlobStore

Processes (one `SQLiteJobStore` each) with the lock of SQLite, rows, deletion records and files.
A transaction writes blobs one after the other (`WriteBlob`), commits or fails (`Commit`,
`WriteFails`, `Abort`), discards (`DiscardBlob`) and reloads. A start drains the records, sweeps
orphans file by file and shard by shard, and opens a snapshot without the lock. `Crash` can fall
between any two steps; SQLite rolls the open transaction back (external). `unswept` remembers
that a failure since the last sweep may have left a file.

### JobPages

One job with pages, one worker and reviewers, each action one lock block. The first state chooses
the `store` among `Stores`: over `"sqlite"` a raising block is undone, the worker is fenced and a
lost worker is recovered (`Durable`); over `"memory"` a raising block keeps what it has changed.
Reviewers first load a screen (`View`), later send a batch that is checked in one block and carried
out in a second. `Lifecycle` maps the job to its phase, and `KeepsLifecycle` says that over SQLite
every block is a step of `JobLifecycle` or none. Contents are content addressed in the code, so a
candidate is its digest and a safety report is named by the candidate it is about.

Analysis is two blocks: `ReadSource` asks whether the job was cancelled or has expired,
`RecordAnalysis`, after the inspection, does not (`job_service_processing.py:247`). Over SQLite the
fence stops the second block where the job has expired; over memory it writes the analysis of an
expired job and its event, but stores no bytes.

### ShadowJob

Extends `JobPages` with callers of `run_stage11_v2a_shadow_job` (`stage11_v2a_shadow_handoff.py`).
The first lock block captures the pages and looks for an event with the same run key, the model
runs outside the lock, the second block records the observation if job and pages are unchanged. It
does not look for the run key again. `held` of `JobPages` is what the job stores, the evidence of
an observation included.

### ProductionAccess

The steps of a request thread of `ProductionApiV1`: the token is verified, the binding looked up,
the local API acts, and a job that was created or found again is bound in the authorization store
and read back. The two stores are two variables with no transaction over both; a thread may fail
or die after any step, and a client repeats a request with its key. The idempotency table of
`create_job` is here, its keys scoped by owner and tenant. Revoked, expired, premature and
unsigned tokens and those of another issuer are records the signature backend may present.
`Ownership` maps the idempotency table, the authorization store and the jobs to `JobOwnership`.

### KeyBoundary

`ProductionSecretResolver` and `ProductionEnvelopeCrypto`. A call is a row of steps, each of which
may fail: authorize, read the key state, let the provider act and check its answer, write the audit
event (`AppendAudit`, or `AuditFails`, after which nobody knows whether the event was stored),
return the result (`AnswerCall`). The number of the operation stands for the time in the event: two
uses of one envelope carry the same evidence of the provider. Rotation, disabled versions and
expired identities come between any two steps. The provider and the audit sink are external. `known`
in a call is a history variable: the versions enabled at some time since the call began; no action
is guarded by it.

### HttpServer

One process of `run_api.py`: the accepting thread with the connection it has in hand, one thread
per request, the semaphore, the polling worker and the end of the process. A request thread may
fail to start, a client may go away. `Connection` bounds the connections that are ever made.

### Gates and OperationalDrills

A gate of `production_storage_deployment.py` or `production_network.py` is the sequence of its
checks, and evidence is its set of gaps: the first check in the sequence with a gap is the reason
of the denial. The audit record comes before the decision. `OperationalDrills` is the caller: the
fixed calls of `stage6_operational_drills.py` and of the last regression, in order, then the pool of
threads on the fencing and the commit ledger.

### StageChain

Each governance document is a `Document(place, needs, claims, gives)`: where it stands in the order
the stages were worked on, which documents its validator opens, which capabilities it claims to
have been given and which it is the decision to give. `FileDocument` and `Revert` are commits; the
guard (`Green`, in `Merge`) is that the validators of all documents then in the repository pass,
which is what continuous integration runs. `Recited` lists the claims no validator looks up.

### EngineChoice

`st_restore_selector.py`, `multi_engine_comparator.py`, `music_safety_validator.py` and
`music_symbol_preservation.py` are functions whose only callers are tests and drills (such as
`tests/test_music_symbol_preservation.py`, lines 71 to 146). The module models them together with
such a caller: it keeps a variant per engine and an assessment per artifact, plans, compares, and
selects. Two engines may return the same bytes, and an assessment may be replaced before or after
the comparison.

### TilePlan

`stage11_v2a_consumer_adapter.py`: the starts along each axis, one turn of the loop an action, then
the restoration of the patches and the stitching. The code goes through the plan in order; here the
patches are restored in any order, which includes that one. Of the sums of pixels only the set of
pixels with a weight is kept.

### CustodyReference

One artifact in `InMemoryCustodyReference`. An action is one method call; `begin_revocation` takes
an `Outcome`, the point at which its caller reports a step as failed, and leaves exactly what the
code has changed by then. Intents, barrier and checkpoint survive `Restart`, grants do not. A
position in the audit chain stands for a digest, because the chain only grows. Calls with another
record version than the current one change nothing and are left out. `Removal` maps an intent to
having asked, and the states of the record to the stages of `CustodyRemoval` (`StageOf`).

### Instances and compositions

`MCBlobStore`, `MCJobPages` and `MCHttpServer` give one module its constants, as the configurations
of `WorkQueue` do. `MCWorkQueue` checks safety and liveness of the queue in one run: the first state
chooses a schedule. In a calm one the worker in `Steady` runs fairly, both jobs exist, nobody
cancels or retries; in any other, every operation may happen at any time to the job in `Contended`.
Renaming tokens and workers changes nothing, so of the fresh tokens the first is drawn
(`FirstTokenDrawn`) and only the steady worker crashes (`SteadyCrash`). `MCService` and `MCEngine`
compose: `MCService` has the pages of a job, shadow runs beside them, access and keys, `MCEngine`
has custody, the HTTP server, the drills, the governance documents, the choice of an engine and the
tiling. Shadow runs and pages share the job and interleave freely, as do the gates and the drills
that call them. The others share no state; the variable `subject`, chosen in the first state, says
which of them moves, so that one run checks all of them without the product of their state spaces.
Modules ending in `Proofs` hold the proofs.

## 3. Runs

| Run | Question | Instance |
|---|---|---|
| `queue` | Can a stale worker disturb the job it lost, or a queue row drift from its job? Does the queue implement the life cycle? Is a lease with a second to run safe? Does every active job settle? | a clock of half seconds, 3 tokens, 1 page, a crash; contended: 1 job, 2 workers, 2 attempts; calm: 2 jobs, 1 worker, 1 attempt |
| `queue_stolen` | Can an active lease be stolen? (violated) | 1 job, 2 workers, a clock of half seconds |
| `queue_cancel` | Does a cancellation take effect? (violated) | 1 job, 1 worker |
| `blob_shared` | Is a live blob ever lost, or a file left unexplained? | 2 processes, 2 jobs, 3 digests in 2 shards, one failure of each kind |
| `blob_erasure` | Is every recorded deletion carried out? | 1 process, 2 jobs, 3 digests in 2 shards, one failure of each kind |
| `blob_race` | The same with a second process (violated) | 2 processes, 2 digests |
| `blob_reload` | Does a reload only fail on a corrupt store? (violated) | 2 processes, 2 digests |
| `pages_batch` | Is a batch atomic in memory? (violated) | 2 pages |
| `pages_unready` | Has every page under review its evidence? (violated) | 2 pages, 2 attempts |
| `job_api` | Do approvals, exports, batches and shadow observations mean what they say over both stores? Does the review keep the life cycle? Does a job come to the owner of its key, and to nobody else? What leaves the key boundary? | pages: 2 pages, an accepted and a vetoed candidate, both stores, 2 attempts, a lost worker, 1 reviewer, 1 observer; access: 2 threads, 3 subjects, 2 tenants, 1 key, 2 contents, 2 jobs, 9 tokens; keys: 1 workload, 2 environments, 3 contexts, 2 versions, 2 provider operations |
| `engine` | Reads, receipts, audit and confirmation around a removal; slots and connections; drills under threads; claims of documents; choice; tiling | custody: 2 requests, 2 triggers, 5 identities of 3 people, 1 audited read; HTTP: 3 connections on 2 slots; drills: 3 threads, tokens to 4; documents: 2 consecutive places of 25; choice: 2 engines, 2 artifacts, 1 faulty result; tiles: sides to 6, patch 3, stride 2 |
| `http_worker` | Does the worker come back until it is stopped? (violated) | 1 connection |

Bounds, all of them constants used in guards, or the sizes of sets:

- `MaxAttempt` = 2 gives a retry after a settled attempt, hence claims for an old attempt that meet
  a new one. A third attempt meets the second exactly as the second meets the first.
- `MaxCrash`, `MaxWriteFault`, `MaxDeleteFault` = 1: every failure is possible at every step. Two
  failures in a row matter only if the first recovery leaves something behind, and that is what
  `unswept`, the deletion records and the inductive invariants account for.
- `Lease` = 3 ticks and `BusyTimeout` = 1 let a lease run out between any two blocks, during the
  wait for the write lock included. `Resolution` = 2 has instants on and off the whole second, which
  is all that the comparison of the texts tells apart: two fractions compare as times. `Token` has
  one token more than there are workers, so a fresh one always exists while old ones are remembered.
- Two shards, one of them shared, cover the removal of an emptied shard directory beside one that
  is still in use; two digests of different order show a failing record that blocks a later one.
- `MaxRead` bounds audited reads of custody; any number of reads of a granted token is possible.
  Two requests are enough for the barrier to be taken over; two accounts each for two people
  exercise role conflicts across accounts.
- One `Observer`: `ShadowBesideReview` speaks of one observation at a time, and what a shadow run
  has to fear are the steps of the job. `Undisturbed` keeps failures of the worker and crashes out
  of the subject with shadow runs, where the two modules multiply; the subject with pages alone has
  them, and the theorem about `ShadowSpec` has no such bound.
- Two threads and one key: a repeated request overlaps the first, and two principals use the same
  key. `JobId` = 2 lets either have a job while the other's is being bound.
- `MaxCall` = 2 provider operations: an encryption and the decryption of its envelope, with
  rotations around both. An envelope that is opened twice takes a third operation; the theorems
  about the key boundary have no such bound.
- Three connections on two slots fill the server and leave one to be refused. `HighestToken` = 4
  with three threads lets a later token overtake two earlier ones.
- `Window` = 2: of the 25 places of the documents, two consecutive ones may be incomplete at once.
  Each document is filed and reverted in every state of its own place and the next; a document
  that is wanted further back is always present, except while its own place is incomplete.
- `MaxFaulty` = 1: at most one engine's result is faulty when it is reported, in any one way. With
  two engines this reaches one faulty beside one sound result on the same or on other bytes.
- Sides of 1 to 6 with patches of 3 and a stride of 2 give pages smaller than a patch, of exactly
  one, and with a last patch that reaches over the edge by none or one pixel, in each direction.

Symmetry is used in safety runs only, over interchangeable processes, jobs and request threads.
Deadlock is not checked in `engine` and `http_worker`, because a server that was closed, a drill
that has reported, a finished page and a selection that was made have nothing left to do.

Fairness. Queue: worker threads poll for ever (`JobWorker._run`), and the clock advances, but
(`PatientTick`) not past the lease of a worker in the middle of one operation, and not past the busy
timeout: without this, operations longer than the lease would be recovered for ever. Clients and
failures owe nothing. `ActiveJobsSettle` is about the calm schedules of `MCWorkQueue`, where
cancellations, whose own property is violated, are left out. Blobs: a process that is down is
started again, one that is up polls, and its transactions get the lock (strong fairness, as others
take it in between); a body that raises for ever is left out. Custody (`CustodyFairness`): the
producer of an intent publishes again until it is acknowledged, and the checkpoint and the
confirmation are tried again (strong fairness: another request's barrier disables them in between);
`ReceiptedIsRevoked` claims the confirmation of a removal that has its receipt. HTTP
(`HttpFairness`): the accepting thread, every request thread and the worker are scheduled; that
reading a request ends is due to the timeout of a connection and to the limits on sizes.
`ServerGoesOn` leaves out a worker killed by a clean-up that raises, which is what `http_worker`
shows. Drills (`DrillFairness`): the main thread and the pool are scheduled. Every liveness property
is checked under a specification with this fairness, and each passing property is shown to fail for
a plausible fault of the code, the definitions marked `Faulty` in the modules.

## 4. Proofs

All theorems are proved for every value of the constants, from the named assumptions of the
modules, which TLC evaluates in the runs: `QueueAssumption`, `BlobAssumption`, `CustodyAssumption`,
`NoneAssumption`, `PagesAssumption`, `NoneIsNoDecision`, `NoneIsNoSighting`, `AccessAssumption`,
`KeyAssumption`, `HttpAssumption`, `TileAssumption`, `ChoiceAssumption`, `TokenAssumption` and
`IdleAssumption`. They say that numbers are numbers, that sets that are counted are finite, and that
a value meaning "nothing" is none of the others. (`WindowAssumption` serves the runs only.)

`WorkQueueProofs`
- `TypeCorrect`, `QueueConsistent`, `Fencing` (`HolderInStep`). The inductive invariant is the
  conjunction of the three with `TokensUnshared`, which is how the assumption about fresh tokens
  enters. `HolderInStep` needs the others: a stale worker is told from the holder by a token nobody
  else has, and a claim for an old attempt from a current one by the attempt in the row, which `QueueReflectsJobs` ties to the job. Lemmas say what a transaction, a
  renewal and a settled claim leave, then there is one lemma per group of actions.
- `LeasesKept` (`LeaseKeptToTheSecond`), for every `Resolution`. A transaction keeps every unexpired
  lease of an active job because it gives no active job a new attempt. `claim_next_job` clears none
  with a second or more to run: such a lease ends in a later second than the instant it is compared
  with (`NextSecond`), and texts of different seconds compare as times do (`TextOrder`,
  `SweptKeeps`). Within one second they do not, and the full sentence of the document is false
  (section 5).

`LifecycleProofs`
- `Refinement`: `Spec => RefinesLifecycle`. A block writes one job's record (`OneJob`), so a step is
  one step of that job's lifecycle, or none. A client's block is guarded by the state it starts
  from; a worker's is not, and there the fence decides: a live claim means that the job is in a
  state of `StatesAt(pc)` (`HolderInStep`). The invariant is `IInv` with `AtRest`: no block leaves a
  job in a state it only passes through, and an id without a job has had no attempt.

`BlobStoreProofs`
- `TypeCorrect`, `NothingLost` (`BlobsPresent`). A commit publishes rows whose files were written
  some steps before, so the invariant adds what a process in a transaction knows (`Sound`): what it
  has written is there, what it would discard is not live. Others cannot disturb it because rows and
  files change under the write lock only; that the lock is with the process inside a transaction is
  part of `TypeOK`.
- `NothingLeaks` (`FilesAccounted`). The invariant adds what a process owes between two steps
  (`Tidy`): it forgets its new blobs only once they are live or discarded, and between the two steps
  of a drain the record at the head stands for a file that is gone or live.

`CustodyReferenceProofs`
- `TypeCorrect`, `NoService`, `ReceiptsTrue`, `RevocationsAnchored`, `Audited`, `Independent`: all
  six safety invariants of the module. The strengthening says what each state has behind it:
  versions go up with the states (`VersionInStep`), at most one request has begun a deletion and its
  intent points at the event (`PositionsInStep`, `ReceiptAudited`), the checkpoint stands at such a
  position (`CheckpointInStep`), and the people on a receipt are registered with the roles they acted
  in (`Witnesses`), which with `Separated` gives independence.
- `CustodyRemoves`: `Spec => RefinesRemoval`. Bytes are given out only where no intent is persisted;
  publishing a barrier, advancing a checkpoint and restarting are no steps of the removal;
  `begin_revocation` is one, however far it gets, and asks for the removal itself if nobody did
  before (`PreparedAsks`). What makes the last step an erasure is `ReceiptsTell`: a confirmed record
  has its receipt, so nothing but the backup was left.

`JobPagesProofs`
- All the invariants of `JobPages` the runs find no fault with, its type correctness, and the action
  properties `BatchIsTransaction` and `ApprovedAsSeen`, over both stores. An approval is made from
  the evidence bundle, so `PagesInv` follows the worker that makes it: the job stays where the
  worker left it or expires, the target pages of an active job are undecided and without a bundle,
  and a bundle matches the candidate and the report of its attempt. The first of these is
  `WorkersInStep` (`WorkerInStep`): cancellation, retries and reviews are refused or put off in the
  states a worker leaves a job in, so the analysis block finds its job where it was although it does
  not look. A request in its second block may stop at any page; over SQLite it is then undone as a
  whole.
- `PagesKeepLifecycle`: over SQLite every block is a step of `JobLifecycle` or none. Each block moves
  the job within its attempt, opens the next one, recovers a lost worker's, or leaves the phase
  alone. The phase of a job is only defined because job and attempt are in step
  (`AttemptInStep`) and no block ends in a state that it only passes through (`Resting`).

`ProductionAccessProofs`
- `AccessTypeCorrect`, `CreatorAlwaysOwns`, `AnswersToOwners`, `UnboundStayUntouched`. The binding of
  a job may be written by another thread than the one that created it. What carries `CreatorOwns`:
  an entry of the idempotency table leads to a job of the principal in its scope, and a thread on
  its way to bind holds a job of its own principal (`Entries`, `Threads`). Both stores only grow.
- `AccessImplementsOwnership`: `AccessSpec => RefinesOwnership`. A key makes a second job nowhere,
  because the entry of the first is written in the lock block that makes it; no two keys share a
  job, because the ids of entries are in use. A request on its way to bind has the entry of its key
  behind it (`Keyed`): so whoever binds first hands the job to the principal of that key, and who
  comes second confirms it. A repeated request, a failed binding and a crash stutter.

`ServiceProofs`
- `ObservationsHold` (`ShadowBesideReview`), `ShadowKeepsPages` and `ReviewsUndisturbed`: what was
  proved of a job holds beside shadow runs too. The second half of `ShadowBesideReview` needs that
  an observation is of an attempt that is over for the worker: each step of the job either goes on
  with its attempt (`GoesOn`), and gives no page a candidate unless the job is active, or begins a
  later one (`BeginsAnew`).
- `KeyTypeCorrect`, `NothingIsUnaudited`, `ContextsAreKept`, `DisabledServeNobody`: the invariant
  says what a call has established by its step: the version whose state was read and the version
  that acted are in `known`, an envelope was released for the context it is opened for, and a call
  that is about to answer has the event of its own operation on the trail, however often the
  envelope was opened before.
- `ServiceIsItsParts`: a behaviour of `MCService` is one of each of its parts, so each keeps what was
  proved of it (`ServiceTypeCorrect`, `ServiceIsSafe`).

`EngineProofs`
- `SlotsAreAccounted`: the free slots and the connections that hold one add up to the number of
  slots; each step moves at most one connection into or out of the set.
- `PatchesAlwaysFit`: for every patch size, every stride up to it and every page. The starts along
  an axis are gap-free up to the last one (`AxisInv`), so every pixel lies in a patch; what remains
  is that restoring all patches reaches all pixels.
- `SelectedAreProven`: a recommendation stays the best of the variants it was made from, because
  variants are not replaced after the comparison; assessments are, and are looked up again.
- `ClaimsAreBacked`: the invariant is that the validators of the filed documents pass (`Green`), which
  every merge preserves. The rest is about the table of documents, one lemma per stage: a claim
  leads, by what its validator opens, to documents that must be filed as well, and these in the end
  to the decision that gives it. `Window` plays no part: the theorem is about any set of commits.
- `DrillsNeverFail`: no check of the drills fails, in any order of the threads. For the calls of the
  gates, each answer is computed from the list of its checks (`AllCallsMet`). For the pool, the
  invariant follows the claims through the queue: tokens are queued in a fixed order and the ledger
  takes each that is higher than all before. Until the highest token has been claimed it is still to
  come; the first token is claimed twice, so one refusal is counted or still to come.
- `EngineIsSafe`: the same for the composition in `MCEngine` as for the service.

Only model-checked: the liveness properties (`ActiveJobsSettle`, `ErasureCompletes`,
`PendingDrained`, `ReceiptedIsRevoked`, `ServerGoesOn`, `DrillsConclude`), since TLAPS does not
reason about fairness and `ENABLED` here. Every invariant, every action property and every
refinement of the passing runs is proved; so are `CreatorOwns`, `AttemptInStep` and
`NothingServedUnderRemoval`, which the runs check as what `RefinesOwnership`, `KeepsLifecycle` and
`RefinesRemoval` need.

## 5. What the models found

Each is a run whose property quotes the text it contradicts.

- **Cancellation of a running job** (`queue_cancel`). `_ensure_not_cancelled` moves the job to
  CANCELLED and raises inside the lock block; the durable store rolls the block back. The row stays,
  and every worker that claims the job repeats this.
- **An active lease is stolen** (`queue_stolen`). `claim_next_job` compares the expiry with the
  present as ISO texts, which leave out the fraction of a whole second: "...10.5Z" sorts before
  "...10Z". A claim that reads the clock on a whole second takes a lease that ends within that
  second, although the document says that an active lease cannot be stolen. The fence still keeps
  the worker that lost it out (`HolderInStep`), and a lease with a second to run is safe
  (`LeaseKeptToTheSecond`).
- **Sweep against drain** (`blob_race`). A start drains, another process commits an expiry, the start
  sweeps the blob and its empty directory. The record can then never be drained and blocks all
  later ones and all later starts.
- **Reload without the lock** (`blob_reload`). Rows are read, another process erases, the read of
  the blob fails as if the store were corrupt.
- **Half a batch** (`pages_batch`). Over the in-memory store a batch refused at its second block
  leaves an earlier page decided.
- **Review without evidence** (`pages_unready`). After an unfinished (failed or cancelled) attempt on
  all pages, a retry of some reaches review while another page has no evidence bundle.
- **End of the worker thread** (`http_worker`). The comment in `http_server.py` line 65 has the loop
  fail closed without being killed, but `cleanup_expired` is called outside the `try`: when the store
  raises there, the thread ends and nothing starts another.

Observed while modelling, and not run:

- a blob whose directory fsync fails stays behind after the rollback until the next start;
- a deletion of custody that failed half-way is refused, not resumed, when its request is repeated
  (`stage1b_reference_drill.py:445`);
- over memory the analysis of a page is recorded for a job that has expired while it was analysed
  (`job_service_processing.py:247`): no bytes, but an event after the job's end;
- the run key of a shadow run is looked up in the first block only, so two overlapping runs of one
  attempt append two events;
- some claims of governance documents rest on no validator (`Recited` in `StageChain`): the truth of
  stage 9A claims its entry and opens the acceptance of its exit only; the truths of stage 11 for
  foundation, kickoff, Colab and V2 open nothing; those for packaging, consumer, staging and shadow
  recite that the candidate was frozen or packaged; the calibration evidence finds the execution
  authorized in a status page.

## 6. What is not modelled

- Image processing, PDF and byte parsing, the music-safety measurements, the arithmetic of
  calibration and training: functions on floating-point arrays and bytes, with no state between
  calls.
- The formats of documents and evidence, and what a validator compares within one document or with
  its own constants; headers, JSON and multipart parsing; static assets; command-line tools other
  than `run_api.py`. In `HttpServer` what the transport rejects is one action.
- SQLite, the file system, identity, key and secret providers, audit sinks: external; their
  behaviour is what the code relies on (a transaction is atomic and exclusive, `os.replace` is atomic,
  a crash loses what was not committed), and providers and sinks may fail at any step.
- In `JobPages`: the list of training consents, which is appended to, copied into the export and the
  responses, and read by no guard.
- In `BlobStore`: the statements that claim, renew and release work, which touch neither artifacts
  nor files, and the creation of the schema.
- In `Gates`: egress targets, which nothing in the repository calls, and the parsing of addresses.
- `preview_release.py`, `docres_optional_candidate.py` and `st_restore_image_model.py`: pure
  functions that their own drills call. The staging API is a stateless wrapper of the adapter.
- The regressions of identity, jobs and keys in `stage6_integration_security_regression.py`, which
  replay on fixed inputs what `ProductionAccess` and `KeyBoundary` model for all.

`PROJECT.json` says of each component whether it is modelled, and what of it is not.

## 7. Plan

What is left, in order of importance:

1. **Rules within custody records**: the two recorded custody executions (`stage2_`, `stage3_`) as
   traces of `CustodyReference`, with the order of their times and their people, so that what the
   contract accepts and what the reference does are compared.
2. **Split isolation and calibration**: the split of a snapshot, and the acceptance of calibrated
   thresholds as an algorithm on integers, checked against a reference definition over small inputs.
3. **Abstract specification** of the content a blob store keeps, with `BlobStore` shown to implement
   it, and the lemmas of progress the liveness properties rest on.
