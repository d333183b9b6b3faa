------------------------------ MODULE WorkQueue ------------------------------
(***************************************************************************)
(* The durable work queue of the SQLite job store and the workers it       *)
(* fences.                                                                 *)
(*                                                                         *)
(* Every `with store.lock` block of the service is one SQLite transaction: *)
(* BEGIN IMMEDIATE, reload, (for a worker) check and renew the claim,      *)
(* mutate, flush, commit.  Writers exclude one another for the whole       *)
(* block, so a block is one action here.  What a worker does between two   *)
(* blocks (inspecting, restoring and validating images) takes time and may *)
(* fail; meanwhile clients cancel, retry, review and expire the job, other *)
(* workers claim it once its lease has run out, and the process may crash. *)
(*                                                                         *)
(* Time is relative: a lease holds the ticks it has left, a worker the age *)
(* of the clock it read, and `phase` is the position of the present        *)
(* instant within its second, which is all the textual comparison of       *)
(* timestamps depends on.                                                  *)
(***************************************************************************)
EXTENDS Integers, JobStates

CONSTANTS Job, Worker,
          Token,        \* lease tokens (secrets.token_hex(24))
          NoToken,      \* the NULL lease_token
          NoJob,        \* the job of a worker that holds no claim
          Pages,        \* target pages of an attempt
          Lease,        \* worker_lease_seconds, in ticks
          BusyTimeout,  \* ticks a writer waits for the write lock before it gives up
          Resolution,   \* ticks per second
          MaxAttempt,   \* bound: attempts of a job
          MaxCrash      \* bound: workers lost

ASSUME QueueAssumption ==
  /\ NoToken \notin Token
  /\ NoJob \notin Job
  /\ Pages \in Nat \ {0}
  /\ Lease \in Nat \ {0}
  /\ BusyTimeout \in Nat
  /\ Resolution \in Nat \ {0}
  /\ MaxAttempt \in Nat \ {0}
  /\ MaxCrash \in Nat

VARIABLES
  jobs,     \* the jobs table: state, current attempt, cancelRequested
  queue,    \* the work_queue table: attempt, lease token, ticks left of the lease
  ahead,    \* ahead[j]: the queued jobs with an earlier enqueued_at than j's row
  worker,   \* each worker thread: where it is, its claim, its loop counter
  phase,    \* the present instant modulo one second
  crashes   \* workers lost so far

vars == <<jobs, queue, ahead, worker, phase, crashes>>

-------------------------------------------------------------------------------
(* State *)

\* A job id that no create_job has stored yet.
NoRecord == [state |-> "NONE", attempt |-> 0, cancel |-> FALSE]
JobRecord == [state : JobState \cup {"NONE"}, attempt : 0..MaxAttempt, cancel : BOOLEAN]

\* A lease that ran out longer ago than this is expired under every reading.
LeaseFloor == 0 - (BusyTimeout + Resolution)

\* Attempt 0 marks the absence of a row.
NoRow == [attempt |-> 0, token |-> NoToken, left |-> 0]
Row == [attempt : 0..MaxAttempt, token : Token \cup {NoToken}, left : LeaseFloor..Lease]
Unleased(a) == [attempt |-> a, token |-> NoToken, left |-> 0]

\* "claiming" has read the clock and waits for the write lock; "claimed" has a
\* token; "start" has been through run_pending's own block; the pipeline of
\* process_job runs from "reading" to "validating"; "stopping" has met the
\* cancellation; "releasing" is run_pending's finally clause.
TryStep == {"reading", "inspecting", "analyzed", "restoring", "validating"}
Claimed == {"claimed", "start", "stopping"} \cup TryStep
WorkerStep == {"idle", "claiming", "releasing"} \cup Claimed

Idle == [pc |-> "idle", job |-> NoJob, attempt |-> 0, token |-> NoToken,
         todo |-> 0, age |-> 0]
WorkerState == [pc : WorkerStep, job : Job \cup {NoJob}, attempt : 0..MaxAttempt,
                token : Token \cup {NoToken}, todo : 0..Pages, age : 0..BusyTimeout]

Init ==
  /\ jobs = [j \in Job |-> NoRecord]
  /\ queue = [j \in Job |-> NoRow]
  /\ ahead = [j \in Job |-> {}]
  /\ worker = [w \in Worker |-> Idle]
  /\ phase = 0
  /\ crashes = 0

-------------------------------------------------------------------------------
(* Transactions *)

Active(r) == r.state \in ActiveWorkStates

\* The lease of row r authorises its token at this instant.
Unexpired(r) == r.token # NoToken /\ r.left > 0

\* Faulty variants: a cancelled job keeps its row; every lease is forgotten.
FlushedKeepingCancelled(js, q) ==
  [j \in Job |->
    IF ~Active(js[j]) /\ js[j].state # "CANCELLED" THEN NoRow
    ELSE IF q[j].attempt = js[j].attempt /\ Unexpired(q[j]) THEN q[j]
    ELSE Unleased(js[j].attempt)]
FlushedForgetting(js, q) ==
  [j \in Job |-> IF Active(js[j]) THEN Unleased(js[j].attempt) ELSE NoRow]

\* The rows _flush_locked writes over the rows q it finds.  A lease survives a
\* rewrite when its row is still about the job's current attempt and the reload
\* at the start of the transaction saw it unexpired.
Flushed(js, q) ==
  [j \in Job |->
    IF ~Active(js[j]) THEN NoRow
    ELSE IF q[j].attempt = js[j].attempt /\ Unexpired(q[j]) THEN q[j]
    ELSE Unleased(js[j].attempt)]

\* Rows that keep their enqueued_at; a row of a new attempt goes last.
Kept(js) == {j \in Job : Active(js[j]) /\ queue[j].attempt = js[j].attempt}
Reordered(js) ==
  [j \in Job |-> IF j \in Kept(js) THEN ahead[j] \cap Kept(js)
                 ELSE IF Active(js[j]) THEN Kept(js) ELSE {}]

\* A transaction that found the rows q and leaves the jobs js.
Commit(js, q) ==
  /\ jobs' = js
  /\ queue' = Flushed(js, q)
  /\ ahead' = Reordered(js)

\* A transaction that raised: rollback.
Rollback == UNCHANGED <<jobs, queue, ahead>>

SetState(j, s) == [jobs EXCEPT ![j].state = s]

-------------------------------------------------------------------------------
(* The fence *)

\* Faulty variant: the row's token is not compared.
LiveWithoutToken(w) ==
  LET c == worker[w] IN
  c.job \in Job /\ queue[c.job].attempt = c.attempt /\ Unexpired(queue[c.job])

\* _claim_row_matches: the worker's exact claim is in the row and unexpired.
Live(w) ==
  LET c == worker[w] IN
  /\ c.job \in Job
  /\ queue[c.job].attempt = c.attempt
  /\ queue[c.job].token = c.token
  /\ Unexpired(queue[c.job])

\* The rows after the fence has renewed the worker's lease.
Renewed(w) == [queue EXCEPT ![worker[w].job].left = Lease]

\* An outer transaction of a worker inside processing_claim.
WorkerCommit(w, js) == Live(w) /\ Commit(js, Renewed(w))

At(w, pc) == worker[w].pc = pc
Goto(w, pc) == worker' = [worker EXCEPT ![w].pc = pc]
GotoLoop(w, pc, n) == worker' = [worker EXCEPT ![w].pc = pc, ![w].todo = n]
MyJob(w) == worker[w].job
Untimed == UNCHANGED <<phase, crashes>>

-------------------------------------------------------------------------------
(* Clients: the HTTP API and the retention cleanup, in unfenced transactions *)

\* create_job stores a new job under an unused id.
CreateJob(j) ==
  /\ jobs[j].state = "NONE"
  /\ Commit([jobs EXCEPT ![j] = [state |-> "UPLOADED", attempt |-> 1, cancel |-> FALSE]],
            queue)
  /\ Untimed /\ UNCHANGED worker

\* cancel_job: at once while no worker is in the pipeline, else a request the
\* worker is to notice.
CancelJob(j) ==
  /\ jobs[j].state \notin NotCancellableStates \cup {"NONE", "EXPIRED"}
  /\ LET s == jobs[j].state
         to == IF s \in CancelledAtOnceStates THEN "CANCELLED" ELSE s
     IN Commit([jobs EXCEPT ![j] = [state |-> to, attempt |-> jobs[j].attempt,
                                    cancel |-> TRUE]],
               queue)
  /\ Untimed /\ UNCHANGED worker

\* create_attempt, and the reprocess decision of a review.
CreateAttempt(j) ==
  /\ jobs[j].state \in RetryableStates
  /\ jobs[j].attempt < MaxAttempt
  /\ Commit([jobs EXCEPT ![j] = [state |-> "READY_FOR_PROCESSING",
                                 attempt |-> jobs[j].attempt + 1, cancel |-> FALSE]],
            queue)
  /\ Untimed /\ UNCHANGED worker

\* review_job with the last open page decided: APPROVED, EXPORTING and
\* COMPLETED within one transaction.
CompleteReview(j) ==
  /\ jobs[j].state = "AWAITING_REVIEW"
  /\ Commit(SetState(j, "COMPLETED"), queue)
  /\ Untimed /\ UNCHANGED worker

\* expire_job.
ExpireJob(j) ==
  /\ jobs[j].state \notin {"NONE", "EXPIRED"}
  /\ Commit(SetState(j, "EXPIRED"), queue)
  /\ Untimed /\ UNCHANGED worker

\* Every other use of the lock (get_job, a partial review, a consent record):
\* it rewrites the tables all the same, and drops the leases that ran out.
Look ==
  /\ Commit(jobs, queue)
  /\ Untimed /\ UNCHANGED worker

-------------------------------------------------------------------------------
(* Workers: claiming *)

\* JobWorker._run polls; run_pending reads the clock before it waits for the
\* write lock.
Poll(w) ==
  /\ At(w, "idle")
  /\ worker' = [worker EXCEPT ![w] = [Idle EXCEPT !.pc = "claiming"]]
  /\ Rollback /\ Untimed

\* Timestamps are compared as ISO 8601 text.  isoformat() omits the fraction of
\* a whole second, and "." sorts before "Z": a whole second sorts after every
\* other instant of that second.
TextKey(t) == IF t % Resolution = 0 THEN t + Resolution - 1 ELSE t - 1
\* Faulty variant: leases never expire.
NeverExpired(r, age) == FALSE

ExpiredAt(r, age) ==
  r.token # NoToken /\ TextKey(phase + r.left) <= TextKey(phase - age)

\* The rows after claim_next_job has cleared the leases it takes for expired.
Swept(age) ==
  [j \in Job |-> IF ExpiredAt(queue[j], age) THEN Unleased(queue[j].attempt) ELSE queue[j]]
Free(q) == {j \in Job : q[j].attempt # 0 /\ q[j].token = NoToken}

\* A modelling assumption: 192 random bits name none of the tokens still known.
\* The code compares the token it draws with nothing.
FreshTokens ==
  Token \ ({queue[j].token : j \in Job} \cup {worker[w].token : w \in Worker})

\* claim_next_job: the oldest row without a lease.
ClaimNext(w) ==
  LET age == worker[w].age
      q == Swept(age)
  IN /\ At(w, "claiming")
     /\ \E j \in Free(q), t \in FreshTokens :
          /\ Free(q) \cap ahead[j] = {}
          /\ queue' = [q EXCEPT ![j] = [attempt |-> q[j].attempt, token |-> t,
                                        left |-> Lease - age]]
          /\ worker' = [worker EXCEPT ![w] = [Idle EXCEPT !.pc = "claimed", !.job = j,
                                                         !.attempt = q[j].attempt,
                                                         !.token = t]]
     /\ Untimed /\ UNCHANGED <<jobs, ahead>>

ClaimNothing(w) ==
  /\ At(w, "claiming")
  /\ Free(Swept(worker[w].age)) = {}
  /\ queue' = Swept(worker[w].age)
  /\ worker' = [worker EXCEPT ![w] = Idle]
  /\ Untimed /\ UNCHANGED <<jobs, ahead>>

-------------------------------------------------------------------------------
(* Workers: the pipeline of process_job, one action per lock block *)

\* run_pending's first block: an interrupted attempt restarts from its source.
ValidateClaim(w) ==
  /\ At(w, "claimed")
  /\ WorkerCommit(w, IF jobs[MyJob(w)].state \in QueuedStates THEN jobs
                     ELSE SetState(MyJob(w), "READY_FOR_PROCESSING"))
  /\ Goto(w, "start") /\ Untimed

\* A block that begins with _ensure_not_cancelled and meets no cancellation.
Proceed(w, js) == ~jobs[MyJob(w)].cancel /\ WorkerCommit(w, js)

\* process_job's first block, outside its try statement.
BeginAnalysis(w) ==
  /\ At(w, "start")
  /\ jobs[MyJob(w)].state \in QueuedStates
  /\ Proceed(w, SetState(MyJob(w), "ANALYZING"))
  /\ GotoLoop(w, "reading", Pages) /\ Untimed

ReadSource(w) ==
  /\ At(w, "reading")
  /\ Proceed(w, jobs)
  /\ Goto(w, "inspecting") /\ Untimed

\* PAGE_ANALYZED: the one block that does not look at the cancellation.
RecordAnalysis(w) ==
  /\ At(w, "inspecting")
  /\ WorkerCommit(w, jobs)
  /\ GotoLoop(w, IF worker[w].todo = 1 THEN "analyzed" ELSE "reading", worker[w].todo - 1)
  /\ Untimed

\* ANALYZING, READY_FOR_PROCESSING and PROCESSING within one transaction.
BeginRestoration(w) ==
  /\ At(w, "analyzed")
  /\ Proceed(w, SetState(MyJob(w), "PROCESSING"))
  /\ GotoLoop(w, "restoring", Pages) /\ Untimed

\* Faulty variant: the loop runs once too often.
RecordPageOnceMore(w) ==
  /\ worker[w].pc \in {"restoring", "validating"}
  /\ Proceed(w, jobs)
  /\ GotoLoop(w, worker[w].pc, worker[w].todo - 1) /\ Untimed

\* CANDIDATE_CREATED and PAGE_VALIDATED.
RecordPage(w) ==
  /\ worker[w].pc \in {"restoring", "validating"}
  /\ worker[w].todo > 0
  /\ Proceed(w, jobs)
  /\ GotoLoop(w, worker[w].pc, worker[w].todo - 1) /\ Untimed

BeginValidation(w) ==
  /\ At(w, "restoring")
  /\ worker[w].todo = 0
  /\ Proceed(w, SetState(MyJob(w), "VALIDATING"))
  /\ GotoLoop(w, "validating", Pages) /\ Untimed

FinishProcessing(w) ==
  /\ At(w, "validating")
  /\ worker[w].todo = 0
  /\ Proceed(w, SetState(MyJob(w), "AWAITING_REVIEW"))
  /\ GotoLoop(w, "releasing", 0) /\ Untimed

-------------------------------------------------------------------------------
(* Workers: cancellation, failure and loss *)

\* _ensure_not_cancelled moves the job to CANCELLED and then raises
\* job_cancelled through the lock, which rolls that move back.
MeetCancellation(w) ==
  /\ worker[w].pc \in {"start", "reading", "analyzed", "restoring", "validating"}
  /\ Live(w)
  /\ jobs[MyJob(w)].cancel
  /\ Rollback
  /\ GotoLoop(w, IF At(w, "start") THEN "releasing" ELSE "stopping", 0) /\ Untimed

\* process_job answers job_cancelled with a snapshot of the job.
SnapshotCancelled(w) ==
  /\ At(w, "stopping")
  /\ WorkerCommit(w, jobs)
  /\ Goto(w, "releasing") /\ Untimed

\* Any error of the pipeline: _fail_processing.
FailProcessing(w) ==
  /\ worker[w].pc \in TryStep
  /\ WorkerCommit(w, SetState(MyJob(w), "FAILED"))
  /\ GotoLoop(w, "releasing", 0) /\ Untimed

\* StaleWorkClaimError from the fence.  Inside the try statement the answer to
\* it, _fail_processing, meets the fence again.
LoseClaim(w) ==
  /\ worker[w].pc \in Claimed
  /\ ~Live(w)
  /\ Rollback
  /\ GotoLoop(w, "releasing", 0) /\ Untimed

\* release_claim: clears the lease if the token is still in the row, expired
\* or not.
ReleaseClaim(w) ==
  LET c == worker[w]
      holds == c.job \in Job /\ queue[c.job].attempt = c.attempt /\ queue[c.job].token = c.token
  IN /\ At(w, "releasing")
     /\ queue' = IF holds THEN [queue EXCEPT ![c.job] = Unleased(c.attempt)] ELSE queue
     /\ worker' = [worker EXCEPT ![w] = Idle]
     /\ Untimed /\ UNCHANGED <<jobs, ahead>>

\* The process dies; its successor polls afresh.  A block in progress is rolled
\* back by SQLite, which is no step here.
CrashWorker(w) ==
  /\ ~At(w, "idle")
  /\ crashes < MaxCrash
  /\ crashes' = crashes + 1
  /\ worker' = [worker EXCEPT ![w] = Idle]
  /\ Rollback /\ UNCHANGED phase

-------------------------------------------------------------------------------
(* Time *)

\* One tick of the clock.  A worker that has waited BusyTimeout for the write
\* lock gets "database is locked" and goes back to polling.
Tick ==
  /\ phase' = (phase + 1) % Resolution
  /\ queue' = [j \in Job |->
       IF queue[j].token # NoToken /\ queue[j].left > LeaseFloor
       THEN [queue[j] EXCEPT !.left = @ - 1] ELSE queue[j]]
  /\ worker' = [w \in Worker |->
       IF ~At(w, "claiming") THEN worker[w]
       ELSE IF worker[w].age < BusyTimeout THEN [worker[w] EXCEPT !.age = @ + 1]
       ELSE Idle]
  /\ UNCHANGED <<jobs, ahead, crashes>>

-------------------------------------------------------------------------------
(* Specification *)

WorkerNext(w) ==
  \/ Poll(w) \/ ClaimNext(w) \/ ClaimNothing(w)
  \/ ValidateClaim(w) \/ BeginAnalysis(w) \/ ReadSource(w) \/ RecordAnalysis(w)
  \/ BeginRestoration(w) \/ RecordPage(w) \/ BeginValidation(w) \/ FinishProcessing(w)
  \/ MeetCancellation(w) \/ SnapshotCancelled(w) \/ FailProcessing(w)
  \/ LoseClaim(w) \/ ReleaseClaim(w)

ClientNext ==
  \/ \E j \in Job : CreateJob(j) \/ CreateAttempt(j) \/ CompleteReview(j) \/ ExpireJob(j)
  \/ Look

Next ==
  \/ \E w \in Worker : WorkerNext(w) \/ CrashWorker(w)
  \/ ClientNext
  \/ \E j \in Job : CancelJob(j)
  \/ Tick

Spec == Init /\ [][Next]_vars

\* No image operation outlasts the lease and no writer waits out the busy
\* timeout: time does not run a live lease out under a worker that is still at
\* work, nor take a waiting one its turn.  ADR 0009 discards the work otherwise,
\* and nothing then bounds how often.
PatientTick ==
  /\ \A w \in Worker :
       /\ worker[w].pc \in Claimed /\ Live(w) => queue[MyJob(w)].left > 1
       /\ At(w, "claiming") => worker[w].age < BusyTimeout
  /\ Tick

\* Worker threads run and the clock advances; clients, failures and crashes owe
\* nothing.
Fairness ==
  /\ \A w \in Worker : WF_vars(WorkerNext(w))
  /\ WF_vars(PatientTick)

PatientNext ==
  \/ \E w \in Worker : WorkerNext(w) \/ CrashWorker(w)
  \/ ClientNext
  \/ \E j \in Job : CancelJob(j)
  \/ PatientTick

UncancelledNext ==
  \/ \E w \in Worker : WorkerNext(w) \/ CrashWorker(w)
  \/ ClientNext
  \/ PatientTick

FairSpec == Init /\ [][PatientNext]_vars /\ Fairness

-------------------------------------------------------------------------------
(* Properties *)

\* Every variable holds a value of its type.
TypeOK ==
  /\ jobs \in [Job -> JobRecord]
  /\ queue \in [Job -> Row]
  /\ ahead \in [Job -> SUBSET Job]
  /\ worker \in [Worker -> WorkerState]
  /\ phase \in 0..(Resolution - 1)
  /\ crashes \in 0..MaxCrash
  /\ \A w \in Worker : worker[w].pc \in {"reading", "inspecting"} => worker[w].todo # 0

\* The work queue is the projection of the jobs that the reload verifies and
\* fails closed on (queue_record_missing, unexpected_queue_record,
\* queue_attempt_mismatch): a job has a row exactly while it is active, under
\* its current attempt, and a job without a row has no lease.
QueueReflectsJobs ==
  \A j \in Job :
    /\ Active(jobs[j]) => queue[j].attempt = jobs[j].attempt /\ queue[j].attempt # 0
    /\ ~Active(jobs[j]) => queue[j] = NoRow

\* Worker w's claim is in the queue, whether or not it has expired.
Holds(w) ==
  LET c == worker[w] IN
  /\ c.job \in Job
  /\ c.token # NoToken
  /\ queue[c.job].attempt = c.attempt
  /\ queue[c.job].token = c.token

\* The states a job may be in while a worker that holds it is at pc.
StatesAt(pc) ==
  CASE pc = "start" -> QueuedStates
    [] pc \in {"reading", "inspecting", "analyzed"} -> {"ANALYZING"}
    [] pc = "restoring" -> {"PROCESSING"}
    [] pc = "validating" -> {"VALIDATING"}
    [] pc = "stopping" -> {"ANALYZING", "PROCESSING", "VALIDATING"}
    [] OTHER -> ActiveWorkStates

\* Fencing (ADR 0009, decisions 1 to 5): as long as its claim is in the queue, a
\* worker finds the job's current attempt exactly where its own last block left
\* it, whatever other workers, clients, crashes and expired leases did between
\* two of its blocks.  A stale worker that could still write would break it for
\* the worker that took the job over.
HolderInStep ==
  \A w \in Worker :
    Holds(w) =>
      /\ worker[w].attempt = jobs[MyJob(w)].attempt
      /\ jobs[MyJob(w)].state \in StatesAt(worker[w].pc)

\* The refinement mapping to the lifecycle a client of the API sees.
Lifecycle == INSTANCE JobLifecycle
  WITH life <- [j \in Job |-> PhaseOf(jobs[j].state)],
       attempt <- [j \in Job |-> jobs[j].attempt]

\* The queue, the workers, leases, crashes and recoveries implement the
\* lifecycle: in particular an attempt is settled at most once, and a job
\* leaves a settled phase only by a retry or by expiry.
RefinesLifecycle == Lifecycle!Spec

\* Row j loses an unexpired lease otherwise than by the release of its own
\* worker or together with the row itself.
Stolen(j) ==
  /\ Unexpired(queue[j])
  /\ queue'[j].token # queue[j].token
  /\ Active(jobs'[j])
  /\ ~\E w \in Worker : Holds(w) /\ MyJob(w) = j /\ At(w, "releasing")

\* docs/durable-local-persistence.md: "An active lease cannot be stolen."  The
\* textual comparison of claim_next_job takes a lease that ends within the
\* second of a whole-second clock reading for expired.
LeaseNotStolen == [][~\E j \in Job : Stolen(j)]_vars

\* What the code does keep of that sentence: across claims that read the clock
\* before they wait, sweeps that compare texts, renewals, rewrites of the table,
\* lapses, crashes and recoveries, nobody takes a lease that has a second or
\* more to run.
LeaseKeptToTheSecond ==
  [][\A j \in Job : queue[j].left >= Resolution => ~Stolen(j)]_vars

\* ADR 0009, decision 7: "Completion, failure, cancellation, review readiness,
\* and expiry remove the work-queue row."
CancellationTakesEffect ==
  \A j \in Job : Active(jobs[j]) /\ jobs[j].cancel ~> ~Active(jobs[j])
==============================================================================
