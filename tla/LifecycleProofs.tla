---------------------------- MODULE LifecycleProofs ----------------------------
(***************************************************************************)
(* WorkQueue implements JobLifecycle, for every instance.  Each block of a *)
(* client or a worker changes one job, so it is one step of that job's     *)
(* lifecycle, or none: what decides which is the state the job is in, and  *)
(* for a worker's block the fence (HolderInStep) is what tells it.         *)
(***************************************************************************)
EXTENDS WorkQueueProofs

\* The states no block leaves a job in: a review passes through APPROVED and
\* EXPORTING within one transaction, and nothing rejects a job as a whole.
Passing == {"APPROVED", "EXPORTING", "REJECTED"}

\* A job is at rest in a state the lifecycle knows, and an id no job was stored
\* under has had no attempt.
AtRest ==
  \A j \in Job : /\ jobs[j].state \notin Passing
                 /\ jobs[j].state = "NONE" => jobs[j].attempt = 0

\* The invariant the refinement rests on.
RInv == IInv /\ AtRest

\* The abstract state of the jobs js.
LifeOf(js) == [j \in Job |-> PhaseOf(js[j].state)]
AttemptOf(js) == [j \in Job |-> js[j].attempt]

-------------------------------------------------------------------------------
(* Steps of one job *)

\* Writing one job's record moves that job alone in the abstract state.
LEMMA OneJob ==
  ASSUME jobs \in [Job -> JobRecord], NEW j \in Job, NEW r \in JobRecord,
         jobs' = [jobs EXCEPT ![j] = r]
  PROVE  /\ LifeOf(jobs)' = [LifeOf(jobs) EXCEPT ![j] = PhaseOf(r.state)]
         /\ AttemptOf(jobs)' = [AttemptOf(jobs) EXCEPT ![j] = r.attempt]
         /\ LifeOf(jobs)[j] = PhaseOf(jobs[j].state)
         /\ AttemptOf(jobs)[j] = jobs[j].attempt
<1>1. \A k \in Job : jobs'[k] = IF k = j THEN r ELSE jobs[k]
  OBVIOUS
<1>2. LifeOf(jobs)' = [k \in Job |-> IF k = j THEN PhaseOf(r.state) ELSE LifeOf(jobs)[k]]
  BY <1>1 DEF LifeOf
<1>3. AttemptOf(jobs)' = [k \in Job |-> IF k = j THEN r.attempt ELSE AttemptOf(jobs)[k]]
  BY <1>1 DEF AttemptOf
<1> QED BY <1>2, <1>3 DEF LifeOf, AttemptOf

\* A job that changes its state within its attempt moves in the lifecycle.
LEMMA Moves ==
  ASSUME jobs \in [Job -> JobRecord], NEW j \in Job, NEW r \in JobRecord,
         jobs' = [jobs EXCEPT ![j] = r],
         r.attempt = jobs[j].attempt,
         NEW from, PhaseOf(jobs[j].state) \in from
  PROVE  Lifecycle!Move(j, from, PhaseOf(r.state))
<1>1. AttemptOf(jobs)' = AttemptOf(jobs)
  BY OneJob DEF AttemptOf
<1> QED BY <1>1, OneJob DEF Lifecycle!Move, LifeOf, AttemptOf

\* A job stored or retried opens its next attempt.
LEMMA Opens ==
  ASSUME jobs \in [Job -> JobRecord], NEW j \in Job, NEW r \in JobRecord,
         jobs' = [jobs EXCEPT ![j] = r],
         jobs[j].attempt < MaxAttempt, r.attempt = jobs[j].attempt + 1,
         r.state \in QueuedStates,
         NEW from, PhaseOf(jobs[j].state) \in from
  PROVE  Lifecycle!Open(j, from)
<1>1. PhaseOf(r.state) = "waiting"
  BY DEF PhaseOf, QueuedStates
<1> QED BY <1>1, OneJob DEF Lifecycle!Open, LifeOf, AttemptOf

\* A job that keeps its phase and its attempt stutters.
LEMMA Stutters ==
  ASSUME jobs \in [Job -> JobRecord], NEW j \in Job, NEW r \in JobRecord,
         jobs' = [jobs EXCEPT ![j] = r],
         r.attempt = jobs[j].attempt, PhaseOf(r.state) = PhaseOf(jobs[j].state)
  PROVE  UNCHANGED Lifecycle!lifeVars
BY OneJob DEF Lifecycle!lifeVars, LifeOf, AttemptOf

\* A step that leaves the jobs alone stutters.
LEMMA SameJobs ==
  ASSUME jobs' = jobs
  PROVE  UNCHANGED Lifecycle!lifeVars
BY DEF Lifecycle!lifeVars

\* What a step that writes one job's record owes the invariant.
LEMMA StaysAtRest ==
  ASSUME jobs \in [Job -> JobRecord], AtRest, NEW j \in Job, NEW r \in JobRecord,
         jobs' = [jobs EXCEPT ![j] = r],
         r.state \notin Passing \cup {"NONE"}
  PROVE  AtRest'
<1>1. \A k \in Job : jobs'[k] = IF k = j THEN r ELSE jobs[k]
  OBVIOUS
<1> QED BY <1>1 DEF AtRest

\* A step of the lifecycle or none, that leaves the jobs at rest.
LifeStep == (Lifecycle!Next \/ UNCHANGED Lifecycle!lifeVars) /\ AtRest'

\* A step that leaves the jobs alone is none.
LEMMA NoLifeStep ==
  ASSUME AtRest, jobs' = jobs
  PROVE  LifeStep
<1>1. AtRest'
  BY DEF AtRest
<1> QED BY <1>1, SameJobs DEF LifeStep

\* Setting a job's state writes one record.
LEMMA SetStateRecord ==
  ASSUME jobs \in [Job -> JobRecord], NEW j \in Job, NEW s \in JobState,
         jobs' = SetState(j, s)
  PROVE  \E r \in JobRecord : /\ jobs' = [jobs EXCEPT ![j] = r]
                              /\ r.state = s /\ r.attempt = jobs[j].attempt
<1> DEFINE r == [jobs[j] EXCEPT !.state = s]
<1>1. jobs[j] \in JobRecord
  OBVIOUS
<1>2. r \in JobRecord /\ r.state = s /\ r.attempt = jobs[j].attempt
  BY <1>1 DEF JobRecord
<1>3. jobs' = [jobs EXCEPT ![j] = r]
  BY DEF SetState
<1> QED BY <1>2, <1>3

-------------------------------------------------------------------------------
(* The steps of the queue *)

\* Storing, retrying, reviewing, expiring and cancelling a job.
LEMMA ClientLife ==
  ASSUME RInv, ClientNext \/ \E j \in Job : CancelJob(j)
  PROVE  LifeStep
<1>t. jobs \in [Job -> JobRecord] /\ AtRest
  BY DEF RInv, IInv, TypeOK
<1>1. ASSUME NEW j \in Job, CreateJob(j) PROVE LifeStep
  <2> DEFINE r == [state |-> "UPLOADED", attempt |-> 1, cancel |-> FALSE]
  <2>1. r \in JobRecord /\ r.attempt = jobs[j].attempt + 1 /\ jobs[j].attempt < MaxAttempt
    BY <1>1, <1>t, QueueAssumption DEF CreateJob, AtRest, JobRecord, JobState
  <2>2. jobs' = [jobs EXCEPT ![j] = r]
    BY <1>1 DEF CreateJob, Commit
  <2>3. PhaseOf(jobs[j].state) \in {"none"}
    BY <1>1 DEF CreateJob, PhaseOf, QueuedStates, ActiveWorkStates
  <2>4. r.state \in QueuedStates /\ r.state \notin Passing \cup {"NONE"}
    BY DEF QueuedStates, Passing
  <2> HIDE DEF r
  <2>5. Lifecycle!Submit(j)
    BY <1>t, <2>1, <2>2, <2>3, <2>4, Opens DEF Lifecycle!Submit
  <2>6. AtRest'
    BY <1>t, <2>1, <2>2, <2>4, StaysAtRest
  <2> QED BY <2>5, <2>6 DEF LifeStep, Lifecycle!Next
<1>2. ASSUME NEW j \in Job, CreateAttempt(j) PROVE LifeStep
  <2> DEFINE r == [state |-> "READY_FOR_PROCESSING", attempt |-> jobs[j].attempt + 1,
                   cancel |-> FALSE]
  <2>1. jobs[j].attempt \in 0..MaxAttempt /\ jobs[j].attempt < MaxAttempt
    BY <1>2, <1>t DEF CreateAttempt, JobRecord
  <2>2. r \in JobRecord
    BY <2>1, QueueAssumption DEF JobRecord, JobState
  <2>3. jobs' = [jobs EXCEPT ![j] = r]
    BY <1>2 DEF CreateAttempt, Commit
  <2>4. PhaseOf(jobs[j].state) \in {"review", "completed", "failed", "cancelled"}
    BY <1>2, <1>t DEF CreateAttempt, RetryableStates, PhaseOf, QueuedStates,
                      ActiveWorkStates, AtRest, Passing
  <2>5. r.state \in QueuedStates /\ r.state \notin Passing \cup {"NONE"}
        /\ r.attempt = jobs[j].attempt + 1
    BY DEF QueuedStates, Passing
  <2> HIDE DEF r
  <2>6. Lifecycle!Retry(j)
    BY <1>t, <2>1, <2>2, <2>3, <2>4, <2>5, Opens DEF Lifecycle!Retry
  <2>7. AtRest'
    BY <1>t, <2>2, <2>3, <2>5, StaysAtRest
  <2> QED BY <2>6, <2>7 DEF LifeStep, Lifecycle!Next
<1>3. ASSUME NEW j \in Job, CompleteReview(j) PROVE LifeStep
  <2>1. jobs' = SetState(j, "COMPLETED") /\ jobs[j].state = "AWAITING_REVIEW"
    BY <1>3 DEF CompleteReview, Commit
  <2>2. PICK r \in JobRecord : /\ jobs' = [jobs EXCEPT ![j] = r]
                               /\ r.state = "COMPLETED" /\ r.attempt = jobs[j].attempt
    BY <1>t, <2>1, SetStateRecord DEF JobState
  <2>3. PhaseOf(jobs[j].state) \in {"review"} /\ PhaseOf(r.state) = "completed"
    BY <2>1, <2>2 DEF PhaseOf, QueuedStates, ActiveWorkStates
  <2>4. Lifecycle!Complete(j)
    BY <1>t, <2>2, <2>3, Moves DEF Lifecycle!Complete
  <2>5. AtRest'
    BY <1>t, <2>2, StaysAtRest DEF Passing
  <2> QED BY <2>4, <2>5 DEF LifeStep, Lifecycle!Next
<1>4. ASSUME NEW j \in Job, ExpireJob(j) PROVE LifeStep
  <2>1. jobs' = SetState(j, "EXPIRED") /\ jobs[j].state \notin {"NONE", "EXPIRED"}
    BY <1>4 DEF ExpireJob, Commit
  <2>2. PICK r \in JobRecord : /\ jobs' = [jobs EXCEPT ![j] = r]
                               /\ r.state = "EXPIRED" /\ r.attempt = jobs[j].attempt
    BY <1>t, <2>1, SetStateRecord DEF JobState
  <2>3. jobs[j].state \in JobState \ (Passing \cup {"NONE", "EXPIRED"})
    BY <1>t, <2>1 DEF AtRest, JobRecord
  <2>4. PhaseOf(jobs[j].state) \in Lifecycle!Phase \ {"none", "expired"}
    BY <2>3 DEF JobState, Passing, PhaseOf, QueuedStates, ActiveWorkStates, Lifecycle!Phase
  <2>5. PhaseOf(r.state) = "expired"
    BY <2>2 DEF PhaseOf, QueuedStates, ActiveWorkStates
  <2>6. Lifecycle!Expire(j)
    BY <1>t, <2>2, <2>4, <2>5, Moves DEF Lifecycle!Expire
  <2>7. AtRest'
    BY <1>t, <2>2, StaysAtRest DEF Passing
  <2> QED BY <2>6, <2>7 DEF LifeStep, Lifecycle!Next
<1>5. ASSUME NEW j \in Job, CancelJob(j) PROVE LifeStep
  <2> DEFINE s == IF jobs[j].state \in CancelledAtOnceStates THEN "CANCELLED"
                  ELSE jobs[j].state
             r == [state |-> s, attempt |-> jobs[j].attempt, cancel |-> TRUE]
  <2>1. jobs' = [jobs EXCEPT ![j] = r]
    BY <1>5 DEF CancelJob, Commit
  <2>2. s \in JobState /\ s \notin Passing \cup {"NONE"}
    BY <1>5, <1>t DEF CancelJob, AtRest, JobRecord, JobState, Passing
  <2>3. jobs[j].attempt \in 0..MaxAttempt
    BY <1>t DEF JobRecord
  <2>4. PhaseOf(s) = PhaseOf(jobs[j].state)
        \/ /\ PhaseOf(jobs[j].state) \in {"waiting", "review"}
           /\ PhaseOf(s) = "cancelled"
    <3>1. CASE jobs[j].state \in CancelledAtOnceStates
      BY <3>1 DEF PhaseOf, CancelledAtOnceStates, QueuedStates, ActiveWorkStates
    <3>2. CASE jobs[j].state \notin CancelledAtOnceStates
      BY <3>2
    <3> QED BY <3>1, <3>2
  <2> HIDE DEF s
  <2>5. r \in JobRecord /\ r.state = s /\ r.attempt = jobs[j].attempt
    BY <2>2, <2>3 DEF JobRecord
  <2> HIDE DEF r
  <2>6. Lifecycle!Cancel(j) \/ UNCHANGED Lifecycle!lifeVars
    BY <1>t, <2>1, <2>4, <2>5, Moves, Stutters DEF Lifecycle!Cancel
  <2>7. AtRest'
    BY <1>t, <2>1, <2>2, <2>5, StaysAtRest
  <2> QED BY <2>6, <2>7 DEF LifeStep, Lifecycle!Next
<1>6. ASSUME Look PROVE LifeStep
  BY <1>6, <1>t, NoLifeStep DEF Look, Commit
<1> QED BY <1>1, <1>2, <1>3, <1>4, <1>5, <1>6 DEF ClientNext

\* A worker's block that sets the state of its job: the fence says from which.
LEMMA BlockLife ==
  ASSUME RInv, NEW w \in Worker, NEW s \in JobState, s \notin Passing,
         WorkerCommit(w, SetState(MyJob(w), s)),
         NEW from, PhaseOf(jobs[MyJob(w)].state) \in from
  PROVE  /\ AtRest'
         /\ Lifecycle!Move(MyJob(w), from, PhaseOf(s))
         /\ PhaseOf(s) = PhaseOf(jobs[MyJob(w)].state) => UNCHANGED Lifecycle!lifeVars
<1>t. jobs \in [Job -> JobRecord] /\ AtRest /\ IInv
  BY DEF RInv, IInv, TypeOK
<1>1. MyJob(w) \in Job /\ jobs' = SetState(MyJob(w), s)
  BY DEF WorkerCommit, Live, Commit, MyJob
<1>2. PICK r \in JobRecord : /\ jobs' = [jobs EXCEPT ![MyJob(w)] = r]
                             /\ r.state = s /\ r.attempt = jobs[MyJob(w)].attempt
  BY <1>t, <1>1, SetStateRecord
<1>3. s # "NONE"
  BY DEF JobState
<1>4. AtRest'
  BY <1>t, <1>1, <1>2, <1>3, StaysAtRest
<1>5. Lifecycle!Move(MyJob(w), from, PhaseOf(s))
  BY <1>t, <1>1, <1>2, Moves
<1>6. PhaseOf(s) = PhaseOf(jobs[MyJob(w)].state) => UNCHANGED Lifecycle!lifeVars
  BY <1>t, <1>1, <1>2, Stutters
<1> QED BY <1>4, <1>5, <1>6

\* The blocks of the pipeline.
LEMMA WorkerLife ==
  ASSUME RInv, NEW w \in Worker, WorkerNext(w) \/ CrashWorker(w)
  PROVE  LifeStep
<1> DEFINE i == MyJob(w)
<1>t. IInv /\ AtRest
  BY DEF RInv
<1>l. Live(w) => /\ i \in Job /\ jobs[i].state \in ActiveWorkStates
                 /\ jobs[i].state \in StatesAt(worker[w].pc)
  BY <1>t, LiveInStep DEF Active
<1>js. /\ {"READY_FOR_PROCESSING", "ANALYZING", "PROCESSING", "VALIDATING",
           "AWAITING_REVIEW", "FAILED"} \subseteq JobState
       /\ \A s \in {"READY_FOR_PROCESSING", "ANALYZING", "PROCESSING", "VALIDATING",
                    "AWAITING_REVIEW", "FAILED"} : s \notin Passing
  BY DEF JobState, Passing
<1>ph. /\ \A s \in QueuedStates : PhaseOf(s) = "waiting"
       /\ \A s \in ActiveWorkStates \ QueuedStates : PhaseOf(s) = "running"
       /\ PhaseOf("AWAITING_REVIEW") = "review"
       /\ PhaseOf("FAILED") = "failed"
       /\ "READY_FOR_PROCESSING" \in QueuedStates
       /\ {"ANALYZING", "PROCESSING", "VALIDATING"} \subseteq ActiveWorkStates \ QueuedStates
  BY DEF PhaseOf, QueuedStates, ActiveWorkStates
<1>s. ASSUME WorkerCommit(w, jobs) PROVE LifeStep
  BY <1>s, <1>t, NoLifeStep DEF WorkerCommit, Commit
<1>1. CASE ValidateClaim(w)
  <2>1. CASE jobs[i].state \in QueuedStates
    BY <1>1, <1>s, <2>1 DEF ValidateClaim
  <2>2. CASE jobs[i].state \notin QueuedStates
    <3>1. WorkerCommit(w, SetState(i, "READY_FOR_PROCESSING"))
      BY <1>1, <2>2 DEF ValidateClaim
    <3>2. i \in Job /\ PhaseOf(jobs[i].state) \in {"running"}
      BY <1>l, <1>ph, <2>2, <3>1 DEF WorkerCommit
    <3>3. Lifecycle!Recover(i) /\ AtRest'
      BY <1>js, <1>ph, <3>1, <3>2, BlockLife DEF Lifecycle!Recover
    <3> QED BY <3>2, <3>3 DEF LifeStep, Lifecycle!Next
  <2> QED BY <2>1, <2>2
<1>2. CASE BeginAnalysis(w)
  <2>1. WorkerCommit(w, SetState(i, "ANALYZING")) /\ jobs[i].state \in QueuedStates
    BY <1>2 DEF BeginAnalysis, Proceed
  <2>2. i \in Job /\ PhaseOf(jobs[i].state) \in {"waiting"}
    BY <1>l, <1>ph, <2>1 DEF WorkerCommit
  <2>3. Lifecycle!Begin(i) /\ AtRest'
    BY <1>js, <1>ph, <2>1, <2>2, BlockLife DEF Lifecycle!Begin
  <2> QED BY <2>2, <2>3 DEF LifeStep, Lifecycle!Next
<1>3. ASSUME NEW s \in {"PROCESSING", "VALIDATING"}, WorkerCommit(w, SetState(i, s)),
             jobs[i].state \in ActiveWorkStates \ QueuedStates
      PROVE  LifeStep
  <2>1. s \in JobState /\ s \notin Passing
    BY <1>js
  <2>2. PhaseOf(s) = PhaseOf(jobs[i].state)
    BY <1>3, <1>ph
  <2>3. UNCHANGED Lifecycle!lifeVars /\ AtRest'
    BY <1>3, <2>1, <2>2, BlockLife
  <2> QED BY <2>3 DEF LifeStep
<1>4. CASE BeginRestoration(w) \/ BeginValidation(w)
  <2>1. PICK s \in {"PROCESSING", "VALIDATING"} : WorkerCommit(w, SetState(i, s))
    BY <1>4 DEF BeginRestoration, BeginValidation, Proceed
  <2>2. jobs[i].state \in {"ANALYZING", "PROCESSING"}
    BY <1>4, <1>l, <2>1 DEF BeginRestoration, BeginValidation, At, StatesAt, WorkerCommit
  <2> QED BY <1>3, <1>ph, <2>1, <2>2
<1>5. CASE FinishProcessing(w)
  <2>1. WorkerCommit(w, SetState(i, "AWAITING_REVIEW"))
    BY <1>5 DEF FinishProcessing, Proceed
  <2>2. i \in Job /\ PhaseOf(jobs[i].state) \in {"running"}
    BY <1>5, <1>l, <1>ph, <2>1 DEF FinishProcessing, At, StatesAt, WorkerCommit
  <2>3. Lifecycle!Deliver(i) /\ AtRest'
    BY <1>js, <1>ph, <2>1, <2>2, BlockLife DEF Lifecycle!Deliver
  <2> QED BY <2>2, <2>3 DEF LifeStep, Lifecycle!Next
<1>6. CASE FailProcessing(w)
  <2>1. WorkerCommit(w, SetState(i, "FAILED"))
    BY <1>6 DEF FailProcessing
  <2>2. jobs[i].state \in {"ANALYZING", "PROCESSING", "VALIDATING"} /\ i \in Job
    BY <1>6, <1>l, <2>1 DEF FailProcessing, TryStep, StatesAt, WorkerCommit
  <2>3. PhaseOf(jobs[i].state) \in {"running"}
    BY <1>ph, <2>2
  <2>4. Lifecycle!Fail(i) /\ AtRest'
    BY <1>js, <1>ph, <2>1, <2>3, BlockLife DEF Lifecycle!Fail
  <2> QED BY <2>2, <2>4 DEF LifeStep, Lifecycle!Next
<1>7. CASE ReadSource(w) \/ RecordAnalysis(w) \/ RecordPage(w) \/ SnapshotCancelled(w)
  BY <1>7, <1>s DEF ReadSource, RecordAnalysis, RecordPage, SnapshotCancelled, Proceed
<1>8. CASE \/ Poll(w) \/ ClaimNext(w) \/ ClaimNothing(w) \/ MeetCancellation(w)
           \/ LoseClaim(w) \/ ReleaseClaim(w) \/ CrashWorker(w)
  <2>1. jobs' = jobs
    BY <1>8 DEF Poll, ClaimNext, ClaimNothing, MeetCancellation, LoseClaim,
                ReleaseClaim, CrashWorker, Rollback
  <2> QED BY <1>t, <2>1, NoLifeStep
<1> QED BY <1>1, <1>2, <1>4, <1>5, <1>6, <1>7, <1>8 DEF WorkerNext

-------------------------------------------------------------------------------
(* The refinement *)

\* The jobs of the initial state are those of the lifecycle's.
LEMMA InitLife == Init => Lifecycle!Init /\ AtRest
<1> SUFFICES ASSUME Init PROVE Lifecycle!Init /\ AtRest
  OBVIOUS
<1>1. \A j \in Job : jobs[j].state = "NONE" /\ jobs[j].attempt = 0
  BY DEF Init, NoRecord
<1>2. PhaseOf("NONE") = "none"
  BY DEF PhaseOf, QueuedStates, ActiveWorkStates
<1> QED BY <1>1, <1>2 DEF Lifecycle!Init, AtRest, Passing

\* Every step of the queue is a step of the lifecycle or none.
LEMMA NextLife == RInv /\ [Next]_vars => [Lifecycle!Next]_Lifecycle!lifeVars /\ RInv'
<1> SUFFICES ASSUME RInv, [Next]_vars PROVE LifeStep
  BY NextInv DEF LifeStep, RInv
<1>1. CASE UNCHANGED vars
  BY <1>1, NoLifeStep DEF vars, RInv
<1>2. CASE Tick
  BY <1>2, NoLifeStep DEF Tick, RInv
<1> QED BY <1>1, <1>2, ClientLife, WorkerLife DEF Next

\* The queue, its leases, crashes and recoveries implement the lifecycle of the
\* jobs, whatever their number and that of the workers.
THEOREM Refinement == Spec => RefinesLifecycle
<1>1. Init => Lifecycle!Init /\ RInv
  BY InitLife, InitInv DEF RInv
<1> QED BY <1>1, NextLife, PTL DEF Spec, RefinesLifecycle, Lifecycle!Spec
==============================================================================
