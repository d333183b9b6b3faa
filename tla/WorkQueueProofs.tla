--------------------------- MODULE WorkQueueProofs ---------------------------
(***************************************************************************)
(* Proofs about WorkQueue for every set of jobs, workers and tokens and    *)
(* every value of the bounds.                                              *)
(***************************************************************************)
EXTENDS WorkQueue, TLAPS

\* No two workers know one token and no two rows hold one.  That a drawn token is
\* new is an assumption of the model (FreshTokens); that lapses, recoveries and
\* rewrites of the table spread none is what the invariant needs.
TokensUnshared ==
  /\ \A w, v \in Worker :
       w # v /\ worker[w].token = worker[v].token => worker[w].token = NoToken
  /\ \A j, k \in Job :
       j # k /\ queue[j].token = queue[k].token => queue[j].token = NoToken

\* The inductive invariant.  HolderInStep needs the other three: a stale worker
\* is told from the holder by a token nobody else has, and a claim for an old
\* attempt from the current one by the attempt in the row.
IInv == TypeOK /\ QueueReflectsJobs /\ TokensUnshared /\ HolderInStep

\* The parts of IInv that speak of claims.
ClaimInv == QueueReflectsJobs /\ TokensUnshared /\ HolderInStep

-------------------------------------------------------------------------------
(* What a transaction leaves in the tables *)

\* A transaction with well-typed jobs and rows leaves well-typed tables.
LEMMA CommitTyped ==
  ASSUME TypeOK, NEW js \in [Job -> JobRecord], NEW q \in [Job -> Row], Commit(js, q)
  PROVE  /\ jobs' \in [Job -> JobRecord]
         /\ queue' \in [Job -> Row]
         /\ ahead' \in [Job -> SUBSET Job]
<1>1. NoRow \in Row
  BY QueueAssumption DEF NoRow, Row, LeaseFloor
<1>2. \A a \in 0..MaxAttempt : Unleased(a) \in Row
  BY QueueAssumption DEF Unleased, Row, LeaseFloor
<1>3. \A j \in Job : js[j].attempt \in 0..MaxAttempt
  BY DEF JobRecord
<1>4. queue' \in [Job -> Row]
  BY <1>1, <1>2, <1>3 DEF Commit, Flushed
<1>5. ahead' \in [Job -> SUBSET Job]
  BY DEF Commit, Reordered, Kept, TypeOK
<1> QED BY <1>4, <1>5 DEF Commit

\* What a transaction writes in one row.
LEMMA CommitRow ==
  ASSUME NEW js \in [Job -> JobRecord], NEW q \in [Job -> Row], Commit(js, q), NEW j \in Job
  PROVE  /\ ~Active(js[j]) => queue'[j] = NoRow
         /\ Active(js[j]) => queue'[j].attempt = js[j].attempt
         /\ queue'[j].token # NoToken => queue'[j] = q[j] /\ Active(js[j])
<1>1. queue'[j] = IF ~Active(js[j]) THEN NoRow
                  ELSE IF q[j].attempt = js[j].attempt /\ Unexpired(q[j]) THEN q[j]
                  ELSE Unleased(js[j].attempt)
  BY DEF Commit, Flushed
<1> QED BY <1>1 DEF NoRow, Unleased

\* Renewal changes nothing of a row but the time it has left.
LEMMA RenewedRow ==
  ASSUME TypeOK, NEW w \in Worker, Live(w)
  PROVE  /\ Renewed(w) \in [Job -> Row]
         /\ \A j \in Job : /\ Renewed(w)[j].attempt = queue[j].attempt
                           /\ Renewed(w)[j].token = queue[j].token
<1>1. MyJob(w) \in Job
  BY DEF Live, MyJob
<1>2. Lease \in LeaseFloor..Lease
  BY QueueAssumption DEF LeaseFloor
<1>3. queue[MyJob(w)] \in Row
  BY <1>1 DEF TypeOK
<1>4. [queue[MyJob(w)] EXCEPT !.left = Lease] \in Row
  BY <1>2, <1>3 DEF Row
<1> QED BY <1>1, <1>3, <1>4 DEF Renewed, MyJob, TypeOK, Row

-------------------------------------------------------------------------------
(* The claim invariants across a transaction *)

\* A client's transaction leaves every holder in step: the jobs it makes active
\* are under an attempt the queue has not seen, and it settles the others.
LEMMA ClientKeepsClaims ==
  ASSUME IInv,
         NEW js \in [Job -> JobRecord],
         Commit(js, queue),
         worker' = worker,
         \A j \in Job : Active(js[j]) =>
           \/ js[j].state = jobs[j].state /\ js[j].attempt = jobs[j].attempt
           \/ js[j].attempt # queue[j].attempt /\ js[j].attempt # 0
  PROVE  ClaimInv'
<1> USE DEF IInv
<1>q. queue \in [Job -> Row]
  BY DEF TypeOK
<1>row. \A j \in Job :
          /\ ~Active(js[j]) => queue'[j] = NoRow
          /\ Active(js[j]) => queue'[j].attempt = js[j].attempt
          /\ queue'[j].token # NoToken => queue'[j] = queue[j] /\ Active(js[j])
  BY <1>q, CommitRow
<1>j. jobs' = js
  BY DEF Commit
<1>1. QueueReflectsJobs'
  BY <1>row, <1>j DEF QueueReflectsJobs, Active
<1>2. TokensUnshared'
  BY <1>row DEF TokensUnshared
<1>3. ASSUME NEW w \in Worker, Holds(w)'
      PROVE  /\ worker[w].attempt = js[MyJob(w)].attempt
             /\ js[MyJob(w)].state \in StatesAt(worker[w].pc)
  <2> DEFINE j == MyJob(w)
  <2>1. j \in Job /\ queue'[j].token = worker[w].token /\ queue'[j].token # NoToken
        /\ queue'[j].attempt = worker[w].attempt
    BY <1>3 DEF Holds, MyJob
  <2>2. queue'[j] = queue[j] /\ Active(js[j]) /\ queue'[j].attempt = js[j].attempt
    BY <2>1, <1>row
  <2>3. Holds(w)
    BY <2>1, <2>2 DEF Holds, MyJob
  <2>4. js[j].state = jobs[j].state
    BY <2>1, <2>2
  <2>5. jobs[j].state \in StatesAt(worker[w].pc)
    BY <2>3 DEF HolderInStep
  <2> QED BY <2>1, <2>2, <2>4, <2>5
<1>4. HolderInStep'
  BY <1>3, <1>j DEF HolderInStep, MyJob
<1> QED BY <1>1, <1>2, <1>4 DEF ClaimInv

\* A fenced transaction leaves every holder in step if it leaves its own worker
\* in step: whoever else holds a claim holds it on another job.
LEMMA WorkerKeepsClaims ==
  ASSUME IInv,
         NEW w \in Worker,
         NEW js \in [Job -> JobRecord],
         WorkerCommit(w, js),
         \A j \in Job : j # MyJob(w) => js[j] = jobs[j],
         js[MyJob(w)].attempt = jobs[MyJob(w)].attempt,
         NEW new,
         worker' = [worker EXCEPT ![w] = new],
         new.job = worker[w].job, new.attempt = worker[w].attempt,
         new.token = worker[w].token,
         Active(js[MyJob(w)]) => js[MyJob(w)].state \in StatesAt(new.pc)
  PROVE  ClaimInv'
<1> USE DEF IInv
<1> DEFINE i == MyJob(w)
<1>l. Live(w) /\ Commit(js, Renewed(w))
  BY DEF WorkerCommit
<1>i. i \in Job /\ queue[i].token = worker[w].token /\ worker[w].token # NoToken
      /\ queue[i].attempt = worker[w].attempt
  BY <1>l DEF Live, MyJob, Unexpired
<1>h. Holds(w)
  BY <1>i DEF Holds, MyJob
<1>q. /\ Renewed(w) \in [Job -> Row]
      /\ \A j \in Job : /\ Renewed(w)[j].attempt = queue[j].attempt
                        /\ Renewed(w)[j].token = queue[j].token
  BY <1>l, RenewedRow
<1>row. \A j \in Job :
          /\ ~Active(js[j]) => queue'[j] = NoRow
          /\ Active(js[j]) => queue'[j].attempt = js[j].attempt
          /\ queue'[j].token # NoToken =>
               /\ queue'[j].token = queue[j].token
               /\ queue'[j].attempt = queue[j].attempt
               /\ Active(js[j])
  BY <1>l, <1>q, CommitRow
<1>j. jobs' = js
  BY <1>l DEF Commit
<1>a. jobs[i].attempt # 0 /\ jobs[i].attempt = worker[w].attempt /\ Active(jobs[i])
  BY <1>h, <1>i DEF HolderInStep, QueueReflectsJobs, NoRow
<1>w. \A v \in Worker : /\ worker'[v].job = worker[v].job
                        /\ worker'[v].attempt = worker[v].attempt
                        /\ worker'[v].token = worker[v].token
                        /\ v # w => worker'[v].pc = worker[v].pc
  BY DEF TypeOK
<1>1. QueueReflectsJobs'
  BY <1>row, <1>j, <1>a, <1>i DEF QueueReflectsJobs, Active
<1>2. TokensUnshared'
  BY <1>row, <1>w DEF TokensUnshared
<1>3. ASSUME NEW v \in Worker, Holds(v)'
      PROVE  /\ worker'[v].attempt = js[MyJob(v)].attempt
             /\ js[MyJob(v)].state \in StatesAt(worker'[v].pc)
  <2> DEFINE k == MyJob(v)
  <2>1. k \in Job /\ queue'[k].token = worker[v].token /\ queue'[k].token # NoToken
        /\ queue'[k].attempt = worker[v].attempt
    BY <1>3, <1>w DEF Holds, MyJob
  <2>2. queue[k].token = worker[v].token /\ queue[k].attempt = worker[v].attempt
        /\ Active(js[k]) /\ queue'[k].attempt = js[k].attempt
    BY <2>1, <1>row
  <2>3. worker'[v].attempt = js[k].attempt
    BY <2>1, <2>2, <1>w
  <2>4. CASE v = w
    <3>1. worker'[v].pc = new.pc
      BY <2>4 DEF TypeOK
    <3> QED BY <2>2, <2>3, <2>4, <3>1
  <2>5. CASE v # w
    <3>1. k # i
      BY <2>1, <2>2, <2>5, <1>i DEF TokensUnshared
    <3>2. Holds(v)
      BY <2>1, <2>2 DEF Holds, MyJob
    <3>3. jobs[k].state \in StatesAt(worker[v].pc)
      BY <3>2 DEF HolderInStep
    <3> QED BY <2>1, <2>3, <2>5, <3>1, <3>3, <1>w
  <2> QED BY <2>4, <2>5
<1>4. HolderInStep'
  BY <1>3, <1>j, <1>w DEF HolderInStep, MyJob
<1> QED BY <1>1, <1>2, <1>4 DEF ClaimInv

-------------------------------------------------------------------------------
(* The invariant across each kind of step *)

\* Goto is GotoLoop with the counter left alone.
LEMMA GotoIsGotoLoop ==
  ASSUME TypeOK, NEW w \in Worker, NEW pc, Goto(w, pc)
  PROVE  GotoLoop(w, pc, worker[w].todo)
<1>1. worker[w] \in WorkerState
  BY DEF TypeOK
<1>2. [worker[w] EXCEPT !.pc = pc]
        = [[worker[w] EXCEPT !.pc = pc] EXCEPT !.todo = worker[w].todo]
  BY <1>1 DEF WorkerState
<1> QED BY <1>2 DEF Goto, GotoLoop, TypeOK

\* GotoLoop keeps the claim of its worker and the type of every worker.
LEMMA GotoLoopTyped ==
  ASSUME TypeOK, NEW w \in Worker, NEW pc \in WorkerStep, NEW n \in 0..Pages,
         GotoLoop(w, pc, n),
         pc \in {"reading", "inspecting"} => n # 0
  PROVE  /\ worker' \in [Worker -> WorkerState]
         /\ \A v \in Worker :
              worker'[v].pc \in {"reading", "inspecting"} => worker'[v].todo # 0
         /\ \E new : /\ worker' = [worker EXCEPT ![w] = new]
                     /\ new.job = worker[w].job /\ new.attempt = worker[w].attempt
                     /\ new.token = worker[w].token /\ new.pc = pc
<1> DEFINE new == [[worker[w] EXCEPT !.pc = pc] EXCEPT !.todo = n]
<1>1. worker[w] \in WorkerState
  BY DEF TypeOK
<1>2. /\ new \in WorkerState /\ new.pc = pc /\ new.todo = n /\ new.job = worker[w].job
      /\ new.attempt = worker[w].attempt /\ new.token = worker[w].token
  BY <1>1 DEF WorkerState
<1>3. worker' = [worker EXCEPT ![w] = new]
  BY DEF GotoLoop, TypeOK
<1> HIDE DEF new
<1>4. worker' \in [Worker -> WorkerState]
  BY <1>2, <1>3 DEF TypeOK
<1>5. \A v \in Worker : worker'[v].pc \in {"reading", "inspecting"} => worker'[v].todo # 0
  BY <1>2, <1>3 DEF TypeOK
<1> QED BY <1>2, <1>3, <1>4, <1>5

\* A fenced block that sets its job to a state the next block expects.
LEMMA FencedBlock ==
  ASSUME IInv,
         NEW w \in Worker,
         NEW js \in [Job -> JobRecord],
         WorkerCommit(w, js),
         \A j \in Job : j # MyJob(w) => js[j] = jobs[j],
         js[MyJob(w)].attempt = jobs[MyJob(w)].attempt,
         NEW pc \in WorkerStep, NEW n \in 0..Pages,
         GotoLoop(w, pc, n),
         pc \in {"reading", "inspecting"} => n # 0,
         Untimed,
         Active(js[MyJob(w)]) => js[MyJob(w)].state \in StatesAt(pc)
  PROVE  IInv'
<1>0. TypeOK
  BY DEF IInv
<1>1. /\ worker' \in [Worker -> WorkerState]
      /\ \A v \in Worker : worker'[v].pc \in {"reading", "inspecting"} => worker'[v].todo # 0
  BY <1>0, GotoLoopTyped
<1>2. PICK new : /\ worker' = [worker EXCEPT ![w] = new]
                 /\ new.job = worker[w].job /\ new.attempt = worker[w].attempt
                 /\ new.token = worker[w].token /\ new.pc = pc
  BY <1>0, GotoLoopTyped
<1>3. ClaimInv'
  BY <1>2, WorkerKeepsClaims
<1>4. Live(w) /\ Commit(js, Renewed(w))
  BY DEF WorkerCommit
<1>5. Renewed(w) \in [Job -> Row]
  BY <1>0, <1>4, RenewedRow
<1>6. /\ jobs' \in [Job -> JobRecord]
      /\ queue' \in [Job -> Row]
      /\ ahead' \in [Job -> SUBSET Job]
  BY <1>0, <1>4, <1>5, CommitTyped
<1>7. TypeOK'
  BY <1>0, <1>1, <1>6 DEF TypeOK, Untimed
<1> QED BY <1>3, <1>7 DEF IInv, ClaimInv

\* A client's transaction.
LEMMA UnfencedBlock ==
  ASSUME IInv,
         NEW js \in [Job -> JobRecord],
         Commit(js, queue),
         worker' = worker, Untimed,
         \A j \in Job : Active(js[j]) =>
           \/ js[j].state = jobs[j].state /\ js[j].attempt = jobs[j].attempt
           \/ js[j].attempt # queue[j].attempt /\ js[j].attempt # 0
  PROVE  IInv'
<1>1. ClaimInv'
  BY ClientKeepsClaims
<1>2. queue \in [Job -> Row]
  BY DEF IInv, TypeOK
<1>3. /\ jobs' \in [Job -> JobRecord]
      /\ queue' \in [Job -> Row]
      /\ ahead' \in [Job -> SUBSET Job]
  BY <1>2, CommitTyped DEF IInv
<1>4. TypeOK'
  BY <1>3 DEF IInv, TypeOK, Untimed
<1> QED BY <1>1, <1>4 DEF IInv, ClaimInv

\* A rolled-back block, after which the worker gives the attempt up.
LEMMA RolledBackBlock ==
  ASSUME IInv, NEW w \in Worker, Rollback, Untimed,
         NEW pc \in {"releasing", "stopping"},
         GotoLoop(w, pc, 0),
         Holds(w) => jobs[MyJob(w)].state \in StatesAt(pc)
  PROVE  IInv'
<1>0. TypeOK
  BY DEF IInv
<1>p. pc \in WorkerStep /\ 0 \in 0..Pages /\ pc \notin {"reading", "inspecting"}
  BY QueueAssumption DEF WorkerStep, Claimed
<1>1. /\ worker' \in [Worker -> WorkerState]
      /\ \A v \in Worker : worker'[v].pc \in {"reading", "inspecting"} => worker'[v].todo # 0
  BY <1>0, <1>p, GotoLoopTyped
<1>2. PICK new : /\ worker' = [worker EXCEPT ![w] = new]
                 /\ new.job = worker[w].job /\ new.attempt = worker[w].attempt
                 /\ new.token = worker[w].token /\ new.pc = pc
  BY <1>0, <1>p, GotoLoopTyped
<1>3. \A v \in Worker : /\ worker'[v].job = worker[v].job
                        /\ worker'[v].attempt = worker[v].attempt
                        /\ worker'[v].token = worker[v].token
                        /\ worker'[v].pc = IF v = w THEN pc ELSE worker[v].pc
  BY <1>0, <1>2 DEF TypeOK
<1>4. TypeOK'
  BY <1>0, <1>1 DEF TypeOK, Untimed, Rollback
<1>5. QueueReflectsJobs' /\ TokensUnshared'
  BY <1>3 DEF IInv, QueueReflectsJobs, TokensUnshared, Rollback, Active
<1>6. HolderInStep'
  BY <1>3 DEF IInv, HolderInStep, Holds, MyJob, Rollback
<1> QED BY <1>4, <1>5, <1>6 DEF IInv

\* A worker that forgets its claim disturbs nobody.
LEMMA IdleTyped ==
  /\ Idle \in WorkerState
  /\ [Idle EXCEPT !.pc = "claiming"] \in WorkerState
<1>1. 0 \in 0..MaxAttempt /\ 0 \in 0..Pages /\ 0 \in 0..BusyTimeout
  BY QueueAssumption
<1> QED BY <1>1 DEF Idle, WorkerState, WorkerStep

\* Forgetting a claim, with rows that lose leases but gain none.
LEMMA ForgetfulStep ==
  ASSUME IInv, NEW w \in Worker, NEW new \in WorkerState,
         new.token = NoToken, new.pc \notin {"reading", "inspecting"},
         worker' = [worker EXCEPT ![w] = new],
         jobs' = jobs, ahead' = ahead, phase' = phase,
         crashes' \in 0..MaxCrash,
         queue' \in [Job -> Row],
         \A j \in Job : /\ queue'[j].attempt = queue[j].attempt
                        /\ queue'[j].token \in {queue[j].token, NoToken}
                        /\ queue'[j] = queue[j] \/ Active(jobs[j])
  PROVE  IInv'
<1>1. \A v \in Worker : worker'[v] = IF v = w THEN new ELSE worker[v]
  BY DEF IInv, TypeOK
<1>2. TypeOK'
  BY <1>1 DEF IInv, TypeOK
<1>3. QueueReflectsJobs'
  BY DEF IInv, QueueReflectsJobs, Active
<1>4. TokensUnshared'
  BY <1>1 DEF IInv, TokensUnshared
<1>5. HolderInStep'
  <2> SUFFICES ASSUME NEW v \in Worker, Holds(v)'
               PROVE  /\ worker'[v].attempt = jobs[worker'[v].job].attempt
                      /\ jobs[worker'[v].job].state \in StatesAt(worker'[v].pc)
    BY DEF HolderInStep, MyJob
  <2>1. v # w /\ worker'[v] = worker[v]
    BY <1>1 DEF Holds
  <2>2. Holds(v)
    BY <2>1 DEF Holds
  <2> QED BY <2>1, <2>2 DEF IInv, HolderInStep, MyJob
<1> QED BY <1>2, <1>3, <1>4, <1>5 DEF IInv

-------------------------------------------------------------------------------
(* The invariant across each action *)

\* Setting one job's state gives well-typed jobs that differ there alone.
LEMMA SetStateTyped ==
  ASSUME TypeOK, NEW j \in Job, NEW s \in JobState
  PROVE  /\ SetState(j, s) \in [Job -> JobRecord]
         /\ SetState(j, s)[j].state = s
         /\ SetState(j, s)[j].attempt = jobs[j].attempt
         /\ \A k \in Job : k # j => SetState(j, s)[k] = jobs[k]
BY DEF TypeOK, SetState, JobRecord

\* A live claim is held, and its job is where the worker expects it.
LEMMA LiveInStep ==
  ASSUME IInv, NEW w \in Worker, Live(w)
  PROVE  /\ MyJob(w) \in Job
         /\ Holds(w)
         /\ Active(jobs[MyJob(w)])
         /\ jobs[MyJob(w)].state \in StatesAt(worker[w].pc)
<1>1. MyJob(w) \in Job /\ Holds(w)
  BY DEF Live, Holds, MyJob, Unexpired
<1>2. Active(jobs[MyJob(w)])
  BY <1>1 DEF IInv, QueueReflectsJobs, Holds, MyJob, NoRow
<1> QED BY <1>1, <1>2 DEF IInv, HolderInStep

\* The initial state satisfies the invariant.
LEMMA InitInv == Init => IInv
<1> SUFFICES ASSUME Init PROVE IInv
  OBVIOUS
<1>1. NoRecord \in JobRecord /\ NoRow \in Row
  BY QueueAssumption DEF NoRecord, JobRecord, NoRow, Row, LeaseFloor
<1>2. 0 \in 0..(Resolution - 1) /\ 0 \in 0..MaxCrash
  BY QueueAssumption
<1>3. TypeOK
  BY <1>1, <1>2, IdleTyped DEF Init, TypeOK, Idle
<1>4. QueueReflectsJobs
  BY DEF Init, QueueReflectsJobs, NoRecord, Active, ActiveWorkStates
<1>5. TokensUnshared /\ HolderInStep
  BY DEF Init, TokensUnshared, HolderInStep, Holds, Idle, NoRow
<1> QED BY <1>3, <1>4, <1>5 DEF IInv

\* Client operations.
LEMMA ClientInv ==
  ASSUME IInv, ClientNext \/ \E j \in Job : CancelJob(j)
  PROVE  IInv'
<1>t. TypeOK /\ QueueReflectsJobs
  BY DEF IInv
<1>j. jobs \in [Job -> JobRecord]
  BY <1>t DEF TypeOK
<1>a. 1 \in 0..MaxAttempt
  BY QueueAssumption
<1>1. ASSUME NEW j \in Job, CreateJob(j) PROVE IInv'
  <2> DEFINE js == [jobs EXCEPT ![j] = [state |-> "UPLOADED", attempt |-> 1, cancel |-> FALSE]]
  <2>1. js \in [Job -> JobRecord]
    BY <1>j, <1>a DEF JobRecord, JobState
  <2>2. queue[j].attempt = 0
    BY <1>1, <1>t DEF CreateJob, QueueReflectsJobs, Active, ActiveWorkStates, NoRow
  <2>3. \A k \in Job : \/ js[k] = jobs[k]
                       \/ js[k].attempt # queue[k].attempt /\ js[k].attempt # 0
    BY <1>j, <2>2
  <2>4. Commit(js, queue) /\ worker' = worker /\ Untimed
    BY <1>1 DEF CreateJob
  <2> HIDE DEF js
  <2> QED BY <2>1, <2>3, <2>4, UnfencedBlock
<1>2. ASSUME NEW j \in Job, CreateAttempt(j) PROVE IInv'
  <2> DEFINE js == [jobs EXCEPT ![j] = [state |-> "READY_FOR_PROCESSING",
                                        attempt |-> jobs[j].attempt + 1, cancel |-> FALSE]]
  <2>0. jobs[j].attempt \in 0..MaxAttempt /\ jobs[j].attempt < MaxAttempt
    BY <1>2, <1>j DEF CreateAttempt, JobRecord
  <2>1. js \in [Job -> JobRecord]
    BY <1>j, <2>0, QueueAssumption DEF JobRecord, JobState
  <2>2. queue[j].attempt = 0
    BY <1>2, <1>t DEF CreateAttempt, QueueReflectsJobs, Active, ActiveWorkStates,
                      RetryableStates, NoRow
  <2>3. \A k \in Job : \/ js[k] = jobs[k]
                       \/ js[k].attempt # queue[k].attempt /\ js[k].attempt # 0
    BY <1>j, <2>0, <2>2
  <2>4. Commit(js, queue) /\ worker' = worker /\ Untimed
    BY <1>2 DEF CreateAttempt
  <2> HIDE DEF js
  <2> QED BY <2>1, <2>3, <2>4, UnfencedBlock
<1>3. ASSUME NEW j \in Job, NEW s \in {"COMPLETED", "EXPIRED"},
             Commit(SetState(j, s), queue), worker' = worker, Untimed
      PROVE  IInv'
  <2>1. s \in JobState /\ s \notin ActiveWorkStates
    BY DEF JobState, ActiveWorkStates
  <2>2. \A k \in Job : SetState(j, s)[k] = jobs[k] \/ ~Active(SetState(j, s)[k])
    BY <1>t, <2>1, SetStateTyped DEF Active
  <2>3. SetState(j, s) \in [Job -> JobRecord]
    BY <1>t, <2>1, SetStateTyped
  <2> QED BY <1>3, <2>2, <2>3, UnfencedBlock
<1>4. ASSUME NEW j \in Job, CancelJob(j) PROVE IInv'
  <2> DEFINE s == IF jobs[j].state \in CancelledAtOnceStates THEN "CANCELLED"
                  ELSE jobs[j].state
             js == [jobs EXCEPT ![j] = [state |-> s, attempt |-> jobs[j].attempt,
                                        cancel |-> TRUE]]
  <2>1. js[j] = [state |-> s, attempt |-> jobs[j].attempt, cancel |-> TRUE]
    BY <1>j DEF JobRecord
  <2>2. \A k \in Job : k # j => js[k] = jobs[k]
    BY <1>j
  <2>3. s \in JobState \cup {"NONE"} /\ jobs[j].attempt \in 0..MaxAttempt
    BY <1>j DEF JobRecord, JobState
  <2>4. js \in [Job -> JobRecord]
    <3> HIDE DEF s
    <3>1. [state |-> s, attempt |-> jobs[j].attempt, cancel |-> TRUE] \in JobRecord
      BY <2>3 DEF JobRecord
    <3> QED BY <1>j, <3>1
  <2>5. s = jobs[j].state \/ s \notin ActiveWorkStates
    BY DEF ActiveWorkStates
  <2>6. Commit(js, queue) /\ worker' = worker /\ Untimed
    BY <1>4 DEF CancelJob
  <2>7. \A k \in Job : Active(js[k]) =>
          js[k].state = jobs[k].state /\ js[k].attempt = jobs[k].attempt
    BY <2>1, <2>2, <2>5 DEF Active
  <2> HIDE DEF js, s
  <2> QED BY <2>4, <2>6, <2>7, UnfencedBlock
<1>5. ASSUME Look PROVE IInv'
  <2>1. Commit(jobs, queue) /\ worker' = worker /\ Untimed
    BY <1>5 DEF Look
  <2> QED BY <1>j, <2>1, UnfencedBlock
<1>6. ASSUME NEW j \in Job, CompleteReview(j) PROVE IInv'
  BY <1>6, <1>3 DEF CompleteReview
<1>7. ASSUME NEW j \in Job, ExpireJob(j) PROVE IInv'
  BY <1>7, <1>3 DEF ExpireJob
<1> QED BY <1>1, <1>2, <1>4, <1>5, <1>6, <1>7 DEF ClientNext

\* The pipeline: blocks inside processing_claim that commit.
LEMMA PipelineInv ==
  ASSUME IInv, NEW w \in Worker,
         \/ ValidateClaim(w) \/ BeginAnalysis(w) \/ ReadSource(w) \/ RecordAnalysis(w)
         \/ BeginRestoration(w) \/ RecordPage(w) \/ BeginValidation(w)
         \/ FinishProcessing(w) \/ SnapshotCancelled(w) \/ FailProcessing(w)
  PROVE  IInv'
<1> DEFINE i == MyJob(w)
<1>t. TypeOK
  BY DEF IInv
<1>w. worker[w] \in WorkerState /\ worker[w].todo \in 0..Pages
  BY <1>t DEF TypeOK, WorkerState
<1>n. Pages \in 0..Pages /\ 0 \in 0..Pages /\ Pages # 0
  BY QueueAssumption
<1>l. Live(w) => i \in Job /\ Active(jobs[i]) /\ jobs[i].state \in StatesAt(worker[w].pc)
  BY LiveInStep
\* A block that sets the job's state to s and goes on at pc.
<1>s. ASSUME NEW s \in JobState, NEW pc \in WorkerStep, NEW n \in 0..Pages,
             WorkerCommit(w, SetState(i, s)), GotoLoop(w, pc, n), Untimed,
             pc \in {"reading", "inspecting"} => n # 0,
             s \in ActiveWorkStates => s \in StatesAt(pc)
      PROVE  IInv'
  <2>1. i \in Job
    BY <1>s, <1>l DEF WorkerCommit
  <2>2. /\ SetState(i, s) \in [Job -> JobRecord]
        /\ SetState(i, s)[i].state = s
        /\ SetState(i, s)[i].attempt = jobs[i].attempt
        /\ \A k \in Job : k # i => SetState(i, s)[k] = jobs[k]
    BY <1>t, <2>1, SetStateTyped
  <2> QED BY <1>s, <2>2, FencedBlock DEF Active
\* A block that leaves the jobs alone and goes on at pc.
<1>k. ASSUME NEW pc \in WorkerStep, NEW n \in 0..Pages,
             WorkerCommit(w, jobs), GotoLoop(w, pc, n), Untimed,
             pc \in {"reading", "inspecting"} => n # 0,
             Active(jobs[i]) => jobs[i].state \in StatesAt(pc)
      PROVE  IInv'
  BY <1>k, <1>t, FencedBlock DEF TypeOK
<1>pc. {"claimed", "start", "reading", "inspecting", "analyzed", "restoring",
        "validating", "stopping", "releasing"} \subseteq WorkerStep
  BY DEF WorkerStep, Claimed, TryStep
<1>js. {"READY_FOR_PROCESSING", "ANALYZING", "PROCESSING", "VALIDATING",
        "AWAITING_REVIEW", "FAILED"} \subseteq JobState
  BY DEF JobState
<1>1. CASE ValidateClaim(w)
  <2>1. GotoLoop(w, "start", worker[w].todo) /\ Untimed
    BY <1>1, <1>t, GotoIsGotoLoop DEF ValidateClaim
  <2>2. CASE jobs[i].state \in QueuedStates
    <3>1. WorkerCommit(w, jobs)
      BY <1>1, <2>2 DEF ValidateClaim
    <3> QED BY <1>k, <1>pc, <1>w, <2>1, <2>2, <3>1 DEF StatesAt
  <2>3. CASE jobs[i].state \notin QueuedStates
    <3>1. WorkerCommit(w, SetState(i, "READY_FOR_PROCESSING"))
      BY <1>1, <2>3 DEF ValidateClaim
    <3> QED BY <1>s, <1>pc, <1>js, <1>w, <2>1, <3>1 DEF StatesAt, QueuedStates
  <2> QED BY <2>2, <2>3
<1>2. CASE BeginAnalysis(w)
  BY <1>2, <1>s, <1>pc, <1>js, <1>n DEF BeginAnalysis, Proceed, StatesAt
<1>3. CASE ReadSource(w)
  <2>1. GotoLoop(w, "inspecting", worker[w].todo) /\ Untimed /\ WorkerCommit(w, jobs)
    BY <1>3, <1>t, GotoIsGotoLoop DEF ReadSource, Proceed
  <2>2. worker[w].todo # 0 /\ worker[w].pc = "reading"
    BY <1>3, <1>t DEF ReadSource, At, TypeOK
  <2>3. jobs[i].state \in StatesAt("inspecting")
    BY <2>1, <2>2, <1>l DEF StatesAt, WorkerCommit
  <2> QED BY <1>k, <1>pc, <1>w, <2>1, <2>2, <2>3
<1>4. CASE RecordAnalysis(w)
  <2>1. worker[w].todo # 0 /\ worker[w].pc = "inspecting"
    BY <1>4, <1>t DEF RecordAnalysis, At, TypeOK
  <2>2. worker[w].todo - 1 \in 0..Pages
    BY <1>w, <2>1, QueueAssumption
  <2>3. WorkerCommit(w, jobs) /\ Untimed
    BY <1>4 DEF RecordAnalysis
  <2>4. jobs[i].state \in StatesAt("analyzed") /\ jobs[i].state \in StatesAt("reading")
    BY <2>1, <2>3, <1>l DEF StatesAt, WorkerCommit
  <2>5. CASE worker[w].todo = 1
    BY <1>4, <1>k, <1>pc, <2>2, <2>3, <2>4, <2>5 DEF RecordAnalysis
  <2>6. CASE worker[w].todo # 1
    <3>1. worker[w].todo - 1 # 0
      BY <2>6, <1>w
    <3> QED BY <1>4, <1>k, <1>pc, <2>2, <2>3, <2>4, <2>6, <3>1 DEF RecordAnalysis
  <2> QED BY <2>5, <2>6
<1>5. CASE BeginRestoration(w)
  BY <1>5, <1>s, <1>pc, <1>js, <1>n DEF BeginRestoration, Proceed, StatesAt
<1>6. CASE RecordPage(w)
  <2>1. worker[w].todo - 1 \in 0..Pages
    BY <1>6, <1>w, QueueAssumption DEF RecordPage
  <2>2. WorkerCommit(w, jobs) /\ Untimed /\ worker[w].pc \in {"restoring", "validating"}
        /\ GotoLoop(w, worker[w].pc, worker[w].todo - 1)
    BY <1>6 DEF RecordPage, Proceed
  <2>3. jobs[i].state \in StatesAt(worker[w].pc)
    BY <2>2, <1>l DEF WorkerCommit
  <2> QED BY <1>k, <1>pc, <2>1, <2>2, <2>3
<1>7. CASE BeginValidation(w)
  BY <1>7, <1>s, <1>pc, <1>js, <1>n DEF BeginValidation, Proceed, StatesAt
<1>8. CASE FinishProcessing(w)
  BY <1>8, <1>s, <1>pc, <1>js, <1>n DEF FinishProcessing, Proceed, ActiveWorkStates
<1>9. CASE SnapshotCancelled(w)
  <2>1. GotoLoop(w, "releasing", worker[w].todo) /\ Untimed /\ WorkerCommit(w, jobs)
    BY <1>9, <1>t, GotoIsGotoLoop DEF SnapshotCancelled
  <2> QED BY <1>k, <1>pc, <1>w, <2>1 DEF StatesAt, Active
<1>10. CASE FailProcessing(w)
  BY <1>10, <1>s, <1>pc, <1>js, <1>n DEF FailProcessing, ActiveWorkStates
<1> QED BY <1>1, <1>2, <1>3, <1>4, <1>5, <1>6, <1>7, <1>8, <1>9, <1>10

\* Blocks of a worker that roll back.
LEMMA RollbackInv ==
  ASSUME IInv, NEW w \in Worker, MeetCancellation(w) \/ LoseClaim(w)
  PROVE  IInv'
<1>l. Holds(w) => jobs[MyJob(w)].state \in ActiveWorkStates
  BY DEF IInv, QueueReflectsJobs, Holds, MyJob, NoRow, Active
<1>1. CASE LoseClaim(w)
  <2>1. Rollback /\ Untimed /\ GotoLoop(w, "releasing", 0)
    BY <1>1 DEF LoseClaim
  <2>2. Holds(w) => jobs[MyJob(w)].state \in StatesAt("releasing")
    BY <1>l DEF StatesAt
  <2> QED BY <2>1, <2>2, RolledBackBlock
<1>2. CASE MeetCancellation(w)
  <2>1. Rollback /\ Untimed /\ Live(w)
        /\ GotoLoop(w, IF At(w, "start") THEN "releasing" ELSE "stopping", 0)
    BY <1>2 DEF MeetCancellation
  <2>2. CASE At(w, "start")
    BY <1>l, <2>1, <2>2, RolledBackBlock DEF StatesAt
  <2>3. CASE ~At(w, "start")
    <3>1. jobs[MyJob(w)].state \in StatesAt(worker[w].pc)
      BY <2>1, LiveInStep
    <3>2. worker[w].pc \in {"reading", "analyzed", "restoring", "validating"}
      BY <1>2, <2>3 DEF MeetCancellation, At
    <3>3. jobs[MyJob(w)].state \in StatesAt("stopping")
      BY <3>1, <3>2 DEF StatesAt
    <3> QED BY <2>1, <2>3, <3>3, RolledBackBlock
  <2> QED BY <2>2, <2>3
<1> QED BY <1>1, <1>2

\* Clearing the leases taken for expired keeps every row typed and in place.
LEMMA SweptRow ==
  ASSUME TypeOK, QueueReflectsJobs, NEW age
  PROVE  /\ Swept(age) \in [Job -> Row]
         /\ \A j \in Job : /\ Swept(age)[j].attempt = queue[j].attempt
                           /\ Swept(age)[j].token \in {queue[j].token, NoToken}
                           /\ Swept(age)[j] = queue[j] \/ Active(jobs[j])
<1> SUFFICES ASSUME NEW j \in Job
             PROVE  /\ Swept(age)[j] \in Row
                    /\ Swept(age)[j].attempt = queue[j].attempt
                    /\ Swept(age)[j].token \in {queue[j].token, NoToken}
                    /\ Swept(age)[j] = queue[j] \/ Active(jobs[j])
  BY DEF Swept
<1>1. queue[j] \in Row
  BY DEF TypeOK
<1>2. CASE ExpiredAt(queue[j], age)
  <2>1. Swept(age)[j] = Unleased(queue[j].attempt)
    BY <1>2 DEF Swept
  <2>2. queue[j].token # NoToken
    BY <1>2 DEF ExpiredAt
  <2>3. Active(jobs[j])
    BY <2>2 DEF QueueReflectsJobs, NoRow
  <2>4. Unleased(queue[j].attempt) \in Row
    BY <1>1, QueueAssumption DEF Row, Unleased, LeaseFloor
  <2> QED BY <2>1, <2>3, <2>4 DEF Unleased
<1>3. CASE ~ExpiredAt(queue[j], age)
  BY <1>1, <1>3 DEF Swept
<1> QED BY <1>2, <1>3

\* Polling, claiming nothing, releasing and crashing: a claim is forgotten.
LEMMA ForgetInv ==
  ASSUME IInv, NEW w \in Worker,
         Poll(w) \/ ClaimNothing(w) \/ ReleaseClaim(w) \/ CrashWorker(w)
  PROVE  IInv'
<1>t. TypeOK /\ QueueReflectsJobs
  BY DEF IInv
<1>q. queue \in [Job -> Row] /\ crashes \in 0..MaxCrash
  BY <1>t DEF TypeOK
<1>i. /\ Idle.token = NoToken /\ Idle.pc \notin {"reading", "inspecting"}
      /\ [Idle EXCEPT !.pc = "claiming"].token = NoToken
      /\ [Idle EXCEPT !.pc = "claiming"].pc \notin {"reading", "inspecting"}
  BY DEF Idle
<1>1. CASE Poll(w)
  BY <1>1, <1>q, <1>i, IdleTyped, ForgetfulStep DEF Poll, Rollback, Untimed
<1>2. CASE ClaimNothing(w)
  <2>1. queue' = Swept(worker[w].age)
    BY <1>2 DEF ClaimNothing
  <2>2. /\ queue' \in [Job -> Row]
        /\ \A j \in Job : /\ queue'[j].attempt = queue[j].attempt
                          /\ queue'[j].token \in {queue[j].token, NoToken}
                          /\ queue'[j] = queue[j] \/ Active(jobs[j])
    BY <2>1, <1>t, SweptRow
  <2> QED BY <1>2, <1>q, <1>i, <2>2, IdleTyped, ForgetfulStep DEF ClaimNothing, Untimed
<1>3. CASE ReleaseClaim(w)
  <2> DEFINE c == worker[w]
             holds == /\ c.job \in Job /\ queue[c.job].attempt = c.attempt
                      /\ queue[c.job].token = c.token
  <2>1. queue' = IF holds THEN [queue EXCEPT ![c.job] = Unleased(c.attempt)] ELSE queue
    BY <1>3 DEF ReleaseClaim
  <2>2. c.attempt \in 0..MaxAttempt
    BY <1>t DEF TypeOK, WorkerState
  <2>3. Unleased(c.attempt) \in Row
    BY <2>2, QueueAssumption DEF Row, Unleased, LeaseFloor
  <2>4. queue' \in [Job -> Row]
    BY <1>q, <2>1, <2>3
  <2>5. ASSUME NEW j \in Job
        PROVE  /\ queue'[j].attempt = queue[j].attempt
               /\ queue'[j].token \in {queue[j].token, NoToken}
               /\ queue'[j] = queue[j] \/ Active(jobs[j])
    <3>1. CASE holds /\ j = c.job
      <4>1. queue'[j] = Unleased(c.attempt) /\ queue[j].attempt = c.attempt
        BY <1>q, <2>1, <3>1
      <4>2. CASE Active(jobs[j])
        BY <4>1, <4>2 DEF Unleased
      <4>3. CASE ~Active(jobs[j])
        BY <4>1, <4>3, <1>t DEF Unleased, QueueReflectsJobs, NoRow
      <4> QED BY <4>2, <4>3
    <3>2. CASE ~(holds /\ j = c.job)
      <4>1. queue'[j] = queue[j]
        BY <1>q, <2>1, <3>2
      <4> QED BY <4>1
    <3> QED BY <3>1, <3>2
  <2>6. worker' = [worker EXCEPT ![w] = Idle] /\ jobs' = jobs /\ ahead' = ahead
        /\ phase' = phase /\ crashes' = crashes
    BY <1>3 DEF ReleaseClaim, Untimed
  <2> QED BY <1>q, <1>i, <2>4, <2>5, <2>6, IdleTyped, ForgetfulStep
<1>4. CASE CrashWorker(w)
  <2>1. crashes' \in 0..MaxCrash
    BY <1>4, <1>q, QueueAssumption DEF CrashWorker
  <2> QED BY <1>4, <1>q, <1>i, <2>1, IdleTyped, ForgetfulStep DEF CrashWorker, Rollback
<1> QED BY <1>1, <1>2, <1>3, <1>4

\* Claiming: the token is nobody else's, and the row had none.
LEMMA ClaimNextInv ==
  ASSUME IInv, NEW w \in Worker, ClaimNext(w)
  PROVE  IInv'
<1>t. TypeOK /\ QueueReflectsJobs /\ TokensUnshared /\ HolderInStep
  BY DEF IInv
<1> DEFINE age == worker[w].age
           q == Swept(age)
<1>q. /\ q \in [Job -> Row]
      /\ \A j \in Job : /\ q[j].attempt = queue[j].attempt
                        /\ q[j].token \in {queue[j].token, NoToken}
                        /\ q[j] = queue[j] \/ Active(jobs[j])
  BY <1>t, SweptRow
<1>1. PICK i \in Free(q), t \in FreshTokens :
        /\ queue' = [q EXCEPT ![i] = [attempt |-> q[i].attempt, token |-> t,
                                      left |-> Lease - age]]
        /\ worker' = [worker EXCEPT ![w] = [Idle EXCEPT !.pc = "claimed", !.job = i,
                                                        !.attempt = q[i].attempt,
                                                        !.token = t]]
  BY DEF ClaimNext
<1>2. jobs' = jobs /\ ahead' = ahead /\ phase' = phase /\ crashes' = crashes
  BY DEF ClaimNext, Untimed
<1> DEFINE row == [attempt |-> q[i].attempt, token |-> t, left |-> Lease - age]
           new == [Idle EXCEPT !.pc = "claimed", !.job = i, !.attempt = q[i].attempt,
                               !.token = t]
<1>3. i \in Job /\ q[i].attempt # 0 /\ t \in Token /\ t # NoToken
  BY QueueAssumption DEF Free, FreshTokens
<1>4. /\ \A j \in Job : queue[j].token # t
      /\ \A v \in Worker : worker[v].token # t
  BY DEF FreshTokens
<1>5. age \in 0..BusyTimeout /\ q[i].attempt \in 0..MaxAttempt
  BY <1>t, <1>q, <1>3 DEF TypeOK, WorkerState, Row
<1>6. row \in Row
  <2>1. Lease - age \in LeaseFloor..Lease
    BY <1>5, QueueAssumption DEF LeaseFloor
  <2> QED BY <1>3, <1>5, <2>1 DEF Row
<1>7. /\ new \in WorkerState /\ new.pc = "claimed" /\ new.job = i /\ new.token = t
      /\ new.attempt = q[i].attempt
  BY <1>3, <1>5, IdleTyped DEF Idle, WorkerState, WorkerStep, Claimed
<1>a. Active(jobs[i]) /\ jobs[i].attempt = q[i].attempt
  BY <1>t, <1>q, <1>3 DEF QueueReflectsJobs, NoRow
<1>8. \A j \in Job : queue'[j] = IF j = i THEN row ELSE q[j]
  BY <1>1, <1>q
<1>9. \A v \in Worker : worker'[v] = IF v = w THEN new ELSE worker[v]
  BY <1>1, <1>t DEF TypeOK
<1>r. row.attempt = q[i].attempt /\ row.token = t
  OBVIOUS
<1>fq. queue' \in [Job -> Row]
  BY <1>1, <1>q, <1>6
<1>fw. worker' \in [Worker -> WorkerState]
  BY <1>1, <1>t, <1>7 DEF TypeOK
<1> HIDE DEF row, new, q, age
<1>10. TypeOK'
  BY <1>t, <1>2, <1>fq, <1>fw, <1>7, <1>9 DEF TypeOK
<1>11. QueueReflectsJobs'
  BY <1>t, <1>2, <1>8, <1>r, <1>a, <1>q, <1>3 DEF QueueReflectsJobs, Active
<1>12. TokensUnshared'
  BY <1>t, <1>4, <1>7, <1>8, <1>9, <1>r, <1>q DEF TokensUnshared
<1>13. HolderInStep'
  <2> SUFFICES ASSUME NEW v \in Worker, Holds(v)'
               PROVE  /\ worker'[v].attempt = jobs[worker'[v].job].attempt
                      /\ jobs[worker'[v].job].state \in StatesAt(worker'[v].pc)
    BY <1>2 DEF HolderInStep, MyJob
  <2>1. CASE v = w
    BY <2>1, <1>7, <1>9, <1>a DEF StatesAt, Active
  <2>2. CASE v # w
    <3>1. worker'[v] = worker[v] /\ worker[v].token # t
      BY <1>4, <1>9, <2>2
    <3>2. worker[v].job \in Job /\ worker[v].job # i
      BY <3>1, <1>8, <1>r DEF Holds
    <3>3. Holds(v)
      BY <3>1, <3>2, <1>8, <1>q DEF Holds
    <3> QED BY <1>t, <3>1, <3>3 DEF HolderInStep, MyJob
  <2> QED BY <2>1, <2>2
<1> QED BY <1>10, <1>11, <1>12, <1>13 DEF IInv

\* Time only shortens leases.
LEMMA TickInv ==
  ASSUME IInv, Tick
  PROVE  IInv'
<1>t. TypeOK /\ QueueReflectsJobs /\ TokensUnshared /\ HolderInStep
  BY DEF IInv
<1>1. phase' \in 0..(Resolution - 1)
  BY <1>t, QueueAssumption DEF Tick, TypeOK
<1>2. ASSUME NEW j \in Job
      PROVE  /\ queue'[j] \in Row
             /\ queue'[j].attempt = queue[j].attempt /\ queue'[j].token = queue[j].token
             /\ queue'[j] = queue[j] \/ queue[j].token # NoToken
  <2>1. queue[j] \in Row
    BY <1>t DEF TypeOK
  <2>2. CASE queue[j].token # NoToken /\ queue[j].left > LeaseFloor
    <3>1. queue'[j] = [queue[j] EXCEPT !.left = queue[j].left - 1]
      BY <2>2 DEF Tick
    <3>2. queue[j].left - 1 \in LeaseFloor..Lease
      BY <2>1, <2>2, QueueAssumption DEF Row, LeaseFloor
    <3> QED BY <2>1, <2>2, <3>1, <3>2 DEF Row
  <2>3. CASE ~(queue[j].token # NoToken /\ queue[j].left > LeaseFloor)
    BY <2>1, <2>3 DEF Tick
  <2> QED BY <2>2, <2>3
<1>3. queue' \in [Job -> Row]
  BY <1>2 DEF Tick
<1>4. ASSUME NEW v \in Worker
      PROVE  /\ worker'[v] \in WorkerState
             /\ worker'[v].token \in {worker[v].token, NoToken}
             /\ worker'[v].token # NoToken =>
                  /\ worker'[v].pc = worker[v].pc
                  /\ worker'[v].job = worker[v].job
                  /\ worker'[v].attempt = worker[v].attempt
             /\ worker'[v].pc \in {"reading", "inspecting"} => worker'[v].todo # 0
  <2>1. worker[v] \in WorkerState
        /\ (worker[v].pc \in {"reading", "inspecting"} => worker[v].todo # 0)
    BY <1>t DEF TypeOK
  <2>2. CASE ~At(v, "claiming")
    BY <2>1, <2>2 DEF Tick
  <2>3. CASE At(v, "claiming") /\ worker[v].age < BusyTimeout
    <3>1. worker'[v] = [worker[v] EXCEPT !.age = worker[v].age + 1]
      BY <2>3 DEF Tick
    <3>2. worker[v].age + 1 \in 0..BusyTimeout
      BY <2>1, <2>3, QueueAssumption DEF WorkerState
    <3> QED BY <2>1, <2>3, <3>1, <3>2 DEF WorkerState
  <2>4. CASE At(v, "claiming") /\ ~(worker[v].age < BusyTimeout)
    <3>1. worker'[v] = Idle
      BY <2>4 DEF Tick
    <3> QED BY <3>1, IdleTyped DEF Idle
  <2> QED BY <2>2, <2>3, <2>4
<1>5. worker' \in [Worker -> WorkerState]
  BY <1>4 DEF Tick
<1>6. jobs' = jobs /\ ahead' = ahead /\ crashes' = crashes
  BY DEF Tick
<1>7. TypeOK'
  BY <1>t, <1>1, <1>3, <1>4, <1>5, <1>6 DEF TypeOK
<1>8. QueueReflectsJobs'
  BY <1>t, <1>2, <1>6 DEF QueueReflectsJobs, Active, NoRow
<1>9. TokensUnshared'
  BY <1>t, <1>2, <1>4 DEF TokensUnshared
<1>10. HolderInStep'
  <2> SUFFICES ASSUME NEW v \in Worker, Holds(v)'
               PROVE  /\ worker'[v].attempt = jobs[worker'[v].job].attempt
                      /\ jobs[worker'[v].job].state \in StatesAt(worker'[v].pc)
    BY <1>6 DEF HolderInStep, MyJob
  <2>1. /\ worker'[v].token = worker[v].token /\ worker'[v].job = worker[v].job
        /\ worker'[v].attempt = worker[v].attempt /\ worker'[v].pc = worker[v].pc
    BY <1>4 DEF Holds
  <2>2. Holds(v)
    BY <1>2, <2>1 DEF Holds
  <2> QED BY <1>t, <2>1, <2>2 DEF HolderInStep, MyJob
<1> QED BY <1>7, <1>8, <1>9, <1>10 DEF IInv

-------------------------------------------------------------------------------
(* The invariant of the specification *)

\* Every step keeps the inductive invariant.
LEMMA NextInv == IInv /\ [Next]_vars => IInv'
<1> SUFFICES ASSUME IInv, [Next]_vars PROVE IInv'
  OBVIOUS
<1>1. CASE UNCHANGED vars
  BY <1>1 DEF vars, IInv, TypeOK, QueueReflectsJobs, Active, TokensUnshared,
              HolderInStep, Holds, MyJob
<1>2. CASE Next
  <2>1. ASSUME NEW w \in Worker, WorkerNext(w) PROVE IInv'
    BY <2>1, PipelineInv, RollbackInv, ForgetInv, ClaimNextInv DEF WorkerNext
  <2>2. ASSUME NEW w \in Worker, CrashWorker(w) PROVE IInv'
    BY <2>2, ForgetInv
  <2> QED BY <1>2, <2>1, <2>2, ClientInv, TickInv DEF Next
<1> QED BY <1>1, <1>2

\* Every behaviour of the queue keeps the inductive invariant.
LEMMA Invariance == Spec => []IInv
<1> QED BY InitInv, NextInv, PTL DEF Spec

\* Type correctness, for every instance.
THEOREM TypeCorrect == Spec => []TypeOK
<1>1. IInv => TypeOK
  BY DEF IInv
<1> QED BY <1>1, Invariance, PTL

\* The work queue always is what the reload of the durable store verifies, so
\* that no interleaving makes the store fail closed on its own data.
THEOREM QueueConsistent == Spec => []QueueReflectsJobs
<1>1. IInv => QueueReflectsJobs
  BY DEF IInv
<1> QED BY <1>1, Invariance, PTL

\* Fencing: a worker whose claim is in the queue finds the current attempt where
\* its own last block left it.
THEOREM Fencing == Spec => []HolderInStep
<1>1. IInv => HolderInStep
  BY DEF IInv
<1> QED BY <1>1, Invariance, PTL

-------------------------------------------------------------------------------
(* Leases: no lease that has a second or more to run is stolen.  The       *)
(* textual comparison of timestamps takes one for expired less than a      *)
(* second early.                                                           *)

\* What holds of every step but a claim: no lease at all is stolen.
StealsNothing == \A j \in Job : ~Stolen(j)

\* What holds of every step.
KeepsToTheSecond == \A j \in Job : queue[j].left >= Resolution => ~Stolen(j)

\* A row with a lease is about the current attempt of an active job.
LEMMA LeasedRow ==
  ASSUME QueueReflectsJobs, NEW j \in Job, Unexpired(queue[j])
  PROVE  Active(jobs[j]) /\ queue[j].attempt = jobs[j].attempt
BY DEF QueueReflectsJobs, Unexpired, NoRow

\* A transaction that finds the leases in place, and gives no active job a new
\* attempt, takes none.
LEMMA CommitStealsNothing ==
  ASSUME QueueReflectsJobs, NEW js, NEW q, Commit(js, q),
         \A j \in Job : /\ q[j].attempt = queue[j].attempt
                        /\ q[j].token = queue[j].token
                        /\ Unexpired(queue[j]) => Unexpired(q[j])
                        /\ js[j].attempt = jobs[j].attempt \/ ~Active(jobs[j])
  PROVE  StealsNothing
<1> SUFFICES ASSUME NEW j \in Job, Unexpired(queue[j]), Active(js[j])
             PROVE  queue'[j].token = queue[j].token
  BY DEF StealsNothing, Stolen, Commit
<1>1. q[j].attempt = js[j].attempt /\ Unexpired(q[j])
  BY LeasedRow
<1>2. queue'[j] = q[j]
  BY <1>1 DEF Commit, Flushed
<1> QED BY <1>2

\* A client's transaction.
LEMMA ClientStealsNothing ==
  ASSUME IInv, ClientNext \/ \E j \in Job : CancelJob(j)
  PROVE  StealsNothing
<1>t. QueueReflectsJobs /\ jobs \in [Job -> JobRecord]
  BY DEF IInv, TypeOK
<1>1. ASSUME NEW js, Commit(js, queue),
             \A k \in Job : js[k].attempt = jobs[k].attempt \/ ~Active(jobs[k])
      PROVE  StealsNothing
  BY <1>1, <1>t, CommitStealsNothing
<1>2. ASSUME NEW j \in Job, NEW r, Commit([jobs EXCEPT ![j] = r], queue),
             r.attempt = jobs[j].attempt \/ ~Active(jobs[j])
      PROVE  StealsNothing
  <2>1. \A k \in Job : [jobs EXCEPT ![j] = r][k] = IF k = j THEN r ELSE jobs[k]
    BY <1>t
  <2> DEFINE js == [jobs EXCEPT ![j] = r]
  <2>2. \A k \in Job : js[k].attempt = jobs[k].attempt \/ ~Active(jobs[k])
    BY <1>2, <2>1
  <2>3. Commit(js, queue)
    BY <1>2
  <2> HIDE DEF js
  <2> QED BY <1>1, <2>2, <2>3
<1>3. ASSUME NEW j \in Job, CreateJob(j) PROVE StealsNothing
  <2> DEFINE r == [state |-> "UPLOADED", attempt |-> 1, cancel |-> FALSE]
  <2>1. Commit([jobs EXCEPT ![j] = r], queue) /\ ~Active(jobs[j])
    BY <1>3 DEF CreateJob, Active, ActiveWorkStates
  <2> HIDE DEF r
  <2> QED BY <2>1, <1>2
<1>4. ASSUME NEW j \in Job, CreateAttempt(j) PROVE StealsNothing
  <2> DEFINE r == [state |-> "READY_FOR_PROCESSING", attempt |-> jobs[j].attempt + 1,
                   cancel |-> FALSE]
  <2>1. Commit([jobs EXCEPT ![j] = r], queue) /\ ~Active(jobs[j])
    BY <1>4 DEF CreateAttempt, RetryableStates, Active, ActiveWorkStates
  <2> HIDE DEF r
  <2> QED BY <2>1, <1>2
<1>5. ASSUME NEW j \in Job, NEW s \in JobState, Commit(SetState(j, s), queue)
      PROVE  StealsNothing
  <2>1. \A k \in Job : SetState(j, s)[k].attempt = jobs[k].attempt
    BY SetStateTyped DEF IInv
  <2> QED BY <1>1, <1>5, <2>1
<1>6. ASSUME NEW j \in Job, CompleteReview(j) \/ ExpireJob(j) PROVE StealsNothing
  BY <1>5, <1>6 DEF CompleteReview, ExpireJob, JobState
<1>7. ASSUME NEW j \in Job, CancelJob(j) PROVE StealsNothing
  <2>1. PICK s : Commit([jobs EXCEPT ![j] = [state |-> s, attempt |-> jobs[j].attempt,
                                             cancel |-> TRUE]], queue)
    BY <1>7 DEF CancelJob
  <2> DEFINE r == [state |-> s, attempt |-> jobs[j].attempt, cancel |-> TRUE]
  <2>2. Commit([jobs EXCEPT ![j] = r], queue) /\ r.attempt = jobs[j].attempt
    BY <2>1
  <2> HIDE DEF r
  <2> QED BY <2>2, <1>2
<1>8. ASSUME Look PROVE StealsNothing
  BY <1>8, <1>1 DEF Look
<1> QED BY <1>3, <1>4, <1>6, <1>7, <1>8 DEF ClientNext

\* A fenced block: the renewal lengthens its own lease and touches no other.
LEMMA BlockStealsNothing ==
  ASSUME IInv, NEW w \in Worker, NEW js, WorkerCommit(w, js),
         \A j \in Job : js[j].attempt = jobs[j].attempt
  PROVE  StealsNothing
<1>t. TypeOK /\ QueueReflectsJobs
  BY DEF IInv
<1>l. Live(w) /\ Commit(js, Renewed(w)) /\ MyJob(w) \in Job
  BY DEF WorkerCommit, Live, MyJob
<1>1. \A j \in Job : /\ Renewed(w)[j].attempt = queue[j].attempt
                     /\ Renewed(w)[j].token = queue[j].token
  BY <1>t, <1>l, RenewedRow
<1>2. ASSUME NEW j \in Job, Unexpired(queue[j]) PROVE Unexpired(Renewed(w)[j])
  <2>1. queue \in [Job -> Row]
    BY <1>t DEF TypeOK
  <2>2. CASE j = MyJob(w)
    <3>1. Renewed(w)[j].left = Lease
      BY <1>l, <2>1, <2>2 DEF Renewed, MyJob, Row
    <3> QED BY <1>1, <1>2, <3>1, QueueAssumption DEF Unexpired
  <2>3. CASE j # MyJob(w)
    BY <1>l, <1>2, <2>1, <2>3 DEF Renewed, MyJob
  <2> QED BY <2>2, <2>3
<1> QED BY <1>t, <1>l, <1>1, <1>2, CommitStealsNothing

\* A whole second stays one a second later.
LEMMA NextSecond ==
  ASSUME NEW t \in Int, t % Resolution = 0
  PROVE  (t + Resolution) % Resolution = 0
<1>r. Resolution \in Nat /\ Resolution > 0
  BY QueueAssumption
<1> DEFINE q == t \div Resolution
<1>1. q \in Int /\ t = Resolution * q
  BY <1>r
<1> HIDE DEF q
<1>2. t + Resolution = Resolution * (q + 1)
  BY <1>r, <1>1
<1>3. ASSUME NEW n \in Int PROVE (Resolution * n) % Resolution = 0
  BY <1>r
<1> QED BY <1>1, <1>2, <1>3

\* The text of an instant sorts within its second: at most a second after an
\* earlier instant's.
LEMMA TextOrder ==
  ASSUME NEW t \in Int, NEW u \in Int, TextKey(u) <= TextKey(t)
  PROVE  u - t < Resolution
<1>1. Resolution \in Nat /\ Resolution > 0
  BY QueueAssumption
<1>2. TextKey(u) >= u - 1 /\ TextKey(t) <= t + Resolution - 1
  BY <1>1 DEF TextKey
<1>3. TextKey(u) \in Int /\ TextKey(t) \in Int
  BY <1>1 DEF TextKey
<1>4. u - t <= Resolution
  BY <1>1, <1>2, <1>3
<1>5. ASSUME u = t + Resolution PROVE FALSE
  <2>1. CASE t % Resolution = 0
    <3>1. u % Resolution = 0
      BY <1>5, <2>1, NextSecond
    <3>2. TextKey(u) = u + Resolution - 1 /\ TextKey(t) = t + Resolution - 1
      BY <2>1, <3>1 DEF TextKey
    <3> QED BY <1>1, <1>5, <3>2
  <2>2. CASE t % Resolution # 0
    <3>1. TextKey(t) = t - 1
      BY <2>2 DEF TextKey
    <3> QED BY <1>1, <1>2, <1>3, <1>5, <3>1
  <2> QED BY <2>1, <2>2
<1> QED BY <1>1, <1>4, <1>5

\* A claim clears no lease that has a second to run, however long ago it read the
\* clock.
LEMMA SweptKeeps ==
  ASSUME TypeOK, NEW j \in Job, NEW age \in 0..BusyTimeout,
         queue[j].left >= Resolution
  PROVE  Swept(age)[j] = queue[j]
<1>1. queue[j].left \in Int /\ phase \in Int /\ age \in Nat /\ Resolution \in Nat
  BY QueueAssumption DEF TypeOK, Row, LeaseFloor
<1>2. phase + queue[j].left \in Int /\ phase - age \in Int
  BY <1>1
<1>3. ASSUME TextKey(phase + queue[j].left) <= TextKey(phase - age) PROVE FALSE
  <2>1. (phase + queue[j].left) - (phase - age) < Resolution
    BY <1>2, <1>3, TextOrder
  <2> QED BY <1>1, <2>1
<1>4. ~ExpiredAt(queue[j], age)
  BY <1>3 DEF ExpiredAt
<1> QED BY <1>4 DEF Swept

\* A step that steals nothing at all keeps leases to the second.
LEMMA NothingStolen ==
  ASSUME StealsNothing
  PROVE  KeepsToTheSecond
BY DEF StealsNothing, KeepsToTheSecond

\* Claiming takes rows without a lease, and releasing the releaser's own.
LEMMA WorkerKeepsLeases ==
  ASSUME IInv, NEW w \in Worker, WorkerNext(w) \/ CrashWorker(w)
  PROVE  KeepsToTheSecond
<1>t. TypeOK /\ QueueReflectsJobs
  BY DEF IInv
<1>q. queue \in [Job -> Row] /\ worker[w].age \in 0..BusyTimeout
  BY <1>t DEF TypeOK, WorkerState
<1>j. ASSUME NEW s \in JobState, Live(w)
      PROVE  \A j \in Job : SetState(MyJob(w), s)[j].attempt = jobs[j].attempt
  BY <1>j, <1>t, SetStateTyped DEF Live, MyJob
<1>1. CASE \/ ValidateClaim(w) \/ BeginAnalysis(w) \/ ReadSource(w) \/ RecordAnalysis(w)
           \/ BeginRestoration(w) \/ RecordPage(w) \/ BeginValidation(w)
           \/ FinishProcessing(w) \/ SnapshotCancelled(w) \/ FailProcessing(w)
  <2>1. \/ WorkerCommit(w, jobs)
        \/ \E s \in JobState : WorkerCommit(w, SetState(MyJob(w), s))
    BY <1>1 DEF ValidateClaim, BeginAnalysis, ReadSource, RecordAnalysis, BeginRestoration,
                RecordPage, BeginValidation, FinishProcessing, SnapshotCancelled,
                FailProcessing, Proceed, JobState
  <2>2. CASE WorkerCommit(w, jobs)
    BY <2>2, BlockStealsNothing, NothingStolen
  <2>3. ASSUME NEW s \in JobState, WorkerCommit(w, SetState(MyJob(w), s))
        PROVE  KeepsToTheSecond
    <3>1. \A j \in Job : SetState(MyJob(w), s)[j].attempt = jobs[j].attempt
      BY <2>3, <1>j DEF WorkerCommit
    <3> QED BY <2>3, <3>1, BlockStealsNothing, NothingStolen
  <2> QED BY <2>1, <2>2, <2>3
<1>2. CASE Poll(w) \/ MeetCancellation(w) \/ LoseClaim(w) \/ CrashWorker(w)
  <2>1. queue' = queue
    BY <1>2 DEF Poll, MeetCancellation, LoseClaim, CrashWorker, Rollback
  <2> QED BY <2>1 DEF KeepsToTheSecond, Stolen
<1>3. CASE ClaimNothing(w)
  <2>1. queue' = Swept(worker[w].age)
    BY <1>3 DEF ClaimNothing
  <2> QED BY <1>t, <1>q, <2>1, SweptKeeps DEF KeepsToTheSecond, Stolen
<1>4. CASE ClaimNext(w)
  <2>1. PICK i, row : /\ i \in Free(Swept(worker[w].age))
                      /\ queue' = [Swept(worker[w].age) EXCEPT ![i] = row]
    BY <1>4 DEF ClaimNext
  <2>2. ASSUME NEW j \in Job, queue[j].left >= Resolution, Unexpired(queue[j])
        PROVE  queue'[j] = queue[j]
    <3>1. Swept(worker[w].age)[j] = queue[j]
      BY <1>t, <1>q, <2>2, SweptKeeps
    <3>2. j # i
      BY <2>1, <2>2, <3>1 DEF Free, Unexpired
    <3> QED BY <2>1, <3>1, <3>2 DEF Swept
  <2> QED BY <2>2 DEF KeepsToTheSecond, Stolen
<1>5. CASE ReleaseClaim(w)
  <2> SUFFICES ASSUME NEW j \in Job, Unexpired(queue[j]),
                      queue'[j].token # queue[j].token
               PROVE  Holds(w) /\ MyJob(w) = j /\ At(w, "releasing")
    BY DEF KeepsToTheSecond, Stolen
  <2> DEFINE c == worker[w]
  <2>1. /\ c.job \in Job /\ queue[c.job].attempt = c.attempt
        /\ queue[c.job].token = c.token
        /\ queue' = [queue EXCEPT ![c.job] = Unleased(c.attempt)]
    BY <1>5 DEF ReleaseClaim
  <2>2. j = c.job
    BY <1>q, <2>1
  <2>3. c.token # NoToken /\ At(w, "releasing")
    BY <1>5, <2>1, <2>2 DEF ReleaseClaim, Unexpired
  <2> QED BY <2>1, <2>2, <2>3 DEF Holds, MyJob
<1> QED BY <1>1, <1>2, <1>3, <1>4, <1>5 DEF WorkerNext

\* A lease that has a second or more to run leaves its row only with the row or by
\* the hand of its holder, for any number of workers and jobs, any resolution of
\* the clock and any time a claim waits for the write lock.
THEOREM LeasesKept == Spec => LeaseKeptToTheSecond
<1>1. IInv /\ [Next]_vars => [KeepsToTheSecond]_vars
  <2> SUFFICES ASSUME IInv, Next PROVE KeepsToTheSecond
    OBVIOUS
  <2>1. CASE Tick
    <3>1. \A j \in Job : queue'[j].token = queue[j].token
      BY <2>1 DEF Tick, IInv, TypeOK, Row
    <3> QED BY <3>1 DEF KeepsToTheSecond, Stolen
  <2> QED BY <2>1, ClientStealsNothing, NothingStolen, WorkerKeepsLeases DEF Next
<1>2. [KeepsToTheSecond]_vars =>
        [\A j \in Job : queue[j].left >= Resolution => ~Stolen(j)]_vars
  BY DEF KeepsToTheSecond
<1> QED BY <1>1, <1>2, Invariance, PTL DEF Spec, LeaseKeptToTheSecond

==============================================================================
