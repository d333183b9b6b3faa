------------------------------- MODULE JobPages -------------------------------
(***************************************************************************)
(* One job seen from inside: its pages, the artifacts current for each,    *)
(* the evidence a teacher's decision is bound to, and the export.          *)
(*                                                                         *)
(* A worker fills the pages of an attempt in; reviewers decide pages from  *)
(* screens that may be stale; clients retry, cancel and expire.  Every     *)
(* action is one `with store.lock` block.  Over the SQLite store (Durable) *)
(* a block that raises is rolled back, a worker is fenced, and one that    *)
(* crashes is recovered; over the in-memory store a block that raises      *)
(* leaves what it has changed so far.  WorkQueue models the fence itself.  *)
(*                                                                         *)
(* Candidates are content addressed: two attempts may produce the same.  A *)
(* safety report is a function of its candidate, and is named by it.       *)
(***************************************************************************)
EXTENDS Naturals, JobStates

CONSTANTS Page,        \* page numbers
          Candidate,   \* restoration outputs
          Vetoed,      \* the candidates whose safety report says "reject"
          None,        \* Python's None
          Reviewer,
          Stores,      \* the stores to look at: "sqlite", "memory", or both
          MaxAttempt,  \* bound: attempts of the job
          MaxCrash     \* bound: workers lost

ASSUME PagesAssumption ==
  /\ Page \subseteq Nat /\ Page # {}
  /\ Vetoed \subseteq Candidate
  /\ None \notin Candidate
  /\ "source" \notin Candidate /\ None # "source"
  /\ Stores \subseteq {"sqlite", "memory"}
  /\ MaxAttempt \in Nat \ {0} /\ MaxCrash \in Nat

VARIABLES
  job,       \* state, current attempt and its state, target pages, cancel, export, and
             \* the pages whose analysis is recorded
  pages,     \* per page: what is current for it, and the decision on it
  held,      \* the artifact roles with bytes in the store
  worker,    \* the worker: where it is, its attempt, pages left, candidates made
  reviewer,  \* each reviewer: the screen, and a request between its two lock blocks
  crashes,
  store      \* the store the service was built over; no step changes it

vars == <<job, pages, held, worker, reviewer, crashes, store>>

-------------------------------------------------------------------------------
(* State *)

Optional(S) == S \cup {None}

Bundle == [attempt : 1..MaxAttempt, candidate : Candidate, report : Candidate]
Decision == [action : {"approve", "reject", "reprocess"}, candidate : Optional(Candidate),
             bundle : Bundle, attempt : 1..MaxAttempt]
PageRecord == [attempt : 1..MaxAttempt, candidate : Optional(Candidate),
               report : Optional(Candidate), bundle : Optional(Bundle),
               decision : Optional(Decision), selected : Optional(Candidate \cup {"source"})]
Role == {"source", "candidate", "report", "evidence", "export", "shadow"}
\* "reprocess" only in memory: left behind by a batch that was refused half way.
Export == [Page -> [action : {"approve", "reject", "reprocess"},
                    selected : Optional(Candidate \cup {"source"})]]

\* A page with a decision is told from one without.
ASSUME NoneIsNoDecision == None \notin Decision

Blank(a) == [attempt |-> a, candidate |-> None, report |-> None, bundle |-> None,
             decision |-> None, selected |-> None]
NoCandidates == [p \in Page |-> None]
Idle == [pc |-> "idle", attempt |-> 0, todo |-> {}, made |-> NoCandidates]
NotSeen == [candidate |-> None, bundle |-> None]
NoScreen == [pc |-> "idle", seen |-> [p \in Page |-> NotSeen],
             acts |-> [p \in Page |-> None]]

\* The job as create_job leaves it.
Init ==
  /\ job = [state |-> "UPLOADED", attempt |-> 1, attemptState |-> "UPLOADED",
            targets |-> Page, cancel |-> FALSE, export |-> None, analysed |-> {}]
  /\ pages = [p \in Page |-> Blank(1)]
  /\ held = {"source"}
  /\ worker = Idle
  /\ reviewer = [r \in Reviewer |-> NoScreen]
  /\ crashes = 0
  /\ store \in Stores

Durable == store = "sqlite"
Active(s) == s \in ActiveWorkStates
First(S) == CHOOSE p \in S : \A q \in S : p <= q

\* _transition: the job and its current attempt move together.
MayMove(s) == s \in AllowedTransitions[job.state]
MovedJobOnly(s) == [job EXCEPT !.state = s]  \* faulty: the attempt stays behind
Moved(s) == [job EXCEPT !.state = s, !.attemptState = s]

-------------------------------------------------------------------------------
(* Attempts *)

\* Faulty variant: a retry keeps the evidence of its pages.
ReopenedKeepingEvidence(T, base) ==
  [p \in Page |-> IF p \in T
                  THEN [Blank(job.attempt + 1) EXCEPT !.bundle = base[p].bundle]
                  ELSE base[p]]

\* What _create_attempt_locked of both mixins makes of the target pages T.
Reopened(T, base) == [p \in Page |-> IF p \in T THEN Blank(job.attempt + 1) ELSE base[p]]

NewAttempt(T) == [state |-> "READY_FOR_PROCESSING", attempt |-> job.attempt + 1,
                  attemptState |-> "READY_FOR_PROCESSING", targets |-> T, cancel |-> FALSE,
                  export |-> None, analysed |-> job.analysed]

\* Faulty variants: no pages will do, or an earlier export stays.
OpenAttemptOnNothing(T, base) ==
  job.attempt < MaxAttempt /\ job' = NewAttempt(T) /\ pages' = Reopened(T, base)
OpenAttemptKeepingExport(T, base) ==
  /\ T # {} /\ job.attempt < MaxAttempt
  /\ job' = [NewAttempt(T) EXCEPT !.export = job.export]
  /\ pages' = Reopened(T, base)

\* _create_attempt_locked, on a job whose pages are so far `base`.
OpenAttempt(T, base) ==
  /\ T # {}
  /\ job.attempt < MaxAttempt
  /\ job' = NewAttempt(T)
  /\ pages' = Reopened(T, base)

CreateAttempt(T) ==
  /\ job.state \in RetryableStates
  /\ OpenAttempt(T, pages)
  /\ UNCHANGED <<held, worker, reviewer, crashes, store>>

CancelJob ==
  /\ job.state \notin NotCancellableStates \cup {"EXPIRED"}
  /\ job' = [(IF job.state \in CancelledAtOnceStates THEN Moved("CANCELLED") ELSE job)
             EXCEPT !.cancel = TRUE]
  /\ UNCHANGED <<pages, held, worker, reviewer, crashes, store>>

\* expire_job: every artifact of the job loses its bytes.
ExpireJob ==
  /\ job.state # "EXPIRED"
  /\ job' = Moved("EXPIRED")
  /\ held' = {}
  /\ UNCHANGED <<pages, worker, reviewer, crashes, store>>

-------------------------------------------------------------------------------
(* The worker *)

At(pc) == worker.pc = pc
WorkerGoes(pc, todo) == worker' = [worker EXCEPT !.pc = pc, !.todo = todo]
Others == UNCHANGED <<reviewer, crashes, store>>

\* The fence lets the worker's transaction begin.
Fenced == Durable => Active(job.state) /\ job.attempt = worker.attempt

\* Faulty variant: the block does not look at cancellation and expiry.
ProceedUnchecked == Fenced

\* _ensure_not_cancelled returns.
Proceed == Fenced /\ job.state # "EXPIRED" /\ ~job.cancel

\* process_job's first block; over SQLite, run_pending has claimed the job.
BeginAnalysis ==
  /\ At("idle")
  /\ job.state \in QueuedStates
  /\ ~job.cancel
  /\ MayMove("ANALYZING")
  /\ job' = Moved("ANALYZING")
  /\ worker' = [Idle EXCEPT !.pc = "analyzing", !.attempt = job.attempt, !.todo = job.targets]
  /\ UNCHANGED <<pages, held>> /\ Others

\* _recover_claimed_attempt_locked, on a job its worker lost.
RecoverAttempt ==
  /\ Durable
  /\ At("idle")
  /\ Active(job.state) /\ job.state \notin QueuedStates
  /\ job' = Moved("READY_FOR_PROCESSING")
  /\ pages' = [p \in Page |-> IF p \in job.targets THEN Blank(pages[p].attempt) ELSE pages[p]]
  /\ UNCHANGED <<held, worker>> /\ Others

\* The first block on a target page reads its source; the inspection goes on outside the
\* lock.
ReadSource ==
  /\ At("analyzing")
  /\ worker.todo # {}
  /\ Proceed
  /\ "source" \in held
  /\ WorkerGoes("inspecting", worker.todo)
  /\ UNCHANGED <<job, pages, held>> /\ Others

\* The second block, PAGE_ANALYZED: it looks neither at the cancellation nor at expiry.
RecordAnalysis ==
  /\ At("inspecting")
  /\ Fenced
  /\ job' = [job EXCEPT !.analysed = @ \cup {First(worker.todo)}]
  /\ WorkerGoes("analyzing", worker.todo \ {First(worker.todo)})
  /\ UNCHANGED <<pages, held>> /\ Others

BeginRestoration ==
  /\ At("analyzing")
  /\ worker.todo = {}
  /\ Proceed
  /\ MayMove("READY_FOR_PROCESSING")
  /\ job' = Moved("PROCESSING")
  /\ WorkerGoes("restoring", job.targets)
  /\ UNCHANGED <<pages, held>> /\ Others

\* CANDIDATE_CREATED.
RecordCandidate(c) ==
  LET p == First(worker.todo)
  IN /\ At("restoring")
     /\ worker.todo # {}
     /\ Proceed
     /\ pages' = [pages EXCEPT ![p].candidate = c, ![p].attempt = job.attempt,
                               ![p].decision = None, ![p].selected = None]
     /\ held' = held \cup {"candidate"}
     /\ worker' = [worker EXCEPT !.todo = @ \ {p}, !.made[p] = c]
     /\ UNCHANGED job /\ Others

BeginValidation ==
  /\ At("restoring")
  /\ worker.todo = {}
  /\ Proceed
  /\ MayMove("VALIDATING")
  /\ job' = Moved("VALIDATING")
  /\ WorkerGoes("validating", job.targets)
  /\ UNCHANGED <<pages, held>> /\ Others

\* PAGE_VALIDATED: the report on the candidate the worker kept.
RecordReport ==
  LET p == First(worker.todo)
  IN /\ At("validating")
     /\ worker.todo # {}
     /\ Proceed
     /\ pages' = [pages EXCEPT ![p].report = worker.made[p]]
     /\ held' = held \cup {"report"}
     /\ WorkerGoes("validating", worker.todo \ {p})
     /\ UNCHANGED job /\ Others

\* _prepare_review_evidence_locked for the pages in P: those that have a bundle
\* are skipped.
WithEvidence(P) ==
  [p \in Page |->
    IF p \in P /\ pages[p].bundle = None
    THEN [pages[p] EXCEPT !.bundle = [attempt |-> job.attempt, candidate |-> pages[p].candidate,
                                      report |-> pages[p].report]]
    ELSE pages[p]]

\* CANDIDATES_COMPARED, evidence for every target page, AWAITING_REVIEW.
FinishProcessing ==
  /\ At("validating")
  /\ worker.todo = {}
  /\ Proceed
  /\ MayMove("AWAITING_REVIEW")
  /\ \A p \in job.targets : pages[p].candidate # None /\ pages[p].report # None
  /\ pages' = WithEvidence(job.targets)
  /\ held' = held \cup {"evidence"}
  /\ job' = Moved("AWAITING_REVIEW")
  /\ worker' = Idle
  /\ Others

\* Evidence generation raises after the pages in P.
EvidenceFails(P) ==
  /\ At("validating")
  /\ worker.todo = {}
  /\ Proceed
  /\ P \subseteq job.targets /\ P # job.targets
  /\ \A p \in P, q \in job.targets \ P : p < q
  /\ IF Durable
     THEN UNCHANGED <<job, pages, held>>
     ELSE /\ pages' = WithEvidence(P)
          /\ held' = IF P = {} THEN held ELSE held \cup {"evidence"}
          /\ job' = [job EXCEPT !.attemptState = "AWAITING_REVIEW"]
  /\ WorkerGoes("failing", {})
  /\ Others

\* _ensure_not_cancelled raises.  Over SQLite the move to CANCELLED is undone.
MeetCancellation ==
  /\ worker.pc \in {"analyzing", "restoring", "validating"}
  /\ Fenced
  /\ job.cancel \/ job.state = "EXPIRED"
  /\ job' = IF Durable \/ job.state = "EXPIRED" THEN job ELSE Moved("CANCELLED")
  /\ worker' = Idle
  /\ UNCHANGED <<pages, held>> /\ Others

\* An image operation raises, and _fail_processing answers.  Over the in-memory
\* store the job may have expired: the attempt is marked, then the transition
\* raises.
FailProcessing ==
  /\ ~At("idle")
  /\ Fenced
  /\ job' = IF MayMove("FAILED") THEN Moved("FAILED") ELSE [job EXCEPT !.attemptState = "FAILED"]
  /\ worker' = Idle
  /\ UNCHANGED <<pages, held>> /\ Others

LoseClaim ==
  /\ ~At("idle")
  /\ ~Fenced
  /\ worker' = Idle
  /\ UNCHANGED <<job, pages, held>> /\ Others

\* The worker dies, or its lease runs out: it never commits again.
CrashWorker ==
  /\ Durable
  /\ ~At("idle")
  /\ crashes < MaxCrash
  /\ crashes' = crashes + 1
  /\ worker' = Idle
  /\ UNCHANGED <<job, pages, held, reviewer, store>>

-------------------------------------------------------------------------------
(* Review *)

\* _validate_current_bundle.
CurrentBundle(p) ==
  pages[p].bundle = [attempt |-> pages[p].attempt, candidate |-> pages[p].candidate,
                     report |-> pages[p].report]

\* The reviewer's screen, from GETs of the pages that have a current bundle.  A
\* caller inside the process may leave the bundle out of its decision: it then
\* sees None.
View(r) ==
  /\ reviewer[r].pc = "idle"
  /\ \E cited \in BOOLEAN :
       reviewer' = [reviewer EXCEPT ![r].seen =
         [p \in Page |->
           IF CurrentBundle(p)
           THEN [candidate |-> pages[p].candidate,
                 bundle |-> IF cited THEN pages[p].bundle ELSE None]
           ELSE NotSeen]]
  /\ UNCHANGED <<job, pages, held, worker, crashes, store>>

\* Faulty variant: the safety verdict is not consulted.
AcceptableUnvetted(p, action, seen) ==
  /\ pages[p].bundle # None /\ seen.bundle \in {None, pages[p].bundle} /\ CurrentBundle(p)
  /\ action = "approve" => seen.candidate = pages[p].candidate

\* The checks on one decision.
Acceptable(p, action, seen) ==
  /\ pages[p].bundle # None /\ seen.bundle \in {None, pages[p].bundle} /\ CurrentBundle(p)
  /\ action = "approve" => seen.candidate = pages[p].candidate /\ pages[p].report \notin Vetoed

Asked(r) == {p \in Page : reviewer[r].acts[p] # None}
AcceptedOnTrust(r) == Asked(r)  \* faulty: the first block's checks are relied upon
Accepted(r) == {p \in Asked(r) : Acceptable(p, reviewer[r].acts[p], reviewer[r].seen[p])}

\* The first lock block of JobService.review_job: the whole batch is checked, if
\* the job awaits review at all.
CheckBatch(r) ==
  /\ reviewer[r].pc = "idle"
  /\ \E acts \in [Page -> {None, "approve", "reject", "reprocess"}] :
       /\ \E p \in Page : acts[p] # None
       /\ \A p \in Page :
            acts[p] # None /\ job.state = "AWAITING_REVIEW" =>
              Acceptable(p, acts[p], reviewer[r].seen[p])
       /\ reviewer' = [reviewer EXCEPT ![r].pc = "checked", ![r].acts = acts]
  /\ UNCHANGED <<job, pages, held, worker, crashes, store>>

\* The page record with the decision on it.
Decided(p, action, rec) ==
  [rec EXCEPT !.decision = [action |-> action, candidate |-> rec.candidate,
                            bundle |-> rec.bundle, attempt |-> rec.attempt],
              !.selected = IF action = "approve" THEN rec.candidate
                           ELSE IF action = "reject" THEN "source" ELSE None]
DecidedOn(r, P) ==
  [p \in Page |-> IF p \in P THEN Decided(p, reviewer[r].acts[p], pages[p]) ELSE pages[p]]

Finish(r) == reviewer' = [reviewer EXCEPT ![r] = NoScreen]

\* The second block, all decisions accepted: TEACHER_REVIEW_RECORDED, then the
\* reprocess, or the export once every page is decided.
ApplyBatch(r) ==
  LET after == DecidedOn(r, Asked(r))
      again == {p \in Asked(r) : reviewer[r].acts[p] = "reprocess"}
      complete == \A p \in Page : after[p].decision # None
  IN /\ reviewer[r].pc = "checked"
     /\ job.state = "AWAITING_REVIEW"
     /\ Accepted(r) = Asked(r)
     /\ \/ /\ again # {}
           /\ OpenAttempt(again, after)
           /\ UNCHANGED held
        \/ /\ again = {} /\ complete
           /\ pages' = after
           /\ job' = [Moved("COMPLETED") EXCEPT !.export =
                [p \in Page |-> [action |-> after[p].decision.action,
                                 selected |-> after[p].selected]]]
           /\ held' = held \cup {"export"}
        \/ /\ again = {} /\ ~complete
           /\ pages' = after
           /\ UNCHANGED <<job, held>>
     /\ Finish(r)
     /\ UNCHANGED <<worker, crashes, store>>

\* Faulty variant: a block that raises is committed.
RefuseBatchCommitted(r, P) ==
  /\ reviewer[r].pc = "checked"
  /\ job.state = "AWAITING_REVIEW" /\ Accepted(r) # Asked(r) /\ P \subseteq Accepted(r)
  /\ pages' = DecidedOn(r, P)
  /\ Finish(r)
  /\ UNCHANGED <<job, held, worker, crashes, store>>

\* The second block meets a decision it refuses: it raises there, with the
\* decisions on the pages in P, earlier in the batch, already made.
RefuseBatch(r, P) ==
  /\ reviewer[r].pc = "checked"
  /\ \/ job.state # "AWAITING_REVIEW" /\ P = {}
     \/ job.state = "AWAITING_REVIEW" /\ Accepted(r) # Asked(r) /\ P \subseteq Accepted(r)
  /\ pages' = IF Durable THEN pages ELSE DecidedOn(r, P)
  /\ Finish(r)
  /\ UNCHANGED <<job, held, worker, crashes, store>>

-------------------------------------------------------------------------------
(* Specification *)

WorkerNext ==
  \/ BeginAnalysis \/ RecoverAttempt \/ ReadSource \/ RecordAnalysis \/ BeginRestoration
  \/ BeginValidation \/ RecordReport \/ FinishProcessing \/ MeetCancellation \/ FailProcessing
  \/ LoseClaim \/ CrashWorker
  \/ \E c \in Candidate : RecordCandidate(c)
  \/ \E P \in SUBSET Page : EvidenceFails(P)

ReviewerNext(r) ==
  \/ View(r) \/ CheckBatch(r) \/ ApplyBatch(r)
  \/ \E P \in SUBSET Page : RefuseBatch(r, P)

Next ==
  \/ WorkerNext
  \/ CancelJob \/ ExpireJob
  \/ \E T \in SUBSET Page : CreateAttempt(T)
  \/ \E r \in Reviewer : ReviewerNext(r)

Spec == Init /\ [][Next]_vars

-------------------------------------------------------------------------------
(* Properties *)

\* Every variable holds a value of its type.
TypeOK ==
  /\ job \in [state : JobState, attempt : 1..MaxAttempt, attemptState : JobState,
              targets : (SUBSET Page) \ {{}}, cancel : BOOLEAN, export : Optional(Export),
              analysed : SUBSET Page]
  /\ pages \in [Page -> PageRecord]
  /\ held \subseteq Role
  /\ worker \in [pc : {"idle", "analyzing", "inspecting", "restoring", "validating", "failing"},
                 attempt : 0..MaxAttempt, todo : SUBSET Page,
                 made : [Page -> Optional(Candidate)]]
  /\ crashes \in 0..MaxCrash
  /\ store \in Stores

\* An approval always concerns what is current: the page's candidate, with a
\* report that is about this candidate and does not veto it, and the evidence
\* bundle of exactly these artifacts and this attempt, through stale screens,
\* retries, recoveries and requests that overlap.
ApprovalsBound ==
  \A p \in Page :
    pages[p].decision # None /\ pages[p].decision.action = "approve" =>
      /\ pages[p].selected = pages[p].candidate
      /\ pages[p].decision.candidate = pages[p].candidate
      /\ pages[p].report = pages[p].candidate
      /\ pages[p].candidate \in Candidate \ Vetoed
      /\ pages[p].decision.attempt = pages[p].attempt
      /\ pages[p].decision.bundle = pages[p].bundle
      /\ CurrentBundle(p)

\* An export says of every page what is decided and selected for it now; a retry
\* of any page withdraws it.
ExportCurrent ==
  job.export # None =>
    /\ job.state \in {"COMPLETED", "EXPIRED"}
    /\ \A p \in Page :
         /\ pages[p].decision # None
         /\ job.export[p] = [action |-> pages[p].decision.action, selected |-> pages[p].selected]

\* docs/review-evidence-contract.md: "A job cannot enter AWAITING_REVIEW unless
\* each target page has a current evidence bundle."
TargetsReviewable ==
  job.state = "AWAITING_REVIEW" => \A p \in job.targets : CurrentBundle(p)

\* Over SQLite the attempt the job is on is always in the state of the job: neither
\* a lost worker nor its recovery moves one without the other.
AttemptInStep == Durable => job.attemptState = job.state

\* The refinement mapping to the life cycle of the one job; a job whose attempt is not
\* in its state is in no phase of it.
Lifecycle == INSTANCE JobLifecycle
  WITH Job <- {"job"},
       life <- [j \in {"job"} |-> IF job.attemptState = job.state THEN PhaseOf(job.state)
                                  ELSE "unreachable"],
       attempt <- [j \in {"job"} |-> job.attempt]

\* Over SQLite every block on the pages leaves the life cycle alone that JobLifecycle
\* promises and WorkQueue implements, or is a step of it: the job and its attempt move together, a
\* lost worker's job waits again in the same attempt, and neither a review that was
\* checked under an earlier attempt nor a failure settles an attempt twice or takes a
\* settled or expired job up again.
KeepsLifecycle == [][Durable => UNCHANGED Lifecycle!lifeVars \/ Lifecycle!Next]_vars

\* The state a worker has left the job in.
StateAt(pc) ==
  IF pc \in {"analyzing", "inspecting"} THEN "ANALYZING"
  ELSE IF pc = "restoring" THEN "PROCESSING" ELSE "VALIDATING"

\* Over either store nothing but expiry takes its job from a worker: neither a
\* cancellation, a retry nor a review moves the job, its attempt or its targets away
\* between two blocks, also where the next block, as that of the analysis, does not ask.
WorkerInStep ==
  worker.pc # "idle" =>
    /\ job.attempt = worker.attempt
    /\ job.state \in {StateAt(worker.pc), "EXPIRED"}
    /\ worker.todo \subseteq job.targets
    /\ worker.pc = "inspecting" => worker.todo # {}

\* Over either store expiry is final for bytes: a worker in the middle of an attempt stores nothing
\* for a job that expired under it.
ExpiredHoldsNothing == job.state = "EXPIRED" => held = {}

\* When a request of r ends, each page it names is decided as it asks, or open in a
\* new attempt, or no page has changed.
WholeOrNothing(r) ==
  reviewer[r].pc = "checked" /\ reviewer'[r].pc = "idle" =>
    \/ pages' = pages
    \/ \A p \in Asked(r) :
         \/ pages'[p] = Blank(job'.attempt)
         \/ /\ pages'[p].decision # None
            /\ pages'[p].decision.action = reviewer[r].acts[p]

\* docs/review-evidence-contract.md: "Multi-page requests are prevalidated as one
\* batch, so an invalid later page cannot leave an earlier page partially
\* reviewed."
BatchIsAtomic == [][\A r \in Reviewer : WholeOrNothing(r)]_vars

\* The same of the SQLite store alone, whose transaction takes a refused block back.
BatchIsTransaction == [][Durable => \A r \in Reviewer : WholeOrNothing(r)]_vars

\* A teacher approves what a screen showed: the candidate on the screen, judged on
\* the evidence cited (a caller may cite none), is the one the approval selects,
\* whatever happened between the screen, the two lock blocks and the decision.
ApprovedAsSeen ==
  [][\A r \in Reviewer : reviewer[r].pc = "checked" /\ reviewer'[r].pc = "idle" =>
       \A p \in Asked(r) :
         reviewer[r].acts[p] = "approve" /\ pages'[p] # pages[p] =>
           /\ pages'[p].selected = reviewer[r].seen[p].candidate
           /\ reviewer[r].seen[p].bundle \in {None, pages'[p].bundle}]_vars

\* docs/review-evidence-contract.md: evidence generation "prevents a review-ready
\* state with missing crops".
ReviewReady ==
  job.state = "AWAITING_REVIEW" => \A p \in Page : pages[p].bundle # None
==============================================================================
