---------------------------- MODULE JobPagesProofs ----------------------------
(***************************************************************************)
(* JobPages for every set of pages, candidates and reviewers, over both    *)
(* stores.                                                                 *)
(*                                                                         *)
(* An approval is made from the evidence bundle, so what is true of it     *)
(* comes from how the bundle was made: from the candidate and the report   *)
(* the worker left on the page, in this attempt.  The invariant therefore  *)
(* follows the worker: the job stays where the worker left it or expires,  *)
(* the target pages of an active job are undecided and without a bundle,   *)
(* and what the worker has done of them matches what it remembers.         *)
(***************************************************************************)
EXTENDS JobPages, TLAPS, WellFoundedInduction

-------------------------------------------------------------------------------
(* The invariant *)

Ruling == {"approve", "reject", "reprocess"}

\* Every reviewer has a screen, and perhaps a request.
Requests ==
  reviewer \in [Reviewer ->
    [pc : {"idle", "checked"},
     seen : [Page -> [candidate : Optional(Candidate), bundle : Optional(Bundle)]],
     acts : [Page -> Optional(Ruling)]]]

\* The target pages are pages of the current attempt; while it is worked on they are
\* undecided, and have no bundle, unless one could not be made for all of them.
TargetsOpen ==
  \A p \in job.targets :
    /\ pages[p].attempt = job.attempt
    /\ Active(job.state) =>
         /\ pages[p].decision = None
         /\ Durable \/ worker.pc # "failing" => pages[p].bundle = None

\* What the worker remembers of a page is what the page has.
MadeInStep ==
  job.state # "EXPIRED" =>
    \A p \in job.targets :
      /\ worker.pc = "restoring" /\ p \notin worker.todo =>
           worker.made[p] \in Candidate /\ pages[p].candidate = worker.made[p]
      /\ worker.pc = "validating" =>
           worker.made[p] \in Candidate /\ pages[p].candidate = worker.made[p]
      /\ worker.pc = "validating" /\ p \notin worker.todo =>
           pages[p].report = worker.made[p]

\* A bundle is of a candidate and the report about it.
BundlesMatch ==
  \A p \in Page : pages[p].bundle # None => pages[p].bundle.report = pages[p].bundle.candidate

PagesInv ==
  /\ TypeOK /\ Requests
  /\ WorkerInStep /\ TargetsOpen /\ MadeInStep /\ BundlesMatch
  /\ ApprovalsBound /\ ExportCurrent /\ TargetsReviewable /\ AttemptInStep
  /\ ExpiredHoldsNothing

-------------------------------------------------------------------------------
(* Lemmas *)

\* The first page of those that are left is one of them.
LEMMA FirstIsOne == \A S \in SUBSET Page : S # {} => First(S) \in S
<1> SUFFICES ASSUME NEW S \in SUBSET Page, S # {} PROVE First(S) \in S OBVIOUS
<1>1. S \subseteq Nat BY PagesAssumption
<1>2. PICK x \in S : \A y \in S : <<y, x>> \notin OpToRel(<, Nat)
      BY <1>1, WFMin, NatLessThanWellFounded, Zenon
<1>3. \A y \in S : x <= y
  <2> TAKE y \in S
  <2>1. ~(y < x) BY <1>1, <1>2 DEF OpToRel
  <2> QED BY <2>1, <1>1
<1> QED BY <1>3 DEF First

\* The types of the records, under names.
JobRec == [state : JobState, attempt : 1..MaxAttempt, attemptState : JobState,
           targets : (SUBSET Page) \ {{}}, cancel : BOOLEAN, export : Optional(Export),
           analysed : SUBSET Page]
WorkerRec == [pc : {"idle", "analyzing", "inspecting", "restoring", "validating", "failing"},
              attempt : 0..MaxAttempt, todo : SUBSET Page,
              made : [Page -> Optional(Candidate)]]

LEMMA Types ==
  TypeOK <=> /\ job \in JobRec /\ pages \in [Page -> PageRecord] /\ held \subseteq Role
             /\ worker \in WorkerRec /\ crashes \in 0..MaxCrash /\ store \in Stores
BY DEF TypeOK, JobRec, WorkerRec

\* A transition changes the two states and nothing else.
LEMMA MovedIs ==
  ASSUME job \in JobRec, NEW s \in JobState
  PROVE  /\ Moved(s) \in JobRec
         /\ Moved(s).state = s /\ Moved(s).attemptState = s
         /\ Moved(s).attempt = job.attempt /\ Moved(s).targets = job.targets
         /\ Moved(s).export = job.export /\ Moved(s).cancel = job.cancel
BY DEF Moved, JobRec

\* What the worker leaves of its record when it moves to another place.
LEMMA WorkerGoesIs ==
  ASSUME worker \in WorkerRec, NEW pc \in {"analyzing", "inspecting", "restoring", "validating", "failing"},
         NEW T \in SUBSET Page, WorkerGoes(pc, T)
  PROVE  /\ worker' \in WorkerRec
         /\ worker'.pc = pc /\ worker'.todo = T
         /\ worker'.attempt = worker.attempt /\ worker'.made = worker.made
BY DEF WorkerGoes, WorkerRec

LEMMA IdleIs == Idle \in WorkerRec /\ Idle.pc = "idle"
BY PagesAssumption DEF Idle, WorkerRec, NoCandidates, Optional

\* A step that leaves the pages and the reviewers alone.
LEMMA PagesStill ==
  ASSUME PagesInv, UNCHANGED <<pages, reviewer, store>>,
         job' \in JobRec, worker' \in WorkerRec, crashes' \in 0..MaxCrash, held' \subseteq Role,
         job'.attempt = job.attempt, job'.targets = job.targets, job'.export = job.export,
         job'.state = "AWAITING_REVIEW" => job.state = "AWAITING_REVIEW",
         job.export # None => job'.state \in {"COMPLETED", "EXPIRED"},
         WorkerInStep', TargetsOpen', MadeInStep', AttemptInStep', ExpiredHoldsNothing'
  PROVE  PagesInv'
<1>1. TypeOK' BY Types DEF PagesInv, TypeOK, JobRec, WorkerRec
<1>2. Requests' BY DEF PagesInv, Requests
<1>3. BundlesMatch' BY DEF PagesInv, BundlesMatch
<1>4. ApprovalsBound' BY DEF PagesInv, ApprovalsBound, CurrentBundle
<1>5. ExportCurrent' BY DEF PagesInv, ExportCurrent
<1>6. TargetsReviewable' BY DEF PagesInv, TargetsReviewable, CurrentBundle
<1> QED BY <1>1, <1>2, <1>3, <1>4, <1>5, <1>6 DEF PagesInv

-------------------------------------------------------------------------------
(* The actions that leave the pages alone *)

LEMMA BeginAnalysisInv == PagesInv /\ BeginAnalysis => PagesInv'
<1> SUFFICES ASSUME PagesInv, BeginAnalysis PROVE PagesInv' OBVIOUS
<1>1. job \in JobRec /\ worker \in WorkerRec BY Types DEF PagesInv
<1>2. job' = Moved("ANALYZING") BY DEF BeginAnalysis
<1>3. /\ job' \in JobRec /\ job'.state = "ANALYZING" /\ job'.attemptState = "ANALYZING"
      /\ job'.attempt = job.attempt /\ job'.targets = job.targets /\ job'.export = job.export
      BY <1>1, <1>2, MovedIs DEF JobState
<1>4. /\ worker' \in WorkerRec /\ worker'.pc = "analyzing"
      /\ worker'.attempt = job.attempt /\ worker'.todo = job.targets
  <2>1. job.attempt \in 0..MaxAttempt /\ job.targets \in SUBSET Page
        BY <1>1, PagesAssumption DEF JobRec
  <2> QED BY <2>1, IdleIs DEF BeginAnalysis, WorkerRec
<1>5. job.state \in QueuedStates /\ worker.pc = "idle" /\ UNCHANGED <<pages, held, reviewer, crashes, store>>
      BY DEF BeginAnalysis, Others, At
<1>6. Active(job.state) BY <1>5 DEF Active, QueuedStates, ActiveWorkStates
<1>7. WorkerInStep' BY <1>3, <1>4 DEF WorkerInStep, StateAt
<1>8. TargetsOpen' BY <1>3, <1>4, <1>5, <1>6 DEF PagesInv, TargetsOpen, Durable
<1>9. MadeInStep' BY <1>4 DEF MadeInStep
<1>10. AttemptInStep' BY <1>3 DEF AttemptInStep
<1>11. ExpiredHoldsNothing' BY <1>3 DEF ExpiredHoldsNothing
<1>12. job.export = None BY <1>5 DEF PagesInv, ExportCurrent, QueuedStates
<1> QED BY <1>1, <1>3, <1>4, <1>5, <1>7, <1>8, <1>9, <1>10, <1>11, <1>12, PagesStill, Types DEF PagesInv

\* A worker that goes on finds the job where it left it.
LEMMA WorkerFindsJob ==
  ASSUME PagesInv, worker.pc # "idle", job.state # "EXPIRED"
  PROVE  /\ job.state = StateAt(worker.pc) /\ Active(job.state)
         /\ job.attempt = worker.attempt /\ worker.todo \subseteq job.targets
         /\ job.state \notin {"AWAITING_REVIEW", "EXPIRED"} /\ job.export = None
<1>1. job.state = StateAt(worker.pc) /\ job.attempt = worker.attempt /\ worker.todo \subseteq job.targets
      BY DEF PagesInv, WorkerInStep
<1>2. job.state \in {"ANALYZING", "PROCESSING", "VALIDATING"} BY <1>1 DEF StateAt
<1> QED BY <1>1, <1>2 DEF Active, ActiveWorkStates, PagesInv, ExportCurrent

LEMMA ReadSourceInv == PagesInv /\ ReadSource => PagesInv'
<1> SUFFICES ASSUME PagesInv, ReadSource PROVE PagesInv' OBVIOUS
<1>1. job \in JobRec /\ worker \in WorkerRec BY Types DEF PagesInv
<1>2. /\ worker.pc = "analyzing" /\ worker.todo # {}
      /\ UNCHANGED <<job, pages, held, reviewer, crashes, store>>
      BY DEF ReadSource, Others, At
<1>3. worker.todo \in SUBSET Page BY <1>1 DEF WorkerRec
<1>4. /\ worker' \in WorkerRec /\ worker'.pc = "inspecting" /\ worker'.attempt = worker.attempt
      /\ worker'.todo = worker.todo
      BY <1>1, <1>3, WorkerGoesIs DEF ReadSource
<1>5. WorkerInStep' BY <1>2, <1>4 DEF PagesInv, WorkerInStep, StateAt
<1>6. TargetsOpen' BY <1>2, <1>4 DEF PagesInv, TargetsOpen, Durable
<1>7. MadeInStep' BY <1>4 DEF MadeInStep
<1>8. AttemptInStep' /\ ExpiredHoldsNothing' BY <1>2 DEF PagesInv, AttemptInStep, ExpiredHoldsNothing, Durable
<1>9. job.export # None => job.state \in {"COMPLETED", "EXPIRED"} BY DEF PagesInv, ExportCurrent
<1> QED BY <1>1, <1>2, <1>4, <1>5, <1>6, <1>7, <1>8, <1>9, PagesStill, Types DEF PagesInv

\* The analysis is recorded whatever has become of the job; it changes no state.
LEMMA RecordAnalysisIs ==
  ASSUME PagesInv, RecordAnalysis
  PROVE  /\ job' \in JobRec /\ worker.pc = "inspecting" /\ worker' \in WorkerRec
         /\ job'.state = job.state /\ job'.attemptState = job.attemptState
         /\ job'.attempt = job.attempt /\ job'.targets = job.targets /\ job'.export = job.export
         /\ worker'.pc = "analyzing" /\ worker'.attempt = worker.attempt
         /\ worker'.todo \subseteq worker.todo
<1>1. job \in JobRec /\ worker \in WorkerRec BY Types DEF PagesInv
<1>2. worker.pc = "inspecting" /\ worker.todo # {} /\ worker.todo \in SUBSET Page
      BY <1>1 DEF RecordAnalysis, At, PagesInv, WorkerInStep, WorkerRec
<1>3. First(worker.todo) \in Page BY <1>2, FirstIsOne
<1>4. /\ job' \in JobRec
      /\ job'.state = job.state /\ job'.attemptState = job.attemptState
      /\ job'.attempt = job.attempt /\ job'.targets = job.targets /\ job'.export = job.export
  <2>1. job' = [job EXCEPT !.analysed = @ \cup {First(worker.todo)}] BY DEF RecordAnalysis
  <2> QED BY <1>1, <1>3, <2>1 DEF JobRec
<1>5. worker.todo \ {First(worker.todo)} \in SUBSET Page BY <1>2
<1>6. /\ worker' \in WorkerRec /\ worker'.pc = "analyzing" /\ worker'.attempt = worker.attempt
      /\ worker'.todo \subseteq worker.todo
      BY <1>1, <1>5, WorkerGoesIs DEF RecordAnalysis
<1> QED BY <1>2, <1>4, <1>6

LEMMA RecordAnalysisInv == PagesInv /\ RecordAnalysis => PagesInv'
<1> SUFFICES ASSUME PagesInv, RecordAnalysis PROVE PagesInv' OBVIOUS
<1>1. job \in JobRec BY Types DEF PagesInv
<1>2. UNCHANGED <<pages, held, reviewer, crashes, store>> BY DEF RecordAnalysis, Others
<1>3. WorkerInStep' BY RecordAnalysisIs DEF PagesInv, WorkerInStep, StateAt
<1>4. TargetsOpen' BY <1>2, RecordAnalysisIs DEF PagesInv, TargetsOpen, Durable
<1>5. MadeInStep' BY RecordAnalysisIs DEF MadeInStep
<1>6. AttemptInStep' /\ ExpiredHoldsNothing'
      BY <1>2, RecordAnalysisIs DEF PagesInv, AttemptInStep, ExpiredHoldsNothing, Durable
<1>7. job.export # None => job.state \in {"COMPLETED", "EXPIRED"} BY DEF PagesInv, ExportCurrent
<1> QED BY <1>1, <1>2, <1>3, <1>4, <1>5, <1>6, <1>7, RecordAnalysisIs, PagesStill, Types DEF PagesInv

LEMMA BeginRestorationInv == PagesInv /\ BeginRestoration => PagesInv'
<1> SUFFICES ASSUME PagesInv, BeginRestoration PROVE PagesInv' OBVIOUS
<1>1. job \in JobRec /\ worker \in WorkerRec BY Types DEF PagesInv
<1>2. worker.pc = "analyzing" /\ UNCHANGED <<pages, held, reviewer, crashes, store>> /\ job.state # "EXPIRED"
      BY DEF BeginRestoration, Others, At, Proceed
<1>3. /\ job' \in JobRec /\ job'.state = "PROCESSING" /\ job'.attemptState = "PROCESSING"
      /\ job'.attempt = job.attempt /\ job'.targets = job.targets /\ job'.export = job.export
      BY <1>1, MovedIs DEF BeginRestoration, JobState
<1>4. job.targets \in SUBSET Page BY <1>1 DEF JobRec
<1>5. /\ worker' \in WorkerRec /\ worker'.pc = "restoring" /\ worker'.attempt = worker.attempt
      /\ worker'.todo = job.targets
      BY <1>1, <1>4, WorkerGoesIs DEF BeginRestoration
<1>6. Active(job.state) /\ job.attempt = worker.attempt /\ job.export = None BY <1>2, WorkerFindsJob
<1>7. WorkerInStep' BY <1>3, <1>5, <1>6 DEF WorkerInStep, StateAt
<1>8. TargetsOpen' BY <1>2, <1>3, <1>5, <1>6 DEF PagesInv, TargetsOpen, Durable
<1>9. MadeInStep' BY <1>3, <1>5 DEF MadeInStep
<1>10. AttemptInStep' /\ ExpiredHoldsNothing' BY <1>3 DEF AttemptInStep, ExpiredHoldsNothing
<1> QED BY <1>1, <1>2, <1>3, <1>5, <1>6, <1>7, <1>8, <1>9, <1>10, PagesStill, Types DEF PagesInv

LEMMA BeginValidationInv == PagesInv /\ BeginValidation => PagesInv'
<1> SUFFICES ASSUME PagesInv, BeginValidation PROVE PagesInv' OBVIOUS
<1>1. job \in JobRec /\ worker \in WorkerRec BY Types DEF PagesInv
<1>2. /\ worker.pc = "restoring" /\ worker.todo = {} /\ job.state # "EXPIRED"
      /\ UNCHANGED <<pages, held, reviewer, crashes, store>>
      BY DEF BeginValidation, Others, At, Proceed
<1>3. /\ job' \in JobRec /\ job'.state = "VALIDATING" /\ job'.attemptState = "VALIDATING"
      /\ job'.attempt = job.attempt /\ job'.targets = job.targets /\ job'.export = job.export
      BY <1>1, MovedIs DEF BeginValidation, JobState
<1>4. job.targets \in SUBSET Page BY <1>1 DEF JobRec
<1>5. /\ worker' \in WorkerRec /\ worker'.pc = "validating" /\ worker'.attempt = worker.attempt
      /\ worker'.todo = job.targets /\ worker'.made = worker.made
      BY <1>1, <1>4, WorkerGoesIs DEF BeginValidation
<1>6. Active(job.state) /\ job.attempt = worker.attempt /\ job.export = None BY <1>2, WorkerFindsJob
<1>7. WorkerInStep' BY <1>3, <1>5, <1>6 DEF WorkerInStep, StateAt
<1>8. TargetsOpen' BY <1>2, <1>3, <1>5, <1>6 DEF PagesInv, TargetsOpen, Durable
<1>9. MadeInStep' BY <1>2, <1>3, <1>5 DEF PagesInv, MadeInStep
<1>10. AttemptInStep' /\ ExpiredHoldsNothing' BY <1>3 DEF AttemptInStep, ExpiredHoldsNothing
<1> QED BY <1>1, <1>2, <1>3, <1>5, <1>6, <1>7, <1>8, <1>9, <1>10, PagesStill, Types DEF PagesInv

\* The worker goes idle, and its job stays, or has failed, was cancelled or is expired.
LEMMA WorkerStops ==
  ASSUME PagesInv, worker' \in WorkerRec, worker'.pc = "idle", crashes' \in 0..MaxCrash,
         UNCHANGED <<pages, held, reviewer, store>>,
         job' \in JobRec, job'.attempt = job.attempt, job'.targets = job.targets,
         job'.export = job.export,
         job'.state \in {job.state, "FAILED", "CANCELLED"},
         job.state = "EXPIRED" <=> job'.state = "EXPIRED",
         job.export # None => job'.state = job.state,
         Durable => job'.attemptState = job'.state,
         Durable \/ worker.pc # "failing" \/ job'.state # job.state \/ job.state = "EXPIRED"
  PROVE  PagesInv'
<1>1. WorkerInStep' /\ MadeInStep' BY DEF WorkerInStep, MadeInStep
<1>2. TargetsOpen'
  <2> SUFFICES ASSUME NEW p \in job.targets
               PROVE  /\ pages[p].attempt = job.attempt
                      /\ Active(job'.state) => pages[p].decision = None /\ pages[p].bundle = None
      BY DEF TargetsOpen
  <2>1. Active(job'.state) => job'.state = job.state /\ job.state # "EXPIRED"
        BY DEF Active, ActiveWorkStates
  <2> QED BY <2>1 DEF PagesInv, TargetsOpen
<1>3. AttemptInStep' BY DEF AttemptInStep, Durable
<1>4. ExpiredHoldsNothing' BY DEF PagesInv, ExpiredHoldsNothing
<1>5. job.export # None => job'.state \in {"COMPLETED", "EXPIRED"} BY DEF PagesInv, ExportCurrent
<1> QED BY <1>1, <1>2, <1>3, <1>4, <1>5, PagesStill, Types DEF PagesInv

LEMMA MeetCancellationInv == PagesInv /\ MeetCancellation => PagesInv'
<1> SUFFICES ASSUME PagesInv, MeetCancellation PROVE PagesInv' OBVIOUS
<1>1. job \in JobRec /\ worker \in WorkerRec /\ crashes \in 0..MaxCrash BY Types DEF PagesInv
<1>2. /\ worker.pc \in {"analyzing", "restoring", "validating"} /\ worker' = Idle
      /\ UNCHANGED <<pages, held, reviewer, crashes, store>>
      /\ job' = IF Durable \/ job.state = "EXPIRED" THEN job ELSE Moved("CANCELLED")
      BY DEF MeetCancellation, Others
<1>3. worker' \in WorkerRec /\ worker'.pc = "idle" BY <1>2, IdleIs
<1>4. CASE Durable \/ job.state = "EXPIRED"
      BY <1>1, <1>2, <1>3, <1>4, WorkerStops DEF PagesInv, AttemptInStep
<1>5. CASE ~Durable /\ job.state # "EXPIRED"
  <2>1. /\ job' \in JobRec /\ job'.state = "CANCELLED" /\ job'.attemptState = "CANCELLED"
        /\ job'.attempt = job.attempt /\ job'.targets = job.targets /\ job'.export = job.export
        BY <1>1, <1>2, <1>5, MovedIs DEF JobState
  <2>2. job.export = None BY <1>2, <1>5, WorkerFindsJob
  <2> QED BY <1>1, <1>2, <1>3, <1>5, <2>1, <2>2, WorkerStops
<1> QED BY <1>4, <1>5

LEMMA FailProcessingInv == PagesInv /\ FailProcessing => PagesInv'
<1> SUFFICES ASSUME PagesInv, FailProcessing PROVE PagesInv' OBVIOUS
<1>1. job \in JobRec /\ worker \in WorkerRec /\ crashes \in 0..MaxCrash BY Types DEF PagesInv
<1>2. /\ worker.pc # "idle" /\ worker' = Idle /\ Fenced
      /\ UNCHANGED <<pages, held, reviewer, crashes, store>>
      /\ job' = IF MayMove("FAILED") THEN Moved("FAILED") ELSE [job EXCEPT !.attemptState = "FAILED"]
      BY DEF FailProcessing, Others, At
<1>3. worker' \in WorkerRec /\ worker'.pc = "idle" BY <1>2, IdleIs
<1>4. CASE job.state = "EXPIRED"
  <2>1. ~MayMove("FAILED") BY <1>4 DEF MayMove, AllowedTransitions, JobState
  <2>2. /\ job' \in JobRec /\ job'.state = job.state
        /\ job'.attempt = job.attempt /\ job'.targets = job.targets /\ job'.export = job.export
        BY <1>1, <1>2, <2>1 DEF JobRec, JobState
  <2>3. ~Durable BY <1>2, <1>4 DEF Fenced, Active, ActiveWorkStates
  <2> QED BY <1>1, <1>2, <1>3, <1>4, <2>2, <2>3, WorkerStops
<1>5. CASE job.state # "EXPIRED"
  <2>1. job.state = StateAt(worker.pc) /\ job.export = None BY <1>2, <1>5, WorkerFindsJob
  <2>2. job.state \in {"ANALYZING", "PROCESSING", "VALIDATING"} BY <2>1 DEF StateAt
  <2>3. MayMove("FAILED") BY <2>2 DEF MayMove, AllowedTransitions, JobState
  <2>4. /\ job' \in JobRec /\ job'.state = "FAILED" /\ job'.attemptState = "FAILED"
        /\ job'.attempt = job.attempt /\ job'.targets = job.targets /\ job'.export = job.export
        BY <1>1, <1>2, <2>3, MovedIs DEF JobState
  <2> QED BY <1>1, <1>2, <1>3, <1>5, <2>1, <2>2, <2>4, WorkerStops
<1> QED BY <1>4, <1>5

LEMMA LoseClaimInv == PagesInv /\ LoseClaim => PagesInv'
<1> SUFFICES ASSUME PagesInv, LoseClaim PROVE PagesInv' OBVIOUS
<1>1. job \in JobRec /\ crashes \in 0..MaxCrash BY Types DEF PagesInv
<1>2. worker' = Idle /\ ~Fenced /\ UNCHANGED <<job, pages, held, reviewer, crashes, store>>
      BY DEF LoseClaim, Others
<1>3. Durable BY <1>2 DEF Fenced
<1> QED BY <1>1, <1>2, <1>3, IdleIs, WorkerStops DEF PagesInv, AttemptInStep

LEMMA CrashWorkerInv == PagesInv /\ CrashWorker => PagesInv'
<1> SUFFICES ASSUME PagesInv, CrashWorker PROVE PagesInv' OBVIOUS
<1>1. job \in JobRec /\ crashes \in 0..MaxCrash BY Types DEF PagesInv
<1>2. /\ worker' = Idle /\ Durable /\ crashes < MaxCrash /\ crashes' = crashes + 1
      /\ UNCHANGED <<job, pages, held, reviewer, store>>
      BY DEF CrashWorker
<1>3. crashes' \in 0..MaxCrash BY <1>1, <1>2, PagesAssumption
<1> QED BY <1>1, <1>2, <1>3, IdleIs, WorkerStops DEF PagesInv, AttemptInStep

LEMMA CancelJobInv == PagesInv /\ CancelJob => PagesInv'
<1> SUFFICES ASSUME PagesInv, CancelJob PROVE PagesInv' OBVIOUS
<1>1. job \in JobRec /\ worker \in WorkerRec BY Types DEF PagesInv
<1>2. /\ UNCHANGED <<pages, held, worker, reviewer, crashes, store>>
      /\ job.state \notin NotCancellableStates \cup {"EXPIRED"}
      /\ job' = [(IF job.state \in CancelledAtOnceStates THEN Moved("CANCELLED") ELSE job)
                 EXCEPT !.cancel = TRUE]
      BY DEF CancelJob
<1> DEFINE j == IF job.state \in CancelledAtOnceStates THEN Moved("CANCELLED") ELSE job
<1>3. /\ j \in JobRec /\ j.attempt = job.attempt /\ j.targets = job.targets /\ j.export = job.export
      /\ IF job.state \in CancelledAtOnceStates
         THEN j.state = "CANCELLED" /\ j.attemptState = "CANCELLED"
         ELSE j.state = job.state /\ j.attemptState = job.attemptState
      BY <1>1, MovedIs DEF JobState
<1>4. job' = [j EXCEPT !.cancel = TRUE] BY <1>2
<1> HIDE DEF j
<1>5. /\ job' \in JobRec /\ job'.state = j.state /\ job'.attemptState = j.attemptState
      /\ job'.attempt = j.attempt /\ job'.targets = j.targets /\ job'.export = j.export
      BY <1>3, <1>4 DEF JobRec
<1>6. job.export = None BY <1>2 DEF PagesInv, ExportCurrent, NotCancellableStates
<1>7. WorkerInStep'
  <2>1. worker.pc # "idle" => job.state \notin CancelledAtOnceStates
        BY <1>2, WorkerFindsJob DEF StateAt, CancelledAtOnceStates
  <2> QED BY <1>2, <1>3, <1>5, <2>1 DEF PagesInv, WorkerInStep
<1>8. TargetsOpen'
  <2>1. Active(job'.state) => job'.state = job.state BY <1>3, <1>5 DEF Active, ActiveWorkStates
  <2> QED BY <1>2, <1>3, <1>5, <2>1 DEF PagesInv, TargetsOpen, Durable
<1>9. MadeInStep' BY <1>2, <1>3, <1>5 DEF PagesInv, MadeInStep
<1>10. AttemptInStep' BY <1>2, <1>3, <1>5 DEF PagesInv, AttemptInStep, Durable
<1>11. ExpiredHoldsNothing' BY <1>2, <1>3, <1>5 DEF ExpiredHoldsNothing
<1>12. job'.state = "AWAITING_REVIEW" => job.state = "AWAITING_REVIEW" BY <1>3, <1>5
<1> QED BY <1>1, <1>2, <1>3, <1>5, <1>6, <1>7, <1>8, <1>9, <1>10, <1>11, <1>12, PagesStill, Types DEF PagesInv

LEMMA ExpireJobInv == PagesInv /\ ExpireJob => PagesInv'
<1> SUFFICES ASSUME PagesInv, ExpireJob PROVE PagesInv' OBVIOUS
<1>1. job \in JobRec BY Types DEF PagesInv
<1>2. held' = {} /\ UNCHANGED <<pages, worker, reviewer, crashes, store>> BY DEF ExpireJob
<1>3. /\ job' \in JobRec /\ job'.state = "EXPIRED" /\ job'.attemptState = "EXPIRED"
      /\ job'.attempt = job.attempt /\ job'.targets = job.targets /\ job'.export = job.export
      BY <1>1, MovedIs DEF ExpireJob, JobState
<1>4. WorkerInStep' BY <1>2, <1>3 DEF PagesInv, WorkerInStep
<1>5. TargetsOpen' BY <1>2, <1>3 DEF PagesInv, TargetsOpen, Active, ActiveWorkStates
<1>6. MadeInStep' /\ AttemptInStep' /\ ExpiredHoldsNothing'
      BY <1>2, <1>3 DEF MadeInStep, AttemptInStep, ExpiredHoldsNothing
<1> QED BY <1>2, <1>3, <1>4, <1>5, <1>6, PagesStill, Types DEF PagesInv

-------------------------------------------------------------------------------
(* The actions of the worker on the pages *)

\* The approval on one page record is of what the record has.
BoundPage(rec) ==
  rec.decision # None /\ rec.decision.action = "approve" =>
    /\ rec.selected = rec.candidate
    /\ rec.decision.candidate = rec.candidate
    /\ rec.report = rec.candidate
    /\ rec.candidate \in Candidate \ Vetoed
    /\ rec.decision.attempt = rec.attempt
    /\ rec.decision.bundle = rec.bundle
    /\ rec.bundle = [attempt |-> rec.attempt, candidate |-> rec.candidate, report |-> rec.report]

LEMMA ApprovalsByPage == ApprovalsBound <=> \A p \in Page : BoundPage(pages[p])
BY DEF ApprovalsBound, BoundPage, CurrentBundle

\* A step on an active job that leaves it active, or takes it to review.
LEMMA PagesWorked ==
  ASSUME PagesInv, UNCHANGED <<reviewer, crashes, store>>,
         job' \in JobRec, pages' \in [Page -> PageRecord], worker' \in WorkerRec, held' \subseteq Role,
         job.export = None, job'.export = None, job'.state # "EXPIRED",
         \A p \in Page : pages'[p] = pages[p] \/ pages'[p].decision = None,
         WorkerInStep', TargetsOpen', MadeInStep', BundlesMatch', TargetsReviewable', AttemptInStep'
  PROVE  PagesInv'
<1>1. TypeOK' BY Types DEF PagesInv, TypeOK, JobRec, WorkerRec
<1>2. Requests' BY DEF PagesInv, Requests
<1>3. \A p \in Page : BoundPage(pages[p]) BY ApprovalsByPage DEF PagesInv
<1>4. \A p \in Page : BoundPage(pages'[p]) BY <1>3 DEF BoundPage
<1>5. ApprovalsBound' BY <1>4 DEF ApprovalsBound, BoundPage, CurrentBundle
<1>6. ExportCurrent' BY DEF ExportCurrent
<1>7. ExpiredHoldsNothing' BY DEF ExpiredHoldsNothing
<1> QED BY <1>1, <1>2, <1>5, <1>6, <1>7 DEF PagesInv

LEMMA BlankIs ==
  ASSUME NEW a \in 1..MaxAttempt
  PROVE  /\ Blank(a) \in PageRecord /\ Blank(a).attempt = a
         /\ Blank(a).decision = None /\ Blank(a).bundle = None
BY DEF Blank, PageRecord, Optional

LEMMA RecoverAttemptInv == PagesInv /\ RecoverAttempt => PagesInv'
<1> SUFFICES ASSUME PagesInv, RecoverAttempt PROVE PagesInv' OBVIOUS
<1>1. job \in JobRec /\ worker \in WorkerRec /\ pages \in [Page -> PageRecord] /\ held \subseteq Role
      BY Types DEF PagesInv
<1>2. /\ worker.pc = "idle" /\ Active(job.state) /\ UNCHANGED <<held, worker, reviewer, crashes, store>>
      /\ pages' = [p \in Page |-> IF p \in job.targets THEN Blank(pages[p].attempt) ELSE pages[p]]
      BY DEF RecoverAttempt, Others, At
<1>3. /\ job' \in JobRec /\ job'.state = "READY_FOR_PROCESSING" /\ job'.attemptState = job'.state
      /\ job'.attempt = job.attempt /\ job'.targets = job.targets /\ job'.export = job.export
      BY <1>1, MovedIs DEF RecoverAttempt, JobState
<1>4. job.export = None BY <1>2 DEF PagesInv, ExportCurrent, Active, ActiveWorkStates
<1>5. \A p \in Page : pages[p].attempt \in 1..MaxAttempt BY <1>1 DEF PageRecord
<1>6. pages' \in [Page -> PageRecord] BY <1>1, <1>2, <1>5, BlankIs
<1>7. \A p \in Page : \/ p \notin job.targets /\ pages'[p] = pages[p]
                      \/ /\ pages'[p].attempt = pages[p].attempt
                         /\ pages'[p].decision = None /\ pages'[p].bundle = None
      BY <1>2, <1>5, BlankIs
<1>8. WorkerInStep' /\ MadeInStep' BY <1>2 DEF WorkerInStep, MadeInStep
<1>9. TargetsOpen'
  <2>1. job.targets \subseteq Page BY <1>1 DEF JobRec
  <2> QED BY <1>3, <1>7, <2>1 DEF PagesInv, TargetsOpen
<1>10. BundlesMatch' BY <1>7 DEF PagesInv, BundlesMatch
<1>11. TargetsReviewable' /\ AttemptInStep' BY <1>3 DEF TargetsReviewable, AttemptInStep
<1> QED BY <1>1, <1>2, <1>3, <1>4, <1>6, <1>7, <1>8, <1>9, <1>10, <1>11, PagesWorked

LEMMA RecordCandidateInv ==
  ASSUME PagesInv, NEW c \in Candidate, RecordCandidate(c)
  PROVE  PagesInv'
<1> DEFINE p == First(worker.todo)
           rec == [pages[p] EXCEPT !.candidate = c, !.attempt = job.attempt,
                                   !.decision = None, !.selected = None]
<1>1. job \in JobRec /\ worker \in WorkerRec /\ pages \in [Page -> PageRecord] /\ held \subseteq Role
      BY Types DEF PagesInv
<1>2. /\ worker.pc = "restoring" /\ worker.todo # {} /\ job.state # "EXPIRED"
      /\ UNCHANGED <<job, reviewer, crashes, store>> /\ held' = held \cup {"candidate"}
      BY DEF RecordCandidate, Others, At, Proceed
<1>3. p \in worker.todo BY <1>1, <1>2, FirstIsOne DEF WorkerRec
<1>4. /\ job.attempt = worker.attempt /\ worker.todo \subseteq job.targets /\ job.export = None
      /\ Active(job.state) /\ job.state = "PROCESSING"
      BY <1>2, WorkerFindsJob DEF StateAt
<1>5. p \in job.targets /\ p \in Page BY <1>1, <1>3, <1>4 DEF JobRec
<1>6. pages' = [pages EXCEPT ![p] = rec] BY <1>1, <1>5 DEF RecordCandidate
<1>7. /\ rec \in PageRecord /\ rec.candidate = c /\ rec.attempt = job.attempt /\ rec.decision = None
      /\ rec.bundle = pages[p].bundle
      BY <1>1, <1>5 DEF PageRecord, Optional, JobRec
<1>8. worker' = [worker EXCEPT !.todo = worker.todo \ {p}, !.made[p] = c] BY DEF RecordCandidate
<1> HIDE DEF p, rec
<1>9. /\ worker' \in WorkerRec /\ worker'.pc = "restoring" /\ worker'.attempt = worker.attempt
      /\ worker'.todo = worker.todo \ {p} /\ worker'.made = [worker.made EXCEPT ![p] = c]
      BY <1>1, <1>2, <1>8 DEF WorkerRec, Optional
<1>10. /\ pages' \in [Page -> PageRecord] /\ pages'[p] = rec
       /\ \A q \in Page : q # p => pages'[q] = pages[q]
       BY <1>1, <1>5, <1>6, <1>7
<1>11. job.targets \subseteq Page BY <1>1 DEF JobRec
<1>12. held' \subseteq Role BY <1>1, <1>2 DEF Role
<1>13. WorkerInStep' BY <1>2, <1>4, <1>9 DEF WorkerInStep, StateAt
<1>14. TargetsOpen' BY <1>2, <1>7, <1>9, <1>10, <1>11 DEF PagesInv, TargetsOpen, Durable
<1>15. MadeInStep'
  <2> SUFFICES ASSUME NEW q \in job.targets, q \notin worker'.todo
               PROVE  worker'.made[q] \in Candidate /\ pages'[q].candidate = worker'.made[q]
      BY <1>2, <1>9 DEF MadeInStep
  <2>1. worker.made \in [Page -> Optional(Candidate)] BY <1>1 DEF WorkerRec
  <2>2. CASE q = p BY <1>5, <1>7, <1>9, <1>10, <2>1, <2>2
  <2>3. CASE q # p BY <1>2, <1>5, <1>9, <1>10, <1>11, <2>1, <2>3 DEF PagesInv, MadeInStep
  <2> QED BY <2>2, <2>3
<1>16. BundlesMatch' BY <1>5, <1>7, <1>10 DEF PagesInv, BundlesMatch
<1>17. TargetsReviewable' BY <1>2, <1>4 DEF TargetsReviewable
<1>18. AttemptInStep' BY <1>2 DEF PagesInv, AttemptInStep, Durable
<1> QED BY <1>1, <1>2, <1>4, <1>7, <1>9, <1>10, <1>12, <1>13, <1>14, <1>15, <1>16, <1>17, <1>18, PagesWorked

LEMMA RecordReportInv == PagesInv /\ RecordReport => PagesInv'
<1> SUFFICES ASSUME PagesInv, RecordReport PROVE PagesInv' OBVIOUS
<1> DEFINE p == First(worker.todo)
           rec == [pages[p] EXCEPT !.report = worker.made[p]]
<1>1. job \in JobRec /\ worker \in WorkerRec /\ pages \in [Page -> PageRecord] /\ held \subseteq Role
      BY Types DEF PagesInv
<1>2. /\ worker.pc = "validating" /\ worker.todo # {} /\ job.state # "EXPIRED"
      /\ UNCHANGED <<job, reviewer, crashes, store>> /\ held' = held \cup {"report"}
      BY DEF RecordReport, Others, At, Proceed
<1>3. p \in worker.todo BY <1>1, <1>2, FirstIsOne DEF WorkerRec
<1>4. /\ job.attempt = worker.attempt /\ worker.todo \subseteq job.targets /\ job.export = None
      /\ Active(job.state) /\ job.state = "VALIDATING"
      BY <1>2, WorkerFindsJob DEF StateAt
<1>5. p \in job.targets /\ p \in Page BY <1>1, <1>3, <1>4 DEF JobRec
<1>6. pages' = [pages EXCEPT ![p] = rec] BY <1>1, <1>5 DEF RecordReport
<1>7. worker.made[p] \in Candidate BY <1>2, <1>5 DEF PagesInv, MadeInStep
<1>8. /\ rec \in PageRecord /\ rec.report = worker.made[p] /\ rec.candidate = pages[p].candidate
      /\ rec.attempt = pages[p].attempt /\ rec.decision = pages[p].decision
      /\ rec.bundle = pages[p].bundle
      BY <1>1, <1>5, <1>7 DEF PageRecord, Optional
<1>9. worker.todo \ {p} \in SUBSET Page BY <1>1 DEF WorkerRec
<1>10. /\ worker' \in WorkerRec /\ worker'.pc = "validating" /\ worker'.attempt = worker.attempt
       /\ worker'.todo = worker.todo \ {p} /\ worker'.made = worker.made
       BY <1>1, <1>9, WorkerGoesIs DEF RecordReport
<1> HIDE DEF p, rec
<1>11. /\ pages' \in [Page -> PageRecord] /\ pages'[p] = rec
       /\ \A q \in Page : q # p => pages'[q] = pages[q]
       BY <1>1, <1>5, <1>6, <1>8
<1>12. job.targets \subseteq Page BY <1>1 DEF JobRec
<1>13. held' \subseteq Role BY <1>1, <1>2 DEF Role
<1>14. pages[p].decision = None BY <1>4, <1>5 DEF PagesInv, TargetsOpen
<1>15. WorkerInStep' BY <1>2, <1>4, <1>10 DEF WorkerInStep, StateAt
<1>16. TargetsOpen' BY <1>2, <1>8, <1>10, <1>11, <1>12 DEF PagesInv, TargetsOpen, Durable
<1>17. MadeInStep'
  <2> SUFFICES ASSUME NEW q \in job.targets
               PROVE  /\ worker'.made[q] \in Candidate /\ pages'[q].candidate = worker'.made[q]
                      /\ q \notin worker'.todo => pages'[q].report = worker'.made[q]
      BY <1>2, <1>10 DEF MadeInStep
  <2>1. CASE q = p BY <1>2, <1>5, <1>8, <1>10, <1>11, <2>1 DEF PagesInv, MadeInStep
  <2>2. CASE q # p BY <1>2, <1>5, <1>10, <1>11, <1>12, <2>2 DEF PagesInv, MadeInStep
  <2> QED BY <2>1, <2>2
<1>18. BundlesMatch' BY <1>5, <1>8, <1>11 DEF PagesInv, BundlesMatch
<1>19. TargetsReviewable' BY <1>2, <1>4 DEF TargetsReviewable
<1>20. AttemptInStep' BY <1>2 DEF PagesInv, AttemptInStep, Durable
<1>21. \A q \in Page : pages'[q] = pages[q] \/ pages'[q].decision = None BY <1>8, <1>11, <1>14
<1> QED BY <1>1, <1>2, <1>4, <1>10, <1>11, <1>13, <1>15, <1>16, <1>17, <1>18, <1>19, <1>20, <1>21, PagesWorked

\* The evidence made for target pages, at the end of the work on all of them.
LEMMA WithEvidenceIs ==
  ASSUME PagesInv, worker.pc = "validating", worker.todo = {}, job.state # "EXPIRED",
         NEW P \in SUBSET job.targets
  PROVE  /\ WithEvidence(P) \in [Page -> PageRecord]
         /\ \A p \in Page \ P : WithEvidence(P)[p] = pages[p]
         /\ \A p \in job.targets :
              /\ WithEvidence(P)[p].attempt = job.attempt
              /\ WithEvidence(P)[p].decision = None
         /\ \A p \in P :
              LET rec == WithEvidence(P)[p]
              IN  /\ rec.bundle = [attempt |-> rec.attempt, candidate |-> rec.candidate,
                                   report |-> rec.report]
                  /\ rec.bundle.report = rec.bundle.candidate
<1>1. job \in JobRec /\ pages \in [Page -> PageRecord] BY Types DEF PagesInv
<1>2. job.targets \subseteq Page /\ job.attempt \in 1..MaxAttempt BY <1>1 DEF JobRec
<1>3. Active(job.state) BY WorkerFindsJob
<1>4. \A p \in job.targets :
        /\ pages[p].attempt = job.attempt /\ pages[p].decision = None /\ pages[p].bundle = None
        /\ pages[p].candidate \in Candidate /\ pages[p].report = pages[p].candidate
      BY <1>3 DEF PagesInv, TargetsOpen, MadeInStep
<1> DEFINE b(p) == [attempt |-> job.attempt, candidate |-> pages[p].candidate,
                    report |-> pages[p].report]
           rec(p) == [pages[p] EXCEPT !.bundle = b(p)]
<1>5. \A p \in P : b(p) \in Bundle BY <1>2, <1>4 DEF Bundle
<1>6. \A p \in P : WithEvidence(P)[p] = rec(p) BY <1>2, <1>4 DEF WithEvidence
<1>7. \A p \in Page \ P : WithEvidence(P)[p] = pages[p] BY DEF WithEvidence
<1>8. \A p \in P : /\ rec(p) \in PageRecord /\ rec(p).bundle = b(p)
                   /\ rec(p).attempt = pages[p].attempt /\ rec(p).candidate = pages[p].candidate
                   /\ rec(p).report = pages[p].report /\ rec(p).decision = pages[p].decision
  <2> SUFFICES ASSUME NEW p \in P
               PROVE  /\ rec(p) \in PageRecord /\ rec(p).bundle = b(p)
                      /\ rec(p).attempt = pages[p].attempt /\ rec(p).candidate = pages[p].candidate
                      /\ rec(p).report = pages[p].report /\ rec(p).decision = pages[p].decision
      OBVIOUS
  <2>1. pages[p] \in PageRecord /\ b(p) \in Bundle BY <1>1, <1>2, <1>5
  <2> HIDE DEF b
  <2> QED BY <2>1 DEF PageRecord, Optional
<1>9. \A p \in P : /\ b(p).attempt = job.attempt /\ b(p).candidate = pages[p].candidate
                   /\ b(p).report = pages[p].report
      OBVIOUS
<1>10. \A p \in P : rec(p).bundle = [attempt |-> rec(p).attempt, candidate |-> rec(p).candidate,
                                     report |-> rec(p).report]
      BY <1>4, <1>8
<1> HIDE DEF b, rec
<1>11. WithEvidence(P) \in [Page -> PageRecord]
  <2>1. \A p \in Page : WithEvidence(P)[p] \in PageRecord BY <1>1, <1>2, <1>6, <1>7, <1>8
  <2> QED BY <2>1 DEF WithEvidence
<1>12. \A p \in job.targets : /\ WithEvidence(P)[p].attempt = job.attempt
                              /\ WithEvidence(P)[p].decision = None
      BY <1>2, <1>4, <1>6, <1>7, <1>8
<1>13. \A p \in P : rec(p).bundle.report = rec(p).bundle.candidate BY <1>4, <1>8, <1>9
<1> QED BY <1>6, <1>7, <1>10, <1>11, <1>12, <1>13

LEMMA FinishProcessingInv == PagesInv /\ FinishProcessing => PagesInv'
<1> SUFFICES ASSUME PagesInv, FinishProcessing PROVE PagesInv' OBVIOUS
<1>1. job \in JobRec /\ held \subseteq Role BY Types DEF PagesInv
<1>2. /\ worker.pc = "validating" /\ worker.todo = {} /\ job.state # "EXPIRED" /\ worker' = Idle
      /\ UNCHANGED <<reviewer, crashes, store>> /\ held' = held \cup {"evidence"}
      /\ pages' = WithEvidence(job.targets)
      BY DEF FinishProcessing, Others, At, Proceed
<1>3. /\ job' \in JobRec /\ job'.state = "AWAITING_REVIEW" /\ job'.attemptState = job'.state
      /\ job'.attempt = job.attempt /\ job'.targets = job.targets /\ job'.export = job.export
      BY <1>1, MovedIs DEF FinishProcessing, JobState
<1>4. worker' \in WorkerRec /\ worker'.pc = "idle" BY <1>2, IdleIs
<1>5. job.export = None BY <1>2, WorkerFindsJob
<1>6. job.targets \subseteq Page /\ held' \subseteq Role BY <1>1, <1>2 DEF JobRec, Role
<1>7. /\ pages' \in [Page -> PageRecord]
      /\ \A p \in Page \ job.targets : pages'[p] = pages[p]
      /\ \A p \in job.targets :
           /\ pages'[p].attempt = job.attempt /\ pages'[p].decision = None
           /\ pages'[p].bundle = [attempt |-> pages'[p].attempt, candidate |-> pages'[p].candidate,
                                  report |-> pages'[p].report]
           /\ pages'[p].bundle.report = pages'[p].bundle.candidate
      BY <1>2, WithEvidenceIs
<1>8. WorkerInStep' /\ MadeInStep' BY <1>4 DEF WorkerInStep, MadeInStep
<1>9. TargetsOpen' BY <1>3, <1>7 DEF TargetsOpen, Active, ActiveWorkStates
<1>10. BundlesMatch' BY <1>7 DEF PagesInv, BundlesMatch
<1>11. TargetsReviewable' BY <1>3, <1>7 DEF TargetsReviewable, CurrentBundle
<1>12. AttemptInStep' BY <1>3 DEF AttemptInStep
<1> QED BY <1>2, <1>3, <1>4, <1>5, <1>6, <1>7, <1>8, <1>9, <1>10, <1>11, <1>12, PagesWorked

LEMMA EvidenceFailsInv ==
  ASSUME PagesInv, NEW P \in SUBSET Page, EvidenceFails(P)
  PROVE  PagesInv'
<1>1. job \in JobRec /\ worker \in WorkerRec /\ pages \in [Page -> PageRecord] /\ held \subseteq Role
      BY Types DEF PagesInv
<1>2. /\ worker.pc = "validating" /\ worker.todo = {} /\ job.state # "EXPIRED"
      /\ UNCHANGED <<reviewer, crashes, store>> /\ WorkerGoes("failing", {}) /\ P \in SUBSET job.targets
      BY DEF EvidenceFails, Others, At, Proceed
<1>3. /\ worker' \in WorkerRec /\ worker'.pc = "failing" /\ worker'.todo = {}
      /\ worker'.attempt = worker.attempt
      BY <1>1, <1>2, WorkerGoesIs
<1>4. /\ job.state = "VALIDATING" /\ job.attempt = worker.attempt /\ job.export = None
      /\ Active(job.state)
      BY <1>2, WorkerFindsJob DEF StateAt
<1>5. CASE Durable
  <2>1. UNCHANGED <<job, pages, held>> BY <1>5 DEF EvidenceFails
  <2>2. WorkerInStep' BY <1>3, <1>4, <2>1 DEF WorkerInStep, StateAt
  <2>3. TargetsOpen' BY <1>2, <2>1 DEF PagesInv, TargetsOpen
  <2>4. MadeInStep' BY <1>3 DEF MadeInStep
  <2>5. BundlesMatch' /\ TargetsReviewable' /\ AttemptInStep'
        BY <1>2, <2>1 DEF PagesInv, BundlesMatch, TargetsReviewable, AttemptInStep, CurrentBundle, Durable
  <2> QED BY <1>1, <1>2, <1>3, <1>4, <2>1, <2>2, <2>3, <2>4, <2>5, PagesWorked
<1>6. CASE ~Durable
  <2>1. /\ pages' = WithEvidence(P) /\ job' = [job EXCEPT !.attemptState = "AWAITING_REVIEW"]
        /\ held' = IF P = {} THEN held ELSE held \cup {"evidence"}
        BY <1>6 DEF EvidenceFails
  <2>2. /\ job' \in JobRec /\ job'.state = job.state /\ job'.attempt = job.attempt
        /\ job'.targets = job.targets /\ job'.export = job.export
        BY <1>1, <2>1 DEF JobRec, JobState
  <2>3. held' \subseteq Role /\ job.targets \subseteq Page BY <1>1, <2>1 DEF Role, JobRec
  <2>4. /\ pages' \in [Page -> PageRecord]
        /\ \A p \in Page \ P : pages'[p] = pages[p]
        /\ \A p \in job.targets : pages'[p].attempt = job.attempt /\ pages'[p].decision = None
        /\ \A p \in P : pages'[p].bundle.report = pages'[p].bundle.candidate
        BY <1>2, <2>1, WithEvidenceIs
  <2>5. WorkerInStep' BY <1>3, <1>4, <2>2 DEF WorkerInStep, StateAt
  <2>6. TargetsOpen' BY <1>2, <1>3, <1>6, <2>2, <2>4 DEF TargetsOpen, Durable
  <2>7. MadeInStep' BY <1>3 DEF MadeInStep
  <2>8. BundlesMatch' BY <2>4 DEF PagesInv, BundlesMatch
  <2>9. TargetsReviewable' /\ AttemptInStep' BY <1>2, <1>4, <1>6, <2>2 DEF TargetsReviewable, AttemptInStep, Durable
  <2> QED BY <1>2, <1>3, <1>4, <2>2, <2>3, <2>4, <2>5, <2>6, <2>7, <2>8, <2>9, PagesWorked
<1> QED BY <1>5, <1>6

-------------------------------------------------------------------------------
(* New attempts and reviews *)

\* Page records that keep the bundles and approvals of the job sound.
SoundPages(base) ==
  /\ base \in [Page -> PageRecord]
  /\ \A p \in Page : base[p].bundle # None => base[p].bundle.report = base[p].bundle.candidate
  /\ \A p \in Page : BoundPage(base[p])

LEMMA PagesAreSound == PagesInv => SoundPages(pages)
BY Types, ApprovalsByPage DEF PagesInv, SoundPages, BundlesMatch

LEMMA OpenAttemptInv ==
  ASSUME PagesInv, NEW T \in SUBSET Page, NEW base, SoundPages(base), OpenAttempt(T, base),
         worker.pc = "idle", job.state # "EXPIRED", Requests', UNCHANGED <<held, worker, crashes, store>>
  PROVE  PagesInv'
<1>1. job \in JobRec BY Types DEF PagesInv
<1>2. job.attempt + 1 \in 1..MaxAttempt BY <1>1, PagesAssumption DEF JobRec, OpenAttempt
<1> DEFINE a == job.attempt + 1
<1>3. /\ T # {} /\ job' = NewAttempt(T)
      /\ pages' = [p \in Page |-> IF p \in T THEN Blank(a) ELSE base[p]]
      BY DEF OpenAttempt, Reopened
<1>4. /\ job' \in JobRec /\ job'.state = "READY_FOR_PROCESSING" /\ job'.attemptState = job'.state
      /\ job'.attempt = a /\ job'.targets = T /\ job'.export = None
      BY <1>1, <1>2, <1>3 DEF NewAttempt, JobRec, JobState, Optional
<1>5. /\ Blank(a) \in PageRecord /\ Blank(a).attempt = a
      /\ Blank(a).decision = None /\ Blank(a).bundle = None
      BY <1>2, BlankIs
<1> HIDE DEF a
<1>6. pages' \in [Page -> PageRecord] BY <1>3, <1>5 DEF SoundPages
<1>7. \A p \in Page : BoundPage(pages'[p]) BY <1>3, <1>5 DEF SoundPages, BoundPage
<1>8. TypeOK' BY <1>4, <1>6, Types DEF PagesInv, TypeOK, JobRec
<1>9. WorkerInStep' /\ MadeInStep' BY DEF WorkerInStep, MadeInStep
<1>10. TargetsOpen' BY <1>3, <1>4, <1>5 DEF TargetsOpen
<1>11. BundlesMatch' BY <1>3, <1>5 DEF BundlesMatch, SoundPages
<1>12. ApprovalsBound' BY <1>7 DEF ApprovalsBound, BoundPage, CurrentBundle
<1>13. ExportCurrent' /\ TargetsReviewable' /\ AttemptInStep' /\ ExpiredHoldsNothing'
       BY <1>4 DEF ExportCurrent, TargetsReviewable, AttemptInStep, ExpiredHoldsNothing
<1> QED BY <1>8, <1>9, <1>10, <1>11, <1>12, <1>13 DEF PagesInv

LEMMA CreateAttemptInv ==
  ASSUME PagesInv, NEW T \in SUBSET Page, CreateAttempt(T)
  PROVE  PagesInv'
<1>1. /\ job.state \in RetryableStates /\ OpenAttempt(T, pages)
      /\ UNCHANGED <<held, worker, reviewer, crashes, store>>
      BY DEF CreateAttempt
<1>2. worker.pc = "idle" /\ job.state # "EXPIRED"
      BY <1>1, WorkerFindsJob DEF RetryableStates, StateAt
<1>3. Requests' BY <1>1 DEF PagesInv, Requests
<1> QED BY <1>1, <1>2, <1>3, PagesAreSound, OpenAttemptInv

\* The decisions of a batch on pages that accept them.
LEMMA DecidedOnIs ==
  ASSUME PagesInv, NEW r \in Reviewer, NEW P \in SUBSET Accepted(r)
  PROVE  /\ SoundPages(DecidedOn(r, P))
         /\ \A p \in Page \ P : DecidedOn(r, P)[p] = pages[p]
         /\ \A p \in P :
              LET rec == DecidedOn(r, P)[p]
              IN  /\ rec.attempt = pages[p].attempt /\ rec.candidate = pages[p].candidate
                  /\ rec.report = pages[p].report /\ rec.bundle = pages[p].bundle
                  /\ rec.decision \in Decision
                  /\ rec.decision.action = reviewer[r].acts[p]
                  /\ reviewer[r].seen[p].bundle \in {None, rec.bundle}
                  /\ reviewer[r].acts[p] = "approve" =>
                       rec.selected = reviewer[r].seen[p].candidate
<1>1. pages \in [Page -> PageRecord] BY Types DEF PagesInv
<1>2. reviewer[r].acts \in [Page -> Optional(Ruling)] BY DEF PagesInv, Requests
<1>3. SoundPages(pages) BY PagesAreSound
<1> DEFINE act(p) == reviewer[r].acts[p]
           d(p) == [action |-> act(p), candidate |-> pages[p].candidate,
                    bundle |-> pages[p].bundle, attempt |-> pages[p].attempt]
           sel(p) == IF act(p) = "approve" THEN pages[p].candidate
                     ELSE IF act(p) = "reject" THEN "source" ELSE None
           rec(p) == [pages[p] EXCEPT !.decision = d(p), !.selected = sel(p)]
<1>4. \A p \in P :
        /\ p \in Page /\ act(p) \in Ruling /\ Acceptable(p, act(p), reviewer[r].seen[p])
        /\ pages[p] \in PageRecord /\ pages[p].bundle \in Bundle
  <2> TAKE p \in P
  <2>1. p \in Page /\ act(p) # None /\ Acceptable(p, act(p), reviewer[r].seen[p])
        BY DEF Accepted, Asked
  <2>2. act(p) \in Ruling BY <1>2, <2>1 DEF Optional
  <2>3. pages[p].bundle \in Bundle BY <1>1, <2>1 DEF Acceptable, PageRecord, Optional
  <2> QED BY <1>1, <2>1, <2>2, <2>3
<1>5. \A p \in P : d(p) \in Decision /\ d(p).action = act(p) /\ d(p).candidate = pages[p].candidate
                   /\ d(p).bundle = pages[p].bundle /\ d(p).attempt = pages[p].attempt
      BY <1>4 DEF Decision, Ruling, PageRecord
<1>6. \A p \in P : sel(p) \in Optional(Candidate \cup {"source"})
      BY <1>4 DEF Optional, PageRecord
<1>7. /\ \A p \in P : DecidedOn(r, P)[p] = rec(p)
      /\ \A p \in Page \ P : DecidedOn(r, P)[p] = pages[p]
      BY <1>4 DEF DecidedOn, Decided
<1>8. \A p \in P :
        /\ rec(p) \in PageRecord /\ rec(p).decision = d(p) /\ rec(p).selected = sel(p)
        /\ rec(p).attempt = pages[p].attempt /\ rec(p).candidate = pages[p].candidate
        /\ rec(p).report = pages[p].report /\ rec(p).bundle = pages[p].bundle
  <2> HIDE DEF d, sel
  <2> TAKE p \in P
  <2> QED BY <1>4, <1>5, <1>6 DEF PageRecord, Optional
<1>9. \A p \in P : act(p) = "approve" => sel(p) = pages[p].candidate OBVIOUS
<1> HIDE DEF d, sel, rec
<1>10. \A p \in P : BoundPage(rec(p))
  <2> TAKE p \in P
  <2>1. SUFFICES ASSUME act(p) = "approve" PROVE BoundPage(rec(p)) BY <1>5, <1>8 DEF BoundPage
  <2>2. /\ pages[p].bundle = [attempt |-> pages[p].attempt, candidate |-> pages[p].candidate,
                              report |-> pages[p].report]
        /\ pages[p].report \notin Vetoed /\ pages[p].bundle # None
        BY <1>4, <2>1 DEF Acceptable, CurrentBundle
  <2>3. pages[p].report = pages[p].candidate
    <3>1. pages[p].bundle.report = pages[p].bundle.candidate BY <1>3, <1>4, <2>2 DEF SoundPages
    <3>2. pages[p].bundle.report = pages[p].report /\ pages[p].bundle.candidate = pages[p].candidate
          BY <2>2
    <3> QED BY <3>1, <3>2
  <2>4. pages[p].candidate \in Candidate
    <3>1. pages[p].bundle.candidate = pages[p].candidate BY <2>2
    <3> QED BY <3>1, <1>4 DEF Bundle
  <2> QED BY <1>5, <1>8, <1>9, <2>1, <2>2, <2>3, <2>4 DEF BoundPage
<1>11. \A p \in Page : DecidedOn(r, P)[p] \in PageRecord BY <1>1, <1>7, <1>8
<1>12. DecidedOn(r, P) \in [Page -> PageRecord] BY <1>11 DEF DecidedOn
<1>13. SoundPages(DecidedOn(r, P)) BY <1>3, <1>4, <1>7, <1>8, <1>10, <1>12 DEF SoundPages
<1>14. \A p \in P : /\ reviewer[r].seen[p].bundle \in {None, pages[p].bundle}
                    /\ act(p) = "approve" => reviewer[r].seen[p].candidate = pages[p].candidate
       BY <1>4 DEF Acceptable
<1> QED BY <1>5, <1>7, <1>8, <1>9, <1>13, <1>14

LEMMA NoScreenIs ==
  /\ NoScreen.pc = "idle"
  /\ NoScreen \in [pc : {"idle", "checked"},
                   seen : [Page -> [candidate : Optional(Candidate), bundle : Optional(Bundle)]],
                   acts : [Page -> Optional(Ruling)]]
BY DEF NoScreen, NotSeen, Optional

LEMMA FinishIs ==
  ASSUME Requests, NEW r \in Reviewer, Finish(r)
  PROVE  /\ Requests' /\ reviewer'[r].pc = "idle"
         /\ \A q \in Reviewer : q # r => reviewer'[q] = reviewer[q]
BY NoScreenIs DEF Requests, Finish

\* Decisions on pages of a job under review, which stays there or is completed.
LEMMA ReviewStep ==
  ASSUME PagesInv, job.state = "AWAITING_REVIEW", NEW r \in Reviewer, NEW P \in SUBSET Accepted(r),
         pages' = DecidedOn(r, P), Finish(r), UNCHANGED <<worker, crashes, store>>,
         job' \in JobRec, job'.attempt = job.attempt, job'.targets = job.targets,
         job'.state \in {"AWAITING_REVIEW", "COMPLETED"}, held' \subseteq Role,
         AttemptInStep', ExportCurrent'
  PROVE  PagesInv'
<1>1. /\ SoundPages(pages')
      /\ \A p \in Page : /\ pages'[p].attempt = pages[p].attempt
                         /\ pages'[p].candidate = pages[p].candidate
                         /\ pages'[p].report = pages[p].report
                         /\ pages'[p].bundle = pages[p].bundle
      BY DecidedOnIs
<1>2. job.targets \subseteq Page BY Types DEF PagesInv, JobRec
<1>3. TypeOK' BY <1>1, Types DEF PagesInv, TypeOK, JobRec, WorkerRec, SoundPages
<1>4. Requests' BY FinishIs DEF PagesInv
<1>5. worker.pc = "idle" BY WorkerFindsJob
<1>6. WorkerInStep' /\ MadeInStep' BY <1>5 DEF WorkerInStep, MadeInStep
<1>7. TargetsOpen' BY <1>1, <1>2 DEF PagesInv, TargetsOpen, Active, ActiveWorkStates
<1>8. BundlesMatch' BY <1>1 DEF BundlesMatch, SoundPages
<1>9. ApprovalsBound' BY <1>1 DEF SoundPages, ApprovalsBound, BoundPage, CurrentBundle
<1>10. TargetsReviewable' BY <1>1, <1>2 DEF PagesInv, TargetsReviewable, CurrentBundle
<1>11. ExpiredHoldsNothing' BY DEF ExpiredHoldsNothing
<1> QED BY <1>3, <1>4, <1>6, <1>7, <1>8, <1>9, <1>10, <1>11 DEF PagesInv

LEMMA ApplyBatchInv ==
  ASSUME PagesInv, NEW r \in Reviewer, ApplyBatch(r)
  PROVE  PagesInv'
<1> DEFINE after == DecidedOn(r, Asked(r))
           again == {p \in Asked(r) : reviewer[r].acts[p] = "reprocess"}
<1>1. job \in JobRec /\ held \subseteq Role BY Types DEF PagesInv
<1>2. /\ job.state = "AWAITING_REVIEW" /\ Accepted(r) = Asked(r)
      /\ Finish(r) /\ UNCHANGED <<worker, crashes, store>>
      BY DEF ApplyBatch
<1>3. SoundPages(after) /\ \A p \in Asked(r) : after[p].decision.action = reviewer[r].acts[p]
      BY <1>2, DecidedOnIs
<1>4. job.export = None BY <1>2 DEF PagesInv, ExportCurrent
<1>5. CASE OpenAttempt(again, after) /\ UNCHANGED held
  <2>1. again \in SUBSET Page BY DEF Asked
  <2>2. worker.pc = "idle" BY <1>2, WorkerFindsJob
  <2>3. Requests' BY <1>2, FinishIs DEF PagesInv
  <2> HIDE DEF after, again
  <2> QED BY <1>2, <1>3, <1>5, <2>1, <2>2, <2>3, OpenAttemptInv
<1>6. CASE /\ again = {} /\ \A p \in Page : after[p].decision # None
           /\ pages' = after
           /\ job' = [Moved("COMPLETED") EXCEPT !.export =
                [p \in Page |-> [action |-> after[p].decision.action, selected |-> after[p].selected]]]
           /\ held' = held \cup {"export"}
  <2> DEFINE x == [p \in Page |-> [action |-> after[p].decision.action, selected |-> after[p].selected]]
  <2>1. x \in Export
    <3>1. \A p \in Page : after[p].decision \in Decision /\ after[p].selected \in Optional(Candidate \cup {"source"})
          BY <1>3, <1>6 DEF SoundPages, PageRecord, Optional
    <3>2. \A p \in Page : after[p].decision.action \in {"approve", "reject", "reprocess"}
          BY <3>1 DEF Decision
    <3> HIDE DEF after
    <3> QED BY <3>1, <3>2 DEF Export
  <2>2. /\ Moved("COMPLETED") \in JobRec /\ Moved("COMPLETED").state = "COMPLETED"
        /\ Moved("COMPLETED").attemptState = "COMPLETED" /\ Moved("COMPLETED").attempt = job.attempt
        /\ Moved("COMPLETED").targets = job.targets
        BY <1>1, MovedIs DEF JobState
  <2>3. job' = [Moved("COMPLETED") EXCEPT !.export = x] BY <1>6
  <2>4. \A p \in Page : x[p] = [action |-> after[p].decision.action, selected |-> after[p].selected]
        OBVIOUS
  <2> HIDE DEF x, after
  <2>5. /\ job' \in JobRec /\ job'.state = "COMPLETED" /\ job'.attemptState = "COMPLETED"
        /\ job'.attempt = job.attempt /\ job'.targets = job.targets /\ job'.export = x
        BY <2>1, <2>2, <2>3 DEF JobRec, Optional
  <2>6. ExportCurrent' BY <1>6, <2>4, <2>5 DEF ExportCurrent
  <2>7. AttemptInStep' BY <2>5 DEF AttemptInStep
  <2>8. held' \subseteq Role BY <1>1, <1>6 DEF Role
  <2>9. pages' = DecidedOn(r, Asked(r)) BY <1>6 DEF after
  <2> QED BY <1>2, <2>5, <2>6, <2>7, <2>8, <2>9, ReviewStep
<1>7. CASE pages' = after /\ UNCHANGED <<job, held>>
  <2>1. ExportCurrent' BY <1>4, <1>7 DEF ExportCurrent
  <2>2. AttemptInStep' BY <1>2, <1>7 DEF PagesInv, AttemptInStep, Durable
  <2>3. pages' = DecidedOn(r, Asked(r)) BY <1>7 DEF after
  <2> QED BY <1>1, <1>2, <1>7, <2>1, <2>2, <2>3, ReviewStep
<1> QED BY <1>5, <1>6, <1>7 DEF ApplyBatch

LEMMA RefuseBatchInv ==
  ASSUME PagesInv, NEW r \in Reviewer, NEW P \in SUBSET Page, RefuseBatch(r, P)
  PROVE  PagesInv'
<1>1. job \in JobRec /\ worker \in WorkerRec /\ held \subseteq Role /\ pages \in [Page -> PageRecord]
      BY Types DEF PagesInv
<1>2. Finish(r) /\ UNCHANGED <<job, held, worker, crashes, store>> BY DEF RefuseBatch
<1>3. AttemptInStep' BY <1>2 DEF PagesInv, AttemptInStep, Durable
<1>4. CASE pages' = pages
  <2>1. Requests' BY <1>2, FinishIs DEF PagesInv
  <2>2. TypeOK' BY <1>2, <1>4 DEF PagesInv, TypeOK
  <2>3. WorkerInStep' /\ TargetsOpen' /\ MadeInStep' /\ BundlesMatch'
        BY <1>2, <1>4 DEF PagesInv, WorkerInStep, TargetsOpen, MadeInStep, BundlesMatch, Durable
  <2>4. ApprovalsBound' /\ ExportCurrent' /\ TargetsReviewable' /\ ExpiredHoldsNothing'
        BY <1>2, <1>4 DEF PagesInv, ApprovalsBound, ExportCurrent, TargetsReviewable,
                          ExpiredHoldsNothing, CurrentBundle
  <2> QED BY <1>3, <2>1, <2>2, <2>3, <2>4 DEF PagesInv
<1>5. CASE pages' = DecidedOn(r, P) /\ job.state = "AWAITING_REVIEW" /\ P \subseteq Accepted(r)
  <2>1. ExportCurrent' BY <1>2, <1>5 DEF PagesInv, ExportCurrent
  <2> QED BY <1>1, <1>2, <1>3, <1>5, <2>1, ReviewStep
<1>6. CASE pages' = DecidedOn(r, {})
  <2>1. DecidedOn(r, {}) = pages BY <1>1 DEF DecidedOn
  <2> QED BY <1>4, <1>6, <2>1
<1> QED BY <1>4, <1>5, <1>6 DEF RefuseBatch

\* A step of the reviewers' screens alone.
LEMMA ScreenStep ==
  ASSUME PagesInv, Requests', UNCHANGED <<job, pages, held, worker, crashes, store>>
  PROVE  PagesInv'
<1>1. TypeOK' BY DEF PagesInv, TypeOK
<1>2. WorkerInStep' /\ TargetsOpen' /\ MadeInStep' /\ BundlesMatch'
      BY DEF PagesInv, WorkerInStep, TargetsOpen, MadeInStep, BundlesMatch, Durable
<1>3. /\ ApprovalsBound' /\ ExportCurrent' /\ TargetsReviewable' /\ AttemptInStep'
      /\ ExpiredHoldsNothing'
      BY DEF PagesInv, ApprovalsBound, ExportCurrent, TargetsReviewable, AttemptInStep,
             ExpiredHoldsNothing, CurrentBundle, Durable
<1> QED BY <1>1, <1>2, <1>3 DEF PagesInv

LEMMA ViewInv == ASSUME PagesInv, NEW r \in Reviewer, View(r) PROVE PagesInv'
<1>1. PICK cited \in BOOLEAN :
        reviewer' = [reviewer EXCEPT ![r].seen =
          [p \in Page |-> IF CurrentBundle(p)
                          THEN [candidate |-> pages[p].candidate,
                                bundle |-> IF cited THEN pages[p].bundle ELSE None]
                          ELSE NotSeen]]
      BY DEF View
<1> DEFINE screen == [p \in Page |-> IF CurrentBundle(p)
                        THEN [candidate |-> pages[p].candidate,
                              bundle |-> IF cited THEN pages[p].bundle ELSE None]
                        ELSE NotSeen]
<1>2. screen \in [Page -> [candidate : Optional(Candidate), bundle : Optional(Bundle)]]
  <2>1. \A p \in Page : pages[p].candidate \in Optional(Candidate) /\ pages[p].bundle \in Optional(Bundle)
        BY Types DEF PagesInv, PageRecord
  <2> QED BY <2>1 DEF NotSeen, Optional
<1>3. reviewer' = [reviewer EXCEPT ![r].seen = screen] BY <1>1
<1> HIDE DEF screen
<1>4. Requests' BY <1>2, <1>3 DEF PagesInv, Requests
<1> QED BY <1>4, ScreenStep DEF View

LEMMA CheckBatchInv == ASSUME PagesInv, NEW r \in Reviewer, CheckBatch(r) PROVE PagesInv'
<1>1. PICK acts \in [Page -> {None, "approve", "reject", "reprocess"}] :
        reviewer' = [reviewer EXCEPT ![r].pc = "checked", ![r].acts = acts]
      BY DEF CheckBatch
<1>2. acts \in [Page -> Optional(Ruling)] BY DEF Optional, Ruling
<1>3. Requests' BY <1>1, <1>2 DEF PagesInv, Requests
<1> QED BY <1>3, ScreenStep DEF CheckBatch

-------------------------------------------------------------------------------
(* Theorems *)

LEMMA InitInv == Init => PagesInv
<1> SUFFICES ASSUME Init PROVE PagesInv OBVIOUS
<1>1. 1 \in 1..MaxAttempt BY PagesAssumption
<1>2. pages \in [Page -> PageRecord] BY <1>1, BlankIs DEF Init
<1>3. \A p \in Page : pages[p].decision = None /\ pages[p].bundle = None /\ pages[p].attempt = 1
      BY <1>1, BlankIs DEF Init
<1>4. job \in JobRec /\ job.state = "UPLOADED" /\ job.attemptState = "UPLOADED" /\ job.export = None
      /\ job.attempt = 1 /\ job.targets = Page
      BY <1>1, PagesAssumption DEF Init, JobRec, JobState, Optional
<1>5. TypeOK BY <1>2, <1>4, IdleIs, PagesAssumption, Types DEF Init, Role
<1>6. Requests BY NoScreenIs DEF Init, Requests
<1>7. WorkerInStep /\ MadeInStep BY IdleIs DEF Init, WorkerInStep, MadeInStep
<1>8. TargetsOpen /\ BundlesMatch BY <1>3, <1>4 DEF TargetsOpen, BundlesMatch
<1>9. ApprovalsBound /\ ExportCurrent /\ TargetsReviewable /\ AttemptInStep /\ ExpiredHoldsNothing
      BY <1>3, <1>4 DEF ApprovalsBound, ExportCurrent, TargetsReviewable, AttemptInStep, ExpiredHoldsNothing
<1> QED BY <1>5, <1>6, <1>7, <1>8, <1>9 DEF PagesInv

LEMMA NextInv == PagesInv /\ [Next]_vars => PagesInv'
<1> SUFFICES ASSUME PagesInv, [Next]_vars PROVE PagesInv' OBVIOUS
<1>1. CASE UNCHANGED vars
  <2>1. Requests' BY <1>1 DEF vars, PagesInv, Requests
  <2> QED BY <1>1, <2>1, ScreenStep DEF vars
<1>2. CASE WorkerNext
  BY <1>2, BeginAnalysisInv, RecoverAttemptInv, ReadSourceInv, RecordAnalysisInv, BeginRestorationInv,
     BeginValidationInv, RecordReportInv, FinishProcessingInv, MeetCancellationInv,
     FailProcessingInv, LoseClaimInv, CrashWorkerInv, RecordCandidateInv, EvidenceFailsInv
  DEF WorkerNext
<1>3. CASE CancelJob \/ ExpireJob BY <1>3, CancelJobInv, ExpireJobInv
<1>4. CASE \E T \in SUBSET Page : CreateAttempt(T) BY <1>4, CreateAttemptInv
<1>5. CASE \E r \in Reviewer : ReviewerNext(r)
  BY <1>5, ViewInv, CheckBatchInv, ApplyBatchInv, RefuseBatchInv DEF ReviewerNext
<1> QED BY <1>1, <1>2, <1>3, <1>4, <1>5 DEF Next

LEMMA Invariance == Spec => []PagesInv
BY InitInv, NextInv, PTL DEF Spec

\* Every variable of the pages keeps its type, for any pages, candidates and reviewers.
THEOREM PagesTypeCorrect == Spec => []TypeOK
<1>1. PagesInv => TypeOK BY DEF PagesInv
<1> QED BY <1>1, Invariance, PTL

\* An approval is always of the current candidate, on a report and a bundle about it.
THEOREM ApprovalsAreBound == Spec => []ApprovalsBound
<1>1. PagesInv => ApprovalsBound BY DEF PagesInv
<1> QED BY <1>1, Invariance, PTL

\* An export says what is decided and selected now.
THEOREM ExportsAreCurrent == Spec => []ExportCurrent
<1>1. PagesInv => ExportCurrent BY DEF PagesInv
<1> QED BY <1>1, Invariance, PTL

\* A job under review has a current bundle for each of its target pages.
THEOREM TargetsAreReviewable == Spec => []TargetsReviewable
<1>1. PagesInv => TargetsReviewable BY DEF PagesInv
<1> QED BY <1>1, Invariance, PTL

\* Over SQLite the attempt moves with its job, through lost workers and recoveries.
THEOREM AttemptsInStep == Spec => []AttemptInStep
<1>1. PagesInv => AttemptInStep BY DEF PagesInv
<1> QED BY <1>1, Invariance, PTL

\* Whatever clients and reviewers do, a worker finds its job where it left it or expired.
THEOREM WorkersInStep == Spec => []WorkerInStep
<1>1. PagesInv => WorkerInStep BY DEF PagesInv
<1> QED BY <1>1, Invariance, PTL

\* Nothing is stored for an expired job.
THEOREM ExpiryIsFinal == Spec => []ExpiredHoldsNothing
<1>1. PagesInv => ExpiredHoldsNothing BY DEF PagesInv
<1> QED BY <1>1, Invariance, PTL

-------------------------------------------------------------------------------
(* What a request does when it ends *)

\* A request ends in its second lock block.
LEMMA RequestEnds ==
  ASSUME PagesInv, Next, NEW r \in Reviewer, reviewer[r].pc = "checked", reviewer'[r].pc = "idle"
  PROVE  ApplyBatch(r) \/ \E P \in SUBSET Page : RefuseBatch(r, P)
<1>1. CASE WorkerNext
  <2>1. UNCHANGED reviewer
        BY <1>1 DEF WorkerNext, BeginAnalysis, RecoverAttempt, ReadSource, RecordAnalysis, BeginRestoration,
                    BeginValidation, RecordReport, FinishProcessing, MeetCancellation,
                    FailProcessing, LoseClaim, CrashWorker, RecordCandidate, EvidenceFails, Others
  <2> QED BY <2>1
<1>2. CASE CancelJob \/ ExpireJob BY <1>2 DEF CancelJob, ExpireJob
<1>3. CASE \E T \in SUBSET Page : CreateAttempt(T) BY <1>3 DEF CreateAttempt
<1>4. CASE \E q \in Reviewer : ReviewerNext(q)
  <2> PICK q \in Reviewer : ReviewerNext(q) BY <1>4
  <2>1. CASE q = r BY <2>1 DEF ReviewerNext, View, CheckBatch
  <2>2. CASE q # r
    <3>1. \A x : [reviewer EXCEPT ![q] = x][r] = reviewer[r] BY <2>2 DEF PagesInv, Requests
    <3>2. reviewer'[r] = reviewer[r]
      <4>1. CASE View(q) BY <4>1, <2>2 DEF View, PagesInv, Requests
      <4>2. CASE CheckBatch(q) BY <4>2, <2>2 DEF CheckBatch, PagesInv, Requests
      <4>3. CASE ApplyBatch(q) BY <4>3, <3>1 DEF ApplyBatch, Finish
      <4>4. CASE \E P \in SUBSET Page : RefuseBatch(q, P) BY <4>4, <3>1 DEF RefuseBatch, Finish
      <4> QED BY <4>1, <4>2, <4>3, <4>4 DEF ReviewerNext
    <3> QED BY <3>2
  <2> QED BY <2>1, <2>2
<1> QED BY <1>1, <1>2, <1>3, <1>4 DEF Next

\* What ApplyBatch leaves on a page it decides, or opens again.
LEMMA Applied ==
  ASSUME PagesInv, NEW r \in Reviewer, ApplyBatch(r), NEW p \in Asked(r)
  PROVE  /\ reviewer[r].acts[p] = "reprocess" => pages'[p] = Blank(job'.attempt)
         /\ reviewer[r].acts[p] # "reprocess" => pages'[p] = DecidedOn(r, Asked(r))[p]
<1> DEFINE after == DecidedOn(r, Asked(r))
           again == {q \in Asked(r) : reviewer[r].acts[q] = "reprocess"}
<1>1. p \in Page /\ job \in JobRec BY Types DEF Asked, PagesInv
<1>2. CASE again # {} /\ OpenAttempt(again, after)
  <2>1. /\ job'.attempt = job.attempt + 1
        /\ pages' = [q \in Page |-> IF q \in again THEN Blank(job.attempt + 1) ELSE after[q]]
        BY <1>2 DEF OpenAttempt, NewAttempt, Reopened
  <2> QED BY <1>1, <2>1
<1>3. CASE again = {} /\ pages' = after BY <1>3
<1> QED BY <1>2, <1>3 DEF ApplyBatch

LEMMA BatchStep ==
  ASSUME PagesInv, Next, Durable, NEW r \in Reviewer
  PROVE  WholeOrNothing(r)
<1> SUFFICES ASSUME reviewer[r].pc = "checked", reviewer'[r].pc = "idle"
             PROVE  \/ pages' = pages
                    \/ \A p \in Asked(r) :
                         \/ pages'[p] = Blank(job'.attempt)
                         \/ /\ pages'[p].decision # None
                            /\ pages'[p].decision.action = reviewer[r].acts[p]
    BY DEF WholeOrNothing
<1>1. CASE \E P \in SUBSET Page : RefuseBatch(r, P) BY <1>1 DEF RefuseBatch
<1>2. CASE ApplyBatch(r)
  <2> SUFFICES ASSUME NEW p \in Asked(r), reviewer[r].acts[p] # "reprocess"
               PROVE  /\ pages'[p].decision # None
                      /\ pages'[p].decision.action = reviewer[r].acts[p]
      BY <1>2, Applied
  <2>1. Accepted(r) = Asked(r) BY <1>2 DEF ApplyBatch
  <2>2. pages'[p] = DecidedOn(r, Asked(r))[p] BY <1>2, Applied
  <2>3. pages'[p].decision \in Decision /\ pages'[p].decision.action = reviewer[r].acts[p]
        BY <2>1, <2>2, DecidedOnIs
  <2> QED BY <2>3, NoneIsNoDecision
<1> QED BY <1>1, <1>2, RequestEnds

LEMMA ApprovalStep ==
  ASSUME PagesInv, Next, NEW r \in Reviewer, reviewer[r].pc = "checked", reviewer'[r].pc = "idle",
         NEW p \in Asked(r), reviewer[r].acts[p] = "approve", pages'[p] # pages[p]
  PROVE  /\ pages'[p].selected = reviewer[r].seen[p].candidate
         /\ reviewer[r].seen[p].bundle \in {None, pages'[p].bundle}
<1>1. CASE ApplyBatch(r)
  <2>1. Accepted(r) = Asked(r) BY <1>1 DEF ApplyBatch
  <2>2. pages'[p] = DecidedOn(r, Asked(r))[p] BY <1>1, Applied
  <2> QED BY <2>1, <2>2, DecidedOnIs
<1>2. CASE \E P \in SUBSET Page : RefuseBatch(r, P)
  <2> PICK P \in SUBSET Page : RefuseBatch(r, P) BY <1>2
  <2>1. pages' = DecidedOn(r, P) BY DEF RefuseBatch
  <2>2. p \in P /\ P \subseteq Accepted(r)
    <3>1. p \in Page BY DEF Asked
    <3>2. P = {} \/ P \subseteq Accepted(r) BY DEF RefuseBatch
    <3>3. p \notin P => pages'[p] = pages[p] BY <2>1, <3>1 DEF DecidedOn
    <3> QED BY <3>2, <3>3
  <2> QED BY <2>1, <2>2, DecidedOnIs
<1> QED BY <1>1, <1>2, RequestEnds

\* Over SQLite a request decides every page it names, or changes none.
THEOREM BatchesAreTransactions == Spec => BatchIsTransaction
<1> DEFINE Whole == Durable => \A r \in Reviewer : WholeOrNothing(r)
<1>1. PagesInv /\ [Next]_vars => [Whole]_vars BY BatchStep
<1>2. Spec => [][Whole]_vars BY <1>1, Invariance, PTL DEF Spec
<1> QED BY <1>2 DEF BatchIsTransaction

\* An approval selects what the approving screen showed.
THEOREM ApprovalsAreAsSeen == Spec => ApprovedAsSeen
<1> DEFINE AsSeen ==
      \A r \in Reviewer : reviewer[r].pc = "checked" /\ reviewer'[r].pc = "idle" =>
        \A p \in Asked(r) :
          reviewer[r].acts[p] = "approve" /\ pages'[p] # pages[p] =>
            /\ pages'[p].selected = reviewer[r].seen[p].candidate
            /\ reviewer[r].seen[p].bundle \in {None, pages'[p].bundle}
<1>1. PagesInv /\ [Next]_vars => [AsSeen]_vars BY ApprovalStep
<1>2. Spec => [][AsSeen]_vars BY <1>1, Invariance, PTL DEF Spec
<1> QED BY <1>2 DEF ApprovedAsSeen

-------------------------------------------------------------------------------
(* The life cycle *)

\* No block over SQLite leaves a job in a state the life cycle does not know.
Resting == Durable => job.state \notin {"APPROVED", "EXPORTING", "REJECTED"}

\* Over SQLite, a step of the life cycle or none.
LifeStep == Durable => UNCHANGED Lifecycle!lifeVars \/ Lifecycle!Next

LEMMA Phases ==
  /\ \A s \in QueuedStates : PhaseOf(s) = "waiting"
  /\ \A s \in ActiveWorkStates \ QueuedStates : PhaseOf(s) = "running"
  /\ {"ANALYZING", "PROCESSING", "VALIDATING"} \subseteq ActiveWorkStates \ QueuedStates
  /\ "READY_FOR_PROCESSING" \in QueuedStates
  /\ PhaseOf("AWAITING_REVIEW") = "review" /\ PhaseOf("COMPLETED") = "completed"
  /\ PhaseOf("FAILED") = "failed" /\ PhaseOf("CANCELLED") = "cancelled"
  /\ PhaseOf("EXPIRED") = "expired"
BY DEF PhaseOf, QueuedStates, ActiveWorkStates

\* The abstract state, of a job and an attempt that move together.
LifeOf(s) == [j \in {"job"} |-> PhaseOf(s)]
Opened(n) == [j \in {"job"} |-> n]

\* The job changes its phase within its attempt.
LEMMA JobMoves ==
  ASSUME PagesInv, PagesInv', Durable, UNCHANGED store, job'.attempt = job.attempt,
         NEW from, PhaseOf(job.state) \in from
  PROVE  Lifecycle!Move("job", from, PhaseOf(job'.state))
<1>1. job.attemptState = job.state /\ job'.attemptState = job'.state
      BY DEF PagesInv, AttemptInStep, Durable
<1>2. /\ LifeOf(job.state)["job"] \in from
      /\ LifeOf(job'.state) = [LifeOf(job.state) EXCEPT !["job"] = PhaseOf(job'.state)]
      /\ Opened(job'.attempt) = Opened(job.attempt)
      BY DEF LifeOf, Opened
<1> QED BY <1>1, <1>2 DEF Lifecycle!Move, LifeOf, Opened

\* The job waits in its next attempt.
LEMMA JobOpens ==
  ASSUME PagesInv, PagesInv', Durable, UNCHANGED store,
         job.attempt < MaxAttempt, job'.attempt = job.attempt + 1,
         job'.state = "READY_FOR_PROCESSING",
         PhaseOf(job.state) \in {"review", "completed", "failed", "cancelled"}
  PROVE  Lifecycle!Retry("job")
<1>1. job.attemptState = job.state /\ job'.attemptState = job'.state
      BY DEF PagesInv, AttemptInStep, Durable
<1>2. PhaseOf(job'.state) = "waiting" BY Phases
<1>3. /\ LifeOf(job.state)["job"] = PhaseOf(job.state)
      /\ LifeOf(job'.state) = [LifeOf(job.state) EXCEPT !["job"] = "waiting"]
      /\ Opened(job.attempt)["job"] = job.attempt
      /\ Opened(job'.attempt) = [Opened(job.attempt) EXCEPT !["job"] = @ + 1]
      BY <1>2 DEF LifeOf, Opened
<1> QED BY <1>1, <1>3 DEF Lifecycle!Retry, Lifecycle!Open, LifeOf, Opened

\* A job that keeps its phase and its attempt stutters.
LEMMA JobStays ==
  ASSUME PagesInv, PagesInv', Durable, UNCHANGED store, job'.attempt = job.attempt,
         PhaseOf(job'.state) = PhaseOf(job.state)
  PROVE  UNCHANGED Lifecycle!lifeVars
<1>1. job.attemptState = job.state /\ job'.attemptState = job'.state
      BY DEF PagesInv, AttemptInStep, Durable
<1> QED BY <1>1 DEF Lifecycle!lifeVars

\* A block of the worker: it takes the job up, carries it on, or settles its attempt.
LEMMA WorkerLife ==
  ASSUME PagesInv, PagesInv', Resting, Durable, WorkerNext
  PROVE  (Lifecycle!Next \/ UNCHANGED Lifecycle!lifeVars) /\ Resting'
<1>1. job \in JobRec BY Types DEF PagesInv
<1>2. UNCHANGED store
      BY DEF WorkerNext, BeginAnalysis, RecoverAttempt, ReadSource, RecordAnalysis, BeginRestoration,
             BeginValidation, RecordReport, FinishProcessing, MeetCancellation,
             FailProcessing, LoseClaim, CrashWorker, RecordCandidate, EvidenceFails, Others
<1>3. CASE job' = job
  BY <1>2, <1>3, JobStays DEF Resting, Durable
<1>4. CASE BeginAnalysis
  <2>1. job' = Moved("ANALYZING") /\ job.state \in QueuedStates BY <1>4 DEF BeginAnalysis
  <2>2. job'.state = "ANALYZING" /\ job'.attempt = job.attempt
        BY <1>1, <2>1, MovedIs DEF JobState
  <2>3. PhaseOf(job.state) = "waiting" /\ PhaseOf(job'.state) = "running"
        BY <2>1, <2>2, Phases
  <2>4. Lifecycle!Begin("job") BY <1>2, <2>2, <2>3, JobMoves DEF Lifecycle!Begin
  <2> QED BY <2>2, <2>4 DEF Lifecycle!Next, Resting
<1>5. CASE RecoverAttempt
  <2>1. job' = Moved("READY_FOR_PROCESSING") /\ job.state \in ActiveWorkStates \ QueuedStates
        BY <1>5 DEF RecoverAttempt, Active
  <2>2. job'.state = "READY_FOR_PROCESSING" /\ job'.attempt = job.attempt
        BY <1>1, <2>1, MovedIs DEF JobState
  <2>3. PhaseOf(job.state) = "running" /\ PhaseOf(job'.state) = "waiting"
        BY <2>1, <2>2, Phases
  <2>4. Lifecycle!Recover("job") BY <1>2, <2>2, <2>3, JobMoves DEF Lifecycle!Recover
  <2> QED BY <2>2, <2>4 DEF Lifecycle!Next, Resting
<1>6. ASSUME worker.pc # "idle", job.state # "EXPIRED"
      PROVE  PhaseOf(job.state) = "running"
  <2>1. job.state = StateAt(worker.pc) BY <1>6, WorkerFindsJob
  <2> QED BY <2>1, Phases DEF StateAt
<1>7. CASE BeginRestoration \/ BeginValidation
  <2>1. /\ worker.pc # "idle" /\ job.state # "EXPIRED"
        /\ job' = Moved("PROCESSING") \/ job' = Moved("VALIDATING")
        BY <1>7 DEF BeginRestoration, BeginValidation, Proceed, At
  <2>2. job'.state \in {"PROCESSING", "VALIDATING"} /\ job'.attempt = job.attempt
        BY <1>1, <2>1, MovedIs DEF JobState
  <2>3. PhaseOf(job'.state) = PhaseOf(job.state) BY <1>6, <2>1, <2>2, Phases
  <2> QED BY <1>2, <2>2, <2>3, JobStays DEF Resting
<1>8. CASE FinishProcessing
  <2>1. worker.pc # "idle" /\ job.state # "EXPIRED" /\ job' = Moved("AWAITING_REVIEW")
        BY <1>8 DEF FinishProcessing, Proceed, At
  <2>2. job'.state = "AWAITING_REVIEW" /\ job'.attempt = job.attempt
        BY <1>1, <2>1, MovedIs DEF JobState
  <2>3. PhaseOf(job.state) = "running" /\ PhaseOf(job'.state) = "review"
        BY <1>6, <2>1, <2>2, Phases
  <2>4. Lifecycle!Deliver("job") BY <1>2, <2>2, <2>3, JobMoves DEF Lifecycle!Deliver
  <2> QED BY <2>2, <2>4 DEF Lifecycle!Next, Resting
<1>9. CASE FailProcessing
  <2>1. worker.pc # "idle" /\ Active(job.state) BY <1>9 DEF FailProcessing, Fenced, At
  <2>2. job.state # "EXPIRED" BY <2>1 DEF Active, ActiveWorkStates
  <2>3. job.state \in {"ANALYZING", "PROCESSING", "VALIDATING"}
        BY <2>1, <2>2, WorkerFindsJob DEF StateAt
  <2>4. MayMove("FAILED") BY <2>3 DEF MayMove, AllowedTransitions, JobState
  <2>5. job'.state = "FAILED" /\ job'.attempt = job.attempt
        BY <1>1, <1>9, <2>4, MovedIs DEF FailProcessing, JobState
  <2>6. PhaseOf(job.state) = "running" /\ PhaseOf(job'.state) = "failed"
        BY <1>6, <2>1, <2>2, <2>5, Phases
  <2>7. Lifecycle!Fail("job") BY <1>2, <2>5, <2>6, JobMoves DEF Lifecycle!Fail
  <2> QED BY <2>5, <2>7 DEF Lifecycle!Next, Resting
<1>10. ReadSource \/ RecordReport \/ MeetCancellation \/ LoseClaim \/ CrashWorker => job' = job
      BY DEF ReadSource, RecordReport, MeetCancellation, LoseClaim, CrashWorker
<1>11. \A c \in Candidate : RecordCandidate(c) => job' = job BY DEF RecordCandidate
<1>12. \A P \in SUBSET Page : EvidenceFails(P) => job' = job BY DEF EvidenceFails
<1>13. CASE RecordAnalysis BY <1>2, <1>13, RecordAnalysisIs, JobStays DEF Resting
<1> QED BY <1>3, <1>4, <1>5, <1>7, <1>8, <1>9, <1>10, <1>11, <1>12, <1>13 DEF WorkerNext

\* Clients cancel, expire and retry.
LEMMA ClientLife ==
  ASSUME PagesInv, PagesInv', Resting, Durable,
         CancelJob \/ ExpireJob \/ \E T \in SUBSET Page : CreateAttempt(T)
  PROVE  (Lifecycle!Next \/ UNCHANGED Lifecycle!lifeVars) /\ Resting'
<1>1. job \in JobRec /\ job.state \in JobState BY Types DEF PagesInv, JobRec
<1>2. CASE CancelJob
  <2>1. CASE job.state \in CancelledAtOnceStates
    <3>1. job' = [Moved("CANCELLED") EXCEPT !.cancel = TRUE] /\ UNCHANGED store
          BY <1>2, <2>1 DEF CancelJob
    <3>2. Moved("CANCELLED") \in JobRec /\ Moved("CANCELLED").state = "CANCELLED"
          /\ Moved("CANCELLED").attempt = job.attempt
          BY <1>1, MovedIs DEF JobState
    <3>3. job'.state = "CANCELLED" /\ job'.attempt = job.attempt BY <3>1, <3>2 DEF JobRec
    <3>4. PhaseOf(job.state) \in {"waiting", "review"} /\ PhaseOf(job'.state) = "cancelled"
          BY <2>1, <3>3, Phases DEF CancelledAtOnceStates, QueuedStates
    <3>5. Lifecycle!Cancel("job") BY <3>1, <3>3, <3>4, JobMoves DEF Lifecycle!Cancel
    <3> QED BY <3>3, <3>5 DEF Lifecycle!Next, Resting
  <2>2. CASE job.state \notin CancelledAtOnceStates
    <3>1. job' = [job EXCEPT !.cancel = TRUE] /\ UNCHANGED store
          BY <1>2, <2>2 DEF CancelJob
    <3>2. job'.state = job.state /\ job'.attempt = job.attempt BY <1>1, <3>1 DEF JobRec
    <3> QED BY <3>1, <3>2, JobStays DEF Resting
  <2> QED BY <2>1, <2>2
<1>3. CASE ExpireJob
  <2>1. job' = Moved("EXPIRED") /\ job.state # "EXPIRED" /\ UNCHANGED store
        BY <1>3 DEF ExpireJob
  <2>2. job'.state = "EXPIRED" /\ job'.attempt = job.attempt
        BY <1>1, <2>1, MovedIs DEF JobState
  <2>3. PhaseOf(job.state) \in Lifecycle!Phase \ {"none", "expired"}
        BY <1>1, <2>1 DEF Resting, JobState, PhaseOf, QueuedStates, ActiveWorkStates,
                          Lifecycle!Phase
  <2>4. Lifecycle!Expire("job") BY <2>1, <2>2, <2>3, Phases, JobMoves DEF Lifecycle!Expire
  <2> QED BY <2>2, <2>4 DEF Lifecycle!Next, Resting
<1>4. ASSUME NEW T \in SUBSET Page, CreateAttempt(T)
      PROVE  Lifecycle!Next /\ Resting'
  <2>1. /\ job' = NewAttempt(T) /\ job.attempt < MaxAttempt /\ UNCHANGED store
        /\ job.state \in RetryableStates
        BY <1>4 DEF CreateAttempt, OpenAttempt
  <2>2. job'.state = "READY_FOR_PROCESSING" /\ job'.attempt = job.attempt + 1
        BY <2>1 DEF NewAttempt
  <2>3. PhaseOf(job.state) \in {"review", "completed", "failed", "cancelled"}
        BY <2>1, Phases DEF Resting, RetryableStates
  <2>4. Lifecycle!Retry("job") BY <2>1, <2>2, <2>3, JobOpens
  <2> QED BY <2>2, <2>4 DEF Lifecycle!Next, Resting
<1> QED BY <1>2, <1>3, <1>4

\* A batch of decisions that was checked earlier: it completes the attempt under review,
\* opens the next, or changes no phase.
LEMMA ReviewLife ==
  ASSUME PagesInv, PagesInv', Resting, Durable, NEW r \in Reviewer, ReviewerNext(r)
  PROVE  (Lifecycle!Next \/ UNCHANGED Lifecycle!lifeVars) /\ Resting'
<1>1. job \in JobRec BY Types DEF PagesInv
<1>2. UNCHANGED store BY DEF ReviewerNext, View, CheckBatch, ApplyBatch, RefuseBatch
<1>3. CASE job' = job BY <1>2, <1>3, JobStays DEF Resting, Durable
<1>4. CASE job' # job
  <2>1. ApplyBatch(r) BY <1>4 DEF ReviewerNext, View, CheckBatch, RefuseBatch
  <2>2. job.state = "AWAITING_REVIEW" /\ PhaseOf(job.state) = "review"
        BY <2>1, Phases DEF ApplyBatch
  <2>3. CASE \E T, base : OpenAttempt(T, base)
    <3>1. /\ job.attempt < MaxAttempt /\ job'.state = "READY_FOR_PROCESSING"
          /\ job'.attempt = job.attempt + 1
          BY <2>3 DEF OpenAttempt, NewAttempt
    <3>2. Lifecycle!Retry("job") BY <1>2, <2>2, <3>1, JobOpens
    <3> QED BY <3>1, <3>2 DEF Lifecycle!Next, Resting
  <2>4. CASE \E x : job' = [Moved("COMPLETED") EXCEPT !.export = x]
    <3>1. Moved("COMPLETED") \in JobRec /\ Moved("COMPLETED").state = "COMPLETED"
          /\ Moved("COMPLETED").attempt = job.attempt
          BY <1>1, MovedIs DEF JobState
    <3>2. job'.state = "COMPLETED" /\ job'.attempt = job.attempt BY <2>4, <3>1 DEF JobRec
    <3>3. Lifecycle!Complete("job") BY <1>2, <2>2, <3>2, Phases, JobMoves DEF Lifecycle!Complete
    <3> QED BY <3>2, <3>3 DEF Lifecycle!Next, Resting
  <2> QED BY <1>4, <2>1, <2>3, <2>4 DEF ApplyBatch
<1> QED BY <1>3, <1>4

LEMMA PagesLife ==
  ASSUME PagesInv, PagesInv', Resting, Next
  PROVE  LifeStep /\ Resting'
<1>1. UNCHANGED store
      BY DEF Next, WorkerNext, BeginAnalysis, RecoverAttempt, ReadSource, RecordAnalysis, BeginRestoration,
             BeginValidation, RecordReport, FinishProcessing, MeetCancellation, FailProcessing,
             LoseClaim, CrashWorker, RecordCandidate, EvidenceFails, Others, CancelJob,
             ExpireJob, CreateAttempt, ReviewerNext, View, CheckBatch, ApplyBatch, RefuseBatch
<1>2. CASE Durable BY <1>2, WorkerLife, ClientLife, ReviewLife DEF Next, LifeStep
<1>3. CASE ~Durable BY <1>1, <1>3 DEF LifeStep, Resting, Durable
<1> QED BY <1>2, <1>3

LEMMA InitRests == Init => Resting
BY DEF Init, Resting

\* Over SQLite the blocks on the pages implement the life cycle of the job: with screens
\* that are stale, workers that are lost and requests between any two blocks, an attempt is
\* settled at most once and expiry is final.
THEOREM PagesKeepLifecycle == Spec => KeepsLifecycle
<1>1. PagesInv /\ Resting /\ [Next]_vars => PagesInv' /\ [LifeStep]_vars /\ Resting'
  <2>1. UNCHANGED vars => (Resting => Resting') BY DEF vars, Resting, Durable
  <2> QED BY <2>1, NextInv, PagesLife
<1>2. Spec => [][LifeStep]_vars BY <1>1, InitInv, InitRests, PTL DEF Spec
<1> QED BY <1>2 DEF KeepsLifecycle, LifeStep
==============================================================================
