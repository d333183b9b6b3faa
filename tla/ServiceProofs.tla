----------------------------- MODULE ServiceProofs -----------------------------
(***************************************************************************)
(* The rest of the job API for every value of its constants: the shadow    *)
(* runs beside the pages of a job and the boundary of secrets and keys;    *)
(* and its composition in MCService with the access to jobs.               *)
(*                                                                         *)
(* What an observation says of a page stays true because its attempt is    *)
(* over for the worker: a page of the attempt gets another candidate only  *)
(* while the job is active, and a job that has been under review is active *)
(* again only in a later attempt.  So an observation is never of an        *)
(* attempt that is still worked on, nor of one that is still to come.      *)
(***************************************************************************)
EXTENDS MCService, JobPagesProofs, ProductionAccessProofs

-------------------------------------------------------------------------------
(* A shadow run beside the pages: the invariant *)

\* What a caller has captured covers the target pages of the attempt it is of.
Captures ==
  \A o \in Observer :
    shadow[o] # None =>
      /\ shadow[o].attempt <= job.attempt
      /\ shadow[o].attempt = job.attempt => \A p \in job.targets : shadow[o].seen[p] # None

\* An observed attempt is not worked on any more.
Settled ==
  \A e \in observed :
    e.attempt <= job.attempt /\ (e.attempt = job.attempt => ~Active(job.state))

\* A page of an observed attempt has the candidate that was observed.
ObservedLast ==
  \A e \in observed, p \in Page :
    e.seen[p] # None /\ pages[p].attempt = e.attempt => pages[p].candidate = e.seen[p].candidate

ShadowInv == PagesInv /\ ShadowTypeOK /\ Captures /\ Settled /\ ObservedLast

-------------------------------------------------------------------------------
(* What a step of the job does to its attempts *)

\* The attempt goes on: no page gets a candidate unless it is worked on.
GoesOn ==
  /\ job'.attempt = job.attempt /\ job'.targets = job.targets
  /\ Active(job'.state) => Active(job.state)
  /\ \A p \in Page :
       /\ pages'[p].attempt = pages[p].attempt
       /\ \/ pages'[p].candidate = pages[p].candidate
          \/ Active(job.state) /\ pages[p].attempt = job.attempt

\* Another attempt begins, and takes some pages.
BeginsAnew ==
  /\ job'.attempt = job.attempt + 1
  /\ \A p \in Page :
       \/ pages'[p].attempt = job'.attempt
       \/ pages'[p].attempt = pages[p].attempt /\ pages'[p].candidate = pages[p].candidate

LEMMA WorkerGoesOn == ASSUME PagesInv, WorkerNext PROVE GoesOn
<1>1. job \in JobRec /\ worker \in WorkerRec /\ pages \in [Page -> PageRecord] BY Types DEF PagesInv
<1>2. job.targets \subseteq Page /\ job.attempt \in 1..MaxAttempt BY <1>1 DEF JobRec
<1>3. \A s \in JobState : /\ Moved(s).attempt = job.attempt /\ Moved(s).targets = job.targets
                          /\ Moved(s).state = s
      BY <1>1, MovedIs
<1>4. worker.pc # "idle" /\ job.state # "EXPIRED" => Active(job.state) /\ worker.todo \subseteq job.targets
      BY WorkerFindsJob
<1>5. \A p \in job.targets : pages[p].attempt = job.attempt BY DEF PagesInv, TargetsOpen
<1>6. CASE BeginAnalysis
  <2>1. job' = Moved("ANALYZING") /\ pages' = pages /\ job.state \in QueuedStates
        BY <1>6 DEF BeginAnalysis
  <2> QED BY <1>3, <2>1 DEF GoesOn, JobState, QueuedStates, Active, ActiveWorkStates
<1>7. CASE RecoverAttempt
  <2>1. /\ job' = Moved("READY_FOR_PROCESSING") /\ Active(job.state)
        /\ pages' = [p \in Page |-> IF p \in job.targets THEN Blank(pages[p].attempt) ELSE pages[p]]
        BY <1>7 DEF RecoverAttempt
  <2>2. \A p \in Page : pages'[p].attempt = pages[p].attempt
    <3>1. \A p \in Page : pages[p].attempt \in 1..MaxAttempt BY <1>1 DEF PageRecord
    <3> QED BY <2>1, <3>1, BlankIs
  <2> QED BY <1>3, <1>5, <2>1, <2>2 DEF GoesOn, JobState
<1>8. CASE ReadSource \/ LoseClaim \/ CrashWorker
  BY <1>8 DEF ReadSource, LoseClaim, CrashWorker, GoesOn
<1>17. CASE RecordAnalysis
  <2>1. pages' = pages BY <1>17 DEF RecordAnalysis
  <2> QED BY <1>17, <2>1, RecordAnalysisIs DEF GoesOn
<1>9. CASE BeginRestoration \/ BeginValidation
  <2>1. /\ worker.pc # "idle" /\ job.state # "EXPIRED" /\ pages' = pages
        /\ job' = Moved("PROCESSING") \/ job' = Moved("VALIDATING")
        BY <1>9 DEF BeginRestoration, BeginValidation, At, Proceed
  <2> QED BY <1>3, <1>4, <2>1 DEF GoesOn, JobState
<1>10. CASE \E c \in Candidate : RecordCandidate(c)
  <2> PICK c \in Candidate : RecordCandidate(c) BY <1>10
  <2> DEFINE p == First(worker.todo)
             rec == [pages[p] EXCEPT !.candidate = c, !.attempt = job.attempt,
                                     !.decision = None, !.selected = None]
  <2>1. worker.pc # "idle" /\ worker.todo # {} /\ job.state # "EXPIRED" /\ UNCHANGED job
        BY DEF RecordCandidate, At, Proceed
  <2>2. p \in job.targets /\ p \in Page /\ Active(job.state)
        BY <1>1, <1>2, <1>4, <2>1, FirstIsOne DEF WorkerRec
  <2>3. pages' = [pages EXCEPT ![p] = rec] BY <1>1, <2>2 DEF RecordCandidate
  <2>4. rec.attempt = job.attempt BY <1>1, <2>2 DEF PageRecord
  <2> HIDE DEF p, rec
  <2>5. pages'[p].attempt = pages[p].attempt BY <1>1, <1>5, <2>2, <2>3, <2>4
  <2>6. \A q \in Page : q # p => pages'[q] = pages[q] BY <1>1, <2>3
  <2> QED BY <1>5, <2>1, <2>2, <2>5, <2>6 DEF GoesOn
<1>11. CASE RecordReport
  <2> DEFINE p == First(worker.todo)
             rec == [pages[p] EXCEPT !.report = worker.made[p]]
  <2>1. worker.pc # "idle" /\ worker.todo # {} /\ job.state # "EXPIRED" /\ UNCHANGED job
        BY <1>11 DEF RecordReport, At, Proceed
  <2>2. p \in Page BY <1>1, <1>2, <1>4, <2>1, FirstIsOne DEF WorkerRec
  <2>3. pages' = [pages EXCEPT ![p] = rec] BY <1>1, <1>11, <2>2 DEF RecordReport
  <2>4. rec.attempt = pages[p].attempt /\ rec.candidate = pages[p].candidate
        BY <1>1, <2>2 DEF PageRecord
  <2> HIDE DEF p, rec
  <2>5. \A q \in Page : pages'[q].attempt = pages[q].attempt /\ pages'[q].candidate = pages[q].candidate
        BY <1>1, <2>2, <2>3, <2>4
  <2> QED BY <2>1, <2>5 DEF GoesOn
<1>12. \A P \in SUBSET Page, p \in Page :
         /\ WithEvidence(P)[p].attempt = pages[p].attempt
         /\ WithEvidence(P)[p].candidate = pages[p].candidate
       BY <1>1 DEF WithEvidence, PageRecord
<1>13. CASE FinishProcessing
  <2>1. pages' = WithEvidence(job.targets) /\ job' = Moved("AWAITING_REVIEW")
        BY <1>13 DEF FinishProcessing
  <2> QED BY <1>2, <1>3, <1>12, <2>1 DEF GoesOn, JobState, Active, ActiveWorkStates
<1>14. CASE \E P \in SUBSET Page : EvidenceFails(P)
  <2> PICK P \in SUBSET Page : EvidenceFails(P) BY <1>14
  <2>1. pages' = pages \/ pages' = WithEvidence(P) BY DEF EvidenceFails
  <2>2. job' = job \/ job' = [job EXCEPT !.attemptState = "AWAITING_REVIEW"] BY DEF EvidenceFails
  <2>3. job'.state = job.state /\ job'.attempt = job.attempt /\ job'.targets = job.targets
        BY <1>1, <2>2 DEF JobRec
  <2> QED BY <1>12, <2>1, <2>3 DEF GoesOn
<1>15. CASE MeetCancellation
  <2>1. (job' = job \/ job' = Moved("CANCELLED")) /\ pages' = pages BY <1>15 DEF MeetCancellation
  <2> QED BY <1>3, <2>1 DEF GoesOn, JobState, Active, ActiveWorkStates
<1>16. CASE FailProcessing
  <2>1. /\ job' = Moved("FAILED") \/ job' = [job EXCEPT !.attemptState = "FAILED"]
        /\ pages' = pages
        BY <1>16 DEF FailProcessing
  <2>2. /\ job'.state = "FAILED" \/ job'.state = job.state
        /\ job'.attempt = job.attempt /\ job'.targets = job.targets
        BY <1>1, <1>3, <2>1 DEF JobRec, JobState
  <2> QED BY <2>1, <2>2 DEF GoesOn, Active, ActiveWorkStates
<1> QED BY <1>6, <1>7, <1>8, <1>9, <1>10, <1>11, <1>13, <1>14, <1>15, <1>16, <1>17 DEF WorkerNext

LEMMA OpenBeginsAnew ==
  ASSUME PagesInv, NEW T \in SUBSET Page, NEW base, OpenAttempt(T, base),
         \A p \in Page : base[p].attempt = pages[p].attempt /\ base[p].candidate = pages[p].candidate
  PROVE  BeginsAnew
<1>1. job \in JobRec BY Types DEF PagesInv
<1>2. /\ job'.attempt = job.attempt + 1
      /\ pages' = [p \in Page |-> IF p \in T THEN Blank(job.attempt + 1) ELSE base[p]]
      BY DEF OpenAttempt, NewAttempt, Reopened
<1>3. Blank(job.attempt + 1).attempt = job.attempt + 1 BY DEF Blank
<1> QED BY <1>2, <1>3 DEF BeginsAnew

LEMMA JobGoesOn == ASSUME PagesInv, Next PROVE GoesOn \/ BeginsAnew
<1>1. job \in JobRec /\ pages \in [Page -> PageRecord] BY Types DEF PagesInv
<1>2. CASE WorkerNext BY <1>2, WorkerGoesOn
<1>3. CASE CancelJob
  <2> DEFINE j == IF job.state \in CancelledAtOnceStates THEN Moved("CANCELLED") ELSE job
  <2>1. /\ j \in JobRec /\ j.attempt = job.attempt /\ j.targets = job.targets
        /\ j.state = "CANCELLED" \/ j.state = job.state
        BY <1>1, MovedIs DEF JobState
  <2>2. job' = [j EXCEPT !.cancel = TRUE] /\ pages' = pages BY <1>3 DEF CancelJob
  <2> HIDE DEF j
  <2>3. job'.attempt = job.attempt /\ job'.targets = job.targets /\ job'.state = j.state
        BY <2>1, <2>2 DEF JobRec
  <2> QED BY <2>1, <2>2, <2>3 DEF GoesOn, Active, ActiveWorkStates
<1>4. CASE ExpireJob
  <2>1. job' = Moved("EXPIRED") /\ pages' = pages BY <1>4 DEF ExpireJob
  <2> QED BY <1>1, <2>1, MovedIs DEF GoesOn, JobState, Active, ActiveWorkStates
<1>5. CASE \E T \in SUBSET Page : CreateAttempt(T) BY <1>5, OpenBeginsAnew DEF CreateAttempt
<1>6. CASE \E r \in Reviewer : ReviewerNext(r)
  <2> PICK r \in Reviewer : ReviewerNext(r) BY <1>6
  <2>1. CASE View(r) \/ CheckBatch(r) BY <2>1 DEF View, CheckBatch, GoesOn
  <2>2. \A P \in SUBSET Page, p \in Page :
          /\ DecidedOn(r, P)[p].attempt = pages[p].attempt
          /\ DecidedOn(r, P)[p].candidate = pages[p].candidate
        BY <1>1 DEF DecidedOn, Decided, PageRecord
  <2>3. CASE ApplyBatch(r)
    <3> DEFINE after == DecidedOn(r, Asked(r))
               again == {p \in Asked(r) : reviewer[r].acts[p] = "reprocess"}
               final == [p \in Page |-> [action |-> after[p].decision.action,
                                         selected |-> after[p].selected]]
    <3>1. Asked(r) \in SUBSET Page /\ again \in SUBSET Page BY DEF Asked
    <3>2. \A p \in Page : after[p].attempt = pages[p].attempt /\ after[p].candidate = pages[p].candidate
          BY <2>2, <3>1
    <3>3. \/ OpenAttempt(again, after)
          \/ pages' = after /\ job' = [Moved("COMPLETED") EXCEPT !.export = final]
          \/ pages' = after /\ job' = job
          BY <2>3 DEF ApplyBatch
    <3> HIDE DEF after, again, final
    <3>4. CASE OpenAttempt(again, after) BY <3>1, <3>2, <3>4, OpenBeginsAnew
    <3>5. CASE pages' = after /\ job' = [Moved("COMPLETED") EXCEPT !.export = final]
      <4>1. Moved("COMPLETED") \in JobRec BY <1>1, MovedIs DEF JobState
      <4>2. job'.attempt = job.attempt /\ job'.targets = job.targets /\ job'.state = "COMPLETED"
            BY <1>1, <3>5, <4>1, MovedIs DEF JobRec, JobState
      <4> QED BY <3>2, <3>5, <4>2 DEF GoesOn, Active, ActiveWorkStates
    <3>6. CASE pages' = after /\ job' = job BY <3>2, <3>6 DEF GoesOn
    <3> QED BY <3>3, <3>4, <3>5, <3>6
  <2>4. CASE \E P \in SUBSET Page : RefuseBatch(r, P)
    <3> PICK P \in SUBSET Page : RefuseBatch(r, P) BY <2>4
    <3>1. (pages' = pages \/ pages' = DecidedOn(r, P)) /\ job' = job BY DEF RefuseBatch
    <3> QED BY <2>2, <3>1 DEF GoesOn
  <2> QED BY <2>1, <2>3, <2>4 DEF ReviewerNext
<1> QED BY <1>2, <1>3, <1>4, <1>5, <1>6 DEF Next

-------------------------------------------------------------------------------
(* The steps preserve the invariant *)

LEMMA JobStep ==
  ASSUME ShadowInv, Next, UNCHANGED shadowVars
  PROVE  ShadowInv'
<1>1. PagesInv' BY NextInv DEF ShadowInv
<1>2. ShadowTypeOK' BY DEF ShadowInv, ShadowTypeOK, shadowVars
<1>3. /\ job.attempt \in Nat /\ job'.attempt \in Nat
      /\ \A p \in Page : pages[p].attempt \in Nat /\ pages'[p].attempt \in Nat
      /\ \A e \in observed : e.attempt \in Nat
      /\ \A o \in Observer : shadow[o] # None => shadow[o].attempt \in Nat
  <2>1. 1..MaxAttempt \subseteq Nat OBVIOUS
  <2>2. job.attempt \in 1..MaxAttempt /\ \A p \in Page : pages[p].attempt \in 1..MaxAttempt
        BY Types DEF ShadowInv, PagesInv, JobRec, PageRecord
  <2>3. job'.attempt \in 1..MaxAttempt /\ \A p \in Page : pages'[p].attempt \in 1..MaxAttempt
        BY <1>1 DEF PagesInv, TypeOK, PageRecord
  <2>4. /\ \A e \in observed : e.attempt \in 1..MaxAttempt
        /\ \A o \in Observer : shadow[o] # None => shadow[o].attempt \in 1..MaxAttempt
        BY DEF ShadowInv, ShadowTypeOK, Run, Optional
  <2> QED BY <2>1, <2>2, <2>3, <2>4
<1>4. UNCHANGED <<shadow, observed>> BY DEF shadowVars
<1>5. CASE GoesOn
  <2>1. Captures' BY <1>4, <1>5 DEF ShadowInv, Captures, GoesOn
  <2>2. Settled' BY <1>4, <1>5 DEF ShadowInv, Settled, GoesOn
  <2>3. ObservedLast' BY <1>4, <1>5 DEF ShadowInv, ObservedLast, Settled, GoesOn
  <2> QED BY <1>1, <1>2, <2>1, <2>2, <2>3 DEF ShadowInv
<1>6. CASE BeginsAnew
  <2>1. Captures' BY <1>3, <1>4, <1>6 DEF ShadowInv, Captures, BeginsAnew
  <2>2. Settled' BY <1>3, <1>4, <1>6 DEF ShadowInv, Settled, BeginsAnew
  <2>3. ObservedLast' BY <1>3, <1>4, <1>6 DEF ShadowInv, ObservedLast, Settled, BeginsAnew
  <2> QED BY <1>1, <1>2, <2>1, <2>2, <2>3 DEF ShadowInv
<1> QED BY <1>5, <1>6, JobGoesOn DEF ShadowInv

\* What the first block captures.
LEMMA CapturedIs ==
  ASSUME ShadowInv, \A p \in job.targets : Observable(p)
  PROVE  /\ Captured \in Run /\ Captured.attempt = job.attempt
         /\ \A p \in job.targets : Captured.seen[p] # None
<1>1. job \in JobRec /\ pages \in [Page -> PageRecord] BY Types DEF ShadowInv, PagesInv
<1>2. job.attempt \in 1..MaxAttempt /\ job.targets \subseteq Page BY <1>1 DEF JobRec
<1> DEFINE sight(p) == [candidate |-> pages[p].candidate, report |-> pages[p].report]
<1>3. \A p \in job.targets : sight(p) \in Sighting
  <2> TAKE p \in job.targets
  <2>1. pages[p].candidate \in Candidate /\ pages[p].report \in Candidate
        BY <1>1, <1>2 DEF Observable, PageRecord, Optional
  <2> QED BY <2>1 DEF Sighting
<1>4. Captured = [attempt |-> job.attempt,
                  seen |-> [p \in Page |-> IF p \in job.targets THEN sight(p) ELSE None]]
      BY DEF Captured
<1> HIDE DEF sight
<1>5. \A p \in job.targets : Captured.seen[p] = sight(p) BY <1>2, <1>4
<1> QED BY <1>2, <1>3, <1>4, <1>5, NoneIsNoSighting DEF Run, Optional

\* The observers leave the job alone, but for the bytes of the shadow artifacts.
LEMMA JobUntouched ==
  ASSUME PagesInv, UNCHANGED <<job, pages, worker, reviewer, crashes, store>>,
         \/ held' = held
         \/ held' = held \cup {"shadow"} /\ job.state # "EXPIRED"
  PROVE  PagesInv'
<1>1. TypeOK' BY DEF PagesInv, TypeOK, Role
<1>2. Requests' BY DEF PagesInv, Requests
<1>3. WorkerInStep' /\ TargetsOpen' /\ MadeInStep' /\ BundlesMatch'
      BY DEF PagesInv, WorkerInStep, TargetsOpen, MadeInStep, BundlesMatch, Durable
<1>4. ApprovalsBound' /\ ExportCurrent' /\ TargetsReviewable' /\ AttemptInStep'
      BY DEF PagesInv, ApprovalsBound, ExportCurrent, TargetsReviewable, AttemptInStep,
             CurrentBundle, Durable
<1>5. ExpiredHoldsNothing' BY DEF PagesInv, ExpiredHoldsNothing
<1> QED BY <1>1, <1>2, <1>3, <1>4, <1>5 DEF PagesInv

LEMMA CaptureStep ==
  ASSUME ShadowInv, NEW o \in Observer, CapturePages(o)
  PROVE  ShadowInv'
<1>1. /\ shadow' = [shadow EXCEPT ![o] = Captured] /\ \A p \in job.targets : Observable(p)
      /\ UNCHANGED <<job, pages, held, worker, reviewer, crashes, store, observed>>
      BY DEF CapturePages, vars
<1>2. PagesInv' BY <1>1, JobUntouched DEF ShadowInv
<1>3. /\ Captured \in Run /\ Captured.attempt = job.attempt
      /\ \A p \in job.targets : Captured.seen[p] # None
      BY <1>1, CapturedIs
<1>4. ShadowTypeOK' BY <1>1, <1>3 DEF ShadowInv, ShadowTypeOK, Optional
<1>5. job.attempt \in Nat
  <2>1. job.attempt \in 1..MaxAttempt BY Types DEF ShadowInv, PagesInv, JobRec
  <2> QED BY <2>1
<1>6. Captures'
  <2> SUFFICES ASSUME NEW x \in Observer, shadow'[x] # None
               PROVE  /\ shadow'[x].attempt <= job.attempt
                      /\ shadow'[x].attempt = job.attempt =>
                           \A p \in job.targets : shadow'[x].seen[p] # None
      BY <1>1 DEF Captures
  <2>1. shadow \in [Observer -> Optional(Run)] BY DEF ShadowInv, ShadowTypeOK
  <2>2. CASE x = o BY <1>1, <1>3, <1>5, <2>1, <2>2
  <2>3. CASE x # o BY <1>1, <2>1, <2>3 DEF ShadowInv, Captures
  <2> QED BY <2>2, <2>3
<1>7. Settled' /\ ObservedLast' BY <1>1 DEF ShadowInv, Settled, ObservedLast
<1> QED BY <1>2, <1>4, <1>6, <1>7 DEF ShadowInv

\* A caller is done, and its event, if any, is of pages that are current.
LEMMA ObserverDone ==
  ASSUME ShadowInv, NEW o \in Observer, shadow' = [shadow EXCEPT ![o] = None], PagesInv',
         UNCHANGED <<job, pages>>,
         \/ observed' = observed
         \/ observed' = observed \cup {shadow[o]} /\ shadow[o] # None /\ StillCurrent(shadow[o])
  PROVE  ShadowInv'
<1>1. shadow \in [Observer -> Optional(Run)] BY DEF ShadowInv, ShadowTypeOK
<1>2. ShadowTypeOK' BY <1>1 DEF ShadowInv, ShadowTypeOK, Optional
<1>3. Captures' BY <1>1 DEF ShadowInv, Captures
<1>4. \A e \in observed' \ observed :
        /\ e = shadow[o] /\ e.attempt = job.attempt /\ job.state = "AWAITING_REVIEW"
        /\ CurrentPages(e)
      BY DEF StillCurrent
<1>5. job.attempt \in Nat
  <2>1. job.attempt \in 1..MaxAttempt BY Types DEF ShadowInv, PagesInv, JobRec
  <2> QED BY <2>1
<1>6. Settled' BY <1>4, <1>5 DEF ShadowInv, Settled, Active, ActiveWorkStates
<1>7. ObservedLast'
  <2> SUFFICES ASSUME NEW e \in observed', NEW p \in Page, e.seen[p] # None, pages[p].attempt = e.attempt
               PROVE  pages[p].candidate = e.seen[p].candidate
      BY DEF ObservedLast
  <2>1. CASE e \in observed BY <2>1 DEF ShadowInv, ObservedLast
  <2>2. CASE e \notin observed
    <3>1. e.seen[p] = [candidate |-> pages[p].candidate, report |-> pages[p].report]
          BY <1>4, <2>2 DEF CurrentPages
    <3> QED BY <3>1
  <2> QED BY <2>1, <2>2
<1> QED BY <1>2, <1>3, <1>6, <1>7 DEF ShadowInv

LEMMA RecordStep ==
  ASSUME ShadowInv, NEW o \in Observer, RecordShadow(o)
  PROVE  ShadowInv'
<1>1. /\ shadow[o] # None /\ StillCurrent(shadow[o]) /\ shadow' = [shadow EXCEPT ![o] = None]
      /\ observed' = observed \cup {shadow[o]} /\ held' = held \cup {"shadow"}
      /\ UNCHANGED <<job, pages, worker, reviewer, crashes, store>>
      BY DEF RecordShadow
<1>2. job.state # "EXPIRED" BY <1>1 DEF StillCurrent
<1>3. PagesInv' BY <1>1, <1>2, JobUntouched DEF ShadowInv
<1> QED BY <1>1, <1>3, ObserverDone

LEMMA DropStep ==
  ASSUME ShadowInv, NEW o \in Observer, DropShadow(o)
  PROVE  ShadowInv'
<1>1. /\ shadow' = [shadow EXCEPT ![o] = None]
      /\ UNCHANGED <<job, pages, held, worker, reviewer, crashes, store, observed>>
      BY DEF DropShadow, vars
<1>2. PagesInv' BY <1>1, JobUntouched DEF ShadowInv
<1> QED BY <1>1, <1>2, ObserverDone

LEMMA ShadowInitInv == Init /\ ShadowInit => ShadowInv
<1> SUFFICES ASSUME Init, ShadowInit PROVE ShadowInv OBVIOUS
<1>1. PagesInv BY InitInv
<1>2. ShadowTypeOK BY DEF ShadowInit, ShadowTypeOK, Optional
<1>3. Captures /\ Settled /\ ObservedLast BY DEF ShadowInit, Captures, Settled, ObservedLast
<1> QED BY <1>1, <1>2, <1>3 DEF ShadowInv

LEMMA ShadowNextInv ==
  ShadowInv /\ [(Next /\ UNCHANGED shadowVars) \/ ShadowNext]_shadowJobVars => ShadowInv'
<1> SUFFICES ASSUME ShadowInv, [(Next /\ UNCHANGED shadowVars) \/ ShadowNext]_shadowJobVars
             PROVE  ShadowInv'
    OBVIOUS
<1>1. CASE Next /\ UNCHANGED shadowVars BY <1>1, JobStep
<1>2. CASE ShadowNext BY <1>2, CaptureStep, RecordStep, DropStep DEF ShadowNext
<1>3. CASE UNCHANGED shadowJobVars
  <2>1. UNCHANGED <<job, pages, held, worker, reviewer, crashes, store, shadow, observed>>
        BY <1>3 DEF shadowJobVars, vars, shadowVars
  <2>2. PagesInv' BY <2>1, JobUntouched DEF ShadowInv
  <2>3. ShadowTypeOK' /\ Captures' /\ Settled' /\ ObservedLast'
        BY <2>1 DEF ShadowInv, ShadowTypeOK, Captures, Settled, ObservedLast
  <2> QED BY <2>2, <2>3 DEF ShadowInv
<1> QED BY <1>1, <1>2, <1>3

LEMMA ShadowInvariance == ShadowSpec => []ShadowInv
BY ShadowInitInv, ShadowNextInv, PTL DEF ShadowSpec

-------------------------------------------------------------------------------
(* Theorems on shadow runs *)

\* An event comes from a capture that is still current.
LEMMA ObservedStep ==
  ASSUME ShadowInv, (Next /\ UNCHANGED shadowVars) \/ ShadowNext,
         NEW e \in observed' \ observed
  PROVE  /\ job.state = "AWAITING_REVIEW" /\ e.attempt = job.attempt
         /\ \A p \in job.targets : e.seen[p] # None /\ pages[p].decision = None
<1>1. PICK o \in Observer : RecordShadow(o)
      BY DEF shadowVars, ShadowNext, CapturePages, DropShadow
<1>2. e = shadow[o] /\ shadow[o] # None /\ StillCurrent(e) BY <1>1 DEF RecordShadow
<1>3. job.targets \subseteq Page BY Types DEF ShadowInv, PagesInv, JobRec
<1>4. \A p \in job.targets : e.seen[p] # None BY <1>2 DEF ShadowInv, Captures, StillCurrent
<1> QED BY <1>2, <1>3, <1>4 DEF StillCurrent, CurrentPages

\* An observation is of the attempt under review, before its pages are decided, and what
\* is decided on them later in that attempt is decided on what was observed.
THEOREM ObservationsHold == ShadowSpec => ShadowBesideReview
<1> DEFINE Sees == \A e \in observed' \ observed :
             /\ job.state = "AWAITING_REVIEW" /\ e.attempt = job.attempt
             /\ \A p \in job.targets : e.seen[p] # None /\ pages[p].decision = None
           Last == \A e \in observed, p \in Page :
             e.seen[p] # None /\ pages[p].attempt = e.attempt =>
               pages[p].candidate = e.seen[p].candidate
<1>1. ShadowInv /\ [(Next /\ UNCHANGED shadowVars) \/ ShadowNext]_shadowJobVars => [Sees]_observed
  <2> SUFFICES ASSUME ShadowInv, [(Next /\ UNCHANGED shadowVars) \/ ShadowNext]_shadowJobVars,
                      observed' # observed
               PROVE  Sees
      OBVIOUS
  <2>1. (Next /\ UNCHANGED shadowVars) \/ ShadowNext BY DEF shadowJobVars, shadowVars
  <2> QED BY <2>1, ObservedStep
<1>2. ShadowInv => Last BY DEF ShadowInv, ObservedLast
<1>3. ShadowSpec => [][Sees]_observed
  <2> HIDE DEF Sees
  <2> QED BY <1>1, ShadowInvariance, PTL DEF ShadowSpec
<1>4. ShadowSpec => []Last
  <2> HIDE DEF Last
  <2> QED BY <1>2, ShadowInvariance, PTL
<1> QED BY <1>3, <1>4 DEF ShadowBesideReview

\* No shadow run keeps the bytes of a job that has expired, or disturbs a decision on it.
THEOREM ShadowKeepsPages == ShadowSpec => [](ApprovalsBound /\ ExpiredHoldsNothing)
<1>1. ShadowInv => ApprovalsBound /\ ExpiredHoldsNothing BY DEF ShadowInv, PagesInv
<1> QED BY <1>1, ShadowInvariance, PTL

-------------------------------------------------------------------------------
(* Secrets and keys *)

\* Where the provider has served a call.
Served == {"auditing", "answering"}

\* What a decryption knows of its envelope: it is one that was handed out; once checked, it
\* is of the version whose state was read and of the context asked for; once opened, the
\* result is of it.
Opens(k, e) ==
  /\ k.envelope = {e}
  /\ k.pc \in {"acting"} \cup Served => e.version = k.checked /\ e.context = k.context
  /\ k.pc \in Served => k.result = e.version /\ k.evidence = e.evidence

\* What a call k of w in progress has established, of the versions en that are enabled and the
\* envelopes that were handed out.
SoundCall(w, k, en, envelopes) ==
  /\ EnvironmentOf[w] = EnvironmentAt[k.context]
  /\ en \subseteq k.known
  /\ k.checked \in k.known \cup {NoVersion} /\ k.result \in k.known \cup {NoVersion}
  /\ k.pc \in Served => k.result \in Version /\ k.evidence \in 1..MaxCall /\ k.at \in 1..MaxCall
  /\ k.action = "kms.decrypt" => \E e \in envelopes : Opens(k, e)

\* What a call that is about to answer has on the audit trail.
Event(w, k) == [action |-> k.action, by |-> w, evidence |-> k.evidence, at |-> k.at]
Logged(w, k, events) == k.pc = "answering" => Event(w, k) \in events

Established(w, k) == SoundCall(w, k, enabled, Envelope) /\ Logged(w, k, trail)

KeyInv ==
  /\ KeyTypeOK /\ call \in [Workload -> Call \cup {NoCall}]
  /\ OwnContextOnly
  /\ \A w \in Workload : call[w] # NoCall => Established(w, call[w])

\* A call is told apart from none by where it is.
LEMMA CallOrNone ==
  ASSUME KeyInv, NEW w \in Workload
  PROVE  /\ call[w].pc # "idle" => call[w] \in Call /\ call[w] # NoCall /\ Established(w, call[w])
         /\ call[w] # NoCall => call[w] \in Call
BY DEF KeyInv, NoCall

\* What a call has established stays so when more is handed out.
LEMMA StaysSound ==
  ASSUME NEW w, NEW k, NEW en, NEW envelopes, SoundCall(w, k, en, envelopes),
         NEW now, NEW later, now \subseteq k.known, envelopes \subseteq later
  PROVE  SoundCall(w, k, now, later)
BY DEF SoundCall

\* A step of one call that hands nothing out; the trail may grow.
LEMMA CallMovesOn ==
  ASSUME KeyInv, NEW w \in Workload, NEW k \in Call \cup {NoCall},
         call' = [call EXCEPT ![w] = k],
         UNCHANGED <<enabled, active, expired, released>>, done' \in 0..MaxCall,
         trail \subseteq trail', trail' \subseteq AuditEvent,
         k # NoCall => SoundCall(w, k, enabled, Envelope) /\ Logged(w, k, trail')
  PROVE  KeyInv'
<1>1. /\ call' \in [Workload -> Call \cup {NoCall}] /\ call'[w] = k
      /\ \A v \in Workload \ {w} : call'[v] = call[v]
  BY DEF KeyInv
<1>2. KeyTypeOK' BY <1>1 DEF KeyInv, KeyTypeOK
<1>3. OwnContextOnly' BY DEF KeyInv, OwnContextOnly, Envelope
<1>4. enabled' = enabled /\ Envelope' = Envelope BY DEF Envelope
<1>5. \A v \in Workload : call'[v] # NoCall => SoundCall(v, call'[v], enabled', Envelope')
  BY <1>1, <1>4 DEF KeyInv, Established
<1>6. \A v \in Workload : call'[v] # NoCall => Logged(v, call'[v], trail')
  BY <1>1 DEF KeyInv, Established, Logged
<1> QED BY <1>1, <1>2, <1>3, <1>5, <1>6 DEF KeyInv, Established

LEMMA CallMoves ==
  ASSUME KeyInv, NEW w \in Workload, NEW k \in Call \cup {NoCall},
         call' = [call EXCEPT ![w] = k],
         UNCHANGED <<enabled, active, expired, trail, released>>, done' \in 0..MaxCall,
         k # NoCall => Established(w, k)
  PROVE  KeyInv'
<1>1. trail \subseteq trail' /\ trail' \subseteq AuditEvent BY DEF KeyInv, KeyTypeOK
<1>2. k # NoCall => SoundCall(w, k, enabled, Envelope) /\ Logged(w, k, trail')
  BY DEF Established
<1> QED BY <1>1, <1>2, CallMovesOn

LEMMA CallGivesUp ==
  ASSUME KeyInv, NEW w \in Workload, GiveUp(w),
         UNCHANGED <<enabled, active, expired, trail, released>>, done' \in 0..MaxCall
  PROVE  KeyInv'
BY CallMoves DEF GiveUp

LEMMA KeyInitInv == KeyInit => KeyInv
BY KeyAssumption DEF KeyInit, KeyInv, KeyTypeOK, OwnContextOnly, NoCall

LEMMA SelectedVersion ==
  ASSUME KeyInv, NEW w \in Workload, call[w] \in Call
  PROVE  VersionFor(w) \in Version
BY DEF KeyInv, KeyTypeOK, VersionFor, Call

\* Calls begin.
LEMMA AskStep ==
  ASSUME KeyInv, NEW w \in Workload, NEW a \in Action, NEW c \in Context,
         NEW s \in Version \cup {NoVersion},
         \/ AskSecretOrEncrypt(w, a, c, s)
         \/ a = "kms.decrypt" /\ \E e \in Envelope : AskDecrypt(w, c, s, e)
  PROVE  KeyInv'
<1>1. PICK E \in SUBSET Envelope :
        /\ call' = [call EXCEPT ![w] = New(w, a, c, s, E)]
        /\ UNCHANGED <<enabled, active, expired, trail, released, done>>
        /\ EnvironmentOf[w] = EnvironmentAt[c]
        /\ a = "kms.decrypt" => \E e \in Envelope : E = {e}
  <2>1. CASE AskSecretOrEncrypt(w, a, c, s)
    <3> {} \in SUBSET Envelope OBVIOUS
    <3> QED BY <2>1 DEF AskSecretOrEncrypt, Authorized
  <2>2. ASSUME a = "kms.decrypt", NEW e \in Envelope, AskDecrypt(w, c, s, e)
        PROVE  /\ call' = [call EXCEPT ![w] = New(w, a, c, s, {e})]
               /\ UNCHANGED <<enabled, active, expired, trail, released, done>>
               /\ EnvironmentOf[w] = EnvironmentAt[c] /\ {e} \in SUBSET Envelope
    BY <2>2 DEF AskDecrypt, Authorized
  <2> QED BY <2>1, <2>2
<1> DEFINE k == New(w, a, c, s, E)
<1>2. /\ k.pc = (IF a = "secret.read" THEN "acting" ELSE "state") /\ k.action = a
      /\ k.context = c /\ k.selector = s /\ k.envelope = E /\ k.checked = NoVersion
      /\ k.result = NoVersion /\ k.evidence = 0 /\ k.at = 0 /\ k.known = enabled
  BY DEF New
<1>3. k \in Call
  <2>1. enabled \subseteq Version /\ E \subseteq Result
    BY DEF KeyInv, KeyTypeOK, Envelope
  <2> QED BY <2>1, KeyAssumption DEF New, Call
<1> HIDE DEF k
<1>4. Established(w, k) BY <1>1, <1>2 DEF Established, SoundCall, Logged, Opens, Served
<1>5. done' \in 0..MaxCall BY <1>1 DEF KeyInv, KeyTypeOK
<1> QED BY <1>1, <1>3, <1>4, <1>5, CallMoves DEF k

LEMMA ReadKeyStateStep == ASSUME KeyInv, NEW w \in Workload, ReadKeyState(w) PROVE KeyInv'
<1>1. call[w] \in Call /\ Established(w, call[w]) BY CallOrNone DEF ReadKeyState
<1>2. done' \in 0..MaxCall BY DEF KeyInv, KeyTypeOK, ReadKeyState
<1>3. CASE StateEnabled(VersionFor(w))
  <2> DEFINE pc == IF call[w].action = "kms.decrypt" THEN "envelope" ELSE "acting"
             k == [call[w] EXCEPT !.pc = pc, !.checked = VersionFor(w)]
  <2>1. /\ k \in Call /\ k.pc = pc /\ k.checked = VersionFor(w) /\ k.action = call[w].action
        /\ k.context = call[w].context /\ k.envelope = call[w].envelope
        /\ k.result = call[w].result /\ k.known = call[w].known
    BY <1>1, SelectedVersion DEF Call
  <2>2. call' = [call EXCEPT ![w] = k] BY <1>3, <1>1 DEF ReadKeyState, KeyInv
  <2> HIDE DEF k
  <2>3. Established(w, k)
    BY <1>1, <1>3, <2>1 DEF Established, SoundCall, Logged, StateEnabled, Opens, Served, Envelope
  <2> QED BY <1>2, <2>1, <2>2, <2>3, CallMoves DEF ReadKeyState
<1>4. CASE ~StateEnabled(VersionFor(w)) BY <1>2, <1>4, CallGivesUp DEF ReadKeyState
<1> QED BY <1>3, <1>4

LEMMA CheckEnvelopeStep == ASSUME KeyInv, NEW w \in Workload, CheckEnvelope(w) PROVE KeyInv'
<1>1. call[w] \in Call /\ Established(w, call[w]) BY CallOrNone DEF CheckEnvelope
<1>2. done' \in 0..MaxCall BY DEF KeyInv, KeyTypeOK, CheckEnvelope
<1>3. PICK e \in call[w].envelope :
        IF Fits(w, e.version, e.context) THEN Advance(w, "acting") ELSE GiveUp(w)
  BY DEF CheckEnvelope
<1>4. CASE Fits(w, e.version, e.context)
  <2> DEFINE k == [call[w] EXCEPT !.pc = "acting"]
  <2>1. /\ k \in Call /\ k.pc = "acting" /\ k.checked = call[w].checked
        /\ k.action = call[w].action /\ k.context = call[w].context
        /\ k.envelope = call[w].envelope /\ k.result = call[w].result
        /\ k.known = call[w].known
    BY <1>1 DEF Call
  <2>2. call' = [call EXCEPT ![w] = k] BY <1>3, <1>4, <1>1 DEF Advance, KeyInv
  <2> HIDE DEF k
  <2>3. Established(w, k)
    BY <1>1, <1>4, <2>1 DEF Established, SoundCall, Logged, Fits, Opens, Served, Envelope
  <2> QED BY <1>2, <2>1, <2>2, <2>3, CallMoves DEF CheckEnvelope
<1>5. CASE ~Fits(w, e.version, e.context)
  BY <1>2, <1>3, <1>5, CallGivesUp DEF CheckEnvelope
<1> QED BY <1>4, <1>5

\* The provider acts: the result is of a version the call has known to be enabled.
LEMMA ActStep ==
  ASSUME KeyInv, NEW w \in Workload, Decrypt(w) \/ Encrypt(w) \/ ResolveSecret(w)
  PROVE  KeyInv'
<1>1. call[w] \in Call /\ Established(w, call[w])
  BY CallOrNone DEF Decrypt, Encrypt, ResolveSecret
<1>2. /\ done + 1 \in 1..MaxCall /\ done' = done + 1 /\ done' \in 0..MaxCall
      /\ UNCHANGED <<enabled, active, expired, trail, released>>
  <2>1. done < MaxCall /\ done' = done + 1
    BY DEF Decrypt, Encrypt, ResolveSecret, Performed, Discarded
  <2>2. done \in 0..MaxCall BY DEF KeyInv, KeyTypeOK
  <2>3. UNCHANGED <<enabled, active, expired, trail, released>>
    BY DEF Decrypt, Encrypt, ResolveSecret
  <2> QED BY <2>1, <2>2, <2>3, KeyAssumption
<1>3. ASSUME NEW v \in Version, NEW n \in 1..MaxCall, v \in call[w].known,
             Performed(w, v, n),
             call[w].action = "kms.decrypt" =>
               \E e \in Envelope : /\ Opens(call[w], e) /\ v = e.version /\ n = e.evidence
                                   /\ e.version = call[w].checked /\ e.context = call[w].context
      PROVE  KeyInv'
  <2> DEFINE k == [call[w] EXCEPT !.pc = "auditing", !.result = v, !.evidence = n, !.at = done + 1]
  <2>1. /\ k.pc = "auditing" /\ k.checked = call[w].checked
        /\ k.action = call[w].action /\ k.context = call[w].context
        /\ k.envelope = call[w].envelope /\ k.result = v /\ k.evidence = n
        /\ k.at = done + 1 /\ k.known = call[w].known
    BY <1>1 DEF Call
  <2>2. k \in Call
    <3>1. n \in 0..MaxCall /\ done + 1 \in 0..MaxCall BY <1>2, KeyAssumption
    <3> QED BY <1>1, <3>1 DEF Call
  <2>3. call' = [call EXCEPT ![w] = k] BY <1>1, <1>3 DEF KeyInv, Performed
  <2> HIDE DEF k
  <2>4. Established(w, k)
    BY <1>1, <1>2, <1>3, <2>1 DEF Established, SoundCall, Logged, Opens, Served
  <2> QED BY <1>2, <2>2, <2>3, <2>4, CallMoves
<1>d. Discarded(w) => KeyInv' BY <1>2, CallGivesUp DEF Discarded
<1>4. CASE Decrypt(w)
  <2>1. PICK e \in Envelope : Opens(call[w], e) BY <1>1, <1>4 DEF Established, SoundCall, Decrypt
  <2>2. /\ Performed(w, e.version, e.evidence)
        /\ e.version = call[w].checked /\ e.context = call[w].context
    BY <1>4, <2>1 DEF Decrypt, Opens
  <2>3. e.version \in Version /\ e.evidence \in 1..MaxCall
    BY DEF KeyInv, KeyTypeOK, Envelope, Result
  <2>4. e.version \in call[w].known
    BY <1>1, <2>2, <2>3, KeyAssumption DEF Established, SoundCall
  <2> QED BY <1>3, <2>1, <2>2, <2>3, <2>4
<1>5. CASE Encrypt(w)
  <2>1. CASE Fits(w, VersionFor(w), call[w].context)
    <3>1. VersionFor(w) \in Version BY <1>1, SelectedVersion
    <3>2. VersionFor(w) \in call[w].known
      BY <1>1, <2>1, <3>1, KeyAssumption DEF Established, SoundCall, Fits
    <3> QED BY <1>2, <1>3, <1>5, <2>1, <3>1, <3>2 DEF Encrypt
  <2>2. CASE ~Fits(w, VersionFor(w), call[w].context)
    BY <1>d, <1>5, <2>2 DEF Encrypt
  <2> QED BY <2>1, <2>2
<1>6. CASE ResolveSecret(w)
  <2>1. CASE StateEnabled(VersionFor(w))
    <3>1. VersionFor(w) \in Version BY <1>1, SelectedVersion
    <3>2. VersionFor(w) \in call[w].known BY <1>1, <2>1 DEF Established, SoundCall, StateEnabled
    <3> QED BY <1>2, <1>3, <1>6, <2>1, <3>1, <3>2 DEF ResolveSecret
  <2>2. CASE ~StateEnabled(VersionFor(w))
    BY <1>d, <1>6, <2>2 DEF ResolveSecret
  <2> QED BY <2>1, <2>2
<1> QED BY <1>4, <1>5, <1>6

\* A call that the provider has served names an event of its own.
LEMMA EventTyped ==
  ASSUME KeyInv, NEW w \in Workload, call[w].pc \in Served
  PROVE  /\ call[w] \in Call /\ Established(w, call[w])
         /\ Happened(w) = Event(w, call[w]) /\ Happened(w) \in AuditEvent
<1>1. call[w] \in Call /\ Established(w, call[w]) BY CallOrNone DEF Served
<1> QED BY <1>1 DEF Established, SoundCall, Call, AuditEvent, Happened, Event

\* The event is committed.
LEMMA AppendAuditStep == ASSUME KeyInv, NEW w \in Workload, AppendAudit(w) PROVE KeyInv'
<1> DEFINE k == [call[w] EXCEPT !.pc = "answering"]
<1>1. /\ call[w] \in Call /\ Established(w, call[w])
      /\ Happened(w) = Event(w, call[w]) /\ Happened(w) \in AuditEvent
  BY EventTyped DEF AppendAudit, Served
<1>2. /\ k \in Call /\ k.pc = "answering" /\ k.checked = call[w].checked
      /\ k.action = call[w].action /\ k.context = call[w].context
      /\ k.envelope = call[w].envelope /\ k.result = call[w].result
      /\ k.evidence = call[w].evidence /\ k.at = call[w].at /\ k.known = call[w].known
  BY <1>1 DEF Call
<1>3. /\ call' = [call EXCEPT ![w] = k] /\ trail' = trail \cup {Happened(w)}
      /\ call[w].pc = "auditing" /\ UNCHANGED <<enabled, active, expired, released, done>>
  BY <1>1 DEF AppendAudit, Advance, KeyInv
<1> HIDE DEF k
<1>4. trail \subseteq trail' /\ trail' \subseteq AuditEvent /\ done' \in 0..MaxCall
  BY <1>1, <1>3 DEF KeyInv, KeyTypeOK
<1>5. SoundCall(w, k, enabled, Envelope)
  BY <1>1, <1>2, <1>3 DEF Established, SoundCall, Opens, Served
<1>6. Event(w, k) = Happened(w) BY <1>1, <1>2 DEF Event
<1>7. Logged(w, k, trail') BY <1>3, <1>6 DEF Logged
<1> QED BY <1>2, <1>3, <1>4, <1>5, <1>7, CallMovesOn

\* The sink raises: the event may have been stored, and nothing is handed out.
LEMMA AuditFailsStep == ASSUME KeyInv, NEW w \in Workload, AuditFails(w) PROVE KeyInv'
<1>1. Happened(w) \in AuditEvent BY EventTyped DEF AuditFails, Served
<1>2. /\ trail \subseteq trail' /\ trail' \subseteq AuditEvent /\ done' \in 0..MaxCall
      /\ call' = [call EXCEPT ![w] = NoCall] /\ UNCHANGED <<enabled, active, expired, released>>
  BY <1>1 DEF AuditFails, GiveUp, KeyInv, KeyTypeOK
<1> QED BY <1>2, CallMovesOn

\* What an answer hands out.
HandedOut(w) ==
  [action |-> call[w].action, by |-> w, context |-> call[w].context,
   version |-> call[w].result, evidence |-> call[w].evidence, at |-> call[w].at]

\* The result is handed out, and its event is on the trail.
LEMMA AnswerCallStep ==
  ASSUME KeyInv, NEW w \in Workload, AnswerCall(w)
  PROVE  KeyInv' /\ released' = released \cup {HandedOut(w)} /\ Event(w, HandedOut(w)) \in trail
<1> DEFINE k == call[w]
           r == HandedOut(w)
<1>1. k \in Call /\ Established(w, k) /\ k.pc = "answering"
  BY EventTyped DEF AnswerCall, Served
<1>2. /\ released' = released \cup {r} /\ call' = [call EXCEPT ![w] = NoCall]
      /\ UNCHANGED <<enabled, active, expired, trail, done>>
  BY DEF AnswerCall, GiveUp, HandedOut
<1>3. r \in Result
  BY <1>1 DEF Established, SoundCall, Served, Call, Result, HandedOut
<1>4. /\ call' \in [Workload -> Call \cup {NoCall}] /\ call'[w] = NoCall
      /\ \A v \in Workload \ {w} : call'[v] = call[v]
  BY <1>2 DEF KeyInv
<1>5. KeyTypeOK' BY <1>2, <1>3, <1>4 DEF KeyInv, KeyTypeOK
<1>6. /\ r.action = k.action /\ r.by = w /\ r.context = k.context /\ r.version = k.result
      /\ r.evidence = k.evidence /\ r.at = k.at
  BY DEF HandedOut
<1> HIDE DEF r
<1>7. Event(w, r) \in trail BY <1>1, <1>6 DEF Established, Logged, Event
<1>8. Envelope \subseteq Envelope' BY <1>2 DEF Envelope
<1>9. OwnContextOnly'
  <2>1. EnvironmentOf[r.by] = EnvironmentAt[r.context] BY <1>1, <1>6 DEF Established, SoundCall
  <2>2. r.action = "kms.decrypt" =>
          \E e \in Envelope : /\ e.evidence = r.evidence
                              /\ e.context = r.context /\ e.version = r.version
    BY <1>1, <1>6 DEF Established, SoundCall, Opens, Served
  <2> QED BY <1>2, <1>8, <2>1, <2>2 DEF KeyInv, OwnContextOnly
<1>10. ASSUME NEW v \in Workload, call'[v] # NoCall
      PROVE  SoundCall(v, call'[v], enabled', Envelope') /\ Logged(v, call'[v], trail')
  <2>1. /\ call'[v] = call[v] /\ SoundCall(v, call[v], enabled, Envelope)
        /\ Logged(v, call[v], trail)
    BY <1>4, <1>10 DEF KeyInv, Established
  <2>2. enabled' \subseteq call[v].known BY <1>2, <2>1 DEF SoundCall
  <2>3. SoundCall(v, call'[v], enabled', Envelope') BY <1>8, <2>1, <2>2, StaysSound
  <2> QED BY <1>2, <2>1, <2>3
<1>11. KeyInv' BY <1>4, <1>5, <1>9, <1>10 DEF KeyInv, Established
<1> QED BY <1>2, <1>7, <1>11 DEF r

\* The provider's versions and the identities move.
LEMMA ProviderStep ==
  ASSUME KeyInv,
         \/ \E v \in Version : Rotate(v) \/ DisableVersion(v)
         \/ \E w \in Workload : ExpireIdentity(w)
  PROVE  KeyInv'
<1>1. /\ UNCHANGED <<call, trail, released, done>> /\ enabled' \subseteq enabled
      /\ active' \in Version /\ expired' \subseteq Workload
  BY DEF KeyInv, KeyTypeOK, Rotate, DisableVersion, ExpireIdentity
<1>2. KeyTypeOK' BY <1>1 DEF KeyInv, KeyTypeOK
<1>3. OwnContextOnly' BY <1>1 DEF KeyInv, OwnContextOnly, Envelope
<1>4. ASSUME NEW w \in Workload, call'[w] # NoCall
      PROVE  SoundCall(w, call'[w], enabled', Envelope') /\ Logged(w, call'[w], trail')
  <2>1. call'[w] = call[w] /\ Envelope' = Envelope BY <1>1 DEF Envelope
  <2>2. SoundCall(w, call[w], enabled, Envelope) /\ Logged(w, call[w], trail)
    BY <1>4, <2>1 DEF KeyInv, Established
  <2>3. enabled' \subseteq call[w].known BY <1>1, <2>2 DEF SoundCall
  <2>4. SoundCall(w, call'[w], enabled', Envelope') BY <2>1, <2>2, <2>3, StaysSound
  <2> QED BY <1>1, <2>1, <2>2, <2>4
<1> QED BY <1>1, <1>2, <1>3, <1>4 DEF KeyInv, Established

LEMMA EnableStep == ASSUME KeyInv, NEW v \in Version, EnableVersion(v) PROVE KeyInv'
<1>1. /\ enabled' = enabled \cup {v}
      /\ UNCHANGED <<active, expired, trail, released, done>>
  BY DEF EnableVersion
<1>2. ASSUME NEW w \in Workload, call[w] # NoCall
      PROVE  /\ call'[w] \in Call /\ SoundCall(w, call'[w], enabled', Envelope')
             /\ Logged(w, call'[w], trail')
  <2> DEFINE k == call'[w]
  <2>1. k = [call[w] EXCEPT !.known = call[w].known \cup {v}]
    BY <1>2 DEF EnableVersion, NoticeEnabled
  <2>2. call[w] \in Call /\ Established(w, call[w]) BY <1>2 DEF KeyInv
  <2>3. /\ k \in Call /\ k.pc = call[w].pc /\ k.checked = call[w].checked
        /\ k.action = call[w].action /\ k.context = call[w].context
        /\ k.envelope = call[w].envelope /\ k.result = call[w].result
        /\ k.evidence = call[w].evidence /\ k.at = call[w].at
        /\ k.known = call[w].known \cup {v}
    BY <2>1, <2>2 DEF Call
  <2> HIDE DEF k
  <2>4. SoundCall(w, k, enabled', Envelope')
    <3>1. Envelope' = Envelope BY <1>1 DEF Envelope
    <3>2. SoundCall(w, call[w], enabled, Envelope) BY <2>2 DEF Established
    <3> QED BY <1>1, <2>3, <3>1, <3>2 DEF SoundCall, Opens
  <2>5. Logged(w, k, trail') BY <1>1, <2>2, <2>3 DEF Established, Logged, Event
  <2> QED BY <2>3, <2>4, <2>5 DEF k
<1>3. \A w \in Workload : call[w] = NoCall => call'[w] = NoCall
  BY DEF EnableVersion, NoticeEnabled
<1>4. call' \in [Workload -> Call \cup {NoCall}]
  BY <1>2, <1>3 DEF EnableVersion, NoticeEnabled
<1>5. KeyTypeOK' BY <1>1, <1>4 DEF KeyInv, KeyTypeOK
<1>6. OwnContextOnly' BY <1>1 DEF KeyInv, OwnContextOnly, Envelope
<1> QED BY <1>2, <1>3, <1>4, <1>5, <1>6 DEF KeyInv, Established

LEMMA KeyNextInv == KeyInv /\ [KeyNext]_keyVars => KeyInv'
<1> SUFFICES ASSUME KeyInv, [KeyNext]_keyVars PROVE KeyInv' OBVIOUS
<1>1. ASSUME NEW w \in Workload, CallNext(w) PROVE KeyInv'
  <2>1. CASE \E a \in Action, c \in Context, s \in Version \cup {NoVersion} :
               AskSecretOrEncrypt(w, a, c, s)
    BY <2>1, AskStep
  <2>2. CASE \E c \in Context, s \in Version \cup {NoVersion}, e \in Envelope :
               AskDecrypt(w, c, s, e)
    <3> "kms.decrypt" \in Action BY DEF Action
    <3> QED BY <2>2, AskStep
  <2>3. CASE ProviderFails(w)
    <3>1. done' \in 0..MaxCall BY <2>3 DEF KeyInv, KeyTypeOK, ProviderFails
    <3> QED BY <2>3, <3>1, CallGivesUp DEF ProviderFails
  <2> QED BY <1>1, <2>1, <2>2, <2>3, ReadKeyStateStep, CheckEnvelopeStep, ActStep,
             AppendAuditStep, AuditFailsStep, AnswerCallStep
          DEF CallNext
<1>2. CASE UNCHANGED keyVars
  BY <1>2 DEF keyVars, KeyInv, KeyTypeOK, OwnContextOnly, Established, Envelope
<1> QED BY <1>1, <1>2, ProviderStep, EnableStep DEF KeyNext

LEMMA KeyInvariance == KeySpec => []KeyInv
BY KeyInitInv, KeyNextInv, PTL DEF KeySpec

\* Every variable of the key boundary keeps its type.
THEOREM KeyTypeCorrect == KeySpec => []KeyTypeOK
<1>1. KeyInv => KeyTypeOK BY DEF KeyInv
<1> QED BY <1>1, KeyInvariance, PTL

\* A step that hands anything out is an answer.
LEMMA OnlyAnswers ==
  ASSUME KeyNext, released' # released
  PROVE  \E w \in Workload : AnswerCall(w)
BY DEF KeyNext, CallNext, Rotate, DisableVersion, EnableVersion, ExpireIdentity,
       AskSecretOrEncrypt, AskDecrypt, ReadKeyState, CheckEnvelope, Decrypt, Encrypt,
       ResolveSecret, AppendAudit, AuditFails, ProviderFails

\* Whatever the sink and the provider do, the event of what is handed out is on the trail
\* before: for any workloads, keys and number of calls, so also for an envelope that is
\* opened again and again.
THEOREM NothingIsUnaudited == KeySpec => NothingUnaudited
<1> DEFINE Audited == \A r \in released' \ released :
             [action |-> r.action, by |-> r.by, evidence |-> r.evidence, at |-> r.at] \in trail
<1>1. KeyInv /\ [KeyNext]_keyVars => [Audited]_keyVars
  <2> SUFFICES ASSUME KeyInv, KeyNext, NEW r \in released' \ released
               PROVE  [action |-> r.action, by |-> r.by, evidence |-> r.evidence, at |-> r.at]
                        \in trail
      OBVIOUS
  <2>1. PICK w \in Workload : AnswerCall(w) BY OnlyAnswers
  <2>2. r = HandedOut(w) /\ Event(w, HandedOut(w)) \in trail BY <2>1, AnswerCallStep
  <2> QED BY <2>2 DEF Event, HandedOut
<1> HIDE DEF Audited
<1>2. KeySpec => [][Audited]_keyVars BY <1>1, KeyInvariance, PTL DEF KeySpec
<1> QED BY <1>2 DEF NothingUnaudited, Audited

\* A plaintext was sealed for the context and the environment it is handed out for.
THEOREM ContextsAreKept == KeySpec => []OwnContextOnly
<1>1. KeyInv => OwnContextOnly BY DEF KeyInv
<1> QED BY <1>1, KeyInvariance, PTL

\* No version serves a call during the whole of which it was disabled.
THEOREM DisabledServeNobody == KeySpec => DisabledServesNobody
<1> DEFINE Serves == \A w \in Workload : call[w] # NoCall /\ released' # released /\ call'[w] = NoCall =>
             call[w].result \in call[w].known \cup {NoVersion}
<1>1. KeyInv => Serves BY DEF KeyInv, Established, SoundCall
<1>2. KeyInv /\ [KeyNext]_keyVars => [Serves]_keyVars BY <1>1
<1> HIDE DEF Serves
<1>3. KeySpec => [][Serves]_keyVars BY <1>2, KeyInvariance, PTL DEF KeySpec
<1> QED BY <1>3 DEF DisabledServesNobody, Serves

-------------------------------------------------------------------------------
(* Reviews beside shadow runs *)

\* A shadow run leaves the requests of reviewers alone: what is promised of them without
\* shadow runs is kept beside them, and so is the life cycle of the job.
THEOREM ReviewsUndisturbed ==
  ShadowSpec => BatchIsTransaction /\ ApprovedAsSeen /\ KeepsLifecycle
<1> DEFINE JobStepOrShadow == (Next /\ UNCHANGED shadowVars) \/ ShadowNext
           Whole == Durable => \A r \in Reviewer : WholeOrNothing(r)
           AsSeen ==
             \A r \in Reviewer : reviewer[r].pc = "checked" /\ reviewer'[r].pc = "idle" =>
               \A p \in Asked(r) :
                 reviewer[r].acts[p] = "approve" /\ pages'[p] # pages[p] =>
                   /\ pages'[p].selected = reviewer[r].seen[p].candidate
                   /\ reviewer[r].seen[p].bundle \in {None, pages'[p].bundle}
<1>1. ASSUME ShadowInv, ShadowInv', Resting, JobStepOrShadow
      PROVE  Whole /\ AsSeen /\ LifeStep /\ Resting'
  <2>1. PagesInv /\ PagesInv' BY <1>1 DEF ShadowInv
  <2>2. CASE Next BY <1>1, <2>1, <2>2, BatchStep, ApprovalStep, PagesLife
  <2>3. CASE ShadowNext
    <3>1. UNCHANGED <<job, reviewer, store>>
      BY <2>3 DEF ShadowNext, CapturePages, RecordShadow, DropShadow, vars
    <3>2. Whole /\ AsSeen BY <3>1 DEF WholeOrNothing
    <3>3. LifeStep /\ Resting'
      <4> Durable => UNCHANGED Lifecycle!lifeVars BY <2>1, <3>1, JobStays
      <4> QED BY <1>1, <3>1 DEF LifeStep, Resting, Durable
    <3> QED BY <3>2, <3>3
  <2> QED BY <1>1, <2>2, <2>3
<1>2. ShadowInv /\ ShadowInv' /\ Resting /\ [JobStepOrShadow]_shadowJobVars
        => [Whole]_vars /\ [AsSeen]_vars /\ [LifeStep]_vars /\ Resting'
  <2>1. UNCHANGED shadowJobVars => UNCHANGED vars /\ (Resting => Resting')
    BY DEF shadowJobVars, vars, Resting, Durable
  <2> HIDE DEF JobStepOrShadow, Whole, AsSeen
  <2> QED BY <1>1, <2>1
<1>3. ShadowSpec => [][Whole]_vars /\ [][AsSeen]_vars /\ [][LifeStep]_vars
  <2> HIDE DEF Whole, AsSeen
  <2> QED BY <1>2, InitRests, ShadowInvariance, PTL DEF ShadowSpec
<1> QED BY <1>3 DEF BatchIsTransaction, ApprovedAsSeen, KeepsLifecycle, LifeStep

-------------------------------------------------------------------------------
(* The composition *)

\* Every behaviour of the service is one of each of its parts: a step of the service is a
\* step of one part, and the others stutter.
THEOREM ServiceIsItsParts == ServiceSpec => ShadowSpec /\ AccessSpec /\ KeySpec
<1>1. ServiceInit => Init /\ ShadowInit /\ AccessInit /\ KeyInit BY DEF ServiceInit
<1>2. [ServiceNext]_serviceVars =>
        /\ [(Next /\ UNCHANGED shadowVars) \/ ShadowNext]_shadowJobVars
        /\ [AccessNext]_accessVars /\ [KeyNext]_keyVars
  BY DEF ServiceNext, serviceVars, shadowJobVars
<1> QED BY <1>1, <1>2, PTL DEF ServiceSpec, ShadowSpec, AccessSpec, KeySpec

\* Every variable of the job API keeps its type.
THEOREM ServiceTypeCorrect == ServiceSpec => []ServiceTypeOK
<1>1. ShadowInv /\ AccessInv /\ KeyInv => ServiceTypeOK
  BY DEF ShadowInv, PagesInv, AccessInv, KeyInv, ServiceTypeOK
<1> QED BY <1>1, ServiceIsItsParts, ShadowInvariance, AccessInvariant, KeyInvariance, PTL

\* Whichever part moves, and with shadow runs beside the pages, every part keeps what it
\* promises.
THEOREM ServiceIsSafe ==
  ServiceSpec =>
    /\ [](/\ ApprovalsBound /\ ExportCurrent /\ TargetsReviewable /\ AttemptInStep
          /\ WorkerInStep /\ ExpiredHoldsNothing /\ CreatorOwns /\ OwnersOnly
          /\ OwnContextOnly)
    /\ BatchIsTransaction /\ ApprovedAsSeen /\ KeepsLifecycle /\ ShadowBesideReview
    /\ UnboundUntouched /\ RefinesOwnership /\ NothingUnaudited
    /\ DisabledServesNobody
<1>1. ShadowInv => /\ ApprovalsBound /\ ExportCurrent /\ TargetsReviewable /\ AttemptInStep
                   /\ WorkerInStep /\ ExpiredHoldsNothing
  BY DEF ShadowInv, PagesInv
<1> QED BY <1>1, ServiceIsItsParts, ShadowInvariance, CreatorAlwaysOwns, AnswersToOwners,
           NothingIsUnaudited, ContextsAreKept, ReviewsUndisturbed, ObservationsHold,
           UnboundStayUntouched, AccessImplementsOwnership, DisabledServeNobody, PTL
===============================================================================
