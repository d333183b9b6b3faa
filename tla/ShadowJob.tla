------------------------------- MODULE ShadowJob -------------------------------
(***************************************************************************)
(* The shadow run of the V2a candidate beside a job (Stage11V2aShadowJob-  *)
(* Mixin): a first lock block captures the pages that await review, the     *)
(* model runs on them outside the lock, and a second block records what    *)
(* was observed unless the job or a page has changed.  Reviewers, retries, *)
(* cancellation and expiry of JobPages go on in between.                   *)
(*                                                                         *)
(* An event stands for the audit event with its run key, which is made of  *)
(* the attempt and its candidates; the source data kind is left out.       *)
(***************************************************************************)
EXTENDS JobPages

CONSTANT Observer  \* callers of run_stage11_v2a_shadow_job

VARIABLES
  shadow,   \* each caller: the attempt and the pages it captured
  observed  \* the STAGE11_V2A_SHADOW_JOB_OBSERVED events of the job

shadowVars == <<shadow, observed>>

Sighting == [candidate : Candidate, report : Candidate]
Run == [attempt : 1..MaxAttempt, seen : [Page -> Optional(Sighting)]]

ASSUME NoneIsNoSighting == None \notin Sighting

ShadowInit == shadow = [o \in Observer |-> None] /\ observed = {}

Observable(p) ==
  /\ pages[p].decision = None /\ pages[p].selected = None
  /\ pages[p].candidate # None /\ pages[p].report # None

Captured ==
  [attempt |-> job.attempt,
   seen |-> [p \in Page |->
     IF p \in job.targets
     THEN [candidate |-> pages[p].candidate, report |-> pages[p].report]
     ELSE None]]

RunKey(run) ==
  [attempt |-> run.attempt,
   candidates |-> [p \in {q \in Page : run.seen[q] # None} |-> run.seen[p].candidate]]

\* The first block.  A run whose key has an event is answered with that event.
CapturePages(o) ==
  /\ shadow[o] = None
  /\ job.state = "AWAITING_REVIEW"
  /\ \A p \in job.targets : Observable(p)
  /\ {"source", "candidate"} \subseteq held
  /\ \A e \in observed : RunKey(e) # RunKey(Captured)
  /\ shadow' = [shadow EXCEPT ![o] = Captured]
  /\ UNCHANGED <<vars, observed>>

\* The pages are as they were captured.  It would be faulty to compare only them: the
\* pages of a cancelled job are, and another attempt may have made the same again.
CurrentPages(run) ==
  \A p \in Page :
    run.seen[p] # None =>
      /\ pages[p].decision = None /\ pages[p].selected = None
      /\ run.seen[p] = [candidate |-> pages[p].candidate, report |-> pages[p].report]

StillCurrent(run) ==
  job.state = "AWAITING_REVIEW" /\ job.attempt = run.attempt /\ CurrentPages(run)

\* The second block.  It does not look for the run key again.
RecordShadow(o) ==
  /\ shadow[o] # None
  /\ StillCurrent(shadow[o])
  /\ observed' = observed \union {shadow[o]}
  /\ held' = held \union {"shadow"}
  /\ shadow' = [shadow EXCEPT ![o] = None]
  /\ UNCHANGED <<job, pages, worker, reviewer, crashes, store>>

\* The second block raises, or the observation did.
DropShadow(o) ==
  /\ shadow[o] # None
  /\ shadow' = [shadow EXCEPT ![o] = None]
  /\ UNCHANGED <<vars, observed>>

ShadowNext == \E o \in Observer : CapturePages(o) \/ RecordShadow(o) \/ DropShadow(o)

shadowJobVars == <<vars, shadowVars>>

ShadowSpec ==
  /\ Init /\ ShadowInit
  /\ [][(Next /\ UNCHANGED shadowVars) \/ ShadowNext]_shadowJobVars

-------------------------------------------------------------------------------
(* Properties *)

ShadowTypeOK ==
  /\ shadow \in [Observer -> Optional(Run)]
  /\ observed \subseteq Run

\* "Shadow observation must run before any review selection", and its evidence is about
\* what the teacher will see: an observation is recorded only for the attempt under
\* review, before any of its pages is decided, and whatever is decided on a page in that
\* attempt afterwards is decided on the candidate that was observed.
ShadowBesideReview ==
  /\ [][\A e \in observed' \ observed :
          /\ job.state = "AWAITING_REVIEW" /\ e.attempt = job.attempt
          /\ \A p \in job.targets : e.seen[p] # None /\ pages[p].decision = None]_observed
  /\ [](\A e \in observed, p \in Page :
          e.seen[p] # None /\ pages[p].attempt = e.attempt =>
            pages[p].candidate = e.seen[p].candidate)
==============================================================================
