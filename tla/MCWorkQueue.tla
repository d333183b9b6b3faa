----------------------------- MODULE MCWorkQueue -----------------------------
(***************************************************************************)
(* WorkQueue on a small instance, under two kinds of schedule.  In a calm  *)
(* one nobody cancels, no operation outlasts its lease (PatientTick), the  *)
(* workers of Steady run fairly and jobs are not retried: there active     *)
(* jobs must settle.  In any other, every operation of the code may happen *)
(* to the jobs of Contended at any time and nothing is fair: there the     *)
(* fence must hold.                                                        *)
(***************************************************************************)
EXTENDS WorkQueue

CONSTANTS Steady,    \* the worker that runs in a calm schedule, and crashes in any
          Contended  \* the jobs that exist in any other

VARIABLE calm        \* the kind of schedule, chosen once

mcVars == <<vars, calm>>

CalmNext ==
  /\ UncancelledNext
  /\ \A w \in Worker \ Steady : worker'[w] = worker[w]
  /\ \A j \in Job : jobs'[j].attempt <= 1

\* Tokens and workers are interchangeable: a claim that draws another than the
\* first fresh token only renames it, and so does the crash of another worker.
FirstTokenDrawn ==
  \A j \in Job : queue'[j].token \in FreshTokens =>
    \A t \in FreshTokens : queue'[j].token <= t

SteadyCrash ==
  crashes' # crashes => \A w \in Worker \ Steady : worker'[w] = worker[w]

ContendedNext ==
  /\ Next
  /\ SteadyCrash
  /\ \A j \in Job \ Contended : jobs'[j] = NoRecord

QueueNext ==
  /\ \/ calm /\ CalmNext
     \/ ~calm /\ ContendedNext
  /\ FirstTokenDrawn
  /\ UNCHANGED calm

QueueInit == Init /\ calm \in BOOLEAN

QueueSpec ==
  /\ QueueInit
  /\ [][QueueNext]_mcVars
  /\ \A w \in Steady : WF_mcVars(calm /\ WorkerNext(w) /\ FirstTokenDrawn /\ UNCHANGED calm)
  /\ WF_mcVars(calm /\ PatientTick /\ UNCHANGED calm)

\* No job is worked on for ever: with operations shorter than the lease and no
\* cancellation in play, an active job settles, whoever crashes.
ActiveJobsSettle ==
  \A j \in Job : calm /\ Active(jobs[j]) ~> ~Active(jobs[j])
==============================================================================
