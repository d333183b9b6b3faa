----------------------------- MODULE JobLifecycle -----------------------------
(***************************************************************************)
(* What the service promises about one job, whatever workers, leases and   *)
(* crashes do underneath: a job waits, is worked on, and its attempt is    *)
(* settled at most once; only a retry, which opens the next attempt, makes *)
(* it wait again after that; expiry is final.                              *)
(***************************************************************************)
EXTENDS Naturals

CONSTANTS Job, MaxAttempt

VARIABLES life,     \* [Job -> Phase]
          attempt   \* [Job -> number of attempts opened so far]

Phase == {"none", "waiting", "running", "review", "completed", "failed",
          "cancelled", "expired"}

lifeVars == <<life, attempt>>

Init ==
  /\ life = [j \in Job |-> "none"]
  /\ attempt = [j \in Job |-> 0]

\* Job j moves from a phase of `from` to phase `to` within its attempt.
Move(j, from, to) ==
  /\ life[j] \in from
  /\ life' = [life EXCEPT ![j] = to]
  /\ UNCHANGED attempt

\* Job j waits for a worker under its next attempt.
Open(j, from) ==
  /\ life[j] \in from
  /\ attempt[j] < MaxAttempt
  /\ life' = [life EXCEPT ![j] = "waiting"]
  /\ attempt' = [attempt EXCEPT ![j] = @ + 1]

Submit(j) == Open(j, {"none"})
Begin(j) == Move(j, {"waiting"}, "running")
\* A lost worker's job waits again, still in the same attempt.
Recover(j) == Move(j, {"running"}, "waiting")
Deliver(j) == Move(j, {"running"}, "review")
Fail(j) == Move(j, {"running"}, "failed")
Complete(j) == Move(j, {"review"}, "completed")
Cancel(j) == Move(j, {"waiting", "review"}, "cancelled")
Expire(j) == Move(j, Phase \ {"none", "expired"}, "expired")
Retry(j) == Open(j, {"review", "completed", "failed", "cancelled"})

Next ==
  \E j \in Job :
    \/ Submit(j) \/ Begin(j) \/ Recover(j) \/ Deliver(j) \/ Fail(j)
    \/ Complete(j) \/ Cancel(j) \/ Expire(j) \/ Retry(j)

Spec == Init /\ [][Next]_lifeVars
==============================================================================
