------------------------------ MODULE JobStates ------------------------------
(***************************************************************************)
(* The job states of the restoration service and the two tables the code   *)
(* keeps about them: the states that own a work-queue row, and the edges   *)
(* that `_transition` accepts.                                             *)
(***************************************************************************)

JobState == {"UPLOADED", "ANALYZING", "READY_FOR_PROCESSING", "PROCESSING",
             "COMPARING", "VALIDATING", "AWAITING_REVIEW", "APPROVED",
             "EXPORTING", "COMPLETED", "REJECTED", "FAILED", "CANCELLED",
             "EXPIRED"}

\* States whose jobs own a row of the durable work queue.
ActiveWorkStates == {"UPLOADED", "ANALYZING", "READY_FOR_PROCESSING",
                     "PROCESSING", "COMPARING", "VALIDATING"}

\* States in which process_job may start: everything else that is active has
\* been interrupted and must be recovered first.
QueuedStates == {"UPLOADED", "READY_FOR_PROCESSING"}

\* Faulty variant: an expired job may be retried.
RetryableWhenExpired == {"AWAITING_REVIEW", "COMPLETED", "REJECTED", "FAILED",
                         "CANCELLED", "EXPIRED"}

\* States from which a retry opens a new attempt.
RetryableStates == {"AWAITING_REVIEW", "COMPLETED", "REJECTED", "FAILED",
                    "CANCELLED"}

\* States in which a cancellation request is refused, EXPIRED apart.
NotCancellableStates == {"APPROVED", "EXPORTING", "COMPLETED", "REJECTED",
                         "FAILED", "CANCELLED"}

\* Faulty variant: a job under analysis is cancelled at once.
CancelledWhileAnalyzed == {"UPLOADED", "ANALYZING", "READY_FOR_PROCESSING", "AWAITING_REVIEW"}

\* States in which a cancellation takes effect at once.
CancelledAtOnceStates == {"UPLOADED", "READY_FOR_PROCESSING", "AWAITING_REVIEW"}

\* _ALLOWED_TRANSITIONS: the states that may follow s.
AllowedTransitions ==
  [s \in JobState |->
    CASE s = "UPLOADED"             -> {"ANALYZING", "CANCELLED", "EXPIRED"}
      [] s = "ANALYZING"            -> {"READY_FOR_PROCESSING", "FAILED", "CANCELLED", "EXPIRED"}
      [] s = "READY_FOR_PROCESSING" -> {"ANALYZING", "PROCESSING", "CANCELLED", "FAILED", "EXPIRED"}
      [] s = "PROCESSING"           -> {"VALIDATING", "FAILED", "CANCELLED", "EXPIRED"}
      [] s = "COMPARING"            -> {"VALIDATING", "FAILED", "CANCELLED", "EXPIRED"}
      [] s = "VALIDATING"           -> {"AWAITING_REVIEW", "FAILED", "CANCELLED", "EXPIRED"}
      [] s = "AWAITING_REVIEW"      -> {"READY_FOR_PROCESSING", "APPROVED", "REJECTED", "CANCELLED", "EXPIRED"}
      [] s = "APPROVED"             -> {"EXPORTING", "READY_FOR_PROCESSING", "EXPIRED"}
      [] s = "EXPORTING"            -> {"COMPLETED", "FAILED", "EXPIRED"}
      [] s \in {"COMPLETED", "REJECTED", "FAILED", "CANCELLED"}
                                    -> {"READY_FOR_PROCESSING", "EXPIRED"}
      [] OTHER                      -> {}]

\* The phase of the life cycle of JobLifecycle a state belongs to.  Of the rest, a
\* review passes through APPROVED and EXPORTING within one block, and nothing rejects
\* a job as a whole.
PhaseOf(s) ==
  CASE s = "NONE" -> "none"
    [] s \in QueuedStates -> "waiting"
    [] s \in ActiveWorkStates \ QueuedStates -> "running"
    [] s = "AWAITING_REVIEW" -> "review"
    [] s = "COMPLETED" -> "completed"
    [] s = "FAILED" -> "failed"
    [] s = "CANCELLED" -> "cancelled"
    [] s = "EXPIRED" -> "expired"
    [] OTHER -> "unreachable"
==============================================================================
