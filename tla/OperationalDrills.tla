-------------------------- MODULE OperationalDrills --------------------------
(***************************************************************************)
(* The synthetic drills of stage6_operational_drills.py, as the last of    *)
(* the regressions of stage6_integration_security_regression.py runs them: *)
(* calls of the gates on fixed evidence, each with the answer expected,    *)
(* then a pool of threads that claim fencing tokens and commit one digest. *)
(* A report exists only if every expectation was met.                      *)
(***************************************************************************)
EXTENDS Gates

CONSTANTS PoolWorker,   \* the threads of the pool
          Idle,         \* what a thread without a task holds
          HighestToken  \* every token from 1 to this one is claimed twice

ASSUME TokenAssumption == HighestToken \in Nat \ {0}
ASSUME IdleAssumption == Idle \notin 1..HighestToken

VARIABLES
  progress,   \* calls | claims | commits | reported | failed
  calls,      \* the calls of gates that are left
  tasks,      \* what the executor has queued, in the order of submission
  held,       \* the task of each thread
  highest,    \* _FencingLedger: the highest token accepted
  accepted,   \* the tokens accepted, in order
  anyRefused, \* some claim was refused
  commits     \* how many calls of commit_once answered TRUE

ledgers == <<highest, accepted, anyRefused, commits>>
drillVars == <<progress, calls, tasks, held, ledgers>>

-------------------------------------------------------------------------------
(* What is asked of the gates, in the order of the code *)

Asked(gate, gaps, expect) ==
  [gate |-> gate, gaps |-> gaps, accepting |-> TRUE, expect |-> expect]

AskedUnaudited(gate) ==
  [gate |-> gate, gaps |-> {}, accepting |-> FALSE, expect |-> "audit_unavailable"]

Granted(gate) == Asked(gate, {}, "allowed")
Claimed(token, previous, expect) ==
  Asked(QueueClaimGate, TokenGaps(token, previous), expect)
Connected(source, destination, expect) ==
  Asked(ConnectionGate, ConnectionGaps(source, destination, TRUE), expect)
Deployed(gaps, activate, expect) ==
  Asked(DeploymentGate, gaps \cup ActivationGaps(activate, FALSE), expect)

\* The network and storage part of the trusted chain; identity, secrets and keys are
\* in ProductionAccess and KeyBoundary.
TrustedChain ==
  <<Granted(IngressGate), Connected("public_edge", "application", "allowed"),
    Connected("application", "identity", "allowed"),
    Connected("application", "secret_manager", "allowed"),
    Connected("application", "kms", "allowed"),
    Connected("application", "metadata_db", "allowed"),
    Connected("application", "object_storage", "allowed"),
    Connected("application", "queue", "allowed"),
    Connected("application", "audit", "allowed"),
    Granted(DatabaseGate), Granted(ObjectStorageGate), Granted(AuditStoreGate),
    Granted(EnvironmentGate), Claimed(1, 0, "allowed"), Deployed({}, FALSE, "allowed")>>

BypassDenied ==
  <<Asked(IngressGate, {"untrusted_proxy_peer"}, "untrusted_proxy_peer"),
    Asked(IngressGate, {"builtin_server_public_exposure_forbidden"},
          "builtin_server_public_exposure_forbidden"),
    Connected("quarantine", "application", "quarantine_outbound_forbidden"),
    Connected("public_edge", "metadata_db", "public_edge_internal_bypass_forbidden")>>

StorageFailClosed ==
  <<Claimed(4, 4, "stale_or_invalid_fencing_token"),
    Deployed({}, TRUE, "production_deployment_not_authorized"),
    AskedUnaudited(DatabaseGate)>>

RedeliveryDrill ==
  <<Claimed(7, 6, "allowed"), Claimed(7, 7, "stale_or_invalid_fencing_token"),
    Claimed(8, 7, "allowed")>>

CrashDrill ==
  <<Granted(CrashRecoveryGate),
    Asked(CrashRecoveryGate, {"partial_write_cleanup_verified"},
          "partial_write_cleanup_verified")>>

ResurrectionDrill ==
  <<Granted(DeletionGate), Granted(RestoreGate),
    Asked(RestoreGate, {"deleted_data_resurrection_check_passed"},
          "deleted_data_resurrection_check_passed")>>

AuditDrill == <<AskedUnaudited(DeletionGate)>>

RollbackDrill ==
  <<Deployed({}, FALSE, "allowed"),
    Deployed({}, TRUE, "production_deployment_not_authorized"),
    Deployed({"rollback_path_validated"}, FALSE, "rollback_path_validated")>>

AllCalls ==
  TrustedChain \o BypassDenied \o StorageFailClosed
    \o RedeliveryDrill \o CrashDrill \o ResurrectionDrill \o AuditDrill \o RollbackDrill

-------------------------------------------------------------------------------
(* The run *)

\* The tokens in the order of submission, and as many commits of one digest.
ClaimTasks ==
  [i \in 1..(2 * HighestToken) |-> IF i <= HighestToken THEN i ELSE i - HighestToken]

DrillInit ==
  /\ progress = "calls" /\ calls = AllCalls
  /\ tasks = <<>> /\ held = [w \in PoolWorker |-> Idle]
  /\ highest = 0 /\ accepted = <<>> /\ anyRefused = FALSE /\ commits = 0

\* A call that is answered otherwise fails its drill, or raises where the drill
\* expects to be allowed; there is no report in either case.
CallGate ==
  /\ progress = "calls" /\ calls # <<>>
  /\ LET call == Head(calls)
         met == Decision(call.gate, call.gaps, call.accepting) = call.expect
     IN progress' = IF met THEN "calls" ELSE "failed"
  /\ calls' = Tail(calls)
  /\ UNCHANGED <<tasks, held, ledgers>>

\* pool.map submits every task before it asks for the first result.
SubmitClaims ==
  /\ progress = "calls" /\ calls = <<>>
  /\ progress' = "claims" /\ tasks' = ClaimTasks
  /\ UNCHANGED <<calls, held, ledgers>>

TakeTask(w) ==
  /\ held[w] = Idle /\ tasks # <<>>
  /\ held' = [held EXCEPT ![w] = Head(tasks)] /\ tasks' = Tail(tasks)
  /\ UNCHANGED <<progress, calls, ledgers>>

\* Faulty: a token equal to the highest one is accepted again.
ClaimTokenAgain(w) ==
  /\ progress = "claims" /\ held[w] # Idle
  /\ held' = [held EXCEPT ![w] = Idle]
  /\ IF held[w] < highest
     THEN anyRefused' = TRUE /\ UNCHANGED <<highest, accepted>>
     ELSE /\ highest' = held[w] /\ accepted' = Append(accepted, held[w])
          /\ UNCHANGED anyRefused
  /\ UNCHANGED <<progress, calls, tasks, commits>>

\* _FencingLedger.claim, under its lock.
ClaimToken(w) ==
  /\ progress = "claims" /\ held[w] # Idle
  /\ held' = [held EXCEPT ![w] = Idle]
  /\ IF held[w] <= highest
     THEN anyRefused' = TRUE /\ UNCHANGED <<highest, accepted>>
     ELSE /\ highest' = held[w] /\ accepted' = Append(accepted, held[w])
          /\ UNCHANGED anyRefused
  /\ UNCHANGED <<progress, calls, tasks, commits>>

PoolDone == tasks = <<>> /\ \A w \in PoolWorker : held[w] = Idle

SubmitCommits ==
  /\ progress = "claims" /\ PoolDone
  /\ progress' = "commits" /\ tasks' = ClaimTasks
  /\ UNCHANGED <<calls, held, ledgers>>

\* _IdempotencyLedger.commit_once: the digest is the same in every task.
CommitDigest(w) ==
  /\ progress = "commits" /\ held[w] # Idle
  /\ held' = [held EXCEPT ![w] = Idle]
  /\ commits' = IF commits > 0 THEN commits ELSE commits + 1
  /\ UNCHANGED <<progress, calls, tasks, highest, accepted, anyRefused>>

StressPassed ==
  /\ highest = HighestToken
  /\ \A i \in 1..(Len(accepted) - 1) : accepted[i] < accepted[i + 1]
  /\ commits = 1 /\ anyRefused

ReportDrills ==
  /\ progress = "commits" /\ PoolDone
  /\ progress' = IF StressPassed THEN "reported" ELSE "failed"
  /\ UNCHANGED <<calls, tasks, held, ledgers>>

DrillNext ==
  \/ CallGate \/ SubmitClaims \/ SubmitCommits \/ ReportDrills
  \/ \E w \in PoolWorker : TakeTask(w) \/ ClaimToken(w) \/ CommitDigest(w)

DrillSpec == DrillInit /\ [][DrillNext]_drillVars

\* The main thread and the threads of the pool are scheduled.
DrillFairness == WF_drillVars(DrillNext)

-------------------------------------------------------------------------------
(* Properties *)

\* The drill is deterministic, as its first lines promise: in whatever order the
\* threads of the pool reach the ledgers, every expectation is met and the run ends
\* with a report.
DrillsConclude == <>(progress = "reported")

==============================================================================
