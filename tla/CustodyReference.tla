--------------------------- MODULE CustodyReference ---------------------------
(***************************************************************************)
(* InMemoryCustodyReference: one artifact in custody, from intake to its    *)
(* tombstone, with the removal control that outlives a restart.            *)
(*                                                                         *)
(* A removal is prepared by a producer (intent, then barrier, then its     *)
(* acknowledgement) and carried out by begin_revocation, which may stop at *)
(* any of its steps; the record is fenced first and stays fenced.          *)
(*                                                                         *)
(* The artifact never changes once it is taken in, so an intent is its     *)
(* trigger, and its fingerprint is the pair of request and trigger.  The   *)
(* audit chain is append-only: a position in it stands for a digest.       *)
(* Callers pass the record version they expect, and a call with another    *)
(* one has no effect: only calls with the current one are modelled.        *)
(***************************************************************************)
EXTENDS Naturals, Sequences, FiniteSets

CONSTANTS Request,     \* request ids
          Trigger,     \* "purpose_revocation" and the other triggers
          None,        \* Python's None
          Applicants,  \* identities that may be registered
          MaxRead      \* bound: reads that are authorized, ordinary and emergency

Roles == {"purpose_authorizer", "access_authorizer", "custody_operator", "key_custodian",
          "artifact_access_operator", "key_policy_approver", "key_operation_executor",
          "deletion_authority", "deletion_executor", "deletion_receipt_verifier",
          "audit_reviewer", "reviewed_operation_executor", "emergency_requester",
          "emergency_approver"}

ASSUME CustodyAssumption ==
  /\ None \notin Trigger /\ None \notin Request
  /\ \A i \in Applicants : i.roles \subseteq Roles /\ i.live \in BOOLEAN
  /\ MaxRead \in Nat

VARIABLES
  record,    \* custody state, version, fence and tombstones
  copies,    \* where bytes of the artifact are
  registry,  \* the registered identities
  grants,    \* read grants in force
  audit,     \* the audit chain: operation and record version of each event
  control,   \* removal control: intents, the barrier, the checkpoint
  begun,     \* the idempotency table: the trigger a request began with
  receipts,  \* the pending-backup and the final receipt
  snapshots, \* snapshots taken: record version and audit position
  served     \* how bytes were given out, and whether a removal was known then

vars == <<record, copies, registry, grants, audit, control, begun, receipts, snapshots, served>>

-------------------------------------------------------------------------------
(* State *)

Copy == {"primary", "replica", "cache", "transient", "backup"}
Event == [operation : {"quarantine", "promote", "authorize_read", "emergency_access",
                       "begin_deletion", "revoke", "finalize_deletion"},
          version : 1..5]
Intent == [trigger : Trigger, acknowledged : BOOLEAN, position : Nat]
Evidence == [request : Request \cup {None}, version : 1..5, executor : Applicants,
             verifier : Applicants, complete : BOOLEAN]
Checkpoint == [request : Request, position : Nat]

ASSUME NoneAssumption == None \notin Intent /\ None \notin Evidence /\ None \notin Checkpoint

Init ==
  /\ record = [state |-> "absent", version |-> 0, fenced |-> FALSE, tombstone |-> FALSE,
               backupTombstone |-> FALSE]
  /\ copies = {}
  /\ registry = {}
  /\ grants = 0
  /\ audit = <<>>
  /\ control = [intents |-> [q \in Request |-> None], barrier |-> None, checkpoint |-> None]
  /\ begun = [q \in Request |-> None]
  /\ receipts = [pending |-> None, final |-> None]
  /\ snapshots = {}
  /\ served = {}

In(s) == record.state = s
Moved(s) == [record EXCEPT !.state = s, !.version = record.version + 1]
Append1(operation, version) == Append(audit, [operation |-> operation, version |-> version])

-------------------------------------------------------------------------------
(* Identities *)

\* ROLE_CONFLICTS, and the three roles no person may hold together.
RoleConflicts ==
  {{"access_authorizer", "custody_operator"}, {"key_custodian", "artifact_access_operator"},
   {"key_policy_approver", "key_operation_executor"},
   {"deletion_authority", "deletion_executor"},
   {"deletion_executor", "deletion_receipt_verifier"},
   {"audit_reviewer", "reviewed_operation_executor"},
   {"emergency_requester", "emergency_approver"},
   {"purpose_authorizer", "access_authorizer", "deletion_receipt_verifier"}}

RolesOf(person, identities) == UNION {i.roles : i \in {j \in identities : j.person = person}}

\* Faulty variant: roles are compared per actor reference.
SeparatedPerActor(identities) ==
  \A i \in identities, conflict \in RoleConflicts : ~(conflict \subseteq i.roles)

\* _validate_role_separation: per real person.
Separated(identities) ==
  \A i \in identities, conflict \in RoleConflicts :
    ~(conflict \subseteq RolesOf(i.person, identities))

RegisterIdentity(i) ==
  /\ \A j \in registry : j.actor # i.actor
  /\ Separated(registry \cup {i})
  /\ registry' = registry \cup {i}
  /\ UNCHANGED <<record, copies, grants, audit, control, begun, receipts, snapshots, served>>

\* The identities _require_role lets through.
Holders(role) == {i \in registry : i.live /\ role \in i.roles}

\* An executor and a verifier that are independent of each other.
Pairs == {[executor |-> x, verifier |-> v] :
            x \in Holders("deletion_executor"), v \in Holders("deletion_receipt_verifier")}
IndependentPairs ==
  {p \in Pairs : p.executor.actor # p.verifier.actor /\ p.executor.person # p.verifier.person}

-------------------------------------------------------------------------------
(* Intake and access *)

Ingest ==
  /\ In("absent")
  /\ record' = Moved("quarantined")
  /\ copies' = {"primary"}
  /\ audit' = Append1("quarantine", 1)
  /\ UNCHANGED <<registry, grants, control, begun, receipts, snapshots, served>>

\* Faulty variant: the event is appended before the version moves.
PromoteAuditedEarly ==
  /\ In("quarantined")
  /\ record' = Moved("available")
  /\ copies' = Copy
  /\ audit' = Append1("promote", record.version)
  /\ UNCHANGED <<registry, grants, control, begun, receipts, snapshots, served>>

\* promote, once the inspection and the policy have passed.  It does not ask
\* whether a removal is pending.
Promote ==
  /\ In("quarantined")
  /\ record' = Moved("available")
  /\ copies' = Copy
  /\ audit' = Append1("promote", record.version + 1)
  /\ UNCHANGED <<registry, grants, control, begun, receipts, snapshots, served>>

\* Faulty variant: only a published barrier blocks access.
BlockedByBarrier == control.barrier # None

\* _removal_control_blocks_access.
Blocked == control.barrier # None \/ \E q \in Request : control.intents[q] # None

RemovalKnown == \E q \in Request : control.intents[q] # None
Serve(how) == served' = served \cup {[how |-> how, removing |-> RemovalKnown]}

Reads == Cardinality({k \in DOMAIN audit :
                        audit[k].operation \in {"authorize_read", "emergency_access"}})

GrantRead ==
  /\ Holders("artifact_access_operator") # {}
  /\ In("available") /\ ~record.fenced /\ ~Blocked
  /\ Reads < MaxRead
  /\ audit' = Append1("authorize_read", record.version)
  /\ grants' = grants + 1
  /\ UNCHANGED <<record, copies, registry, control, begun, receipts, snapshots, served>>

Read ==
  /\ In("available") /\ ~record.fenced /\ ~Blocked
  /\ grants > 0
  /\ "primary" \in copies
  /\ Serve("read")
  /\ UNCHANGED <<record, copies, registry, grants, audit, control, begun, receipts, snapshots>>

\* emergency_read, with every ordinary condition met.
EmergencyRead ==
  /\ In("available") /\ ~Blocked
  /\ \E requester \in Holders("emergency_requester"),
        first, second \in Holders("emergency_approver") :
       Cardinality({requester.person, first.person, second.person}) = 3
  /\ "primary" \in copies
  /\ Reads < MaxRead
  /\ audit' = Append1("emergency_access", record.version)
  /\ Serve("emergency")
  /\ UNCHANGED <<record, copies, registry, grants, control, begun, receipts, snapshots>>

CreateSnapshot ==
  /\ In("available") /\ "primary" \in copies
  /\ snapshots' = snapshots \cup {[version |-> record.version, position |-> Len(audit)]}
  /\ UNCHANGED <<record, copies, registry, grants, audit, control, begun, receipts, served>>

\* restore, given the live anchor: the snapshot must be of this very moment.
Restore(s) ==
  /\ In("available") /\ ~record.tombstone /\ ~record.backupTombstone /\ ~Blocked
  /\ s.version = record.version
  /\ s.position = Len(audit)
  /\ Serve("restore")
  /\ UNCHANGED <<record, copies, registry, grants, audit, control, begun, receipts, snapshots>>

-------------------------------------------------------------------------------
(* Removal control *)

\* persist_removal_intent of a request that has none yet.
PersistIntent(q, t) ==
  /\ ~In("absent")
  /\ control.intents[q] = None
  /\ control' = [control EXCEPT !.intents[q] =
       [trigger |-> t, acknowledged |-> FALSE, position |-> 0]]
  /\ UNCHANGED <<record, copies, registry, grants, audit, begun, receipts, snapshots, served>>

\* Faulty variant: publishing again starts the intent over.
PublishBarrierAnew(q, acknowledged) ==
  /\ control.intents[q] # None
  /\ control' = [control EXCEPT !.barrier = q,
                  !.intents[q] = [trigger |-> control.intents[q].trigger,
                                  acknowledged |-> acknowledged, position |-> 0]]
  /\ UNCHANGED <<record, copies, registry, grants, audit, begun, receipts, snapshots, served>>

\* publish_removal_barrier: the barrier holds one request, the last published.
\* An acknowledgement with another fingerprint raises, after the barrier is set.
PublishBarrier(q, acknowledged) ==
  /\ control.intents[q] # None
  /\ control' = [control EXCEPT !.barrier = q,
                  !.intents[q].acknowledged = control.intents[q].acknowledged \/ acknowledged]
  /\ UNCHANGED <<record, copies, registry, grants, audit, begun, receipts, snapshots, served>>

\* _require_acknowledged_barrier returns.
Acknowledged(q) ==
  control.intents[q] # None /\ control.intents[q].acknowledged /\ control.barrier = q

\* advance_removal_checkpoint.
AdvanceCheckpoint(q) ==
  /\ Acknowledged(q)
  /\ control.intents[q].position # 0
  /\ control' = [control EXCEPT !.checkpoint =
       [request |-> q, position |-> control.intents[q].position]]
  /\ UNCHANGED <<record, copies, registry, grants, audit, begun, receipts, snapshots, served>>

\* restart: durable control state stays, grants go.
Restart ==
  /\ grants > 0
  /\ grants' = 0
  /\ UNCHANGED <<record, copies, registry, audit, control, begun, receipts, snapshots, served>>

-------------------------------------------------------------------------------
(* Deletion *)

\* How far begin_revocation gets: what its callers report of each step.
Outcome == [durable : BOOLEAN, workFenced : BOOLEAN, checkpoint : BOOLEAN,
            replica : BOOLEAN, cache : BOOLEAN, tombstone : BOOLEAN]

Kept(o) == copies \cap ({"backup"} \cup (IF o.replica THEN {} ELSE {"replica"})
                                    \cup (IF o.cache THEN {} ELSE {"cache"}))

\* Faulty variant: a cache that was not purged does not hold the receipt back.
EvidencedWithCache(o) == "replica" \notin Kept(o) /\ o.tombstone

\* The receipt is issued.
Evidenced(o) == Kept(o) \cap {"replica", "cache"} = {} /\ o.tombstone

\* Faulty variant: the anchor is read before the event is appended.
BeginPositionEarly == Len(audit)

\* The position of the begin_deletion event.
BeginPosition == Len(audit) + 1

Receipt(q, pair, complete) ==
  [request |-> q, version |-> record.version + 1, executor |-> pair.executor,
   verifier |-> pair.verifier, complete |-> complete]

\* The intent and its acknowledged barrier, which a request without a producer
\* gets here.
Prepared(q, t) ==
  IF control.intents[q] = None
  THEN [control EXCEPT !.intents[q] = [trigger |-> t, acknowledged |-> TRUE, position |-> 0],
                       !.barrier = q]
  ELSE control

\* The intent points at the event just made durable.
Anchored(q, t) == [Prepared(q, t) EXCEPT !.intents[q].position = BeginPosition]

\* begin_revocation of a request not begun before.
BeginRevocation(q, t) ==
  /\ begun[q] = None
  /\ In("available") \/ In("quarantined")
  /\ Holders("deletion_authority") # {}
  /\ control.intents[q] # None => control.intents[q].trigger = t /\ Acknowledged(q)
  /\ grants' = 0
  /\ begun' = [begun EXCEPT ![q] = t]
  /\ \E pair \in IndependentPairs, o \in Outcome :
       LET removed == o.durable /\ o.workFenced
       IN /\ audit' = IF o.durable THEN Append1("begin_deletion", record.version + 1) ELSE audit
          /\ control' = IF ~o.durable THEN Prepared(q, t)
                        ELSE IF removed /\ o.checkpoint
                        THEN [Anchored(q, t) EXCEPT !.checkpoint =
                                [request |-> q, position |-> BeginPosition]]
                        ELSE Anchored(q, t)
          /\ record' = [Moved("deletion_pending") EXCEPT !.fenced = TRUE, !.tombstone = TRUE,
                         !.backupTombstone = removed /\ o.tombstone]
          /\ copies' = IF removed THEN Kept(o) ELSE copies
          /\ receipts' = IF removed /\ Evidenced(o)
                         THEN [receipts EXCEPT !.pending = Receipt(q, pair, FALSE)]
                         ELSE receipts
  /\ UNCHANGED <<registry, snapshots, served>>

\* Faulty variant: a revocation may be confirmed again.
ConfirmRevokedAgain ==
  /\ In("deletion_pending") \/ In("revoked")
  /\ receipts.pending # None
  /\ record' = Moved("revoked")
  /\ audit' = Append1("revoke", record.version + 1)
  /\ UNCHANGED <<copies, registry, grants, control, begun, receipts, snapshots, served>>

ConfirmRevoked ==
  /\ In("deletion_pending")
  /\ copies \subseteq {"backup"}
  /\ record.tombstone /\ record.backupTombstone
  /\ receipts.pending # None
  /\ LET q == receipts.pending.request
     IN /\ Acknowledged(q)
        /\ control.checkpoint = [request |-> q, position |-> control.intents[q].position]
  /\ record' = Moved("revoked")
  /\ audit' = Append1("revoke", record.version + 1)
  /\ UNCHANGED <<copies, registry, grants, control, begun, receipts, snapshots, served>>

\* finalize_deletion, once the backups have expired.
FinalizeDeletion ==
  /\ In("revoked")
  /\ copies' = copies \ {"backup"}
  /\ record' = Moved("tombstoned")
  /\ audit' = Append1("finalize_deletion", record.version + 1)
  /\ \E pair \in IndependentPairs : receipts' = [receipts EXCEPT !.final = Receipt(None, pair, TRUE)]
  /\ UNCHANGED <<registry, grants, control, begun, snapshots, served>>

-------------------------------------------------------------------------------
(* Specification *)

Next ==
  \/ Ingest \/ Promote \/ GrantRead \/ Read \/ EmergencyRead \/ CreateSnapshot \/ Restart
  \/ ConfirmRevoked \/ FinalizeDeletion
  \/ \E i \in Applicants : RegisterIdentity(i)
  \/ \E s \in snapshots : Restore(s)
  \/ \E q \in Request, t \in Trigger : PersistIntent(q, t) \/ BeginRevocation(q, t)
  \/ \E q \in Request, b \in BOOLEAN : PublishBarrier(q, b)
  \/ \E q \in Request : AdvanceCheckpoint(q)

Spec == Init /\ [][Next]_vars

\* The producer of each intent publishes its barrier again and again, and the
\* checkpoint and the confirmation are tried again until they succeed.
CustodyFairness ==
  /\ \A q \in Request : WF_vars(PublishBarrier(q, TRUE)) /\ SF_vars(AdvanceCheckpoint(q))
  /\ SF_vars(ConfirmRevoked)

FairSpec == Spec /\ CustodyFairness

-------------------------------------------------------------------------------
(* Properties *)

\* Every variable holds a value of its type.
TypeOK ==
  /\ record \in [state : {"absent", "quarantined", "available", "deletion_pending", "revoked",
                          "tombstoned"},
                 version : 0..5, fenced : BOOLEAN, tombstone : BOOLEAN,
                 backupTombstone : BOOLEAN]
  /\ copies \subseteq Copy
  /\ registry \subseteq Applicants
  /\ grants \in Nat
  /\ audit \in Seq(Event)
  /\ control \in [intents : [Request -> Intent \cup {None}], barrier : Request \cup {None},
                  checkpoint : Checkpoint \cup {None}]
  /\ begun \in [Request -> Trigger \cup {None}]
  /\ receipts \in [pending : Evidence \cup {None}, final : Evidence \cup {None}]
  /\ snapshots \subseteq [version : 1..5, position : Nat]
  /\ served \subseteq [how : {"read", "restore", "emergency"}, removing : BOOLEAN]

\* From the moment a removal intent is persisted, published or not, before or
\* after a restart, no route gives bytes out.
NothingServedUnderRemoval == \A s \in served : ~s.removing

\* A receipt says where the bytes are for ever after: a pending-backup receipt
\* that only a backup is left, a final one that nothing is.
ReceiptsTell ==
  /\ receipts.pending # None =>
       copies \subseteq {"backup"} /\ record.backupTombstone /\ record.fenced /\ grants = 0
  /\ receipts.final # None => copies = {} /\ receipts.pending # None

\* A revocation is confirmed only when the checkpoint stands at the event that
\* began this very deletion.
RevocationAnchored ==
  record.state \in {"revoked", "tombstoned"} =>
    /\ control.checkpoint # None
    /\ control.checkpoint.request = receipts.pending.request
    /\ control.checkpoint.position \in DOMAIN audit
    /\ audit[control.checkpoint.position] =
         [operation |-> "begin_deletion", version |-> receipts.pending.version]

\* Every version of the record has its audit event, except the one a deletion is
\* stuck in when its event could not be made durable.
AuditComplete ==
  \A v \in 1..record.version :
    \/ \E k \in DOMAIN audit : audit[k].version = v
    \/ record.state = "deletion_pending" /\ v = record.version

\* No person who executed any part of the deletion verified any part of it.
IndependentEvidence ==
  \A e, f \in {receipts.pending, receipts.final} \ {None} :
    e.executor.person # f.verifier.person

\* Once the pending-backup receipt is issued the revocation is confirmed, although
\* another request may take the barrier over before the checkpoint has advanced.
ReceiptedIsRevoked == receipts.pending # None ~> record.state \in {"revoked", "tombstoned"}

\* The refinement mapping: what the states of a record mean for its bytes.
StageOf(state) ==
  CASE state = "absent" -> "absent"
    [] state \in {"quarantined", "available"} -> "held"
    [] state = "deletion_pending" -> "withdrawn"
    [] state = "revoked" -> "confirmed"
    [] state = "tombstoned" -> "erased"

Removal == INSTANCE CustodyRemoval
  WITH Place <- Copy,
       Way <- {"read", "restore", "emergency"},
       stage <- StageOf(record.state),
       where <- copies,
       asked <- {q \in Request : control.intents[q] # None},
       receipt <- IF receipts.pending = None THEN None ELSE receipts.pending.request,
       given <- served

\* Intents, barriers, checkpoints, restarts and deletions that stop at any of their steps
\* implement the removal: from the first intent on no byte is given out, the copies only
\* become fewer from the withdrawal on, and the record is confirmed and erased on a
\* receipt that told the truth.
RefinesRemoval == Removal!Spec
==============================================================================
