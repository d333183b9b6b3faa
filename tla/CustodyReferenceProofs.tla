------------------------ MODULE CustodyReferenceProofs ------------------------
(***************************************************************************)
(* Safety of CustodyReference, for any requests, triggers and identities.  *)
(*                                                                         *)
(* The strengthening says what each custody state has behind it: versions  *)
(* go up with the states, at most one request has begun a deletion, its    *)
(* intent points at the event that began it, and the people on a receipt   *)
(* are registered with the roles they acted in.                            *)
(***************************************************************************)
EXTENDS CustodyReference, TLAPS

Early == record.state \in {"absent", "quarantined", "available"}

\* The version is the number of moves of the record.
VersionInStep ==
  /\ record.state = "absent" => record.version = 0
  /\ record.state = "quarantined" => record.version = 1
  /\ record.state = "available" => record.version = 2
  /\ record.state = "deletion_pending" => record.version \in {2, 3}
  /\ record.state = "revoked" => record.version \in {3, 4}
  /\ record.state = "tombstoned" => record.version \in {4, 5}

\* Receipts belong to the states after the deletion began.
ReceiptsInStep ==
  /\ Early => receipts.pending = None
  /\ record.state # "tombstoned" => receipts.final = None
  /\ record.state \in {"revoked", "tombstoned"} => receipts.pending # None
  /\ record.state = "deletion_pending" /\ receipts.pending # None =>
       receipts.pending.version = record.version

\* The intent with a position is the one of the deletion that began, and the
\* position is that of the event.
PositionsInStep ==
  \A q \in Request : control.intents[q] # None /\ control.intents[q].position # 0 =>
    /\ ~Early
    /\ control.intents[q].position \in DOMAIN audit
    /\ receipts.pending # None => receipts.pending.request = q

\* The event of a deletion with a receipt.
ReceiptAudited ==
  receipts.pending # None =>
    LET q == receipts.pending.request
    IN /\ q \in Request /\ control.intents[q] # None
       /\ control.intents[q].position # 0
       /\ audit[control.intents[q].position] =
            [operation |-> "begin_deletion", version |-> receipts.pending.version]

\* The checkpoint stands at the position of an intent.
CheckpointInStep ==
  control.checkpoint # None =>
    LET q == control.checkpoint.request
    IN /\ control.intents[q] # None
       /\ control.intents[q].position # 0
       /\ control.checkpoint.position = control.intents[q].position

\* The people on the receipts.
Witnesses ==
  \A e \in {receipts.pending, receipts.final} \ {None} :
    /\ e.executor \in registry /\ "deletion_executor" \in e.executor.roles
    /\ e.verifier \in registry /\ "deletion_receipt_verifier" \in e.verifier.roles

Confirmed == record.state \in {"revoked", "tombstoned"} => control.checkpoint # None

IInv ==
  /\ TypeOK
  /\ VersionInStep
  /\ ReceiptsInStep
  /\ PositionsInStep
  /\ ReceiptAudited
  /\ CheckpointInStep
  /\ Confirmed
  /\ Separated(registry)
  /\ Witnesses
  /\ ReceiptsTell
  /\ NothingServedUnderRemoval
  /\ AuditComplete

-------------------------------------------------------------------------------
(* Initial states *)

\* A custody that has not taken the artifact in yet.
LEMMA Initially == Init => IInv
<1> USE CustodyAssumption, NoneAssumption
<1> SUFFICES ASSUME Init PROVE IInv
  OBVIOUS
<1>1. TypeOK
  BY DEF Init, TypeOK, Event
<1>2. Separated(registry)
  BY DEF Init, Separated, RolesOf, RoleConflicts
<1>3. ReceiptsTell /\ NothingServedUnderRemoval /\ AuditComplete /\ Witnesses
  BY DEF Init, ReceiptsTell, NothingServedUnderRemoval, AuditComplete, Witnesses
<1>4. VersionInStep /\ ReceiptsInStep /\ PositionsInStep /\ ReceiptAudited /\ CheckpointInStep /\ Confirmed
  BY DEF Init, VersionInStep, ReceiptsInStep, PositionsInStep, ReceiptAudited, CheckpointInStep,
         Confirmed, Early
<1> QED
  BY <1>1, <1>2, <1>3, <1>4 DEF IInv

-------------------------------------------------------------------------------
(* Helpers *)

\* Append keeps what was there and adds one event at the end.
LEMMA Appended ==
  ASSUME NEW s \in Seq(Event), NEW e \in Event
  PROVE  /\ Append(s, e) \in Seq(Event)
         /\ \A k \in DOMAIN s : k \in DOMAIN Append(s, e) /\ Append(s, e)[k] = s[k]
         /\ Len(s) + 1 \in DOMAIN Append(s, e)
         /\ Append(s, e)[Len(s) + 1] = e
         /\ Len(s) \in Nat
  OBVIOUS

\* The versions of the states in which the record may move.
LEMMA VersionRange ==
  ASSUME TypeOK, VersionInStep
  PROVE  /\ record.version \in Nat
         /\ ~In("absent") => record.version \in 1..5
         /\ ~In("tombstoned") => record.version + 1 \in 1..5
  BY DEF TypeOK, VersionInStep, In

\* Giving bytes out while no removal is known keeps the log of it well formed.
LEMMA ServedTyped ==
  ASSUME served \subseteq [how : {"read", "restore", "emergency"}, removing : BOOLEAN],
         NEW how \in {"read", "restore", "emergency"}
  PROVE  served \cup {[how |-> how, removing |-> FALSE]}
           \subseteq [how : {"read", "restore", "emergency"}, removing : BOOLEAN]
<1>1. [how |-> how, removing |-> FALSE]
        \in [how : {"read", "restore", "emergency"}, removing : BOOLEAN]
  OBVIOUS
<1> QED
  BY <1>1, Zenon

\* Steps that only touch reads, snapshots and grants.
LEMMA ReadSteps ==
  ASSUME IInv,
         Read \/ CreateSnapshot \/ Restart \/ \E s \in snapshots : Restore(s)
  PROVE  IInv'
<1> USE CustodyAssumption, NoneAssumption DEF IInv
<1>1. ~Blocked => ~RemovalKnown
  BY DEF Blocked, RemovalKnown
<1>2. /\ UNCHANGED <<record, copies, registry, audit, control, begun, receipts>>
      /\ grants' = grants \/ grants' = 0
  BY DEF Read, CreateSnapshot, Restart, Restore, Serve
<1>3. served' = served \/ \E how \in {"read", "restore"} :
        served' = served \cup {[how |-> how, removing |-> FALSE]}
  BY <1>1 DEF Read, CreateSnapshot, Restart, Restore, Serve, RemovalKnown
<1>4. snapshots' = snapshots \/ (In("available") /\ snapshots' =
        snapshots \cup {[version |-> record.version, position |-> Len(audit)]})
  BY DEF Read, CreateSnapshot, Restart, Restore, Serve
<1>5. TypeOK'
  <2>1. snapshots' \subseteq [version : 1..5, position : Nat]
    BY <1>4, VersionRange, audit \in Seq(Event), Len(audit) \in Nat DEF TypeOK, In
  <2>2. served' \subseteq [how : {"read", "restore", "emergency"}, removing : BOOLEAN]
    BY <1>3, ServedTyped, Zenon DEF TypeOK
  <2> QED
    BY <1>2, <2>1, <2>2 DEF TypeOK
<1>6. NothingServedUnderRemoval'
  BY <1>3 DEF NothingServedUnderRemoval
<1>7. ReceiptsTell'
  BY <1>2 DEF ReceiptsTell
<1>8. Separated(registry)' /\ Witnesses' /\ AuditComplete'
  BY <1>2 DEF Separated, RolesOf, Witnesses, AuditComplete
<1> QED
  BY <1>2, <1>5, <1>6, <1>7, <1>8
  DEF VersionInStep, ReceiptsInStep, PositionsInStep, ReceiptAudited, CheckpointInStep,
      Confirmed, Early

-------------------------------------------------------------------------------
(* Steps that leave the deletion alone *)

\* register_identity: the people on the receipts stay registered.
LEMMA RegisterStep ==
  ASSUME IInv, NEW i \in Applicants, RegisterIdentity(i)
  PROVE  IInv'
<1> USE CustodyAssumption, NoneAssumption DEF IInv
<1>1. /\ UNCHANGED <<record, copies, grants, audit, control, begun, receipts, snapshots, served>>
      /\ registry' = registry \cup {i} /\ Separated(registry \cup {i})
  BY DEF RegisterIdentity
<1>2. TypeOK'
  BY <1>1 DEF TypeOK
<1>3. Separated(registry)'
  BY <1>1 DEF Separated, RolesOf
<1>4. Witnesses'
  BY <1>1 DEF Witnesses
<1>5. NothingServedUnderRemoval' /\ ReceiptsTell' /\ AuditComplete'
  BY <1>1 DEF NothingServedUnderRemoval, ReceiptsTell, AuditComplete
<1> QED
  BY <1>1, <1>2, <1>3, <1>4, <1>5
  DEF VersionInStep, ReceiptsInStep, PositionsInStep, ReceiptAudited, CheckpointInStep,
      Confirmed, Early

\* What an appended event leaves of the parts that read the audit chain.
LEMMA AuditSteps ==
  ASSUME IInv, NEW e \in Event, audit' = Append(audit, e),
         UNCHANGED <<control, receipts>>,
         Early' => Early
  PROVE  /\ PositionsInStep' /\ ReceiptAudited' /\ CheckpointInStep'
         /\ audit' \in Seq(Event)
<1> USE CustodyAssumption, NoneAssumption DEF IInv
<1>1. /\ \A k \in DOMAIN audit : k \in DOMAIN audit' /\ audit'[k] = audit[k]
      /\ audit' \in Seq(Event)
  BY Appended DEF TypeOK
<1>2. PositionsInStep'
  BY <1>1 DEF PositionsInStep
<1>3. ReceiptAudited'
  BY <1>1 DEF ReceiptAudited, PositionsInStep
<1>4. CheckpointInStep'
  BY DEF CheckpointInStep
<1> QED
  BY <1>1, <1>2, <1>3, <1>4

\* A move of the record with an event of the new version leaves no gap in the audit.
LEMMA MoveAudited ==
  ASSUME IInv, NEW e \in Event, audit' = Append(audit, e),
         \/ record'.version = record.version
         \/ record'.version = record.version + 1 /\ e.version = record.version + 1,
         record.state = "deletion_pending" => \E k \in DOMAIN audit' : audit'[k].version = record.version,
         record.version \in Nat
  PROVE  AuditComplete'
<1>1. /\ \A k \in DOMAIN audit : k \in DOMAIN audit' /\ audit'[k] = audit[k]
      /\ \E k \in DOMAIN audit' : audit'[k] = e
  BY Appended DEF TypeOK, IInv
<1>2. \A v \in 1..record.version : \E k \in DOMAIN audit' : audit'[k].version = v
  BY <1>1 DEF AuditComplete, IInv
<1>3. \A v \in 1..record'.version : v \in 1..record.version \/ v = e.version
  OBVIOUS
<1> QED
  BY <1>1, <1>2, <1>3 DEF AuditComplete

\* ingest and promote: a new version, with its event.
LEMMA IntakeSteps ==
  ASSUME IInv, Ingest \/ Promote
  PROVE  IInv'
<1> USE CustodyAssumption, NoneAssumption DEF IInv
<1>1. /\ UNCHANGED <<registry, grants, control, begun, receipts, snapshots, served>>
      /\ Early /\ Early' /\ copies' \subseteq Copy
  BY DEF Ingest, Promote, In, Moved, Early, Copy, TypeOK
<1>2. /\ record' \in [state : {"quarantined", "available"}, version : 1..5, fenced : BOOLEAN,
                      tombstone : BOOLEAN, backupTombstone : BOOLEAN]
      /\ record'.version = record.version + 1
      /\ \/ In("absent") /\ record'.state = "quarantined"
         \/ In("quarantined") /\ record'.state = "available"
      /\ record.version + 1 \in 1..5
  <2>1. CASE Ingest
    <3>1. In("absent") /\ record' = Moved("quarantined") /\ record.version + 1 \in 1..5
      BY <2>1, VersionRange DEF Ingest, In
    <3> QED
      BY <3>1 DEF Moved, TypeOK
  <2>2. CASE Promote
    <3>1. In("quarantined") /\ record' = Moved("available") /\ record.version + 1 \in 1..5
      BY <2>2, VersionRange DEF Promote, In
    <3> QED
      BY <3>1 DEF Moved, TypeOK
  <2> QED
    BY <2>1, <2>2
<1>3. \E e \in Event : audit' = Append(audit, e) /\ e.version = record.version + 1
  <2>1. \A operation \in {"quarantine", "promote"} :
          [operation |-> operation, version |-> record.version + 1] \in Event
    BY <1>2 DEF Event
  <2>2. audit' = Append1("quarantine", record.version + 1) \/ audit' = Append1("promote", record.version + 1)
    BY DEF Ingest, Promote, In, VersionInStep
  <2> QED
    BY <2>1, <2>2 DEF Append1
<1>4. PositionsInStep' /\ ReceiptAudited' /\ CheckpointInStep' /\ audit' \in Seq(Event)
  BY <1>1, <1>3, AuditSteps
<1>5. TypeOK'
  BY <1>1, <1>2, <1>4 DEF TypeOK
<1>6. VersionInStep' /\ ReceiptsInStep' /\ Confirmed'
  BY <1>1, <1>2 DEF VersionInStep, ReceiptsInStep, Confirmed, Early, TypeOK, In
<1>7. Separated(registry)' /\ Witnesses' /\ NothingServedUnderRemoval'
  BY <1>1 DEF Separated, RolesOf, Witnesses, NothingServedUnderRemoval
<1>8. ReceiptsTell'
  BY <1>1 DEF ReceiptsTell, ReceiptsInStep, Early
<1>9. AuditComplete'
  <2>1. record'.version = record.version + 1 /\ record.state # "deletion_pending"
        /\ record.version \in Nat
    BY <1>2, VersionRange DEF TypeOK, In
  <2> QED
    BY <1>3, <2>1, MoveAudited
<1> QED
  BY <1>4, <1>5, <1>6, <1>7, <1>8, <1>9

\* grant_read and emergency_read: an event that moves nothing.
LEMMA AccessSteps ==
  ASSUME IInv, GrantRead \/ EmergencyRead
  PROVE  IInv'
<1> USE CustodyAssumption, NoneAssumption DEF IInv
<1>1. /\ UNCHANGED <<record, copies, registry, control, begun, receipts, snapshots>>
      /\ grants' \in {grants, grants + 1} /\ In("available")
  BY DEF GrantRead, EmergencyRead, Serve
<1>2. served' = served \/ served' = served \cup {[how |-> "emergency", removing |-> FALSE]}
  BY DEF GrantRead, EmergencyRead, Serve, Blocked, RemovalKnown
<1>3. \E e \in Event : audit' = Append(audit, e)
  <2>1. \A operation \in {"authorize_read", "emergency_access"} :
          [operation |-> operation, version |-> record.version] \in Event
    BY <1>1, VersionRange DEF Event, In
  <2>2. audit' = Append1("authorize_read", record.version)
        \/ audit' = Append1("emergency_access", record.version)
    BY DEF GrantRead, EmergencyRead
  <2> QED
    BY <2>1, <2>2 DEF Append1
<1>4. PositionsInStep' /\ ReceiptAudited' /\ CheckpointInStep' /\ audit' \in Seq(Event)
  BY <1>1, <1>3, AuditSteps DEF Early
<1>5. TypeOK'
  <2>1. served' \subseteq [how : {"read", "restore", "emergency"}, removing : BOOLEAN]
    BY <1>2, ServedTyped, Zenon DEF TypeOK
  <2> QED
    BY <1>1, <1>4, <2>1 DEF TypeOK
<1>6. VersionInStep' /\ ReceiptsInStep' /\ Confirmed'
  BY <1>1 DEF VersionInStep, ReceiptsInStep, Confirmed, Early
<1>7. Separated(registry)' /\ Witnesses' /\ NothingServedUnderRemoval'
  BY <1>1, <1>2 DEF Separated, RolesOf, Witnesses, NothingServedUnderRemoval
<1>8. ReceiptsTell'
  BY <1>1 DEF ReceiptsTell, ReceiptsInStep, Early, In
<1>9. AuditComplete'
  <2>1. record'.version = record.version /\ record.state # "deletion_pending"
        /\ record.version \in Nat
    BY <1>1, VersionRange DEF TypeOK, In
  <2> QED
    BY <1>3, <2>1, MoveAudited
<1> QED
  BY <1>4, <1>5, <1>6, <1>7, <1>8, <1>9

-------------------------------------------------------------------------------
(* Removal control *)

\* What a step of the removal control keeps, when it moves no position.
LEMMA ControlSteps ==
  ASSUME IInv,
         UNCHANGED <<record, copies, registry, grants, audit, begun, receipts, snapshots, served>>,
         control' \in [intents : [Request -> Intent \cup {None}], barrier : Request \cup {None},
                       checkpoint : Checkpoint \cup {None}],
         \A q \in Request : control.intents[q] # None =>
           control'.intents[q] # None /\ control'.intents[q].position = control.intents[q].position,
         \A q \in Request : control.intents[q] = None /\ control'.intents[q] # None =>
           control'.intents[q].position = 0,
         CheckpointInStep', Confirmed'
  PROVE  IInv'
<1> USE DEF IInv
<1>1. TypeOK'
  BY DEF TypeOK
<1>2. PositionsInStep'
  BY DEF PositionsInStep, Early
<1>3. ReceiptAudited'
  BY DEF ReceiptAudited
<1>4. VersionInStep' /\ ReceiptsInStep' /\ Separated(registry)' /\ Witnesses'
  BY DEF VersionInStep, ReceiptsInStep, Early, Separated, RolesOf, Witnesses
<1>5. ReceiptsTell' /\ NothingServedUnderRemoval' /\ AuditComplete'
  BY DEF ReceiptsTell, NothingServedUnderRemoval, AuditComplete
<1> QED
  BY <1>1, <1>2, <1>3, <1>4, <1>5

\* persist_removal_intent: an intent without a position.
LEMMA IntentStep ==
  ASSUME IInv, NEW q \in Request, NEW t \in Trigger, PersistIntent(q, t)
  PROVE  IInv'
<1> USE CustodyAssumption, NoneAssumption DEF IInv
<1> DEFINE fresh == [trigger |-> t, acknowledged |-> FALSE, position |-> 0]
<1>1. /\ UNCHANGED <<record, copies, registry, grants, audit, begun, receipts, snapshots, served>>
      /\ control.intents[q] = None
      /\ control' = [control EXCEPT !.intents[q] = fresh]
  BY DEF PersistIntent
<1>2. fresh \in Intent /\ fresh # None /\ fresh.position = 0
  <2>1. fresh \in Intent
    BY DEF Intent
  <2> QED
    BY <2>1, Zenon
<1> HIDE DEF fresh
<1>3. /\ control'.intents = [control.intents EXCEPT ![q] = fresh]
      /\ control'.checkpoint = control.checkpoint
      /\ control' \in [intents : [Request -> Intent \cup {None}], barrier : Request \cup {None},
                       checkpoint : Checkpoint \cup {None}]
  BY <1>1, <1>2 DEF TypeOK
<1>4. \A p \in Request :
        control'.intents[p] = IF p = q THEN fresh ELSE control.intents[p]
  BY <1>3 DEF TypeOK
<1>5. CheckpointInStep' /\ Confirmed'
  <2>1. control.checkpoint # None => control.checkpoint.request \in Request
    BY DEF TypeOK, Checkpoint
  <2> QED
    BY <1>1, <1>3, <1>4, <2>1 DEF CheckpointInStep, Confirmed
<1> QED
  BY <1>1, <1>2, <1>3, <1>4, <1>5, ControlSteps

\* publish_removal_barrier: the position of the intent stays.
LEMMA BarrierStep ==
  ASSUME IInv, NEW q \in Request, NEW b \in BOOLEAN, PublishBarrier(q, b)
  PROVE  IInv'
<1> USE CustodyAssumption, NoneAssumption DEF IInv
<1> DEFINE acked == [control.intents[q] EXCEPT
                       !.acknowledged = control.intents[q].acknowledged \/ b]
<1>1. /\ UNCHANGED <<record, copies, registry, grants, audit, begun, receipts, snapshots, served>>
      /\ control.intents[q] # None /\ control.intents[q] \in Intent
      /\ control' = [control EXCEPT !.barrier = q, !.intents[q].acknowledged =
                        control.intents[q].acknowledged \/ b]
  BY DEF PublishBarrier, TypeOK
<1>2. acked \in Intent /\ acked # None /\ acked.position = control.intents[q].position
  <2>1. control.intents[q].acknowledged \/ b \in BOOLEAN
    OBVIOUS
  <2> QED
    BY <1>1, <2>1 DEF Intent
<1>3. /\ control'.intents = [control.intents EXCEPT ![q] = acked]
      /\ control'.checkpoint = control.checkpoint
  BY <1>1 DEF TypeOK
<1>4. control' = [control EXCEPT !.barrier = q, !.intents = [control.intents EXCEPT ![q] = acked]]
  BY <1>1 DEF TypeOK
<1> HIDE DEF acked
<1>5. control' \in [intents : [Request -> Intent \cup {None}], barrier : Request \cup {None},
                     checkpoint : Checkpoint \cup {None}]
  BY <1>4, <1>2 DEF TypeOK
<1>6. \A p \in Request :
        control'.intents[p] = IF p = q THEN acked ELSE control.intents[p]
  BY <1>3 DEF TypeOK
<1>7. CheckpointInStep' /\ Confirmed'
  <2>1. control.checkpoint # None => control.checkpoint.request \in Request
    BY DEF TypeOK, Checkpoint
  <2> QED
    BY <1>1, <1>2, <1>3, <1>6, <2>1 DEF CheckpointInStep, Confirmed
<1> QED
  BY <1>1, <1>2, <1>5, <1>6, <1>7, ControlSteps

\* advance_removal_checkpoint: the checkpoint takes the position of the intent.
LEMMA CheckpointStep ==
  ASSUME IInv, NEW q \in Request, AdvanceCheckpoint(q)
  PROVE  IInv'
<1> USE CustodyAssumption, NoneAssumption DEF IInv
<1> DEFINE point == [request |-> q, position |-> control.intents[q].position]
<1>1. /\ UNCHANGED <<record, copies, registry, grants, audit, begun, receipts, snapshots, served>>
      /\ control.intents[q] # None /\ control.intents[q] \in Intent
      /\ control.intents[q].position # 0
      /\ control' = [control EXCEPT !.checkpoint = point]
  BY DEF AdvanceCheckpoint, Acknowledged, TypeOK
<1>2. point \in Checkpoint /\ point # None
  BY <1>1 DEF Checkpoint, Intent
<1>3. point.request = q /\ point.position = control.intents[q].position
  OBVIOUS
<1> HIDE DEF point
<1>4. /\ control'.intents = control.intents /\ control'.checkpoint = point
      /\ control' \in [intents : [Request -> Intent \cup {None}], barrier : Request \cup {None},
                       checkpoint : Checkpoint \cup {None}]
  BY <1>1, <1>2 DEF TypeOK
<1>5. CheckpointInStep' /\ Confirmed'
  BY <1>1, <1>2, <1>3, <1>4 DEF CheckpointInStep, Confirmed
<1> QED
  BY <1>1, <1>4, <1>5, ControlSteps

-------------------------------------------------------------------------------
(* The end of the deletion *)

\* The event that began a deletion with a receipt is in the audit chain.
LEMMA ReceiptedEvent ==
  ASSUME IInv, record.state = "deletion_pending", receipts.pending # None
  PROVE  \E k \in DOMAIN audit : audit[k].version = record.version
<1> DEFINE q == receipts.pending.request
<1>1. /\ q \in Request /\ control.intents[q] # None /\ control.intents[q].position # 0
      /\ audit[control.intents[q].position].version = receipts.pending.version
  BY DEF IInv, ReceiptAudited
<1>2. control.intents[q].position \in DOMAIN audit
  BY <1>1 DEF IInv, PositionsInStep
<1>3. receipts.pending.version = record.version
  BY DEF IInv, ReceiptsInStep
<1> QED
  BY <1>1, <1>2, <1>3

\* confirm_revoked: the receipt, its event and the checkpoint are there already.
LEMMA ConfirmStep ==
  ASSUME IInv, ConfirmRevoked
  PROVE  IInv'
<1> USE CustodyAssumption, NoneAssumption DEF IInv
<1> DEFINE event == [operation |-> "revoke", version |-> record.version + 1]
<1>1. /\ UNCHANGED <<copies, registry, grants, control, begun, receipts, snapshots, served>>
      /\ In("deletion_pending") /\ receipts.pending # None
      /\ record' = Moved("revoked") /\ audit' = Append(audit, event)
  BY DEF ConfirmRevoked, Append1
<1>2. record.version + 1 \in {3, 4}
  BY <1>1, VersionRange DEF In, VersionInStep
<1>3. /\ record' \in [state : {"revoked"}, version : {3, 4}, fenced : BOOLEAN,
                      tombstone : BOOLEAN, backupTombstone : BOOLEAN]
      /\ record'.version = record.version + 1
      /\ record'.fenced = record.fenced /\ record'.backupTombstone = record.backupTombstone
  BY <1>1, <1>2 DEF Moved, TypeOK
<1>4. event \in Event /\ event.version = record.version + 1
  BY <1>2 DEF Event
<1>5. control.checkpoint # None
  <2>1. PICK q \in Request :
          /\ control.intents[q] # None
          /\ control.checkpoint = [request |-> q, position |-> control.intents[q].position]
    BY <1>1 DEF ConfirmRevoked, Acknowledged, ReceiptAudited
  <2>2. control.intents[q].position \in Nat
    BY <2>1 DEF TypeOK, Intent
  <2>3. control.checkpoint \in Checkpoint
    BY <2>1, <2>2 DEF Checkpoint
  <2> QED
    BY <2>3, Zenon
<1>6. \E k \in DOMAIN audit : audit[k].version = record.version
  BY <1>1, ReceiptedEvent DEF In
<1> HIDE DEF event
<1>7. PositionsInStep' /\ ReceiptAudited' /\ CheckpointInStep' /\ audit' \in Seq(Event)
  BY <1>1, <1>3, <1>4, AuditSteps DEF Early
<1>8. TypeOK'
  BY <1>1, <1>3, <1>7 DEF TypeOK
<1>9. VersionInStep' /\ ReceiptsInStep' /\ Confirmed'
  BY <1>1, <1>3, <1>5 DEF VersionInStep, ReceiptsInStep, Confirmed, Early, In
<1>10. Separated(registry)' /\ Witnesses' /\ NothingServedUnderRemoval' /\ ReceiptsTell'
  BY <1>1, <1>3 DEF Separated, RolesOf, Witnesses, NothingServedUnderRemoval, ReceiptsTell
<1>11. AuditComplete'
  <2>1. \E k \in DOMAIN audit' : audit'[k].version = record.version
    BY <1>1, <1>4, <1>6, Appended DEF TypeOK
  <2>2. record.version \in Nat
    BY VersionRange
  <2> QED
    BY <1>1, <1>3, <1>4, <2>1, <2>2, MoveAudited
<1> QED
  BY <1>7, <1>8, <1>9, <1>10, <1>11

\* An executor and a verifier that begin_revocation or finalize_deletion accepts.
LEMMA PairTyped ==
  ASSUME IInv, NEW pair \in IndependentPairs
  PROVE  /\ pair.executor \in registry /\ "deletion_executor" \in pair.executor.roles
         /\ pair.verifier \in registry /\ "deletion_receipt_verifier" \in pair.verifier.roles
  BY DEF IndependentPairs, Pairs, Holders

\* A receipt for the next version is well formed.
LEMMA ReceiptTyped ==
  ASSUME IInv, ~In("tombstoned"), NEW pair \in IndependentPairs,
         NEW q \in Request \cup {None}, NEW complete \in BOOLEAN
  PROVE  /\ Receipt(q, pair, complete) \in Evidence
         /\ Receipt(q, pair, complete) # None
         /\ Receipt(q, pair, complete).request = q
         /\ Receipt(q, pair, complete).version = record.version + 1
         /\ Receipt(q, pair, complete).executor = pair.executor
         /\ Receipt(q, pair, complete).verifier = pair.verifier
<1>1. pair.executor \in Applicants /\ pair.verifier \in Applicants
  BY PairTyped DEF IInv, TypeOK
<1>2. record.version + 1 \in 1..5
  BY VersionRange DEF IInv
<1>3. Receipt(q, pair, complete) \in Evidence
  BY <1>1, <1>2 DEF Receipt, Evidence
<1>4. Receipt(q, pair, complete) # None
  BY <1>3, NoneAssumption, Zenon
<1> QED
  BY <1>3, <1>4 DEF Receipt

\* finalize_deletion: the last copy goes, and the final receipt is issued.
LEMMA FinalizeStep ==
  ASSUME IInv, FinalizeDeletion
  PROVE  IInv'
<1> USE CustodyAssumption, NoneAssumption DEF IInv
<1> DEFINE event == [operation |-> "finalize_deletion", version |-> record.version + 1]
<1>1. PICK pair \in IndependentPairs :
        receipts' = [receipts EXCEPT !.final = Receipt(None, pair, TRUE)]
  BY DEF FinalizeDeletion
<1> DEFINE final == Receipt(None, pair, TRUE)
<1>2. /\ UNCHANGED <<registry, grants, control, begun, snapshots, served>>
      /\ In("revoked") /\ record' = Moved("tombstoned") /\ audit' = Append(audit, event)
      /\ copies' = copies \ {"backup"}
  BY DEF FinalizeDeletion, Append1
<1>3. /\ final \in Evidence /\ final # None
      /\ final.executor = pair.executor /\ final.verifier = pair.verifier
  BY <1>2, ReceiptTyped DEF In
<1>4. receipts'.pending = receipts.pending /\ receipts'.final = final
      /\ receipts' \in [pending : Evidence \cup {None}, final : Evidence \cup {None}]
  BY <1>1, <1>3 DEF TypeOK
<1> HIDE DEF final
<1>5. record.version + 1 \in {4, 5}
  BY <1>2, VersionRange DEF In, VersionInStep
<1>6. /\ record' \in [state : {"tombstoned"}, version : {4, 5}, fenced : BOOLEAN,
                      tombstone : BOOLEAN, backupTombstone : BOOLEAN]
      /\ record'.version = record.version + 1
      /\ record'.fenced = record.fenced /\ record'.backupTombstone = record.backupTombstone
  BY <1>2, <1>5 DEF Moved, TypeOK
<1>7. event \in Event /\ event.version = record.version + 1
  BY <1>5 DEF Event
<1> HIDE DEF event
<1>8. /\ \A k \in DOMAIN audit : k \in DOMAIN audit' /\ audit'[k] = audit[k]
      /\ audit' \in Seq(Event)
  BY <1>2, <1>7, Appended DEF TypeOK
<1>9. TypeOK'
  BY <1>2, <1>4, <1>6, <1>8 DEF TypeOK
<1>10. PositionsInStep' /\ CheckpointInStep'
  BY <1>2, <1>4, <1>6, <1>8 DEF PositionsInStep, CheckpointInStep, Early, In
<1>11. ReceiptAudited'
  BY <1>2, <1>4, <1>8 DEF ReceiptAudited, PositionsInStep
<1>12. VersionInStep' /\ ReceiptsInStep' /\ Confirmed'
  BY <1>2, <1>4, <1>6 DEF VersionInStep, ReceiptsInStep, Confirmed, Early, In
<1>13. ReceiptsTell'
  BY <1>2, <1>4, <1>6 DEF ReceiptsTell, ReceiptsInStep, In
<1>14. Witnesses'
  BY <1>2, <1>3, <1>4, PairTyped DEF Witnesses
<1>15. Separated(registry)' /\ NothingServedUnderRemoval'
  BY <1>2 DEF Separated, RolesOf, NothingServedUnderRemoval
<1>16. AuditComplete'
  <2>1. record.version \in Nat /\ record.state # "deletion_pending"
    BY <1>2, VersionRange DEF In
  <2> QED
    BY <1>2, <1>6, <1>7, <2>1, MoveAudited
<1> QED
  BY <1>9, <1>10, <1>11, <1>12, <1>13, <1>14, <1>15, <1>16

-------------------------------------------------------------------------------
(* The beginning of the deletion *)

\* Before a deletion no intent has a position, and there is no checkpoint.
LEMMA BeforeDeletion ==
  ASSUME IInv, Early
  PROVE  /\ receipts.pending = None /\ receipts.final = None
         /\ \A q \in Request : control.intents[q] # None => control.intents[q].position = 0
         /\ control.checkpoint = None
<1>1. receipts.pending = None /\ receipts.final = None
  BY DEF IInv, ReceiptsInStep, Early
<1>2. \A q \in Request : control.intents[q] # None => control.intents[q].position = 0
  BY DEF IInv, PositionsInStep
<1>3. control.checkpoint # None => control.checkpoint.request \in Request
  BY DEF IInv, TypeOK, Checkpoint
<1> QED
  BY <1>1, <1>2, <1>3 DEF IInv, CheckpointInStep

\* The removal control with the intent of the request and its barrier.
LEMMA PreparedControl ==
  ASSUME IInv, Early, NEW q \in Request, NEW t \in Trigger
  PROVE  /\ Prepared(q, t) \in [intents : [Request -> Intent \cup {None}],
                                barrier : Request \cup {None},
                                checkpoint : Checkpoint \cup {None}]
         /\ Prepared(q, t).intents[q] # None
         /\ \A p \in Request : Prepared(q, t).intents[p] # None =>
              Prepared(q, t).intents[p].position = 0
         /\ Prepared(q, t).checkpoint = None
<1> DEFINE fresh == [trigger |-> t, acknowledged |-> TRUE, position |-> 0]
<1>1. CASE control.intents[q] # None
  BY <1>1, BeforeDeletion DEF Prepared, IInv, TypeOK
<1>2. CASE control.intents[q] = None
  <2>1. fresh \in Intent
    BY DEF Intent
  <2>2. fresh # None
    BY <2>1, NoneAssumption, Zenon
  <2>3. fresh.position = 0
    OBVIOUS
  <2>4. Prepared(q, t) = [control EXCEPT !.intents = [control.intents EXCEPT ![q] = fresh],
                                         !.barrier = q]
    BY <1>2 DEF Prepared, IInv, TypeOK
  <2> HIDE DEF fresh
  <2>5. /\ control.intents \in [Request -> Intent \cup {None}]
        /\ \A p \in Request : control.intents[p] # None => control.intents[p].position = 0
        /\ control.checkpoint = None
    BY BeforeDeletion DEF IInv, TypeOK
  <2>6. Prepared(q, t) \in [intents : [Request -> Intent \cup {None}],
                           barrier : Request \cup {None}, checkpoint : Checkpoint \cup {None}]
    <3> DEFINE intents == [control.intents EXCEPT ![q] = fresh]
    <3>1. intents \in [Request -> Intent \cup {None}]
      BY <2>1, <2>5
    <3>2. control.checkpoint \in Checkpoint \cup {None}
      BY DEF IInv, TypeOK
    <3>3. Prepared(q, t) = [intents |-> intents, barrier |-> q, checkpoint |-> control.checkpoint]
      BY <2>4 DEF IInv, TypeOK
    <3> HIDE DEF intents
    <3> QED
      BY <3>1, <3>2, <3>3
  <2>7. /\ Prepared(q, t).intents = [control.intents EXCEPT ![q] = fresh]
        /\ Prepared(q, t).checkpoint = control.checkpoint
    BY <2>4 DEF IInv, TypeOK
  <2> QED
    BY <2>2, <2>3, <2>5, <2>6, <2>7
<1> QED
  BY <1>1, <1>2

\* The removal control when the intent points at the event that began the deletion.
LEMMA AnchoredControl ==
  ASSUME IInv, Early, NEW q \in Request, NEW t \in Trigger
  PROVE  /\ Anchored(q, t) \in [intents : [Request -> Intent \cup {None}],
                                barrier : Request \cup {None},
                                checkpoint : Checkpoint \cup {None}]
         /\ Anchored(q, t).intents[q] # None
         /\ Anchored(q, t).intents[q].position = Len(audit) + 1
         /\ \A p \in Request \ {q} : Anchored(q, t).intents[p] # None =>
              Anchored(q, t).intents[p].position = 0
         /\ Anchored(q, t).checkpoint = None
<1> DEFINE P == Prepared(q, t)
           old == P.intents[q]
           new == [old EXCEPT !.position = Len(audit) + 1]
<1>1. /\ P \in [intents : [Request -> Intent \cup {None}], barrier : Request \cup {None},
                checkpoint : Checkpoint \cup {None}]
      /\ old # None /\ P.checkpoint = None
      /\ \A p \in Request : P.intents[p] # None => P.intents[p].position = 0
  BY PreparedControl
<1>2. old \in Intent
  BY <1>1
<1>3. Len(audit) + 1 \in Nat
  BY DEF IInv, TypeOK
<1>4. new \in Intent /\ new.position = Len(audit) + 1
  BY <1>2, <1>3 DEF Intent
<1>5. new # None
  BY <1>4, NoneAssumption, Zenon
<1>6. Anchored(q, t) = [P EXCEPT !.intents = [P.intents EXCEPT ![q] = new]]
  BY <1>1, <1>2 DEF Anchored, BeginPosition
<1> HIDE DEF new, P, old
<1> QED
  BY <1>1, <1>4, <1>5, <1>6

\* begin_revocation, however far it gets.
LEMMA BeginStep ==
  ASSUME IInv, NEW q \in Request, NEW t \in Trigger, BeginRevocation(q, t)
  PROVE  IInv'
<1> USE CustodyAssumption, NoneAssumption DEF IInv
<1> DEFINE event == [operation |-> "begin_deletion", version |-> record.version + 1]
           point == [request |-> q, position |-> BeginPosition]
           ControlType == [intents : [Request -> Intent \cup {None}],
                           barrier : Request \cup {None}, checkpoint : Checkpoint \cup {None}]
<1>1. /\ UNCHANGED <<registry, snapshots, served>> /\ grants' = 0
      /\ begun' = [begun EXCEPT ![q] = t]
      /\ Early /\ ~In("tombstoned") /\ (In("available") \/ In("quarantined"))
  BY DEF BeginRevocation, Early, In
<1>2. PICK pair \in IndependentPairs, o \in Outcome :
        LET removed == o.durable /\ o.workFenced
        IN /\ audit' = IF o.durable THEN Append1("begin_deletion", record.version + 1) ELSE audit
           /\ control' = IF ~o.durable THEN Prepared(q, t)
                         ELSE IF removed /\ o.checkpoint
                         THEN [Anchored(q, t) EXCEPT !.checkpoint =
                                 [request |-> q, position |-> BeginPosition]]
                         ELSE Anchored(q, t)
           /\ record' = [Moved("deletion_pending") EXCEPT !.fenced = TRUE, !.tombstone = TRUE,
                          !.backupTombstone = removed /\ o.tombstone]
           /\ copies' = IF removed THEN Kept(o) ELSE copies
           /\ receipts' = IF removed /\ Evidenced(o)
                          THEN [receipts EXCEPT !.pending = Receipt(q, pair, FALSE)]
                          ELSE receipts
  BY DEF BeginRevocation
<1> DEFINE receipt == Receipt(q, pair, FALSE)
<1>3. /\ receipts.pending = None /\ receipts.final = None /\ control.checkpoint = None
  BY <1>1, BeforeDeletion
<1>4. record.version + 1 \in {2, 3} /\ record.version \in Nat
  BY <1>1, VersionRange DEF In, VersionInStep
<1>5. /\ record' \in [state : {"deletion_pending"}, version : {2, 3}, fenced : {TRUE},
                      tombstone : BOOLEAN, backupTombstone : BOOLEAN]
      /\ record'.version = record.version + 1
      /\ record'.backupTombstone = (o.durable /\ o.workFenced /\ o.tombstone)
  <2>1. record' = [state |-> "deletion_pending", version |-> record.version + 1, fenced |-> TRUE,
                   tombstone |-> TRUE,
                   backupTombstone |-> (o.durable /\ o.workFenced) /\ o.tombstone]
    BY <1>2 DEF Moved, TypeOK
  <2>2. ((o.durable /\ o.workFenced) /\ o.tombstone) \in BOOLEAN
    OBVIOUS
  <2> QED
    BY <1>4, <2>1, <2>2
<1>6. event \in Event /\ event.version = record.version + 1 /\ event.operation = "begin_deletion"
  BY <1>4 DEF Event
<1>7. /\ receipt \in Evidence /\ receipt # None /\ receipt.request = q
      /\ receipt.version = record.version + 1
      /\ receipt.executor = pair.executor /\ receipt.verifier = pair.verifier
  <2>1. IInv /\ ~In("tombstoned") /\ q \in Request \cup {None} /\ FALSE \in BOOLEAN
    BY <1>1
  <2> HIDE DEF IInv
  <2> QED
    BY <2>1, ReceiptTyped
<1>8. /\ receipts' \in [pending : Evidence \cup {None}, final : Evidence \cup {None}]
      /\ receipts'.final = None
      /\ \/ receipts'.pending = None
         \/ /\ receipts'.pending = receipt
            /\ o.durable /\ o.workFenced /\ Evidenced(o)
  <2> HIDE DEF receipt
  <2>1. receipts' = receipts \/ (receipts' = [receipts EXCEPT !.pending = receipt]
                                  /\ o.durable /\ o.workFenced /\ Evidenced(o))
    BY <1>2 DEF receipt
  <2> QED
    BY <1>3, <1>7, <2>1 DEF TypeOK
<1>9. audit' = IF o.durable THEN Append(audit, event) ELSE audit
  BY <1>2 DEF Append1
<1>10. BeginPosition = Len(audit) + 1 /\ BeginPosition \in Nat \ {0}
  BY DEF BeginPosition, TypeOK
<1>11. point \in Checkpoint /\ point.request = q /\ point.position = BeginPosition
  BY <1>10 DEF Checkpoint
<1>12. point # None
  BY <1>11, Zenon
<1> HIDE DEF event, point, receipt
<1>13. /\ \A k \in DOMAIN audit : k \in DOMAIN audit' /\ audit'[k] = audit[k]
       /\ audit' \in Seq(Event)
       /\ o.durable => BeginPosition \in DOMAIN audit' /\ audit'[BeginPosition] = event
  BY <1>6, <1>9, <1>10, Appended DEF TypeOK
<1>14. /\ control' \in ControlType
       /\ control'.intents = IF o.durable THEN Anchored(q, t).intents ELSE Prepared(q, t).intents
       /\ control'.checkpoint = None \/ (o.durable /\ control'.checkpoint = point)
  <2>1. CASE ~o.durable
    BY <1>1, <1>2, <2>1, PreparedControl
  <2>2. CASE o.durable
    <3>1. control' = Anchored(q, t) \/ control' = [Anchored(q, t) EXCEPT !.checkpoint = point]
      BY <1>2, <2>2 DEF point
    <3>2. Anchored(q, t) \in ControlType /\ Anchored(q, t).checkpoint = None
      BY <1>1, AnchoredControl
    <3> QED
      BY <2>2, <3>1, <3>2, <1>11
  <2> QED
    BY <2>1, <2>2
<1>15. /\ o.durable => /\ control'.intents[q] # None
                       /\ control'.intents[q].position = BeginPosition
       /\ \A p \in Request : control'.intents[p] # None /\ control'.intents[p].position # 0 =>
            p = q /\ o.durable
  BY <1>1, <1>10, <1>14, PreparedControl, AnchoredControl
<1>16. copies' \subseteq Copy /\ (o.durable /\ o.workFenced => copies' = Kept(o))
  BY <1>2 DEF Kept, TypeOK
<1> HIDE DEF ControlType
<1>17. TypeOK'
  <2>1. begun' \in [Request -> Trigger \cup {None}]
    BY <1>1 DEF TypeOK
  <2>2. record' \in [state : {"absent", "quarantined", "available", "deletion_pending", "revoked",
                             "tombstoned"},
                    version : 0..5, fenced : BOOLEAN, tombstone : BOOLEAN,
                    backupTombstone : BOOLEAN]
    <3>1. record'.state = "deletion_pending" /\ record'.version \in 0..5
      BY <1>5
    <3> QED
      BY <1>5, <3>1
  <2> QED
    BY <1>1, <1>8, <1>13, <1>14, <1>16, <2>1, <2>2 DEF TypeOK, ControlType
<1>18. VersionInStep' /\ Confirmed'
  BY <1>5 DEF VersionInStep, Confirmed
<1>19. ReceiptsInStep'
  BY <1>5, <1>7, <1>8 DEF ReceiptsInStep, Early
<1>20. PositionsInStep'
  BY <1>5, <1>7, <1>8, <1>13, <1>15 DEF PositionsInStep, Early
<1>21. ReceiptAudited'
  <2>1. event = [operation |-> "begin_deletion", version |-> record.version + 1]
    BY DEF event
  <2> QED
    BY <1>7, <1>8, <1>10, <1>13, <1>15, <2>1 DEF ReceiptAudited
<1>22. CheckpointInStep'
  BY <1>10, <1>11, <1>14, <1>15 DEF CheckpointInStep
<1>23. ReceiptsTell'
  BY <1>1, <1>5, <1>8, <1>16 DEF ReceiptsTell, Evidenced, Kept, Copy
<1>24. Witnesses'
  BY <1>1, <1>7, <1>8, PairTyped DEF Witnesses
<1>25. Separated(registry)' /\ NothingServedUnderRemoval'
  BY <1>1 DEF Separated, RolesOf, NothingServedUnderRemoval
<1>26. AuditComplete'
  <2>1. \A v \in 1..record'.version : v \in 1..record.version \/ v = record'.version
    BY <1>4, <1>5
  <2>2. \A v \in 1..record.version : \E k \in DOMAIN audit' : audit'[k].version = v
    BY <1>1, <1>13 DEF AuditComplete, In
  <2>3. record'.state = "deletion_pending"
    BY <1>5
  <2> QED
    BY <2>1, <2>2, <2>3 DEF AuditComplete
<1> QED
  BY <1>17, <1>18, <1>19, <1>20, <1>21, <1>22, <1>23, <1>24, <1>25, <1>26

-------------------------------------------------------------------------------
(* Every step, and what follows *)

\* No step, and no stutter, leaves the invariant.
LEMMA Invariance == IInv /\ [Next]_vars => IInv'
<1> SUFFICES ASSUME IInv, [Next]_vars PROVE IInv'
  OBVIOUS
<1>1. CASE UNCHANGED vars
  BY <1>1 DEF vars, IInv, TypeOK, VersionInStep, ReceiptsInStep, PositionsInStep, ReceiptAudited,
       CheckpointInStep, Confirmed, Early, Separated, RolesOf, Witnesses, ReceiptsTell,
       NothingServedUnderRemoval, AuditComplete
<1>2. CASE Next
  BY <1>2, ReadSteps, RegisterStep, IntakeSteps, AccessSteps, IntentStep, BarrierStep,
     CheckpointStep, ConfirmStep, FinalizeStep, BeginStep DEF Next
<1> QED
  BY <1>1, <1>2

\* The invariant holds of every behaviour of InMemoryCustodyReference.
LEMMA Strengthened == Spec => []IInv
  BY Initially, Invariance, PTL DEF Spec

\* A person on two receipts would hold two roles that ROLE_CONFLICTS keeps apart.
LEMMA Independence == IInv => IndependentEvidence
<1> SUFFICES ASSUME IInv,
                    NEW e \in {receipts.pending, receipts.final} \ {None},
                    NEW f \in {receipts.pending, receipts.final} \ {None},
                    e.executor.person = f.verifier.person
             PROVE  FALSE
  BY DEF IndependentEvidence
<1>1. /\ e.executor \in registry /\ "deletion_executor" \in e.executor.roles
      /\ f.verifier \in registry /\ "deletion_receipt_verifier" \in f.verifier.roles
  BY DEF IInv, Witnesses
<1>2. {"deletion_executor", "deletion_receipt_verifier"}
        \subseteq RolesOf(e.executor.person, registry)
  BY <1>1 DEF RolesOf
<1>3. {"deletion_executor", "deletion_receipt_verifier"} \in RoleConflicts
  BY DEF RoleConflicts
<1> QED
  BY <1>1, <1>2, <1>3 DEF IInv, Separated

\* The checkpoint of a confirmed revocation is that of the receipt's own deletion.
LEMMA Anchoring == IInv => RevocationAnchored
<1> SUFFICES ASSUME IInv, record.state \in {"revoked", "tombstoned"}
             PROVE  /\ control.checkpoint # None
                    /\ control.checkpoint.request = receipts.pending.request
                    /\ control.checkpoint.position \in DOMAIN audit
                    /\ audit[control.checkpoint.position] =
                         [operation |-> "begin_deletion", version |-> receipts.pending.version]
  BY DEF RevocationAnchored
<1> DEFINE q == control.checkpoint.request
<1>1. control.checkpoint # None /\ receipts.pending # None
  BY DEF IInv, Confirmed, ReceiptsInStep
<1>2. q \in Request
  BY <1>1 DEF IInv, TypeOK, Checkpoint
<1>3. /\ control.intents[q] # None /\ control.intents[q].position # 0
      /\ control.checkpoint.position = control.intents[q].position
  BY <1>1 DEF IInv, CheckpointInStep
<1>4. control.intents[q].position \in DOMAIN audit /\ receipts.pending.request = q
  BY <1>1, <1>2, <1>3 DEF IInv, PositionsInStep
<1> QED
  BY <1>1, <1>3, <1>4 DEF IInv, ReceiptAudited

\* Every variable of the custody keeps its type, for any requests, triggers and
\* identities.
THEOREM TypeCorrect == Spec => []TypeOK
  BY Strengthened, PTL DEF IInv

\* No route gives bytes out once a removal intent is persisted.
THEOREM NoService == Spec => []NothingServedUnderRemoval
  BY Strengthened, PTL DEF IInv

\* The receipts of begin_revocation and finalize_deletion stay true of the copies.
THEOREM ReceiptsTrue == Spec => []ReceiptsTell
  BY Strengthened, PTL DEF IInv

\* confirm_revoked succeeds only at the checkpoint of the deletion it confirms.
THEOREM RevocationsAnchored == Spec => []RevocationAnchored
  BY Strengthened, Anchoring, PTL

\* The audit chain has an event for every version the record went through.
THEOREM Audited == Spec => []AuditComplete
  BY Strengthened, PTL DEF IInv

\* Whoever executed a part of the deletion verified none of it.
THEOREM Independent == Spec => []IndependentEvidence
  BY Strengthened, Independence, PTL

-------------------------------------------------------------------------------
(* The removal *)

\* The abstract state.
Requested == {q \in Request : control.intents[q] # None}
ReceiptOf == IF receipts.pending = None THEN None ELSE receipts.pending.request

\* No bytes are kept of what was not taken in yet.
Empty == record.state = "absent" => copies = {}

\* A step of the removal or none.
RemovalStep == Removal!Next \/ UNCHANGED Removal!removalVars

LEMMA Stages ==
  /\ StageOf("absent") = "absent"
  /\ StageOf("quarantined") = "held" /\ StageOf("available") = "held"
  /\ StageOf("deletion_pending") = "withdrawn"
  /\ StageOf("revoked") = "confirmed" /\ StageOf("tombstoned") = "erased"
BY DEF StageOf

\* Whatever leaves the record, the copies, the receipts and the requests alone is no step.
LEMMA NothingRemoved ==
  ASSUME UNCHANGED <<record, copies, receipts, served>>, Requested' = Requested
  PROVE  RemovalStep
<1>1. ReceiptOf' = ReceiptOf BY DEF ReceiptOf
<1> QED BY <1>1 DEF RemovalStep, Removal!removalVars, Requested, ReceiptOf

LEMMA QuietRemoval ==
  ASSUME IInv,
         \/ GrantRead \/ CreateSnapshot \/ Restart
         \/ \E i \in Applicants : RegisterIdentity(i)
         \/ \E q \in Request : AdvanceCheckpoint(q)
         \/ \E q \in Request, b \in BOOLEAN : PublishBarrier(q, b)
  PROVE  RemovalStep
<1>1. UNCHANGED <<record, copies, receipts, served>>
  BY DEF GrantRead, CreateSnapshot, Restart, RegisterIdentity, AdvanceCheckpoint, PublishBarrier
<1>2. CASE UNCHANGED control
  <2>1. Requested' = Requested BY <1>2 DEF Requested
  <2> QED BY <1>1, <2>1, NothingRemoved
<1>3. CASE \E q \in Request : AdvanceCheckpoint(q)
  <2>1. control'.intents = control.intents BY <1>3 DEF AdvanceCheckpoint, IInv, TypeOK
  <2>2. Requested' = Requested BY <2>1 DEF Requested
  <2> QED BY <1>1, <2>2, NothingRemoved
<1>4. CASE \E q \in Request, b \in BOOLEAN : PublishBarrier(q, b)
  <2>1. PICK q \in Request, b \in BOOLEAN : PublishBarrier(q, b) BY <1>4
  <2> DEFINE intent == [control.intents[q] EXCEPT
                          !.acknowledged = control.intents[q].acknowledged \/ b]
  <2>2. control.intents[q] \in Intent BY <2>1 DEF PublishBarrier, IInv, TypeOK
  <2>3. intent \in Intent BY <2>2 DEF Intent
  <2>4. control'.intents = [control.intents EXCEPT ![q] = intent]
    BY <2>1 DEF PublishBarrier, IInv, TypeOK
  <2> HIDE DEF intent
  <2>5. \A r \in Request : control'.intents[r] # None <=> control.intents[r] # None
    BY <2>2, <2>3, <2>4, NoneAssumption DEF IInv, TypeOK
  <2>6. Requested' = Requested BY <2>5 DEF Requested
  <2> QED BY <1>1, <2>6, NothingRemoved
<1> QED BY <1>2, <1>3, <1>4
    DEF GrantRead, CreateSnapshot, Restart, RegisterIdentity

\* Bytes are given out while the artifact is held and no removal is asked for.
LEMMA GivenOut ==
  ASSUME IInv, Read \/ EmergencyRead \/ \E s \in snapshots : Restore(s)
  PROVE  RemovalStep
<1>1. In("available") /\ ~Blocked /\ UNCHANGED <<record, copies, control, receipts>>
  BY DEF Read, EmergencyRead, Restore
<1>2. Requested = {} /\ ~RemovalKnown BY <1>1 DEF Blocked, Requested, RemovalKnown
<1>3. PICK how \in {"read", "restore", "emergency"} :
        served' = served \cup {[how |-> how, removing |-> FALSE]}
  <2>1. RemovalKnown = FALSE BY <1>2 DEF RemovalKnown
  <2>2. PICK how \in {"read", "restore", "emergency"} : Serve(how)
    BY DEF Read, EmergencyRead, Restore
  <2>3. served' = served \cup {[how |-> how, removing |-> RemovalKnown]} BY <2>2 DEF Serve
  <2> QED BY <2>1, <2>3
<1>4. Requested' = Requested /\ ReceiptOf' = ReceiptOf BY <1>1 DEF Requested, ReceiptOf
<1>5. StageOf(record.state) = "held" /\ StageOf(record'.state) = "held"
  BY <1>1, Stages DEF In
<1>6. Removal!Give(how)
  BY <1>1, <1>2, <1>3, <1>4, <1>5 DEF Removal!Give, Requested, ReceiptOf
<1> QED BY <1>6 DEF RemovalStep, Removal!Next

\* The artifact is taken in, and copied when it is promoted.
LEMMA TakenIn ==
  ASSUME IInv, Empty, Ingest \/ Promote
  PROVE  RemovalStep
<1>1. /\ StageOf(record.state) \in {"absent", "held"} /\ StageOf(record'.state) = "held"
      /\ copies \subseteq copies' /\ copies' \subseteq Copy /\ copies' # {}
      /\ UNCHANGED <<control, receipts, served>>
  <2>1. CASE Ingest
    <3>1. copies = {} BY <2>1 DEF Ingest, Empty, In
    <3> QED BY <2>1, <3>1, Stages DEF Ingest, In, Moved, IInv, TypeOK, Copy
  <2>2. CASE Promote BY <2>2, Stages DEF Promote, In, Moved, IInv, TypeOK, Copy
  <2> QED BY <2>1, <2>2
<1>2. Requested' = Requested /\ ReceiptOf' = ReceiptOf BY <1>1 DEF Requested, ReceiptOf
<1>3. Removal!Keep BY <1>1, <1>2 DEF Removal!Keep, Requested, ReceiptOf
<1> QED BY <1>3 DEF RemovalStep, Removal!Next

\* An intent is a request.
LEMMA AskedFor ==
  ASSUME IInv, NEW q \in Request, NEW t \in Trigger, PersistIntent(q, t)
  PROVE  RemovalStep
<1> DEFINE intent == [trigger |-> t, acknowledged |-> FALSE, position |-> 0]
<1>1. intent \in Intent BY DEF Intent
<1>2. control'.intents = [control.intents EXCEPT ![q] = intent]
  BY DEF PersistIntent, IInv, TypeOK
<1> HIDE DEF intent
<1>3. Requested' = Requested \cup {q} BY <1>1, <1>2, NoneAssumption DEF Requested, IInv, TypeOK
<1>4. UNCHANGED <<record, copies, receipts, served>> BY DEF PersistIntent
<1>5. ReceiptOf' = ReceiptOf BY <1>4 DEF ReceiptOf
<1>6. Removal!Ask(q) BY <1>3, <1>4, <1>5 DEF Removal!Ask, Requested, ReceiptOf
<1> QED BY <1>6 DEF RemovalStep, Removal!Next

\* A deletion asks for the removal itself, if nobody did before.
LEMMA PreparedAsks ==
  ASSUME IInv, Early, NEW q \in Request, NEW t \in Trigger
  PROVE  /\ \A r \in Request : Prepared(q, t).intents[r] # None <=> r \in Requested \cup {q}
         /\ \A r \in Request : Anchored(q, t).intents[r] # None <=> r \in Requested \cup {q}
<1> DEFINE fresh == [trigger |-> t, acknowledged |-> TRUE, position |-> 0]
           P == Prepared(q, t)
           anchored == [P.intents[q] EXCEPT !.position = BeginPosition]
<1>1. \A r \in Request : P.intents[r] # None <=> r \in Requested \cup {q}
  <2>1. CASE control.intents[q] # None BY <2>1 DEF Prepared, Requested
  <2>2. CASE control.intents[q] = None
    <3>1. fresh \in Intent BY DEF Intent
    <3>2. P.intents = [control.intents EXCEPT ![q] = fresh]
      BY <2>2 DEF Prepared, IInv, TypeOK
    <3> HIDE DEF fresh, P
    <3>3. fresh # None BY <3>1, NoneAssumption, Zenon
    <3> QED BY <3>2, <3>3 DEF Requested, IInv, TypeOK
  <2> QED BY <2>1, <2>2
<1>2. Anchored(q, t).intents = [P.intents EXCEPT ![q] = anchored]
  BY PreparedControl DEF Anchored
<1>3. anchored # None
  <2>1. P.intents[q] \in Intent /\ Len(audit) + 1 \in Nat
    BY PreparedControl DEF IInv, TypeOK
  <2> HIDE DEF P
  <2>2. anchored \in Intent BY <2>1 DEF Intent, BeginPosition
  <2> HIDE DEF anchored
  <2> QED BY <2>2, NoneAssumption, Zenon
<1>4. P.intents \in [Request -> Intent \cup {None}] BY PreparedControl
<1> HIDE DEF P, anchored
<1>5. \A r \in Request : Anchored(q, t).intents[r] # None <=> r \in Requested \cup {q}
  BY <1>1, <1>2, <1>3, <1>4
<1> QED BY <1>1, <1>5 DEF P

\* A deletion withdraws copies, and gives a receipt only if no other than a backup is left.
LEMMA Withdrawn ==
  ASSUME IInv, NEW q \in Request, NEW t \in Trigger, BeginRevocation(q, t)
  PROVE  RemovalStep
<1>0. Early BY DEF BeginRevocation, In, Early
<1>1. StageOf(record.state) = "held" /\ receipts.pending = None
  BY Stages DEF BeginRevocation, In, IInv, ReceiptsInStep, Early
<1>2. PICK pair \in IndependentPairs, o \in Outcome :
        LET removed == o.durable /\ o.workFenced
        IN /\ control' = IF ~o.durable THEN Prepared(q, t)
                         ELSE IF removed /\ o.checkpoint
                         THEN [Anchored(q, t) EXCEPT !.checkpoint =
                                 [request |-> q, position |-> BeginPosition]]
                         ELSE Anchored(q, t)
           /\ record' = [Moved("deletion_pending") EXCEPT !.fenced = TRUE, !.tombstone = TRUE,
                          !.backupTombstone = removed /\ o.tombstone]
           /\ copies' = IF removed THEN Kept(o) ELSE copies
           /\ receipts' = IF removed /\ Evidenced(o)
                          THEN [receipts EXCEPT !.pending = Receipt(q, pair, FALSE)]
                          ELSE receipts
  BY DEF BeginRevocation
<1>3. StageOf(record'.state) = "withdrawn" BY <1>2, Stages DEF Moved, IInv, TypeOK
<1>4. copies' \subseteq copies BY <1>2 DEF Kept
<1>5. served' = served BY DEF BeginRevocation
<1>6. Requested' = Requested \cup {q}
  <2>1. /\ \A r \in Request : Prepared(q, t).intents[r] # None <=> r \in Requested \cup {q}
        /\ \A r \in Request : Anchored(q, t).intents[r] # None <=> r \in Requested \cup {q}
    BY <1>0, PreparedAsks
  <2>2. control'.intents \in {Prepared(q, t).intents, Anchored(q, t).intents}
    BY <1>0, <1>2, PreparedControl, AnchoredControl
  <2> QED BY <2>1, <2>2 DEF Requested
<1>7. ReceiptOf' = None \/ (ReceiptOf' = q /\ copies' \subseteq {"backup"})
  <2>1. CASE receipts' = receipts BY <1>1, <2>1 DEF ReceiptOf
  <2>2. CASE receipts' # receipts
    <3>1. /\ receipts' = [receipts EXCEPT !.pending = Receipt(q, pair, FALSE)]
          /\ copies' = Kept(o) /\ Evidenced(o)
      BY <1>2, <2>2
    <3>2. copies' \subseteq {"backup"} BY <3>1 DEF Evidenced, Kept, IInv, TypeOK, Copy
    <3>3. receipts'.pending.request = q BY <3>1 DEF Receipt, IInv, TypeOK
    <3> QED BY <3>2, <3>3 DEF ReceiptOf
  <2> QED BY <2>1, <2>2
<1>8. Removal!Withdraw(q)
  BY <1>1, <1>3, <1>4, <1>5, <1>6, <1>7 DEF Removal!Withdraw, Requested, ReceiptOf
<1> QED BY <1>8 DEF RemovalStep, Removal!Next

\* A confirmation rests on a receipt, and what is erased in the end was a backup.
LEMMA ConfirmedAndErased ==
  ASSUME IInv, ConfirmRevoked \/ FinalizeDeletion
  PROVE  RemovalStep
<1>1. CASE ConfirmRevoked
  <2>1. UNCHANGED <<copies, control, receipts, served>> BY <1>1 DEF ConfirmRevoked
  <2>2. Requested' = Requested /\ ReceiptOf' = ReceiptOf BY <2>1 DEF Requested, ReceiptOf
  <2>3. ReceiptOf # None
    BY <1>1, CustodyAssumption DEF ConfirmRevoked, ReceiptOf, IInv, ReceiptAudited
  <2>4. StageOf(record.state) = "withdrawn" /\ StageOf(record'.state) = "confirmed"
    BY <1>1, Stages DEF ConfirmRevoked, In, Moved, IInv, TypeOK
  <2>5. Removal!Confirm BY <2>1, <2>2, <2>3, <2>4 DEF Removal!Confirm, Requested, ReceiptOf
  <2> QED BY <2>5 DEF RemovalStep, Removal!Next
<1>2. CASE FinalizeDeletion
  <2>1. UNCHANGED <<control, served>> /\ receipts'.pending = receipts.pending
    BY <1>2 DEF FinalizeDeletion, IInv, TypeOK
  <2>2. Requested' = Requested /\ ReceiptOf' = ReceiptOf BY <2>1 DEF Requested, ReceiptOf
  <2>3. copies' = {}
    BY <1>2 DEF FinalizeDeletion, In, IInv, ReceiptsInStep, ReceiptsTell
  <2>4. StageOf(record.state) = "confirmed" /\ StageOf(record'.state) = "erased"
    BY <1>2, Stages DEF FinalizeDeletion, In, Moved, IInv, TypeOK
  <2>5. Removal!Erase BY <2>1, <2>2, <2>3, <2>4 DEF Removal!Erase, Requested, ReceiptOf
  <2> QED BY <2>5 DEF RemovalStep, Removal!Next
<1> QED BY <1>1, <1>2

LEMMA RemovalInit == Init => Removal!Init
<1> SUFFICES ASSUME Init PROVE Removal!Init OBVIOUS
<1>1. Requested = {} /\ ReceiptOf = None BY DEF Init, Requested, ReceiptOf
<1> QED BY <1>1, Stages DEF Init, Removal!Init, Requested, ReceiptOf

\* Every step of custody is a step of the removal or none.
LEMMA NextRemoval == IInv /\ Empty /\ [Next]_vars => RemovalStep
<1> SUFFICES ASSUME IInv, Empty, [Next]_vars PROVE RemovalStep OBVIOUS
<1>1. CASE UNCHANGED vars
  <2>1. Requested' = Requested BY <1>1 DEF vars, Requested
  <2> QED BY <1>1, <2>1, NothingRemoved DEF vars
<1> QED BY <1>1, QuietRemoval, GivenOut, TakenIn, AskedFor, Withdrawn, ConfirmedAndErased DEF Next

LEMMA NextEmpty == IInv /\ Empty /\ [Next]_vars => Empty'
<1> SUFFICES ASSUME IInv, Empty, [Next]_vars, record'.state = "absent" PROVE copies' = {}
  BY DEF Empty
<1>1. record' = record /\ copies' = copies
  BY DEF Next, vars, Ingest, Promote, GrantRead, Read, EmergencyRead, CreateSnapshot, Restart,
         ConfirmRevoked, FinalizeDeletion, RegisterIdentity, Restore, PersistIntent,
         BeginRevocation, PublishBarrier, AdvanceCheckpoint, Moved, IInv, TypeOK
<1> QED BY <1>1 DEF Empty

\* For any requests, triggers and identities, custody implements the removal.
THEOREM CustodyRemoves == Spec => RefinesRemoval
<1>1. RemovalStep => [Removal!Next]_(Removal!removalVars) BY DEF RemovalStep
<1>2. Init => Empty BY DEF Init, Empty
<1> QED BY <1>1, <1>2, RemovalInit, NextRemoval, NextEmpty, Strengthened, PTL
        DEF Spec, RefinesRemoval, Removal!Spec
==============================================================================
