-------------------------------- MODULE Gates --------------------------------
(***************************************************************************)
(* The gates of production_storage_deployment.py and production_network.py.*)
(* A gate is handed evidence and goes through its checks in a fixed order; *)
(* the first that fails denies, and only a gate without one allows.  Here  *)
(* a gate is the sequence of its checks and evidence is the set of the     *)
(* checks it does not satisfy, its gaps.  Either decision is recorded      *)
(* before it is given: an audit sink that does not accept the record       *)
(* replaces it by audit_unavailable.                                       *)
(***************************************************************************)
EXTENDS Naturals, Sequences

Fails(gate, gaps, i) == i \in DOMAIN gate /\ gate[i] \in gaps

FirstFailure(gate, gaps) ==
  CHOOSE i \in DOMAIN gate :
    Fails(gate, gaps, i) /\ \A j \in 1..(i - 1) : ~Fails(gate, gaps, j)

Decision(gate, gaps, accepting) ==
  IF ~accepting THEN "audit_unavailable"
  ELSE IF \E i \in DOMAIN gate : Fails(gate, gaps, i) THEN gate[FirstFailure(gate, gaps)]
  ELSE "allowed"

-------------------------------------------------------------------------------
(* Storage and deployment *)

DatabaseGate ==
  <<"database_alias_missing", "managed_external_service", "encryption_at_rest",
    "transport_encryption", "transactional_writes", "migration_plan_validated",
    "backward_compatibility_validated", "rollback_path_validated",
    "tenant_scope_enforced", "workload_identity_required",
    "point_in_time_recovery_capable", "schema_version_monotonic">>

ObjectStorageGate ==
  <<"object_store_alias_missing", "encrypted_at_rest", "kms_or_equivalent_key_separation",
    "transport_encryption", "content_address_integrity", "tenant_namespace_enforced",
    "versioning_or_equivalent_recovery", "lifecycle_policy_bound",
    "public_access_blocked", "workload_identity_required">>

QueueClaimGate ==
  <<"queue_claim_identity_missing", "stale_or_invalid_fencing_token",
    "idempotency_digest_invalid", "durable_broker", "worker_identity_authenticated",
    "lease_expiry_persisted", "state_transition_committed_before_ack",
    "redelivery_supported">>

\* The gap a claim has by its fencing token.
TokenGaps(token, previous) ==
  {c \in {"stale_or_invalid_fencing_token"} : token <= previous \/ token < 1}

CrashRecoveryGate ==
  <<"metadata_commit_atomic", "artifact_commit_integrity_verified",
    "queue_ack_after_commit", "replay_idempotent", "partial_write_cleanup_verified",
    "stale_worker_fenced">>

DeletionGate ==
  <<"intent_receipt_persisted", "live_references_removed", "object_delete_confirmed",
    "metadata_tombstone_persisted", "backup_tombstone_propagated",
    "completion_receipt_persisted", "restore_resurrection_prevented">>

RestoreGate ==
  <<"encrypted", "integrity_manifest_verified", "isolated_restore_target",
    "database_and_object_generation_consistent", "tombstones_replayed_before_publish",
    "deleted_data_resurrection_check_passed", "recovery_point_verified",
    "restore_audit_committed">>

AuditStoreGate ==
  <<"append_only", "hash_chain_validated", "independent_anti_rollback_anchor",
    "immutable_retention", "tenant_scope_enforced", "workload_identity_required",
    "privacy_safe_payload_policy">>

EnvironmentGate ==
  <<"environment_invalid", "account_or_project_isolated", "credentials_isolated",
    "network_namespace_isolated", "storage_namespace_isolated",
    "queue_namespace_isolated", "audit_namespace_isolated",
    "cross_environment_write_forbidden">>

DeploymentGate ==
  <<"deployment_artifact_digest_invalid", "rollback_artifact_digest_invalid",
    "production_deployment_not_authorized", "provenance_signed",
    "artifact_signature_verified", "immutable_artifact", "staging_health_checks_passed",
    "migration_preflight_passed", "rollback_path_validated",
    "secrets_not_baked_into_artifact", "environment_config_separated",
    "privacy_safe_observability_ready">>

\* The gap of a candidate that asks to be activated without authorization.
ActivationGaps(requested, authorized) ==
  {c \in {"production_deployment_not_authorized"} : requested /\ ~authorized}

-------------------------------------------------------------------------------
(* Network *)

IngressGate ==
  <<"builtin_server_public_exposure_forbidden", "untrusted_proxy_peer",
    "proxy_workload_not_authenticated", "managed_tls_evidence_missing",
    "forwarded_header_policy_ambiguous", "forwarded_client_ip_not_canonical",
    "forwarded_client_ip_invalid", "hop_by_hop_headers_stripped",
    "single_host_normalized", "transfer_encoding_removed",
    "content_length_canonicalized", "request_target_normalized",
    "request_smuggling_check_passed", "multipart_boundary_check_passed", "waf",
    "rate_limit", "quota", "connection_limit", "request_body_limit", "header_limit",
    "slow_client">>

\* The zones that each zone may open a connection to.
AllowedConnections ==
  LET stores == {"secret_manager", "kms", "metadata_db", "object_storage", "queue",
                 "audit"}
  IN    {<<"public_edge", "application">>}
   \cup {"application"} \X (stores \cup {"identity", "quarantine"})
   \cup {"worker"} \X stores

ConnectionGate ==
  <<"quarantine_outbound_forbidden", "public_edge_internal_bypass_forbidden",
    "private_topology_connection_not_allowed", "workload_identity_required">>

ConnectionGaps(source, destination, authenticated) ==
  {c \in {ConnectionGate[i] : i \in 1..Len(ConnectionGate)} :
     CASE c = "quarantine_outbound_forbidden" -> source = "quarantine"
       [] c = "public_edge_internal_bypass_forbidden" ->
            source = "public_edge" /\ destination # "application"
       [] c = "private_topology_connection_not_allowed" ->
            <<source, destination>> \notin AllowedConnections
       [] OTHER -> ~authenticated}
==============================================================================
