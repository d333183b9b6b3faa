--------------------------- MODULE ProductionAccess ---------------------------
(***************************************************************************)
(* Who may touch which job: ProductionApiV1 in front of the local API.     *)
(*                                                                         *)
(* A request thread verifies a signed token, looks the job's binding up,   *)
(* lets the local API act, and, if a job was created or found again, binds *)
(* it to tenant and owner in a second store and reads the binding back.    *)
(* The two stores share no transaction: a thread may fail or die between   *)
(* any two steps, and the client asks again with the same key.             *)
(*                                                                         *)
(* A refusal leaves both stores as they are; only the thread ends.         *)
(***************************************************************************)
EXTENDS Integers

CONSTANTS Thread,     \* request threads
          TokenEvidence,   \* what the signature backend may say of tokens
          Issuer,     \* the trusted issuers
          Subject, Tenant,
          Key,        \* idempotency keys, as clients send them
          Content,    \* digests of uploads
          JobId,      \* bound: the jobs ever created
          Moment,     \* readings of the clock
          Skew,       \* clock_skew_seconds
          Nothing     \* Python's None

VARIABLES
  jobs,     \* the jobs of the local store: by whom made, from what, and their state
  idempotency,  \* the local store's table from scoped keys to jobs
  bindings,     \* the authorization store: the owner each job is bound to
  thread        \* each request in progress

accessVars == <<jobs, idempotency, bindings, thread>>

-------------------------------------------------------------------------------
(* Identities *)

PrincipalRole == {"client", "reviewer"}
SubjectKey == [issuer : Issuer, subject : Subject]
TenantKey == [issuer : Issuer, tenant : Tenant]
Identity == [role : PrincipalRole, owner : SubjectKey, tenant : TenantKey]
Binding == [owner : SubjectKey, tenant : TenantKey]
JobRecord == [creator : Binding, content : Content, live : BOOLEAN]

ASSUME AccessAssumption ==
  /\ Moment \subseteq Int /\ Skew \in Nat
  /\ Nothing \notin JobId /\ Nothing \notin Binding /\ Nothing \notin JobRecord
  /\ \A e \in TokenEvidence : e.subject \in Subject /\ e.tenant \in Tenant

BindingOf(id) == [owner |-> id.owner, tenant |-> id.tenant]

ScopedKey(id, k) == [owner |-> id.owner, tenant |-> id.tenant, key |-> k]

\* The checks of authenticate_bearer_token up to the roles, at the time `now`.
Verified(e, now) ==
  /\ e.signed
  /\ e.issuer \in Issuer
  /\ e.audience
  /\ e.exp > now - Skew
  /\ e.nbf <= now + Skew
  /\ ~e.revoked

\* Exactly one permitted role, subject and tenant taken within their issuer.
IdentityOf(e) ==
  {[role |-> r, owner |-> [issuer |-> e.issuer, subject |-> e.subject],
    tenant |-> [issuer |-> e.issuer, tenant |-> e.tenant]] :
     r \in {s \in PrincipalRole : e.roles \cap PrincipalRole = {s}}}

-------------------------------------------------------------------------------
(* Requests *)

\* An upload, a decision of a reviewer, and what any owner may do: read, cancel, expire.
Operation == {"create", "use", "review"}
NoRequest == [pc |-> "idle"]

\* What the router allows a role to do.
RolesAllowed(op) == IF op = "review" THEN {"reviewer"} ELSE PrincipalRole

AccessInit ==
  /\ jobs = [j \in JobId |-> Nothing]
  /\ idempotency = {}
  /\ bindings = [j \in JobId |-> Nothing]
  /\ thread = [t \in Thread |-> NoRequest]

Goto(t, pc) == thread' = [thread EXCEPT ![t].pc = pc]
End(t) == thread' = [thread EXCEPT ![t] = NoRequest]

\* Whom a request may come from: it brings no identity but its token, and the token
\* passes.  A request that does not pass changes nothing.
Authenticated ==
  UNION {IdentityOf(e) : e \in {f \in TokenEvidence : \E now \in Moment : Verified(f, now)}}

Begin(t, r) == thread[t] = NoRequest /\ thread' = [thread EXCEPT ![t] = r]

\* An upload: there is no job yet to authorize.
AskCreate(t, k, c) ==
  /\ \E id \in Authenticated :
       Begin(t, [pc |-> "handling", id |-> id, op |-> "create", key |-> k, content |-> c,
                 job |-> Nothing])
  /\ UNCHANGED <<jobs, idempotency, bindings>>

\* Any request whose path names a job.
AskJob(t, op, j) ==
  /\ \E id \in Authenticated :
       Begin(t, [pc |-> "looking", id |-> id, op |-> op, key |-> Nothing, content |-> Nothing,
                 job |-> j])
  /\ UNCHANGED <<jobs, idempotency, bindings>>

\* Faulty: any client of the tenant passes for the owner.
PermittedInTenant(id, b) == b # Nothing /\ b.tenant = id.tenant
Permitted(id, b) ==
  /\ b # Nothing
  /\ b.tenant = id.tenant
  /\ id.role = "client" => b.owner = id.owner

\* _authorize_job; the store may be unavailable.
AuthorizeJob(t) ==
  /\ thread[t].pc = "looking"
  /\ \/ /\ Permitted(thread[t].id, bindings[thread[t].job])
        /\ Goto(t, "handling")
     \/ End(t)
  /\ UNCHANGED <<jobs, idempotency, bindings>>

\* Faulty: a key names the same job for all tenants of a subject.
EntryOfSubject(t) ==
  {e \in idempotency : e.scope.owner = thread[t].id.owner /\ e.scope.key = thread[t].key}
Entry(t) == {e \in idempotency : e.scope = ScopedKey(thread[t].id, thread[t].key)}
Unused == {j \in JobId : jobs[j] = Nothing}
\* A new id is random and tells nothing: any one of the unused stands for all.
Fresh == {j \in Unused : j = CHOOSE i \in Unused : TRUE}

\* Faulty: a key that was used is taken to mean the same request.
SameDigestUnchecked(t, e) == TRUE
SameDigest(t, e) == e.content = thread[t].content

\* create_job under a new key; the actor is in the first entry of the job's audit.
CreateJob(t) ==
  /\ thread[t].pc = "handling" /\ thread[t].op = "create"
  /\ Entry(t) = {}
  /\ \E j \in Fresh :
       /\ jobs' = [jobs EXCEPT ![j] =
            [creator |-> BindingOf(thread[t].id), content |-> thread[t].content, live |-> TRUE]]
       /\ idempotency' = idempotency \cup
            {[scope |-> ScopedKey(thread[t].id, thread[t].key), content |-> thread[t].content,
              job |-> j]}
       /\ thread' = [thread EXCEPT ![t].pc = "binding", ![t].job = j]
  /\ UNCHANGED bindings

\* create_job under a key that was used: the job it made, or a conflict.
ReplayJob(t) ==
  /\ thread[t].pc = "handling" /\ thread[t].op = "create"
  /\ \E e \in Entry(t) :
       IF SameDigest(t, e)
       THEN thread' = [thread EXCEPT ![t].pc = "binding", ![t].job = e.job]
       ELSE End(t)
  /\ UNCHANGED <<jobs, idempotency, bindings>>

\* Any other operation of the router, on the job of the path: it may change the job.
HandleJob(t) ==
  /\ thread[t].pc = "handling" /\ thread[t].op # "create"
  /\ IF thread[t].id.role \in RolesAllowed(thread[t].op) /\ jobs[thread[t].job] # Nothing
     THEN /\ Goto(t, "answered")
          /\ \/ jobs' = [jobs EXCEPT ![thread[t].job].live = FALSE]
             \/ UNCHANGED jobs
     ELSE End(t) /\ UNCHANGED jobs
  /\ UNCHANGED <<idempotency, bindings>>

\* The router refuses or fails before it has changed anything.
RefuseRequest(t) ==
  /\ thread[t].pc = "handling"
  /\ End(t)
  /\ UNCHANGED <<jobs, idempotency, bindings>>

\* The contract of bind_job: create, or confirm what is there.
Bound(j, b) == IF bindings[j] = Nothing THEN [bindings EXCEPT ![j] = b] ELSE bindings

\* bind_job commits and answers.
BindJob(t) ==
  /\ thread[t].pc = "binding"
  /\ bindings' = Bound(thread[t].job, BindingOf(thread[t].id))
  /\ IF bindings'[thread[t].job] = BindingOf(thread[t].id) THEN Goto(t, "confirming") ELSE End(t)
  /\ UNCHANGED <<jobs, idempotency>>

\* bind_job raises, before or after it has committed.
BindFails(t) ==
  /\ thread[t].pc = "binding"
  /\ bindings' \in {bindings, Bound(thread[t].job, BindingOf(thread[t].id))}
  /\ End(t)
  /\ UNCHANGED <<jobs, idempotency>>

\* The binding is read back: the job is answered only to the principal it is bound to.
ConfirmBinding(t) ==
  /\ thread[t].pc = "confirming"
  /\ \/ bindings[thread[t].job] = BindingOf(thread[t].id) /\ Goto(t, "answered")
     \/ End(t)
  /\ UNCHANGED <<jobs, idempotency, bindings>>

\* The answer is sent.
Answer(t) ==
  /\ thread[t].pc = "answered"
  /\ End(t)
  /\ UNCHANGED <<jobs, idempotency, bindings>>

\* The service dies with all its threads; both stores are durable.
CrashService ==
  /\ thread # [t \in Thread |-> NoRequest]
  /\ thread' = [t \in Thread |-> NoRequest]
  /\ UNCHANGED <<jobs, idempotency, bindings>>

ThreadNext(t) ==
  \/ \E k \in Key, c \in Content : AskCreate(t, k, c)
  \/ \E op \in Operation \ {"create"}, j \in JobId : AskJob(t, op, j)
  \/ AuthorizeJob(t) \/ CreateJob(t) \/ ReplayJob(t) \/ HandleJob(t) \/ RefuseRequest(t)
  \/ BindJob(t) \/ BindFails(t) \/ ConfirmBinding(t) \/ Answer(t)

AccessNext == CrashService \/ \E t \in Thread : ThreadNext(t)

AccessSpec == AccessInit /\ [][AccessNext]_accessVars

-------------------------------------------------------------------------------
(* Properties *)

Scope == [owner : SubjectKey, tenant : TenantKey, key : Key]
AccessRequest == [pc : {"looking", "handling", "binding", "confirming", "answered"}, id : Identity,
            op : Operation, key : Key \cup {Nothing},
            content : Content \cup {Nothing},
            job : JobId \cup {Nothing}]

\* Every variable holds a value of its type.
AccessTypeOK ==
  /\ jobs \in [JobId -> JobRecord \cup {Nothing}]
  /\ idempotency \subseteq [scope : Scope, content : Content, job : JobId]
  /\ bindings \in [JobId -> Binding \cup {Nothing}]
  /\ thread \in [Thread -> AccessRequest \cup {NoRequest}]

\* docs/stage6/s6-03-identity-authz.md: two principals that send the same key never
\* meet in one job.  A job is bound to the principal that created it and to nobody
\* else, though the binding may be the work of a later request, after the first one
\* failed or died between the two stores.
CreatorOwns ==
  \A j \in JobId : bindings[j] # Nothing => jobs[j] # Nothing /\ bindings[j] = jobs[j].creator

\* A job of `creator` is the business of its creator and of the tenant's reviewers.
Concerns(id, creator) ==
  /\ id.tenant = creator.tenant
  /\ id.role = "reviewer" \/ id.owner = creator.owner

\* A request that succeeds concerns a job of the caller: its own, or, for a reviewer,
\* one of its tenant; and the answer to an upload is a job made from that upload.
OwnersOnly ==
  \A t \in Thread : thread[t].pc = "answered" =>
    /\ jobs[thread[t].job] # Nothing
    /\ Concerns(thread[t].id, jobs[thread[t].job].creator)
    /\ thread[t].op = "create" =>
         jobs[thread[t].job].content = thread[t].content

\* Between its creation and its binding a job can be changed by nobody; afterwards
\* only by its owner or a reviewer of its tenant.
UnboundUntouched ==
  [][\A j \in JobId : jobs[j] # Nothing /\ jobs'[j] # jobs[j] =>
       /\ bindings[j] # Nothing
       /\ \E t \in Thread :
            /\ thread[t].pc = "handling" /\ thread[t].job = j
            /\ Concerns(thread[t].id, jobs[j].creator)]_accessVars

\* The refinement mapping: what the keys have made is in the idempotency table, and the
\* owners are in the authorization store.
Ownership == INSTANCE JobOwnership
  WITH made <- {[scope |-> e.scope, job |-> e.job] : e \in idempotency},
       owner <- bindings,
       live <- {j \in JobId : jobs[j] # Nothing /\ jobs[j].live}

\* The two stores, the threads between them, failures, crashes and repeated uploads
\* implement the ownership of jobs: however often an upload is repeated under a key, and
\* wherever its earlier attempts have stopped, one job comes of it; it is bound once, to
\* the principal of the key; and nobody brings a job to an end before it is bound.
RefinesOwnership == Ownership!Spec
==============================================================================
