------------------------ MODULE ProductionAccessProofs ------------------------
(***************************************************************************)
(* ProductionAccess for every set of threads, principals, keys and jobs.   *)
(*                                                                         *)
(* The binding of a job is written by a thread that may not be the one     *)
(* that created it, so CreatorOwns alone is not inductive.  What carries   *)
(* it: an entry of the idempotency table names the principal in its scope, *)
(* and the job it leads to was created by that principal; and a thread on  *)
(* its way to bind holds a job of its own principal.  Both stores only     *)
(* grow, so what a thread has seen of them stays true while others move.   *)
(***************************************************************************)
EXTENDS ProductionAccess, TLAPS

-------------------------------------------------------------------------------
(* The invariant *)

\* The entries of the idempotency table lead to jobs of the principal in their scope.
Entries ==
  \A e \in idempotency :
    /\ jobs[e.job] # Nothing
    /\ jobs[e.job].creator = [owner |-> e.scope.owner, tenant |-> e.scope.tenant]
    /\ jobs[e.job].content = e.content

\* What a request in progress may rely on, over the jobs R and the bindings B.
CreateSound(r, R, B) ==
  r.op = "create" =>
    /\ r.content \in Content /\ r.key \in Key
    /\ r.pc # "looking"
    /\ r.pc # "handling" =>
         /\ r.job \in JobId /\ R[r.job] # Nothing
         /\ R[r.job].creator = BindingOf(r.id) /\ R[r.job].content = r.content
OtherSound(r, R, B) ==
  r.op # "create" =>
    /\ r.job \in JobId
    /\ r.pc \in {"looking", "handling", "answered"}
    /\ r.pc # "looking" =>
         /\ B[r.job] # Nothing /\ R[r.job] # Nothing
         /\ Concerns(r.id, R[r.job].creator)
Sound(r, R, B) == CreateSound(r, R, B) /\ OtherSound(r, R, B)

Threads == \A t \in Thread : thread[t].pc # "idle" => Sound(thread[t], jobs, bindings)

AccessInv == AccessTypeOK /\ CreatorOwns /\ Entries /\ Threads

-------------------------------------------------------------------------------
(* Lemmas *)

\* A thread that is not idle holds a request.
LEMMA Busy ==
  ASSUME AccessTypeOK, NEW t \in Thread, thread[t].pc # "idle"
  PROVE  thread[t] \in AccessRequest
BY DEF AccessTypeOK, NoRequest

\* An authenticated principal is an identity, within one trusted issuer.
LEMMA AuthenticatedIsIdentity == Authenticated \subseteq Identity
BY AccessAssumption DEF Authenticated, IdentityOf, Verified, Identity, SubjectKey, TenantKey, PrincipalRole

\* Who passes the lookup of a binding is concerned by the job that has it.
LEMMA PermittedConcerns ==
  ASSUME NEW id \in Identity, NEW b, Permitted(id, b)
  PROVE  b # Nothing /\ Concerns(id, b)
BY DEF Permitted, Concerns, Identity, PrincipalRole

\* Soundness survives the growth of both stores.
LEMMA SoundGrows ==
  ASSUME NEW r \in AccessRequest, NEW R, NEW B, NEW R2, NEW B2, Sound(r, R, B),
         \A j \in JobId : R[j] # Nothing =>
           R2[j] # Nothing /\ R2[j].creator = R[j].creator /\ R2[j].content = R[j].content,
         \A j \in JobId : B[j] # Nothing => B2[j] # Nothing
  PROVE  Sound(r, R2, B2)
BY DEF Sound, CreateSound, OtherSound, Concerns

LEMMA AccessInitInv == AccessInit => AccessInv
BY DEF AccessInit, AccessInv, AccessTypeOK, CreatorOwns, Entries, Threads, NoRequest

\* A step of one thread that leaves both stores alone.
LEMMA ThreadStep ==
  ASSUME AccessInv, NEW t \in Thread, NEW r \in AccessRequest \cup {NoRequest},
         thread' = [thread EXCEPT ![t] = r],
         r.pc # "idle" => Sound(r, jobs, bindings),
         UNCHANGED <<jobs, idempotency, bindings>>
  PROVE  AccessInv'
<1>1. AccessTypeOK' BY DEF AccessInv, AccessTypeOK
<1>2. CreatorOwns' BY DEF AccessInv, CreatorOwns
<1>3. Entries' BY DEF AccessInv, Entries
<1>4. Threads'
  <2>1. thread \in [Thread -> AccessRequest \cup {NoRequest}] BY DEF AccessInv, AccessTypeOK
  <2>2. SUFFICES ASSUME NEW u \in Thread, thread'[u].pc # "idle"
                 PROVE  Sound(thread'[u], jobs, bindings)
        BY DEF Threads, Sound, CreateSound, OtherSound
  <2>3. CASE u = t BY <2>1, <2>2, <2>3
  <2>4. CASE u # t BY <2>1, <2>2, <2>4 DEF AccessInv, Threads
  <2> QED BY <2>3, <2>4
<1> QED BY <1>1, <1>2, <1>3, <1>4 DEF AccessInv

\* The end of a request.
LEMMA ThreadEnds ==
  ASSUME AccessInv, NEW t \in Thread, End(t), UNCHANGED <<jobs, idempotency, bindings>>
  PROVE  AccessInv'
<1>1. NoRequest.pc = "idle" BY DEF NoRequest
<1> QED BY <1>1, ThreadStep DEF End

-------------------------------------------------------------------------------
(* The actions *)

LEMMA AskCreateInv ==
  ASSUME AccessInv, NEW t \in Thread, NEW k \in Key, NEW c \in Content, AskCreate(t, k, c)
  PROVE  AccessInv'
<1>1. PICK id \in Authenticated :
        thread' = [thread EXCEPT ![t] = [pc |-> "handling", id |-> id, op |-> "create",
                                         key |-> k, content |-> c, job |-> Nothing]]
      BY DEF AskCreate, Begin
<1> DEFINE r == [pc |-> "handling", id |-> id, op |-> "create", key |-> k, content |-> c,
                 job |-> Nothing]
<1>2. r \in AccessRequest BY AuthenticatedIsIdentity DEF AccessRequest, Operation
<1>3. Sound(r, jobs, bindings) BY DEF Sound, CreateSound, OtherSound
<1> QED BY <1>1, <1>2, <1>3, ThreadStep DEF AskCreate

LEMMA AskJobInv ==
  ASSUME AccessInv, NEW t \in Thread, NEW op \in Operation \ {"create"}, NEW j \in JobId,
         AskJob(t, op, j)
  PROVE  AccessInv'
<1>1. PICK id \in Authenticated :
        thread' = [thread EXCEPT ![t] = [pc |-> "looking", id |-> id, op |-> op,
                                         key |-> Nothing, content |-> Nothing, job |-> j]]
      BY DEF AskJob, Begin
<1> DEFINE r == [pc |-> "looking", id |-> id, op |-> op, key |-> Nothing, content |-> Nothing,
                 job |-> j]
<1>2. r \in AccessRequest BY AuthenticatedIsIdentity DEF AccessRequest, Operation
<1>3. Sound(r, jobs, bindings) BY DEF Sound, CreateSound, OtherSound
<1> QED BY <1>1, <1>2, <1>3, ThreadStep DEF AskJob

\* A request moves on, with what makes its new place sound.
LEMMA GotoInv ==
  ASSUME AccessInv, NEW t \in Thread, thread[t].pc # "idle",
         NEW pc \in {"looking", "handling", "binding", "confirming", "answered"},
         Goto(t, pc), Sound([thread[t] EXCEPT !.pc = pc], jobs, bindings),
         UNCHANGED <<jobs, idempotency, bindings>>
  PROVE  AccessInv'
<1> DEFINE r == [thread[t] EXCEPT !.pc = pc]
<1>1. thread[t] \in AccessRequest BY Busy DEF AccessInv
<1>2. r \in AccessRequest BY <1>1 DEF AccessRequest
<1>3. thread' = [thread EXCEPT ![t] = r] BY DEF Goto
<1> QED BY <1>2, <1>3, ThreadStep

LEMMA AuthorizeJobInv ==
  ASSUME AccessInv, NEW t \in Thread, AuthorizeJob(t)
  PROVE  AccessInv'
<1>1. CASE End(t) BY <1>1, ThreadEnds DEF AuthorizeJob
<1>2. CASE Permitted(thread[t].id, bindings[thread[t].job]) /\ Goto(t, "handling")
  <2>1. thread[t].pc = "looking" /\ thread[t] \in AccessRequest BY Busy DEF AuthorizeJob, AccessInv
  <2>2. Sound(thread[t], jobs, bindings) BY <2>1 DEF AccessInv, Threads
  <2>3. thread[t].op # "create" /\ thread[t].job \in JobId
        BY <2>1, <2>2 DEF Sound, CreateSound, OtherSound
  <2>4. bindings[thread[t].job] # Nothing /\ Concerns(thread[t].id, bindings[thread[t].job])
        BY <1>2, <2>1, PermittedConcerns DEF AccessRequest
  <2>5. jobs[thread[t].job] # Nothing /\ Concerns(thread[t].id, jobs[thread[t].job].creator)
        BY <2>3, <2>4 DEF AccessInv, CreatorOwns
  <2> DEFINE r == [thread[t] EXCEPT !.pc = "handling"]
  <2>6. r.pc = "handling" /\ r.op = thread[t].op /\ r.job = thread[t].job /\ r.id = thread[t].id
        BY <2>1 DEF AccessRequest
  <2>7. Sound(r, jobs, bindings)
        BY <2>3, <2>4, <2>5, <2>6 DEF Sound, CreateSound, OtherSound
  <2> QED BY <1>2, <2>1, <2>7, GotoInv DEF AuthorizeJob
<1> QED BY <1>1, <1>2 DEF AuthorizeJob

\* What the table of keys says of a request that creates.
LEMMA EntrySound ==
  ASSUME AccessInv, NEW t \in Thread, thread[t] \in AccessRequest, NEW e \in Entry(t)
  PROVE  /\ e.job \in JobId /\ jobs[e.job] # Nothing
         /\ jobs[e.job].creator = BindingOf(thread[t].id)
         /\ jobs[e.job].content = e.content
<1>1. e \in idempotency /\ e.scope = ScopedKey(thread[t].id, thread[t].key) BY DEF Entry
<1>2. e.job \in JobId BY <1>1 DEF AccessInv, AccessTypeOK
<1>3. /\ jobs[e.job] # Nothing
      /\ jobs[e.job].creator = [owner |-> e.scope.owner, tenant |-> e.scope.tenant]
      /\ jobs[e.job].content = e.content
      BY <1>1 DEF AccessInv, Entries
<1>4. [owner |-> e.scope.owner, tenant |-> e.scope.tenant] = BindingOf(thread[t].id)
      BY <1>1 DEF ScopedKey, BindingOf
<1> QED BY <1>2, <1>3, <1>4

LEMMA ReplayJobInv ==
  ASSUME AccessInv, NEW t \in Thread, ReplayJob(t)
  PROVE  AccessInv'
<1>1. thread[t] \in AccessRequest /\ thread[t].op = "create" /\ thread[t].pc = "handling"
      BY Busy DEF ReplayJob, AccessInv
<1>2. PICK e \in Entry(t) :
        IF SameDigest(t, e)
        THEN thread' = [thread EXCEPT ![t].pc = "binding", ![t].job = e.job]
        ELSE End(t)
      BY DEF ReplayJob
<1>3. CASE ~SameDigest(t, e) BY <1>2, <1>3, ThreadEnds DEF ReplayJob
<1>4. CASE SameDigest(t, e)
  <2> DEFINE r == [thread[t] EXCEPT !.pc = "binding", !.job = e.job]
  <2>1. thread' = [thread EXCEPT ![t] = r] BY <1>2, <1>4
  <2>2. /\ e.job \in JobId /\ jobs[e.job] # Nothing
        /\ jobs[e.job].creator = BindingOf(thread[t].id)
        /\ jobs[e.job].content = e.content
        BY <1>1, EntrySound
  <2>3. r \in AccessRequest BY <1>1, <2>2 DEF AccessRequest
  <2>4. /\ r.op = "create" /\ r.pc = "binding" /\ r.job = e.job /\ r.id = thread[t].id
        /\ r.content = thread[t].content /\ r.key = thread[t].key
        BY <1>1 DEF AccessRequest
  <2>5. thread[t].content \in Content /\ thread[t].key \in Key
        BY <1>1 DEF AccessInv, Threads, Sound, CreateSound
  <2>6. Sound(r, jobs, bindings)
        BY <1>4, <2>2, <2>4, <2>5 DEF Sound, CreateSound, OtherSound, SameDigest
  <2> HIDE DEF r
  <2> QED BY <2>1, <2>3, <2>6, ThreadStep DEF ReplayJob
<1> QED BY <1>3, <1>4

LEMMA ConfirmBindingInv ==
  ASSUME AccessInv, NEW t \in Thread, ConfirmBinding(t)
  PROVE  AccessInv'
<1>1. CASE End(t) BY <1>1, ThreadEnds DEF ConfirmBinding
<1>2. CASE Goto(t, "answered")
  <2>1. thread[t].pc = "confirming" /\ thread[t] \in AccessRequest BY Busy DEF ConfirmBinding, AccessInv
  <2>2. Sound(thread[t], jobs, bindings) BY <2>1 DEF AccessInv, Threads
  <2> DEFINE r == [thread[t] EXCEPT !.pc = "answered"]
  <2>3. /\ r.pc = "answered" /\ r.op = thread[t].op /\ r.job = thread[t].job
        /\ r.id = thread[t].id /\ r.content = thread[t].content /\ r.key = thread[t].key
        BY <2>1 DEF AccessRequest
  <2>4. Sound(r, jobs, bindings) BY <2>1, <2>2, <2>3 DEF Sound, CreateSound, OtherSound
  <2> QED BY <1>2, <2>1, <2>4, GotoInv DEF ConfirmBinding
<1> QED BY <1>1, <1>2 DEF ConfirmBinding

\* A step after which both stores hold at least what they held, and one request moves.
LEMMA StoreStep ==
  ASSUME AccessInv, NEW t \in Thread, NEW r \in AccessRequest \cup {NoRequest},
         thread' = [thread EXCEPT ![t] = r],
         r.pc # "idle" => Sound(r, jobs', bindings'),
         \A j \in JobId : jobs[j] # Nothing =>
           /\ jobs'[j] # Nothing /\ jobs'[j].creator = jobs[j].creator
           /\ jobs'[j].content = jobs[j].content,
         \A j \in JobId : bindings[j] # Nothing => bindings'[j] # Nothing
  PROVE  Threads'
<1>1. thread \in [Thread -> AccessRequest \cup {NoRequest}] BY DEF AccessInv, AccessTypeOK
<1>2. SUFFICES ASSUME NEW u \in Thread, thread'[u].pc # "idle"
               PROVE  Sound(thread'[u], jobs', bindings')
      BY DEF Threads, Sound, CreateSound, OtherSound
<1>3. CASE u = t BY <1>1, <1>2, <1>3
<1>4. CASE u # t
  <2>1. thread'[u] = thread[u] BY <1>1, <1>4
  <2>2. thread[u] \in AccessRequest BY <1>2, <2>1, Busy DEF AccessInv
  <2>3. Sound(thread[u], jobs, bindings) BY <1>2, <2>1 DEF AccessInv, Threads
  <2>4. Sound(thread[u], jobs', bindings') BY <2>2, <2>3, SoundGrows
  <2> QED BY <2>1, <2>4
<1> QED BY <1>3, <1>4

LEMMA CreateJobInv ==
  ASSUME AccessInv, NEW t \in Thread, CreateJob(t)
  PROVE  AccessInv'
<1> DEFINE id == thread[t].id
<1> DEFINE record == [creator |-> BindingOf(id), content |-> thread[t].content, live |-> TRUE]
<1>1. thread[t] \in AccessRequest /\ thread[t].op = "create" /\ thread[t].pc = "handling"
      BY Busy DEF CreateJob, AccessInv
<1>2. thread[t].content \in Content /\ thread[t].key \in Key
      BY <1>1 DEF AccessInv, Threads, Sound, CreateSound
<1>3. PICK j \in Fresh :
        /\ jobs' = [jobs EXCEPT ![j] = record]
        /\ idempotency' = idempotency \cup
             {[scope |-> ScopedKey(id, thread[t].key), content |-> thread[t].content, job |-> j]}
        /\ thread' = [thread EXCEPT ![t].pc = "binding", ![t].job = j]
      BY DEF CreateJob
<1> DEFINE entry == [scope |-> ScopedKey(id, thread[t].key), content |-> thread[t].content, job |-> j]
<1> DEFINE r == [thread[t] EXCEPT !.pc = "binding", !.job = j]
<1>4. j \in JobId /\ jobs[j] = Nothing BY DEF Fresh, Unused
<1>5. bindings' = bindings BY DEF CreateJob
<1>6. BindingOf(id) \in Binding BY <1>1 DEF AccessRequest, Identity, BindingOf, Binding
<1>7. record \in JobRecord /\ record # Nothing /\ record.creator = BindingOf(id)
      /\ record.content = thread[t].content
  <2>1. record \in JobRecord BY <1>2, <1>6 DEF JobRecord
  <2>2. record # Nothing BY <2>1, AccessAssumption, Zenon
  <2> QED BY <2>1, <2>2
<1>8. entry \in [scope : Scope, content : Content, job : JobId]
  <2>1. ScopedKey(id, thread[t].key) \in Scope BY <1>1, <1>2 DEF AccessRequest, Identity, ScopedKey, Scope
  <2> QED BY <1>2, <1>4, <2>1
<1>9. thread' = [thread EXCEPT ![t] = r] BY <1>3
<1>10. r \in AccessRequest BY <1>1, <1>4 DEF AccessRequest
<1>11. /\ r.op = "create" /\ r.pc = "binding" /\ r.job = j /\ r.id = id
       /\ r.content = thread[t].content /\ r.key = thread[t].key
       BY <1>1 DEF AccessRequest
<1>12. jobs \in [JobId -> JobRecord \cup {Nothing}] BY DEF AccessInv, AccessTypeOK
<1> HIDE DEF record, r
<1>13. /\ jobs'[j] = record
       /\ \A i \in JobId : i # j => jobs'[i] = jobs[i]
       BY <1>3, <1>4, <1>12
<1>14. AccessTypeOK'
  <2>1. jobs' \in [JobId -> JobRecord \cup {Nothing}] BY <1>3, <1>7, <1>12
  <2>2. idempotency' \subseteq [scope : Scope, content : Content, job : JobId]
        BY <1>3, <1>8 DEF AccessInv, AccessTypeOK
  <2>3. thread' \in [Thread -> AccessRequest \cup {NoRequest}]
        BY <1>9, <1>10 DEF AccessInv, AccessTypeOK
  <2> QED BY <1>5, <2>1, <2>2, <2>3 DEF AccessInv, AccessTypeOK
<1>15. CreatorOwns'
  <2>1. \A i \in JobId : bindings[i] # Nothing => i # j BY <1>4 DEF AccessInv, CreatorOwns
  <2> QED BY <1>5, <1>13, <2>1 DEF AccessInv, CreatorOwns
<1>16. Entries'
  <2>1. SUFFICES ASSUME NEW e \in idempotency'
                 PROVE  /\ jobs'[e.job] # Nothing
                        /\ jobs'[e.job].creator = [owner |-> e.scope.owner, tenant |-> e.scope.tenant]
                        /\ jobs'[e.job].content = e.content
        BY DEF Entries
  <2>2. CASE e \in idempotency
    <3>1. e.job \in JobId /\ jobs[e.job] # Nothing
          BY <2>2 DEF AccessInv, AccessTypeOK, Entries
    <3>2. e.job # j BY <1>4, <3>1
    <3> QED BY <1>13, <2>2, <3>1, <3>2 DEF AccessInv, Entries
  <2>3. CASE e = entry
    <3>1. [owner |-> e.scope.owner, tenant |-> e.scope.tenant] = BindingOf(id)
          BY <2>3 DEF ScopedKey, BindingOf
    <3>2. e.job = j /\ e.content = thread[t].content BY <2>3
    <3> QED BY <1>7, <1>13, <3>1, <3>2
  <2> QED BY <1>3, <2>1, <2>2, <2>3
<1>17. Threads'
  <2>1. Sound(r, jobs', bindings')
        BY <1>2, <1>4, <1>7, <1>11, <1>13 DEF Sound, CreateSound, OtherSound
  <2>2. \A i \in JobId : jobs[i] # Nothing =>
           /\ jobs'[i] # Nothing /\ jobs'[i].creator = jobs[i].creator
           /\ jobs'[i].content = jobs[i].content
        BY <1>4, <1>13
  <2> QED BY <1>5, <1>9, <1>10, <2>1, <2>2, StoreStep
<1> QED BY <1>14, <1>15, <1>16, <1>17 DEF AccessInv

LEMMA HandleJobInv ==
  ASSUME AccessInv, NEW t \in Thread, HandleJob(t)
  PROVE  AccessInv'
<1>1. CASE End(t) /\ UNCHANGED jobs BY <1>1, ThreadEnds DEF HandleJob
<1>2. CASE Goto(t, "answered")
           /\ jobs[thread[t].job] # Nothing
           /\ \/ jobs' = [jobs EXCEPT ![thread[t].job].live = FALSE]
              \/ UNCHANGED jobs
  <2> DEFINE r == [thread[t] EXCEPT !.pc = "answered"]
  <2> DEFINE job == thread[t].job
  <2>1. thread[t] \in AccessRequest /\ thread[t].pc = "handling" /\ thread[t].op # "create"
        BY Busy DEF HandleJob, AccessInv
  <2>2. Sound(thread[t], jobs, bindings) BY <2>1 DEF AccessInv, Threads
  <2>3. job \in JobId BY <2>1, <2>2 DEF Sound, OtherSound
  <2>4. jobs \in [JobId -> JobRecord \cup {Nothing}] BY DEF AccessInv, AccessTypeOK
  <2>5. jobs[job] \in JobRecord BY <1>2, <2>3, <2>4
  <2>6. /\ jobs'[job] \in JobRecord
        /\ jobs'[job].creator = jobs[job].creator
        /\ jobs'[job].content = jobs[job].content
        /\ \A i \in JobId : i # job => jobs'[i] = jobs[i]
        /\ jobs' \in [JobId -> JobRecord \cup {Nothing}]
    <3>1. CASE jobs' = [jobs EXCEPT ![job].live = FALSE]
      <4> DEFINE new == [jobs[job] EXCEPT !.live = FALSE]
      <4>1. jobs' = [jobs EXCEPT ![job] = new] BY <3>1
      <4>2. new \in JobRecord /\ new.creator = jobs[job].creator
            /\ new.content = jobs[job].content
            BY <2>5 DEF JobRecord
      <4> HIDE DEF new
      <4> QED BY <2>3, <2>4, <4>1, <4>2
    <3>2. CASE UNCHANGED jobs BY <2>4, <2>5, <3>2
    <3> QED BY <1>2, <3>1, <3>2
  <2>7. jobs'[job] # Nothing BY <2>6, AccessAssumption
  <2>8. \A i \in JobId : jobs[i] # Nothing =>
           /\ jobs'[i] # Nothing /\ jobs'[i].creator = jobs[i].creator
           /\ jobs'[i].content = jobs[i].content
        BY <2>6, <2>7
  <2>9. r \in AccessRequest BY <2>1 DEF AccessRequest
  <2>10. r.pc = "answered" /\ r.op = thread[t].op /\ r.job = job /\ r.id = thread[t].id
         BY <2>1 DEF AccessRequest
  <2>11. thread' = [thread EXCEPT ![t] = r] BY <1>2 DEF Goto
  <2>12. UNCHANGED <<idempotency, bindings>> BY DEF HandleJob
  <2> HIDE DEF r
  <2>13. Sound(r, jobs', bindings')
    <3>1. Concerns(thread[t].id, jobs[job].creator) /\ bindings[job] # Nothing
          BY <2>1, <2>2 DEF Sound, OtherSound
    <3> QED BY <2>1, <2>3, <2>6, <2>7, <2>10, <2>12, <3>1 DEF Sound, CreateSound, OtherSound
  <2>14. Threads' BY <2>8, <2>9, <2>11, <2>12, <2>13, StoreStep
  <2>15. AccessTypeOK' BY <2>6, <2>9, <2>11, <2>12 DEF AccessInv, AccessTypeOK
  <2>16. CreatorOwns' BY <2>8, <2>12 DEF AccessInv, CreatorOwns
  <2>17. Entries'
    <3>1. \A e \in idempotency : e.job \in JobId BY DEF AccessInv, AccessTypeOK
    <3> QED BY <2>8, <2>12, <3>1 DEF AccessInv, Entries
  <2> QED BY <2>14, <2>15, <2>16, <2>17 DEF AccessInv
<1> QED BY <1>1, <1>2 DEF HandleJob

\* The binding store gains the binding of the principal that holds its own job.
LEMMA BindInv ==
  ASSUME AccessInv, NEW t \in Thread, thread[t].pc = "binding",
         NEW r \in AccessRequest \cup {NoRequest}, thread' = [thread EXCEPT ![t] = r],
         r.pc # "idle" => r = [thread[t] EXCEPT !.pc = "confirming"],
         bindings' = Bound(thread[t].job, BindingOf(thread[t].id)),
         UNCHANGED <<jobs, idempotency>>
  PROVE  AccessInv'
<1> DEFINE job == thread[t].job
<1> DEFINE own == BindingOf(thread[t].id)
<1>1. thread[t] \in AccessRequest BY Busy DEF AccessInv
<1>2. Sound(thread[t], jobs, bindings) BY DEF AccessInv, Threads
<1>3. thread[t].op = "create" BY <1>2 DEF Sound, OtherSound
<1>4. job \in JobId /\ jobs[job] # Nothing /\ jobs[job].creator = own
      BY <1>2, <1>3 DEF Sound, CreateSound
<1>5. own \in Binding /\ own # Nothing
      BY <1>1, AccessAssumption DEF AccessRequest, Identity, BindingOf, Binding
<1>6. bindings \in [JobId -> Binding \cup {Nothing}] BY DEF AccessInv, AccessTypeOK
<1> HIDE DEF own
<1>7. /\ bindings' \in [JobId -> Binding \cup {Nothing}]
      /\ \A j \in JobId : bindings'[j] = bindings[j] \/ (j = job /\ bindings'[j] = own)
      /\ \A j \in JobId : bindings[j] # Nothing => bindings'[j] = bindings[j]
      BY <1>4, <1>5, <1>6 DEF Bound, own
<1>8. AccessTypeOK' BY <1>7 DEF AccessInv, AccessTypeOK
<1>9. CreatorOwns' BY <1>4, <1>7 DEF AccessInv, CreatorOwns
<1>10. Entries' BY DEF AccessInv, Entries
<1>11. r.pc # "idle" => Sound(r, jobs', bindings')
  <2>1. SUFFICES ASSUME r.pc # "idle" PROVE Sound(r, jobs, bindings')
        OBVIOUS
  <2>2. /\ r.pc = "confirming" /\ r.op = thread[t].op /\ r.job = thread[t].job
        /\ r.id = thread[t].id /\ r.content = thread[t].content /\ r.key = thread[t].key
        BY <1>1, <2>1 DEF AccessRequest
  <2> QED BY <1>2, <1>3, <2>2 DEF Sound, CreateSound, OtherSound
<1>12. Threads' BY <1>7, <1>11, StoreStep
<1> QED BY <1>8, <1>9, <1>10, <1>12 DEF AccessInv

LEMMA BindJobInv ==
  ASSUME AccessInv, NEW t \in Thread, BindJob(t)
  PROVE  AccessInv'
<1>1. thread[t].pc = "binding" /\ thread[t] \in AccessRequest BY Busy DEF BindJob, AccessInv
<1>2. CASE End(t)
  <2>1. NoRequest.pc = "idle" BY DEF NoRequest
  <2> QED BY <1>1, <1>2, <2>1, BindInv DEF BindJob, End
<1>3. CASE Goto(t, "confirming")
  <2> DEFINE r == [thread[t] EXCEPT !.pc = "confirming"]
  <2>1. r \in AccessRequest BY <1>1 DEF AccessRequest
  <2>2. thread' = [thread EXCEPT ![t] = r] BY <1>3 DEF Goto
  <2> QED BY <1>1, <2>1, <2>2, BindInv DEF BindJob
<1> QED BY <1>2, <1>3 DEF BindJob

LEMMA BindFailsInv ==
  ASSUME AccessInv, NEW t \in Thread, BindFails(t)
  PROVE  AccessInv'
<1>1. NoRequest.pc = "idle" BY DEF NoRequest
<1>2. CASE bindings' = bindings BY <1>2, ThreadEnds DEF BindFails
<1>3. CASE bindings' = Bound(thread[t].job, BindingOf(thread[t].id))
      BY <1>1, <1>3, BindInv DEF BindFails, End
<1> QED BY <1>2, <1>3 DEF BindFails

LEMMA CrashServiceInv ==
  ASSUME AccessInv, CrashService
  PROVE  AccessInv'
BY DEF AccessInv, AccessTypeOK, CreatorOwns, Entries, Threads, CrashService, NoRequest

LEMMA AccessStep == AccessInv /\ [AccessNext]_accessVars => AccessInv'
<1> SUFFICES ASSUME AccessInv, [AccessNext]_accessVars PROVE AccessInv'
  OBVIOUS
<1>1. CASE UNCHANGED accessVars
      BY <1>1 DEF accessVars, AccessInv, AccessTypeOK, CreatorOwns, Entries, Threads, Sound,
         CreateSound, OtherSound
<1>2. CASE CrashService BY <1>2, CrashServiceInv
<1>3. ASSUME NEW t \in Thread, ThreadNext(t) PROVE AccessInv'
  <2>1. CASE \E k \in Key, c \in Content : AskCreate(t, k, c) BY <2>1, AskCreateInv
  <2>2. CASE \E op \in Operation \ {"create"}, j \in JobId : AskJob(t, op, j)
        BY <2>2, AskJobInv
  <2>3. CASE AuthorizeJob(t) BY <2>3, AuthorizeJobInv
  <2>4. CASE CreateJob(t) BY <2>4, CreateJobInv
  <2>5. CASE ReplayJob(t) BY <2>5, ReplayJobInv
  <2>6. CASE HandleJob(t) BY <2>6, HandleJobInv
  <2>7. CASE RefuseRequest(t) BY <2>7, ThreadEnds DEF RefuseRequest
  <2>8. CASE BindJob(t) BY <2>8, BindJobInv
  <2>9. CASE BindFails(t) BY <2>9, BindFailsInv
  <2>10. CASE ConfirmBinding(t) BY <2>10, ConfirmBindingInv
  <2>11. CASE Answer(t) BY <2>11, ThreadEnds DEF Answer
  <2> QED BY <1>3, <2>1, <2>2, <2>3, <2>4, <2>5, <2>6, <2>7, <2>8, <2>9, <2>10, <2>11
          DEF ThreadNext
<1> QED BY <1>1, <1>2, <1>3 DEF AccessNext

-------------------------------------------------------------------------------
(* Theorems *)

LEMMA AccessInvariant == AccessSpec => []AccessInv
BY AccessInitInv, AccessStep, PTL DEF AccessSpec

\* Every variable holds a value of its type.
THEOREM AccessTypeCorrect == AccessSpec => []AccessTypeOK
<1>1. AccessInv => AccessTypeOK BY DEF AccessInv
<1> QED BY <1>1, AccessInvariant, PTL

\* A job is bound to its creator and to nobody else, whichever request wrote the
\* binding, and however many failed or died before it.
THEOREM CreatorAlwaysOwns == AccessSpec => []CreatorOwns
<1>1. AccessInv => CreatorOwns BY DEF AccessInv
<1> QED BY <1>1, AccessInvariant, PTL

\* A request that succeeds concerns a job of its caller, and an upload is answered
\* with a job made from it.
THEOREM AnswersToOwners == AccessSpec => []OwnersOnly
<1>1. AccessInv => OwnersOnly
  <2> SUFFICES ASSUME AccessInv, NEW t \in Thread, thread[t].pc = "answered"
               PROVE  /\ jobs[thread[t].job] # Nothing
                      /\ Concerns(thread[t].id, jobs[thread[t].job].creator)
                      /\ thread[t].op = "create" =>
                           jobs[thread[t].job].content = thread[t].content
      BY DEF OwnersOnly
  <2>1. Sound(thread[t], jobs, bindings) BY DEF AccessInv, Threads
  <2> QED BY <2>1 DEF Sound, CreateSound, OtherSound, Concerns, BindingOf
<1> QED BY <1>1, AccessInvariant, PTL

\* Nobody changes a job that is not bound, and only its owner or a reviewer of its
\* tenant one that is.
THEOREM UnboundStayUntouched == AccessSpec => UnboundUntouched
<1> DEFINE Change ==
      \A j \in JobId : jobs[j] # Nothing /\ jobs'[j] # jobs[j] =>
        /\ bindings[j] # Nothing
        /\ \E t \in Thread :
             /\ thread[t].pc = "handling" /\ thread[t].job = j
             /\ Concerns(thread[t].id, jobs[j].creator)
<1>1. AccessInv /\ AccessNext => Change
  <2> SUFFICES ASSUME AccessInv, AccessNext, NEW j \in JobId,
                      jobs[j] # Nothing, jobs'[j] # jobs[j]
               PROVE  /\ bindings[j] # Nothing
                      /\ \E t \in Thread :
                           /\ thread[t].pc = "handling" /\ thread[t].job = j
                           /\ Concerns(thread[t].id, jobs[j].creator)
      OBVIOUS
  <2>1. PICK t \in Thread : CreateJob(t) \/ HandleJob(t)
        BY DEF AccessNext, ThreadNext, CrashService, AskCreate, AskJob, AuthorizeJob, ReplayJob,
           RefuseRequest, BindJob, BindFails, ConfirmBinding, Answer
  <2>2. jobs \in [JobId -> JobRecord \cup {Nothing}] BY DEF AccessInv, AccessTypeOK
  <2>3. ~CreateJob(t)
        BY <2>2 DEF CreateJob, Fresh, Unused
  <2>4. HandleJob(t) BY <2>1, <2>3
  <2>5. thread[t].pc = "handling" /\ thread[t].op # "create" BY <2>4 DEF HandleJob
  <2>6. thread[t].job = j BY <2>2, <2>4 DEF HandleJob
  <2>7. Sound(thread[t], jobs, bindings) BY <2>5 DEF AccessInv, Threads
  <2> QED BY <2>5, <2>6, <2>7 DEF Sound, OtherSound
<1>2. AccessInv /\ [AccessNext]_accessVars => [Change]_accessVars BY <1>1
<1>3. AccessSpec => [][Change]_accessVars BY <1>2, AccessInvariant, PTL DEF AccessSpec
<1> QED BY <1>3 DEF UnboundUntouched

-------------------------------------------------------------------------------
(* The ownership of jobs *)

\* A request on its way to bind has the entry of its key behind it.
Keyed ==
  \A t \in Thread : thread[t].pc = "binding" =>
    \E e \in idempotency :
      e.scope = ScopedKey(thread[t].id, thread[t].key) /\ e.job = thread[t].job

OwnershipInv == AccessInv /\ Keyed

\* The abstract state.
Made == {[scope |-> e.scope, job |-> e.job] : e \in idempotency}
Live == {j \in JobId : jobs[j] # Nothing /\ jobs[j].live}

\* A request that goes on, or ends, or begins, and is not on its way to bind but with the
\* entry of its key.
LEMMA KeyedStep ==
  ASSUME OwnershipInv, NEW t \in Thread, NEW r \in AccessRequest \cup {NoRequest},
         thread' = [thread EXCEPT ![t] = r], idempotency \subseteq idempotency',
         r.pc = "binding" =>
           \E e \in idempotency' : e.scope = ScopedKey(r.id, r.key) /\ e.job = r.job
  PROVE  Keyed'
<1>1. thread \in [Thread -> AccessRequest \cup {NoRequest}]
      BY DEF OwnershipInv, AccessInv, AccessTypeOK
<1>2. SUFFICES ASSUME NEW u \in Thread, thread'[u].pc = "binding"
               PROVE  \E e \in idempotency' : /\ e.scope = ScopedKey(thread'[u].id, thread'[u].key)
                                              /\ e.job = thread'[u].job
      BY DEF Keyed, ScopedKey
<1>3. CASE u = t BY <1>1, <1>2, <1>3
<1>4. CASE u # t
  <2>1. thread'[u] = thread[u] BY <1>1, <1>4
  <2> QED BY <1>2, <2>1 DEF OwnershipInv, Keyed
<1> QED BY <1>3, <1>4

\* A request that leaves the stores alone: it begins, moves on or ends, and reaches the
\* binding only by its key.
LEMMA QuietStep ==
  ASSUME OwnershipInv, NEW t \in Thread,
         \/ \E k \in Key, c \in Content : AskCreate(t, k, c)
         \/ \E op \in Operation \ {"create"}, j \in JobId : AskJob(t, op, j)
         \/ AuthorizeJob(t) \/ ReplayJob(t) \/ RefuseRequest(t)
         \/ ConfirmBinding(t) \/ Answer(t)
  PROVE  Keyed' /\ UNCHANGED <<jobs, idempotency, bindings>>
<1>1. UNCHANGED <<jobs, idempotency, bindings>>
      BY DEF AskCreate, AskJob, AuthorizeJob, ReplayJob, RefuseRequest, ConfirmBinding, Answer
<1>2. CASE \E r : thread' = [thread EXCEPT ![t] = r] /\ r.pc # "binding"
  <2> PICK r : thread' = [thread EXCEPT ![t] = r] /\ r.pc # "binding" BY <1>2
  <2>1. \A u \in Thread : thread'[u].pc = "binding" => thread'[u] = thread[u]
        BY DEF OwnershipInv, AccessInv, AccessTypeOK
  <2> QED BY <1>1, <2>1 DEF OwnershipInv, Keyed, ScopedKey
<1>3. CASE End(t)
  <2>1. NoRequest.pc # "binding" BY DEF NoRequest
  <2> QED BY <1>2, <1>3, <2>1 DEF End
<1>4. CASE \E k \in Key, c \in Content : AskCreate(t, k, c)
  <2>1. PICK k, c, id :
          thread' = [thread EXCEPT ![t] = [pc |-> "handling", id |-> id, op |-> "create",
                                           key |-> k, content |-> c, job |-> Nothing]]
        BY <1>4 DEF AskCreate, Begin
  <2>2. [pc |-> "handling", id |-> id, op |-> "create", key |-> k, content |-> c,
         job |-> Nothing].pc # "binding"
        OBVIOUS
  <2> QED BY <1>2, <2>1, <2>2
<1>5. CASE \E op \in Operation \ {"create"}, j \in JobId : AskJob(t, op, j)
  <2>1. PICK op, j, id :
          thread' = [thread EXCEPT ![t] = [pc |-> "looking", id |-> id, op |-> op,
                                           key |-> Nothing, content |-> Nothing, job |-> j]]
        BY <1>5 DEF AskJob, Begin
  <2>2. [pc |-> "looking", id |-> id, op |-> op, key |-> Nothing, content |-> Nothing,
         job |-> j].pc # "binding"
        OBVIOUS
  <2> QED BY <1>2, <2>1, <2>2
<1>6. ASSUME NEW pc \in {"handling", "answered"}, Goto(t, pc), thread[t].pc # "idle"
      PROVE  \E r : thread' = [thread EXCEPT ![t] = r] /\ r.pc # "binding"
  <2>1. thread[t] \in AccessRequest BY <1>6, Busy DEF OwnershipInv, AccessInv
  <2>2. [thread[t] EXCEPT !.pc = pc].pc # "binding" BY <2>1 DEF AccessRequest
  <2>3. thread' = [thread EXCEPT ![t] = [thread[t] EXCEPT !.pc = pc]] BY <1>6 DEF Goto
  <2> QED BY <2>2, <2>3
<1>7. CASE AuthorizeJob(t) \/ ConfirmBinding(t)
      BY <1>2, <1>3, <1>6, <1>7 DEF AuthorizeJob, ConfirmBinding
<1>8. CASE RefuseRequest(t) \/ Answer(t) BY <1>3, <1>8 DEF RefuseRequest, Answer
<1>9. CASE ReplayJob(t)
  <2>1. PICK e \in Entry(t) :
          IF SameDigest(t, e)
          THEN thread' = [thread EXCEPT ![t].pc = "binding", ![t].job = e.job]
          ELSE End(t)
        BY <1>9 DEF ReplayJob
  <2>2. CASE SameDigest(t, e)
    <3> DEFINE r == [thread[t] EXCEPT !.pc = "binding", !.job = e.job]
    <3>1. thread[t] \in AccessRequest BY <1>9, Busy DEF ReplayJob, OwnershipInv, AccessInv
    <3>2. e \in idempotency /\ e.scope = ScopedKey(thread[t].id, thread[t].key)
          BY DEF Entry
    <3>3. e.job \in JobId BY <3>2 DEF OwnershipInv, AccessInv, AccessTypeOK
    <3>4. r \in AccessRequest /\ r.id = thread[t].id /\ r.key = thread[t].key /\ r.job = e.job
          BY <3>1, <3>3 DEF AccessRequest
    <3>5. thread' = [thread EXCEPT ![t] = r] BY <2>1, <2>2
    <3> HIDE DEF r
    <3>6. ScopedKey(r.id, r.key) = ScopedKey(thread[t].id, thread[t].key) BY <3>4
    <3>7. \E d \in idempotency' : d.scope = ScopedKey(r.id, r.key) /\ d.job = r.job
          BY <1>1, <3>2, <3>4, <3>6
    <3> QED BY <1>1, <3>4, <3>5, <3>7, KeyedStep
  <2> QED BY <1>3, <2>1, <2>2
<1> QED BY <1>4, <1>5, <1>7, <1>8, <1>9

\* A step of the ownership or none.
OwnershipStep == Ownership!Next \/ UNCHANGED Ownership!ownershipVars

LEMMA CloseIsAStep ==
  ASSUME NEW j \in JobId, Ownership!Close(j)
  PROVE  OwnershipStep
BY DEF OwnershipStep, Ownership!Next

LEMMA HandIsAStep ==
  ASSUME NEW m \in Made, Ownership!Hand(m)
  PROVE  OwnershipStep
BY DEF OwnershipStep, Ownership!Next, Made

LEMMA NothingMoves ==
  ASSUME UNCHANGED <<jobs, idempotency, bindings>>
  PROVE  OwnershipStep
<1>1. Made' = Made /\ Live' = Live BY DEF Made, Live
<1> QED BY <1>1 DEF OwnershipStep, Ownership!ownershipVars, Made, Live

\* A scoped key is a key within a principal.
LEMMA ScopeOf ==
  ASSUME NEW r \in AccessRequest, r.key \in Key
  PROVE  /\ ScopedKey(r.id, r.key) \in Scope
         /\ Ownership!Principal(ScopedKey(r.id, r.key)) = BindingOf(r.id)
BY DEF AccessRequest, Identity, ScopedKey, Scope, BindingOf, Ownership!Principal

\* A new job is made by a key that has made none.
LEMMA CreateOwned ==
  ASSUME OwnershipInv, NEW t \in Thread, CreateJob(t)
  PROVE  Keyed' /\ Ownership!Next
<1> DEFINE s == ScopedKey(thread[t].id, thread[t].key)
           record == [creator |-> BindingOf(thread[t].id), content |-> thread[t].content,
                      live |-> TRUE]
<1>1. thread[t] \in AccessRequest /\ thread[t].op = "create" /\ thread[t].pc = "handling"
      BY Busy DEF CreateJob, OwnershipInv, AccessInv
<1>2. thread[t].content \in Content /\ thread[t].key \in Key
      BY <1>1 DEF OwnershipInv, AccessInv, Threads, Sound, CreateSound
<1>3. PICK j \in Fresh :
        /\ jobs' = [jobs EXCEPT ![j] = record]
        /\ idempotency' = idempotency \cup
             {[scope |-> s, content |-> thread[t].content, job |-> j]}
        /\ thread' = [thread EXCEPT ![t].pc = "binding", ![t].job = j]
      BY DEF CreateJob
<1> DEFINE entry == [scope |-> s, content |-> thread[t].content, job |-> j]
           r == [thread[t] EXCEPT !.pc = "binding", !.job = j]
<1>4. j \in JobId /\ jobs[j] = Nothing BY DEF Fresh, Unused
<1>5. s \in Scope BY <1>1, <1>2, ScopeOf
<1>6. entry.scope = s /\ entry.job = j OBVIOUS
<1>7. \A e \in idempotency : e.scope # s BY DEF CreateJob, Entry
<1>8. r \in AccessRequest /\ r.id = thread[t].id /\ r.key = thread[t].key /\ r.job = j
      BY <1>1, <1>4 DEF AccessRequest
<1>9. thread' = [thread EXCEPT ![t] = r] BY <1>3
<1>10. record.live OBVIOUS
<1>11. record # Nothing
  <2>1. record \in JobRecord
        BY <1>1, <1>2 DEF AccessRequest, Identity, BindingOf, Binding, JobRecord
  <2> QED BY <2>1, AccessAssumption, Zenon
<1>12. jobs \in [JobId -> JobRecord \cup {Nothing}] /\ bindings' = bindings
      BY DEF CreateJob, OwnershipInv, AccessInv, AccessTypeOK
<1>13. idempotency' = idempotency \cup {entry} BY <1>3
<1>14. ScopedKey(r.id, r.key) = s BY <1>8
<1> HIDE DEF s, r, record, entry
<1>15. Keyed' BY <1>6, <1>8, <1>9, <1>13, <1>14, KeyedStep
<1>17. Live' = Live \cup {j} BY <1>3, <1>4, <1>10, <1>11, <1>12 DEF Live
<1>18. Made' = Made \cup {[scope |-> s, job |-> j]} BY <1>6, <1>13 DEF Made
<1>19. \A m \in Made : m.scope # s /\ m.job # j
  <2> SUFFICES ASSUME NEW e \in idempotency PROVE e.scope # s /\ e.job # j BY DEF Made
  <2>1. jobs[e.job] # Nothing BY DEF OwnershipInv, AccessInv, Entries
  <2> QED BY <1>4, <1>7, <2>1
<1>20. Ownership!Make(s, j) BY <1>4, <1>12, <1>17, <1>18, <1>19 DEF Ownership!Make, Made, Live
<1>21. j \in Live' \ Live BY <1>4, <1>17 DEF Live
<1> QED BY <1>5, <1>15, <1>20, <1>21 DEF Ownership!Next, Live

\* A request handled changes a job that was handed to somebody.
LEMMA HandleOwned ==
  ASSUME OwnershipInv, NEW t \in Thread, HandleJob(t)
  PROVE  Keyed' /\ OwnershipStep
<1> DEFINE job == thread[t].job
<1>1. /\ thread[t] \in AccessRequest /\ thread[t].pc = "handling" /\ thread[t].op # "create"
      /\ UNCHANGED <<idempotency, bindings>>
      BY Busy DEF HandleJob, OwnershipInv, AccessInv
<1>2. Keyed'
  <2>1. NoRequest.pc # "binding" BY DEF NoRequest
  <2>2. [thread[t] EXCEPT !.pc = "answered"] \in AccessRequest
        /\ [thread[t] EXCEPT !.pc = "answered"].pc # "binding"
        BY <1>1 DEF AccessRequest
  <2>3. End(t) \/ thread' = [thread EXCEPT ![t] = [thread[t] EXCEPT !.pc = "answered"]]
        BY DEF HandleJob, Goto
  <2> QED BY <1>1, <2>1, <2>2, <2>3, KeyedStep DEF End
<1>3. Made' = Made BY <1>1 DEF Made
<1>4. job \in JobId /\ bindings[job] # Nothing
      BY <1>1 DEF OwnershipInv, AccessInv, Threads, Sound, OtherSound
<1>5. jobs \in [JobId -> JobRecord \cup {Nothing}] BY DEF OwnershipInv, AccessInv, AccessTypeOK
<1>6. CASE UNCHANGED jobs BY <1>1, <1>2, <1>6, NothingMoves
<1>7. CASE jobs[job] # Nothing /\ jobs' = [jobs EXCEPT ![job].live = FALSE]
  <2> DEFINE new == [jobs[job] EXCEPT !.live = FALSE]
  <2>1. new \in JobRecord /\ ~new.live BY <1>4, <1>5, <1>7 DEF JobRecord
  <2>2. jobs' = [jobs EXCEPT ![job] = new] BY <1>7
  <2> HIDE DEF new
  <2>3. new # Nothing BY <2>1, AccessAssumption
  <2>4. Live' = Live \ {job} BY <1>4, <1>5, <2>1, <2>2, <2>3 DEF Live
  <2>5. CASE job \in Live
    <3>1. PICK j \in JobId : j = job BY <1>4
    <3>2. bindings[j] # Nothing /\ j \in Live /\ Live' = Live \ {j}
          BY <1>4, <2>4, <2>5, <3>1
    <3>3. Ownership!Close(j) BY <1>1, <1>3, <3>2 DEF Ownership!Close, Made, Live
    <3> QED BY <1>2, <1>3, <3>3, CloseIsAStep
  <2>6. CASE job \notin Live
    <3>1. Live' = Live BY <2>4, <2>6
    <3> QED BY <1>1, <1>2, <1>3, <3>1 DEF OwnershipStep, Ownership!ownershipVars, Made, Live
  <2> QED BY <2>5, <2>6
<1> QED BY <1>6, <1>7 DEF HandleJob

\* A binding hands the job of the key to its principal, unless it is handed already.
LEMMA BindOwned ==
  ASSUME OwnershipInv, NEW t \in Thread, thread[t].pc = "binding",
         bindings' = Bound(thread[t].job, BindingOf(thread[t].id)),
         UNCHANGED <<jobs, idempotency>>
  PROVE  OwnershipStep
<1> DEFINE job == thread[t].job
           s == ScopedKey(thread[t].id, thread[t].key)
<1>1. thread[t] \in AccessRequest BY Busy DEF OwnershipInv, AccessInv
<1>2. thread[t].op = "create" /\ thread[t].key \in Key /\ job \in JobId
      BY <1>1 DEF OwnershipInv, AccessInv, Threads, Sound, CreateSound, OtherSound
<1>3. s \in Scope /\ Ownership!Principal(s) = BindingOf(thread[t].id) BY <1>1, <1>2, ScopeOf
<1>4. PICK e \in idempotency : e.scope = s /\ e.job = job BY DEF OwnershipInv, Keyed
<1>5. PICK j \in JobId : j = job BY <1>2
<1>6. PICK m \in Made : m.scope = s /\ m.job = j
  <2> HIDE DEF s, job
  <2>1. [scope |-> e.scope, job |-> e.job] \in Made BY DEF Made
  <2> HIDE DEF Made
  <2> QED BY <1>4, <1>5, <2>1
<1>7. Made' = Made /\ Live' = Live BY DEF Made, Live
<1>8. CASE bindings[j] = Nothing
  <2>1. bindings[m.job] = Nothing BY <1>6, <1>8
  <2>2. bindings' = [bindings EXCEPT ![m.job] = Ownership!Principal(m.scope)]
        BY <1>3, <1>5, <1>6, <1>8 DEF Bound
  <2>3. Ownership!Hand(m) BY <1>7, <2>1, <2>2 DEF Ownership!Hand, Made, Live
  <2> QED BY <2>3, HandIsAStep
<1>9. CASE bindings[j] # Nothing
  <2>1. bindings' = bindings BY <1>5, <1>9 DEF Bound
  <2> QED BY <2>1, NothingMoves
<1> QED BY <1>8, <1>9

LEMMA BindingOwned ==
  ASSUME OwnershipInv, NEW t \in Thread, BindJob(t) \/ BindFails(t)
  PROVE  Keyed' /\ OwnershipStep
<1>1. thread[t].pc = "binding" /\ UNCHANGED <<jobs, idempotency>> BY DEF BindJob, BindFails
<1>2. \/ bindings' = Bound(thread[t].job, BindingOf(thread[t].id))
      \/ bindings' = bindings
      BY DEF BindJob, BindFails
<1>3. Keyed'
  <2>1. thread[t] \in AccessRequest BY <1>1, Busy DEF OwnershipInv, AccessInv
  <2>2. [thread[t] EXCEPT !.pc = "confirming"] \in AccessRequest
        /\ [thread[t] EXCEPT !.pc = "confirming"].pc # "binding"
        BY <2>1 DEF AccessRequest
  <2>3. End(t) \/ thread' = [thread EXCEPT ![t] = [thread[t] EXCEPT !.pc = "confirming"]]
        BY DEF BindJob, BindFails, Goto
  <2>4. NoRequest.pc # "binding" BY DEF NoRequest
  <2> QED BY <1>1, <2>2, <2>3, <2>4, KeyedStep DEF End
<1> QED BY <1>1, <1>2, <1>3, BindOwned, NothingMoves

LEMMA OwnershipNext ==
  ASSUME OwnershipInv, [AccessNext]_accessVars
  PROVE  OwnershipInv' /\ OwnershipStep
<1>1. AccessInv' BY AccessStep DEF OwnershipInv
<1>2. CASE UNCHANGED accessVars
  <2>1. Keyed' BY <1>2 DEF accessVars, OwnershipInv, Keyed, ScopedKey
  <2> QED BY <1>1, <1>2, <2>1, NothingMoves DEF accessVars, OwnershipInv
<1>3. CASE CrashService
  <2>1. Keyed' BY <1>3 DEF CrashService, Keyed, NoRequest
  <2> QED BY <1>1, <1>3, <2>1, NothingMoves DEF CrashService, OwnershipInv
<1>4. ASSUME NEW t \in Thread, ThreadNext(t) PROVE Keyed' /\ OwnershipStep
  <2>1. CASE CreateJob(t) BY <2>1, CreateOwned DEF OwnershipStep
  <2>2. CASE HandleJob(t) BY <2>2, HandleOwned
  <2>3. CASE BindJob(t) \/ BindFails(t) BY <2>3, BindingOwned
  <2> QED BY <1>4, <2>1, <2>2, <2>3, QuietStep, NothingMoves DEF ThreadNext
<1> QED BY <1>1, <1>2, <1>3, <1>4 DEF AccessNext, OwnershipInv

LEMMA OwnershipInit == AccessInit => OwnershipInv /\ Ownership!Init
<1> SUFFICES ASSUME AccessInit PROVE OwnershipInv /\ Ownership!Init OBVIOUS
<1>1. idempotency = {} BY DEF AccessInit
<1>2. Keyed BY DEF AccessInit, Keyed, NoRequest
<1>3. Made = {} BY <1>1 DEF Made
<1>4. Live = {} BY DEF AccessInit, Live
<1>5. Ownership!Init BY <1>3, <1>4 DEF AccessInit, Ownership!Init, Made, Live
<1> QED BY <1>2, <1>5, AccessInitInv DEF OwnershipInv

\* The request threads, the two stores, failures, crashes and repeated uploads implement
\* JobOwnership: one job of each key, handed once to its principal, changed by nobody before.
THEOREM AccessImplementsOwnership == AccessSpec => RefinesOwnership
<1>1. OwnershipInv /\ [AccessNext]_accessVars => OwnershipInv' /\ OwnershipStep
      BY OwnershipNext
<1>2. OwnershipStep => [Ownership!Next]_(Ownership!ownershipVars) BY DEF OwnershipStep
<1>3. AccessSpec => Ownership!Init /\ [][Ownership!Next]_(Ownership!ownershipVars)
      BY <1>1, <1>2, OwnershipInit, PTL DEF AccessSpec
<1> QED BY <1>3 DEF RefinesOwnership, Ownership!Spec
==============================================================================
