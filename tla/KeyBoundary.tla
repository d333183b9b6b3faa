------------------------------ MODULE KeyBoundary ------------------------------
(***************************************************************************)
(* Secrets and keys: ProductionSecretResolver and ProductionEnvelopeCrypto *)
(* between a workload, the provider's KMS and the audit sink.              *)
(*                                                                         *)
(* One call is a row of steps, each of which may fail: authorize the       *)
(* workload, read the state of the key, let the provider act, check what   *)
(* it returned, write the audit event, answer.  Meanwhile keys are rotated *)
(* and disabled, and identities expire.                                    *)
(***************************************************************************)
EXTENDS Naturals

CONSTANTS Workload,     \* service identities, as the workload IdP has verified them
          Environment,
          EnvironmentOf,  \* the environment of a workload
          Context,      \* encryption contexts: tenant, object and purpose in one environment
          EnvironmentAt,  \* the environment of a context
          Granted,      \* the exact grants: <<workload, action, environment>>
          Version,      \* key and secret versions
          MaxCall,      \* bound: what the provider has done so often
          NoVersion

ASSUME KeyAssumption ==
  /\ EnvironmentOf \in [Workload -> Environment]
  /\ EnvironmentAt \in [Context -> Environment]
  /\ MaxCall \in Nat
  /\ NoVersion \notin Version

VARIABLES
  enabled,   \* the versions that are enabled, or not revoked
  active,    \* the version that the selector "active" stands for
  expired,   \* the workloads whose identity has expired
  call,      \* the call each workload has in progress
  trail,     \* the audit events that were committed
  released,  \* what was handed out
  done       \* how many operations the provider has carried out

keyVars == <<enabled, active, expired, call, trail, released, done>>

-------------------------------------------------------------------------------
(* State *)

Action == {"secret.read", "kms.encrypt", "kms.decrypt"}
NoCall == [pc |-> "idle"]

\* What was handed out: by which call, for which context, from which version, on which
\* evidence of the provider, by its how many-eth operation.  An envelope is the result of
\* kms.encrypt.
Result == [action : Action, by : Workload, context : Context, version : Version,
           evidence : 1..MaxCall, at : 1..MaxCall]
\* The audit event of a success; that of a provider's failure hands nothing out and is
\* left out.  Its time tells two uses of one envelope apart, whose evidence is the same:
\* the number of the operation stands for it.
AuditEvent == [action : Action, by : Workload, evidence : 1..MaxCall, at : 1..MaxCall]
Envelope == {r \in released : r.action = "kms.encrypt"}

KeyInit ==
  /\ enabled = Version
  /\ active \in Version
  /\ expired = {}
  /\ call = [w \in Workload |-> NoCall]
  /\ trail = {} /\ released = {}
  /\ done = 0

-------------------------------------------------------------------------------
(* The provider and the clock *)

\* Calls in progress know which versions were enabled at any time since they began.
NoticeEnabled(E) ==
  call' = [w \in Workload |->
             IF call[w] = NoCall THEN NoCall ELSE [call[w] EXCEPT !.known = @ \cup E]]

Rotate(v) ==
  /\ v \in enabled /\ v # active
  /\ active' = v
  /\ UNCHANGED <<enabled, expired, call, trail, released, done>>

DisableVersion(v) ==
  /\ v \in enabled
  /\ enabled' = enabled \ {v}
  /\ UNCHANGED <<active, expired, call, trail, released, done>>

EnableVersion(v) ==
  /\ v \notin enabled
  /\ enabled' = enabled \cup {v}
  /\ NoticeEnabled({v})
  /\ UNCHANGED <<active, expired, trail, released, done>>

ExpireIdentity(w) ==
  /\ w \notin expired
  /\ expired' = expired \cup {w}
  /\ UNCHANGED <<enabled, active, call, trail, released, done>>

-------------------------------------------------------------------------------
(* A call *)

Advance(w, pc) == call' = [call EXCEPT ![w].pc = pc]
GiveUp(w) == call' = [call EXCEPT ![w] = NoCall]

\* authorize: a verified, unexpired identity, its own environment, an exact grant.
Authorized(w, a, e) ==
  /\ w \notin expired
  /\ EnvironmentOf[w] = e
  /\ <<w, a, e>> \in Granted

New(w, a, c, s, e) ==
  [pc |-> IF a = "secret.read" THEN "acting" ELSE "state", action |-> a, context |-> c,
   selector |-> s, envelope |-> e, checked |-> NoVersion, result |-> NoVersion, evidence |-> 0,
   at |-> 0, known |-> enabled]

\* The payload, the key's environment and purpose, and the authorization are checked.
AskSecretOrEncrypt(w, a, c, s) ==
  /\ call[w] = NoCall /\ a \in {"secret.read", "kms.encrypt"}
  /\ Authorized(w, a, EnvironmentAt[c])
  /\ call' = [call EXCEPT ![w] = New(w, a, c, s, {})]
  /\ UNCHANGED <<enabled, active, expired, trail, released, done>>

AskDecrypt(w, c, s, e) ==
  /\ call[w] = NoCall
  /\ Authorized(w, "kms.decrypt", EnvironmentAt[c])
  /\ call' = [call EXCEPT ![w] = New(w, "kms.decrypt", c, s, {e})]
  /\ UNCHANGED <<enabled, active, expired, trail, released, done>>

VersionFor(w) == IF call[w].selector = NoVersion THEN active ELSE call[w].selector

\* Faulty: the state of the key is read and not looked at.
StateIgnored(v) == TRUE
StateEnabled(v) == v \in enabled

\* _verified_key_state; revocation that was not checked counts as a failure.
ReadKeyState(w) ==
  /\ call[w].pc = "state"
  /\ IF StateEnabled(VersionFor(w))
     THEN call' = [call EXCEPT ![w].pc = IF call[w].action = "kms.decrypt" THEN "envelope" ELSE "acting",
                               ![w].checked = VersionFor(w)]
     ELSE GiveUp(w)
  /\ UNCHANGED <<enabled, active, expired, trail, released, done>>

\* Faulty variant of _validate_envelope: the context is not compared.
FitsAnyContext(w, version, context) == version = call[w].checked
\* The envelope's version is the one whose state was read, its digest the context's.
Fits(w, version, context) == version = call[w].checked /\ context = call[w].context

\* decrypt looks at the envelope before the provider does.
CheckEnvelope(w) ==
  /\ call[w].pc = "envelope"
  /\ \E e \in call[w].envelope :
       IF Fits(w, e.version, e.context) THEN Advance(w, "acting") ELSE GiveUp(w)
  /\ UNCHANGED <<enabled, active, expired, trail, released, done>>

\* The provider has acted: what it returned waits for the audit event.
Performed(w, version, evidence) ==
  /\ done < MaxCall
  /\ done' = done + 1
  /\ call' = [call EXCEPT ![w].pc = "auditing", ![w].result = version,
                          ![w].evidence = evidence, ![w].at = done + 1]

\* What the provider returned does not pass.
Discarded(w) == done < MaxCall /\ done' = done + 1 /\ GiveUp(w)

\* The provider opens the envelope; the audit event will name the envelope's evidence.
Decrypt(w) ==
  /\ call[w].pc = "acting" /\ call[w].action = "kms.decrypt"
  /\ \E e \in call[w].envelope : Performed(w, e.version, e.evidence)
  /\ UNCHANGED <<enabled, active, expired, trail, released>>

\* The provider encrypts with the version the selector stands for by now, and the
\* envelope is checked; what does not fit is thrown away.
Encrypt(w) ==
  /\ call[w].pc = "acting" /\ call[w].action = "kms.encrypt"
  /\ IF Fits(w, VersionFor(w), call[w].context)
     THEN Performed(w, VersionFor(w), done + 1)
     ELSE Discarded(w)
  /\ UNCHANGED <<enabled, active, expired, trail, released>>

\* The secret manager returns a version with its lease and its revocation state.
ResolveSecret(w) ==
  /\ call[w].pc = "acting" /\ call[w].action = "secret.read"
  /\ IF StateEnabled(VersionFor(w))
     THEN Performed(w, VersionFor(w), done + 1)
     ELSE Discarded(w)
  /\ UNCHANGED <<enabled, active, expired, trail, released>>

Happened(w) ==
  [action |-> call[w].action, by |-> w, evidence |-> call[w].evidence, at |-> call[w].at]

\* _append_audit returns: the event of the success is committed.
AppendAudit(w) ==
  /\ call[w].pc = "auditing"
  /\ trail' = trail \cup {Happened(w)}
  /\ Advance(w, "answering")
  /\ UNCHANGED <<enabled, active, expired, released, done>>

\* Faulty: an error of the sink is noted and the call goes on.
AuditFailureSwallowed(w) ==
  /\ call[w].pc = "auditing"
  /\ Advance(w, "answering")
  /\ UNCHANGED <<enabled, active, expired, trail, released, done>>

\* The sink raises, before or after the event was stored: the provider has acted, and the
\* caller gets nothing.
AuditFails(w) ==
  /\ call[w].pc = "auditing"
  /\ trail' \in {trail, trail \cup {Happened(w)}}
  /\ GiveUp(w)
  /\ UNCHANGED <<enabled, active, expired, released, done>>

\* The result is returned to the caller.
AnswerCall(w) ==
  /\ call[w].pc = "answering"
  /\ released' = released \cup
       {[action |-> call[w].action, by |-> w, context |-> call[w].context,
         version |-> call[w].result, evidence |-> call[w].evidence, at |-> call[w].at]}
  /\ GiveUp(w)
  /\ UNCHANGED <<enabled, active, expired, trail, done>>

\* The provider refuses or cannot be reached.
ProviderFails(w) ==
  /\ call[w].pc \in {"state", "acting"}
  /\ GiveUp(w)
  /\ UNCHANGED <<enabled, active, expired, trail, released, done>>

CallNext(w) ==
  \/ \E a \in Action, c \in Context, s \in Version \cup {NoVersion} : AskSecretOrEncrypt(w, a, c, s)
  \/ \E c \in Context, s \in Version \cup {NoVersion}, e \in Envelope : AskDecrypt(w, c, s, e)
  \/ ReadKeyState(w) \/ CheckEnvelope(w) \/ Decrypt(w) \/ Encrypt(w) \/ ResolveSecret(w)
  \/ AppendAudit(w) \/ AuditFails(w) \/ AnswerCall(w) \/ ProviderFails(w)

KeyNext ==
  \/ \E v \in Version : Rotate(v) \/ DisableVersion(v) \/ EnableVersion(v)
  \/ \E w \in Workload : ExpireIdentity(w) \/ CallNext(w)

KeySpec == KeyInit /\ [][KeyNext]_keyVars

-------------------------------------------------------------------------------
(* Properties *)

Call == [pc : {"state", "envelope", "acting", "auditing", "answering"}, action : Action, context : Context,
         selector : Version \cup {NoVersion}, envelope : SUBSET Result,
         checked : Version \cup {NoVersion}, result : Version \cup {NoVersion},
         evidence : 0..MaxCall, at : 0..MaxCall, known : SUBSET Version]

\* Every variable holds a value of its type.
KeyTypeOK ==
  /\ enabled \subseteq Version /\ active \in Version
  /\ expired \subseteq Workload
  /\ \A w \in Workload : call[w] \in Call \cup {NoCall}
  /\ trail \subseteq AuditEvent /\ released \subseteq Result
  /\ done \in 0..MaxCall

\* Whatever is handed out is on the audit trail before it is, in an event of its own: not
\* when the sink fails after the provider has acted, and not on the strength of the event
\* of an earlier use of the same envelope.
NothingUnaudited ==
  [][\A r \in released' \ released :
       [action |-> r.action, by |-> r.by, evidence |-> r.evidence, at |-> r.at] \in trail]_keyVars

\* A plaintext was sealed for the very context it was asked for, and in the
\* environment of who asked; so was every envelope and secret.
OwnContextOnly ==
  \A r \in released :
    /\ EnvironmentOf[r.by] = EnvironmentAt[r.context]
    /\ r.action = "kms.decrypt" =>
         \E e \in Envelope : /\ e.evidence = r.evidence
                             /\ e.context = r.context /\ e.version = r.version

\* No version serves a call during the whole of which it was disabled, however keys
\* are rotated while it runs.
DisabledServesNobody ==
  [][\A w \in Workload : call[w] # NoCall /\ released' # released /\ call'[w] = NoCall =>
       call[w].result \in call[w].known \cup {NoVersion}]_keyVars
==============================================================================
