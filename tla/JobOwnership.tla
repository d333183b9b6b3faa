----------------------------- MODULE JobOwnership -----------------------------
(***************************************************************************)
(* What the API promises about jobs and their owners, whatever threads,    *)
(* failing stores, crashes and repeated requests do underneath: the key of *)
(* a principal makes one job and always leads back to it; the job is       *)
(* handed, once, to the principal that made it; nobody changes it before.  *)
(***************************************************************************)
CONSTANTS JobId,
          Scope,     \* keys, each within its principal: an owner in a tenant
          Nothing

VARIABLES made,   \* which key has made which job
          owner,  \* [JobId -> the principal it was handed to, or Nothing]
          live    \* the jobs that nobody has brought to an end

ownershipVars == <<made, owner, live>>

Init ==
  /\ made = {}
  /\ owner = [j \in JobId |-> Nothing]
  /\ live = {}

Principal(s) == [owner |-> s.owner, tenant |-> s.tenant]

\* A key that was not used makes a job that was not there.
Make(s, j) ==
  /\ j \in JobId
  /\ made' = made \cup {[scope |-> s, job |-> j]}
  /\ \A m \in made : m.scope # s /\ m.job # j
  /\ live' = live \cup {j}
  /\ UNCHANGED owner

\* A job is handed to the principal of the key that made it, and to no other after that.
Hand(m) ==
  /\ owner[m.job] = Nothing
  /\ owner' = [owner EXCEPT ![m.job] = Principal(m.scope)]
  /\ UNCHANGED <<made, live>>

\* A job that was handed to somebody is brought to an end.
Close(j) ==
  /\ owner[j] # Nothing
  /\ j \in live
  /\ live' = live \ {j}
  /\ UNCHANGED <<made, owner>>

Next ==
  \/ \E j \in live' \ live : \E s \in Scope : Make(s, j)
  \/ \E m \in made : Hand(m)
  \/ \E j \in JobId : Close(j)

Spec == Init /\ [][Next]_ownershipVars
===============================================================================
