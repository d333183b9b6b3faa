------------------------------- MODULE MCService -------------------------------
(***************************************************************************)
(* The job API: the pages of a job, who may touch which job, and the keys  *)
(* behind both, on small instances.  They share no state: the first state  *)
(* chooses which of them moves, and the others keep still.  A shadow run   *)
(* moves beside the pages of a job that no crash and no failure disturbs.  *)
(***************************************************************************)
EXTENDS ShadowJob, ProductionAccess, KeyBoundary, TLC

VARIABLE subject  \* the component that moves

-------------------------------------------------------------------------------
(* Access: one subject in two tenants, a reviewer, and tokens that do not pass. *)

Token(s, t, roles) ==
  [subject |-> s, tenant |-> t, roles |-> roles, issuer |-> "idp", signed |-> TRUE,
   audience |-> TRUE, nbf |-> 1, exp |-> 9, revoked |-> FALSE]

Stranger == Token("dan", "south", {"reviewer"})

Tokens ==
  {Token("ann", "north", {"client"}), Token("ann", "south", {"client"}),
   Token("bob", "north", {"reviewer"}), Token("dan", "north", {"client", "reviewer"}),
   [Stranger EXCEPT !.signed = FALSE], [Stranger EXCEPT !.issuer = "elsewhere"],
   [Stranger EXCEPT !.nbf = 7], [Stranger EXCEPT !.exp = 4], [Stranger EXCEPT !.revoked = TRUE]}

\* Threads are alike.
Interchangeable == Permutations(Thread)

-------------------------------------------------------------------------------
(* Keys: a workload of production, which holds a grant for staging as well. *)

Home == [w \in {"api"} |-> "production"]
Place == [c \in {"north", "south", "test"} |-> IF c = "test" THEN "staging" ELSE "production"]
Grants == {"api"} \X {"secret.read", "kms.encrypt", "kms.decrypt"} \X {"production", "staging"}

-------------------------------------------------------------------------------
(* The composition *)

serviceVars == <<vars, shadowVars, accessVars, keyVars, subject>>

ServiceInit ==
  /\ subject \in {"pages", "shadow", "access", "keys"}
  /\ Init /\ ShadowInit /\ AccessInit /\ KeyInit
  /\ subject # "pages" => store = CHOOSE s \in Stores : TRUE
  /\ subject # "keys" => active = CHOOSE v \in Version : TRUE

\* Bound: what goes on beside a shadow run.  A reviewer cites the bundle it saw, and a job
\* is cancelled or expires while no worker is on it.
Undisturbed ==
  /\ crashes' = 0 /\ worker'.pc # "failing" /\ job'.state # "FAILED"
  /\ job'.cancel \/ job'.state = "EXPIRED" => worker'.pc = "idle"
  /\ \A r \in Reviewer, p \in Page :
       reviewer'[r].seen[p].candidate # None => reviewer'[r].seen[p].bundle # None

ServiceNext ==
  /\ UNCHANGED subject
  /\ \/ subject = "pages" /\ Next /\ UNCHANGED <<shadowVars, accessVars, keyVars>>
     \/ /\ subject = "shadow"
        /\ \/ Next /\ Undisturbed /\ UNCHANGED shadowVars
           \/ ShadowNext
        /\ UNCHANGED <<accessVars, keyVars>>
     \/ subject = "access" /\ AccessNext /\ UNCHANGED <<vars, shadowVars, keyVars>>
     \/ subject = "keys" /\ KeyNext /\ UNCHANGED <<vars, shadowVars, accessVars>>

ServiceSpec == ServiceInit /\ [][ServiceNext]_serviceVars

\* Every variable of the pages, the shadow runs, the access tables and the key boundary
\* holds a value of its type.
ServiceTypeOK == TypeOK /\ ShadowTypeOK /\ AccessTypeOK /\ KeyTypeOK
==============================================================================
