------------------------------- MODULE MCEngine -------------------------------
(***************************************************************************)
(* The components that share no state with another one, in one run.  The   *)
(* first state chooses which of them moves; the others keep still.         *)
(***************************************************************************)
EXTENDS CustodyReference, HttpServer, OperationalDrills, StageChain, EngineChoice, TilePlan

VARIABLE subject  \* the component that moves

-------------------------------------------------------------------------------
(* Custody: identities enough for a deletion with an independent verifier and for an
   emergency, and two whose roles collide with those of another account of the same
   person. *)

Custodian(actor, person, roles) ==
  [actor |-> actor, person |-> person, roles |-> roles, live |-> TRUE]

Authority == Custodian("authority", "ann", {"deletion_authority", "emergency_requester"})
Executor == Custodian("executor", "bob",
              {"deletion_executor", "emergency_approver", "artifact_access_operator"})
Verifier == Custodian("verifier", "cat", {"deletion_receipt_verifier", "emergency_approver"})
SecondBob == Custodian("second", "bob", {"deletion_receipt_verifier"})
SecondCat == Custodian("third", "cat", {"deletion_executor"})

Staff == {Authority, Executor, Verifier, SecondBob, SecondCat}

-------------------------------------------------------------------------------
(* The composition *)

engineVars == <<vars, httpVars, drillVars, filed, choiceVars, tileVars, subject>>

\* No server runs beside the other components.
NoServer ==
  /\ slots = MaxRequests
  /\ conn = [c \in Connection |-> "none"] /\ acceptor = NoConnection
  /\ phase = "exited" /\ loop = "ended" /\ stop = TRUE

\* No drill runs: nothing is left to be done.
NoDrill ==
  /\ progress = "reported" /\ calls = <<>> /\ tasks = <<>>
  /\ held = [w \in PoolWorker |-> Idle]
  /\ highest = 0 /\ accepted = <<>> /\ anyRefused = FALSE /\ commits = 0

EngineInit ==
  /\ subject \in {"custody", "http", "drills", "chain", "choice", "tiles"}
  /\ Init
  /\ IF subject = "http" THEN HttpInit ELSE NoServer
  /\ IF subject = "drills" THEN DrillInit ELSE NoDrill
  /\ ChainInit
  /\ ChoiceInit
  /\ TileInit /\ (subject # "tiles" => side = [a \in Axis |-> 1])

EngineNext ==
  /\ UNCHANGED subject
  /\ \/ subject = "custody" /\ Next /\ UNCHANGED <<httpVars, drillVars, filed, choiceVars, tileVars>>
     \/ subject = "http" /\ HttpNext /\ UNCHANGED <<vars, drillVars, filed, choiceVars, tileVars>>
     \/ subject = "drills" /\ DrillNext /\ UNCHANGED <<vars, httpVars, filed, choiceVars, tileVars>>
     \/ subject = "chain" /\ ChainNext /\ UNCHANGED <<vars, httpVars, drillVars, choiceVars, tileVars>>
     \/ subject = "choice" /\ ChoiceNext /\ UNCHANGED <<vars, httpVars, drillVars, filed, tileVars>>
     \/ subject = "tiles" /\ TileNext /\ UNCHANGED <<vars, httpVars, drillVars, filed, choiceVars>>

\* The fairness of the components that have some: a component that keeps still has
\* none of the actions enabled that these ask for.
EngineFairness == CustodyFairness /\ HttpFairness /\ DrillFairness

EngineSpec == EngineInit /\ [][EngineNext]_engineVars /\ EngineFairness
==============================================================================
