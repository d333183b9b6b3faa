----------------------------- MODULE CustodyRemoval -----------------------------
(***************************************************************************)
(* What custody promises about the bytes of one artifact and their         *)
(* removal, whatever intents, barriers, checkpoints and failing steps do   *)
(* underneath: bytes are given out only while nobody has asked for their   *)
(* removal; once they are withdrawn no copy is added; a receipt says that  *)
(* a backup is all that is left, and only then is the removal confirmed    *)
(* and the backup erased.                                                  *)
(***************************************************************************)
CONSTANTS Place,    \* where copies are kept, "backup" among them
          Request,  \* removal requests
          Way,      \* how bytes are given out
          None

VARIABLES stage,    \* how far the artifact has come
          where,    \* the places that have a copy
          asked,    \* the requests that were made
          receipt,  \* the request the receipt is for, or None
          given     \* how bytes were given out

removalVars == <<stage, where, asked, receipt, given>>

Init ==
  /\ stage = "absent"
  /\ where = {}
  /\ asked = {}
  /\ receipt = None
  /\ given = {}

\* The artifact is taken in, or copied to more places; a request does not hold this up.
Keep ==
  /\ stage \in {"absent", "held"}
  /\ stage' = "held"
  /\ where \subseteq where' /\ where' \subseteq Place /\ where' # {}
  /\ UNCHANGED <<asked, receipt, given>>

Give(how) ==
  /\ stage = "held"
  /\ asked = {}
  /\ given' = given \cup {[how |-> how, removing |-> FALSE]}
  /\ UNCHANGED <<stage, where, asked, receipt>>

Ask(q) ==
  /\ asked' = asked \cup {q}
  /\ UNCHANGED <<stage, where, receipt, given>>

\* The removal begins; how far it gets shows in the copies that are left.
Withdraw(q) ==
  /\ stage = "held"
  /\ stage' = "withdrawn"
  /\ where' \subseteq where
  /\ asked' = asked \cup {q}
  /\ receipt' = None \/ (receipt' = q /\ where' \subseteq {"backup"})
  /\ UNCHANGED given

Confirm ==
  /\ stage = "withdrawn"
  /\ receipt # None
  /\ stage' = "confirmed"
  /\ UNCHANGED <<where, asked, receipt, given>>

Erase ==
  /\ stage = "confirmed"
  /\ stage' = "erased"
  /\ where' = {}
  /\ UNCHANGED <<asked, receipt, given>>

Next ==
  \/ Keep \/ Confirm \/ Erase
  \/ \E how \in Way : Give(how)
  \/ \E q \in Request : Ask(q) \/ Withdraw(q)

Spec == Init /\ [][Next]_removalVars
==============================================================================
