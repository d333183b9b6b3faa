\* Custody, the HTTP server, the drills, the governance documents, the choice of an
\* engine and the tiling of a page, each on its own.
CONSTANTS
  Request = {q1, q2}
  Trigger = {"purpose_revocation", "retention_expiry"}
  None = None
  Applicants <- Staff
  MaxRead = 1
  Connection = {c1, c2, c3}
  MaxRequests = 2
  NoConnection = NoConnection
  PoolWorker = {w1, w2, w3}
  Idle = Idle
  HighestToken = 4
  Window = 2
  ScoreEngine = {e1, e2}
  Artifact = {a, b}
  NoVariant = NoVariant
  MaxFaulty = 1
  Patch = 3
  Stride = 2
  MaxSide = 6
SPECIFICATION EngineSpec
INVARIANTS
  TypeOK
  ReceiptsTell
  RevocationAnchored
  AuditComplete
  IndependentEvidence
  SlotsAccounted
  ClaimsBacked
  SelectedIsProven
  PatchesFit
PROPERTIES
  RefinesRemoval
  ReceiptedIsRevoked
  ServerGoesOn
  DrillsConclude
CHECK_DEADLOCK FALSE
