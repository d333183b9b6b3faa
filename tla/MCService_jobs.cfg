\* Over both stores: a lost worker, a stale screen, a candidate the validator vetoes,
\* blocks that raise and are, or are not, rolled back.
CONSTANTS
  Page = {1, 2}
  Candidate = {good, bad}
  Vetoed = {bad}
  None = None
  Reviewer = {r1}
  Stores = {"sqlite", "memory"}
  MaxAttempt = 2
  MaxCrash = 1
  Observer = {o1}
  Thread = {t1, t2}
  TokenEvidence <- Tokens
  Issuer = {"idp"}
  Subject = {"ann", "bob", "dan"}
  Tenant = {"north", "south"}
  Key = {"k"}
  Content = {"c", "d"}
  JobId = {1, 2}
  Moment = {5}
  Skew = 1
  Nothing = Nothing
  Workload = {"api"}
  Environment = {"production", "staging"}
  EnvironmentOf <- Home
  Context = {"north", "south", "test"}
  EnvironmentAt <- Place
  Granted <- Grants
  Version = {"v1", "v2"}
  MaxCall = 2
  NoVersion = NoVersion
SYMMETRY Interchangeable
SPECIFICATION ServiceSpec
INVARIANTS
  ServiceTypeOK
  ApprovalsBound
  ExportCurrent
  TargetsReviewable
  WorkerInStep
  ExpiredHoldsNothing
  OwnContextOnly
  OwnersOnly
PROPERTIES
  BatchIsTransaction
  KeepsLifecycle
  UnboundUntouched
  RefinesOwnership
  ApprovedAsSeen
  NothingUnaudited
  DisabledServesNobody
  ShadowBesideReview
