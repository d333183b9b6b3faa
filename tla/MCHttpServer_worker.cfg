\* The worker's loop when cleaning up raises.
CONSTANTS
  Connection = {c1}
  MaxRequests = 1
  NoConnection = NoConnection
SPECIFICATION FairHttpSpec
PROPERTY WorkerGoesOn
CHECK_DEADLOCK FALSE
