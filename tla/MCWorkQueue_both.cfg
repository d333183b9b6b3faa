\* Fencing and settling on a clock of half seconds.
CONSTANTS
  Job = {j1, j2}
  Worker = {w1, w2}
  Token = {1, 2, 3}
  NoToken = NoToken
  NoJob = NoJob
  Pages = 1
  Lease = 3
  BusyTimeout = 1
  Resolution = 2
  MaxAttempt = 2
  MaxCrash = 1
  Steady = {w1}
  Contended = {j1}
SPECIFICATION QueueSpec
INVARIANTS
  TypeOK
  QueueReflectsJobs
  HolderInStep
PROPERTIES
  RefinesLifecycle
  LeaseKeptToTheSecond
  ActiveJobsSettle
