\* Liveness of a cancellation that meets a job in its pipeline.
CONSTANTS
  Job = {j1}
  Worker = {w1}
  Token = {t1, t2}
  NoToken = NoToken
  NoJob = NoJob
  Pages = 1
  Lease = 3
  BusyTimeout = 1
  Resolution = 1
  MaxAttempt = 1
  MaxCrash = 0
SPECIFICATION FairSpec
PROPERTY CancellationTakesEffect
