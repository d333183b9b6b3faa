\* An active lease is stolen on a clock finer than a second.
CONSTANTS
  Job = {j1}
  Worker = {w1, w2}
  Token = {t1, t2, t3}
  NoToken = NoToken
  NoJob = NoJob
  Pages = 1
  Lease = 4
  BusyTimeout = 1
  Resolution = 2
  MaxAttempt = 1
  MaxCrash = 0
SPECIFICATION Spec
PROPERTY LeaseNotStolen
