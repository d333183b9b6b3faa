\* One process, restarted after every failure: deletion work completes.
CONSTANTS
  Process = {p1}
  Job = {j1, j2}
  Digest = {1, 2, 3}
  Shard = {"aa", "bb"}
  ShardOf <- MCShardOf
  NoProcess = NoProcess
  MaxCrash = 1
  MaxWriteFault = 1
  MaxDeleteFault = 1
SPECIFICATION FairSpec
PROPERTIES
  ErasureCompletes
  PendingDrained
