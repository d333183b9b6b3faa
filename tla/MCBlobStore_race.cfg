\* A second process commits an expiry while the first one starts.
CONSTANTS
  Process = {p1, p2}
  Job = {j1, j2}
  Digest = {2, 3}
  Shard = {"aa", "bb"}
  ShardOf <- MCShardOf
  NoProcess = NoProcess
  MaxCrash = 0
  MaxWriteFault = 0
  MaxDeleteFault = 0
SPECIFICATION FairSpec
PROPERTY ErasureCompletes
