\* A reload reads blob files while another process erases one.
CONSTANTS
  Process = {p1, p2}
  Job = {j1, j2}
  Digest = {2, 3}
  Shard = {"aa", "bb"}
  ShardOf <- MCShardOf
  NoProcess = NoProcess
  MaxCrash = 0
  MaxWriteFault = 0
  MaxDeleteFault = 0
SPECIFICATION Spec
INVARIANT ReloadMeetsItsBlobs
