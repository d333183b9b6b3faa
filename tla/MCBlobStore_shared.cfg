\* Two processes share the directory; failures of every kind.
CONSTANTS
  Process = {p1, p2}
  Job = {j1, j2}
  Digest = {2, 3}
  Shard = {"aa", "bb"}
  ShardOf <- MCShardOf
  NoProcess = NoProcess
  MaxCrash = 1
  MaxWriteFault = 1
  MaxDeleteFault = 1
SPECIFICATION Spec
SYMMETRY Interchangeable
INVARIANTS
  TypeOK
  BlobsPresent
  FilesAccounted
