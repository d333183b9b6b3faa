----------------------------- MODULE MCBlobStore -----------------------------
(***************************************************************************)
(* BlobStore on small instances.  Digests are numbers in the order of      *)
(* their hashes; 1 and 2 share a shard directory, 3 has one of its own.    *)
(***************************************************************************)
EXTENDS BlobStore, TLC

MCShardOf(d) == IF d <= 2 THEN "aa" ELSE "bb"

Interchangeable == Permutations(Process) \cup Permutations(Job)
==============================================================================
