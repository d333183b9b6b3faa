------------------------------ MODULE BlobStore ------------------------------
(***************************************************************************)
(* The content-addressed blob files of the SQLite store, and the artifact  *)
(* rows and deletion records that refer to them.                           *)
(*                                                                         *)
(* Rows and files share no transaction.  A flush writes files before it    *)
(* commits rows; an expiry commits a deletion record before anything is    *)
(* unlinked; a start drains the records and sweeps what nothing refers to. *)
(* Every one of these runs under SQLite's write lock, but a crash or a     *)
(* file-system error can fall between any two steps, and the reload of the *)
(* committed snapshot reads files without the lock.                        *)
(*                                                                         *)
(* A process is one SQLiteJobStore: its mutex makes it sequential.  The    *)
(* lease statements that claim, renew and release work touch neither       *)
(* artifacts nor files, and are left out.                                  *)
(***************************************************************************)
EXTENDS Naturals

CONSTANTS Process, Job,
          Digest,           \* digests, ordered as the text of their hashes is
          Shard,            \* two-character shard directories
          ShardOf(_),       \* the directory of a digest
          NoProcess,        \* the write lock is free
          MaxCrash,         \* bound: processes lost
          MaxWriteFault,    \* bound: failed file writes
          MaxDeleteFault    \* bound: failed file deletions

ASSUME BlobAssumption ==
  /\ Digest \subseteq Nat
  /\ \A d \in Digest : ShardOf(d) \in Shard
  /\ NoProcess \notin Process
  /\ {MaxCrash, MaxWriteFault, MaxDeleteFault} \subseteq Nat

VARIABLES
  artifacts,  \* per job: whether it may still receive artifacts, and its live digests
  pending,    \* the pending_blob_deletions table
  files,      \* digests with a complete blob file
  temps,      \* digests with an interrupted temporary file
  dirs,       \* shard directories that exist
  lock,       \* the process in a write transaction
  proc,       \* each process: where it is in the store's code
  faults,     \* failures so far, by kind
  unswept     \* some failure since the last sweep may have left a file behind

vars == <<artifacts, pending, files, temps, dirs, lock, proc, faults, unswept>>
disk == <<files, temps, dirs>>
tables == <<artifacts, pending>>

-------------------------------------------------------------------------------
(* State *)

Artifacts == [Job -> [open : BOOLEAN, live : SUBSET Digest]]

\* The digests some artifact row has data_present for.
LiveIn(rows) == UNION {rows[j].live : j \in Job}
Live == LiveIn(artifacts)

\* "draining", "sweeping" and "opening" are the stages of a start; a commit is
\* followed by a drain and a rollback by an "opening" as well (boot is FALSE).
\* In "erased" the digest being drained is unlinked and its record still there.
Pc == {"down", "draining", "erased", "sweep", "sweeping", "open", "opening",
       "up", "writing", "discarding"}

InTransaction == {"erased", "sweeping", "writing", "discarding"}

\* plan: the rows a transaction is to commit; done: the digests it has written
\* for them; fresh: _transaction_new_blobs; need: digests a reload has yet to read.
Proc == [pc : Pc, boot : BOOLEAN, plan : Artifacts, done : SUBSET Digest,
         fresh : SUBSET Digest, need : SUBSET Digest]

FaultKind == {"crash", "write", "delete"}

NoRows == [j \in Job |-> [open |-> TRUE, live |-> {}]]
Down == [pc |-> "down", boot |-> FALSE, plan |-> NoRows, done |-> {}, fresh |-> {},
         need |-> {}]
Up == [Down EXCEPT !.pc = "up"]

Init ==
  /\ artifacts = NoRows
  /\ pending = {}
  /\ files = {} /\ temps = {} /\ dirs = {}
  /\ lock = NoProcess
  /\ proc = [p \in Process |-> Down]
  /\ faults = [k \in FaultKind |-> 0]
  /\ unswept = FALSE

At(p, pc) == proc[p].pc = pc
Goto(p, pc) == proc' = [proc EXCEPT ![p].pc = pc]
Become(p, s) == proc' = [proc EXCEPT ![p] = s]
Unlocked == lock = NoProcess
NoFault == UNCHANGED <<faults, unswept>>

\* A failure of kind k, which may leave a file behind.
Fault(k, bound) ==
  /\ faults[k] < bound
  /\ faults' = [faults EXCEPT ![k] = faults[k] + 1]
  /\ unswept' = TRUE

\* Where a stage leads: onwards in a start, else to serving.
After(p, pc) == IF proc[p].boot THEN pc ELSE "up"
\* An error that escapes a start closes the connection.
Escaped(p) == IF proc[p].boot THEN Down ELSE Up

-------------------------------------------------------------------------------
(* The outer transaction: BEGIN IMMEDIATE, reload, mutate, flush, commit *)

\* What the body of a `with store.lock` block may make of the artifact rows:
\* nothing, artifacts stored for an open job, or an expiry.
Stored(j, D) == [artifacts EXCEPT ![j].live = artifacts[j].live \cup D]
Expired(j) == [artifacts EXCEPT ![j] = [open |-> FALSE, live |-> {}]]
Edits ==
  {artifacts}
  \cup {Stored(j, D) : j \in {k \in Job : artifacts[k].open}, D \in SUBSET Digest}
  \cup {Expired(j) : j \in Job}

\* The reload reads every live blob and fails on a missing one.
BeginWith(p, rows) ==
  /\ At(p, "up")
  /\ Unlocked
  /\ Live \subseteq files
  /\ lock' = p
  /\ Become(p, [Up EXCEPT !.pc = "writing", !.plan = rows])
  /\ NoFault /\ UNCHANGED <<tables, disk>>

Begin(p) == \E rows \in Edits : BeginWith(p, rows)

\* JobWorker's loop opens a transaction on every turn, if only to look for
\* overdue jobs.
BeginIdle(p) == BeginWith(p, artifacts)

\* Faulty variant: every digest the flush wrote counts as new.
FreshWheneverWritten(p, d) == proc[p].fresh \cup {d}

\* _transaction_new_blobs after d is written.
FreshAfter(p, d) ==
  IF d \notin files \/ d \notin Live THEN proc[p].fresh \cup {d} ELSE proc[p].fresh

\* blob_store.write: verifies the file that exists, or replaces it into place.
WriteBlob(p, d) ==
  /\ At(p, "writing")
  /\ d \in LiveIn(proc[p].plan) \ proc[p].done
  /\ files' = files \cup {d}
  /\ dirs' = dirs \cup {ShardOf(d)}
  /\ proc' = [proc EXCEPT ![p].done = @ \cup {d}, ![p].fresh = FreshAfter(p, d)]
  /\ NoFault /\ UNCHANGED <<tables, temps, lock>>

\* blob_store.write raises: before os.replace, or after it with the file in
\* place and not reported as created.
WriteFails(p, d) ==
  /\ At(p, "writing")
  /\ d \in LiveIn(proc[p].plan) \ proc[p].done
  /\ Fault("write", MaxWriteFault)
  /\ files' \in {files, files \cup {d}}
  /\ dirs' = dirs \cup {ShardOf(d)}
  /\ Goto(p, "discarding")
  /\ UNCHANGED <<tables, temps, lock>>

\* The body raised, or the flush after its writes.
Abort(p) ==
  /\ At(p, "writing")
  /\ Goto(p, "discarding")
  /\ NoFault /\ UNCHANGED <<tables, disk, lock>>

\* Faulty variant: a digest that is dropped is not recorded for deletion.
ForgottenBy(rows) == {}

\* Digests that lose their last live row when rows are committed.
DroppedBy(rows) == Live \ LiveIn(rows)

Commit(p) ==
  /\ At(p, "writing")
  /\ LiveIn(proc[p].plan) = proc[p].done
  /\ artifacts' = proc[p].plan
  /\ pending' = pending \cup DroppedBy(proc[p].plan)
  /\ lock' = NoProcess
  /\ Become(p, [Up EXCEPT !.pc = "draining"])
  /\ NoFault /\ UNCHANGED disk

\* _discard_uncommitted_blobs, then the rollback and a reload.
DiscardBlob(p, d) ==
  /\ At(p, "discarding")
  /\ d \in proc[p].fresh
  /\ files' = files \ {d}
  /\ proc' = [proc EXCEPT ![p].fresh = @ \ {d}]
  /\ NoFault /\ UNCHANGED <<tables, temps, dirs, lock>>

DiscardFails(p, d) ==
  /\ At(p, "discarding")
  /\ d \in proc[p].fresh
  /\ Fault("delete", MaxDeleteFault)
  /\ proc' = [proc EXCEPT ![p].fresh = @ \ {d}]
  /\ UNCHANGED <<tables, disk, lock>>

\* Faulty variant: the transaction is left open.
RollbackForgotten(p) ==
  /\ At(p, "discarding")
  /\ proc[p].fresh = {}
  /\ Become(p, [Up EXCEPT !.pc = "open"])
  /\ NoFault /\ UNCHANGED <<tables, disk, lock>>

Rollback(p) ==
  /\ At(p, "discarding")
  /\ proc[p].fresh = {}
  /\ lock' = NoProcess
  /\ Become(p, [Up EXCEPT !.pc = "open"])
  /\ NoFault /\ UNCHANGED <<tables, disk>>

-------------------------------------------------------------------------------
(* _drain_pending_deletions: one transaction per digest, in their order *)

First(S) == CHOOSE d \in S : \A e \in S : d <= e

\* Faulty variant: the lookup counts the rows that expiry left behind, and so
\* finds one for every digest.
NeverErasable(d) == FALSE

\* No job has a live row for d.
Erasable(d) == d \notin Live

DrainBlob(p) ==
  LET d == First(pending)
  IN /\ At(p, "draining")
     /\ Unlocked /\ pending # {}
     /\ Erasable(d) => ShardOf(d) \in dirs
     /\ files' = IF Erasable(d) THEN files \ {d} ELSE files
     /\ lock' = p
     /\ Goto(p, "erased")
     /\ NoFault /\ UNCHANGED <<tables, temps, dirs>>

\* Faulty variant: the record stays.
DrainRecordKept(p) ==
  /\ At(p, "erased")
  /\ lock' = NoProcess
  /\ Goto(p, "draining")
  /\ NoFault /\ UNCHANGED <<tables, disk>>

DrainRecord(p) ==
  /\ At(p, "erased")
  /\ pending' = pending \ {First(pending)}
  /\ lock' = NoProcess
  /\ Goto(p, "draining")
  /\ NoFault /\ UNCHANGED <<artifacts, disk>>

DrainDone(p) ==
  /\ At(p, "draining")
  /\ Unlocked /\ pending = {}
  /\ Goto(p, After(p, "sweep"))
  /\ NoFault /\ UNCHANGED <<tables, disk, lock>>

\* The directory cannot be opened for its fsync: blob_deletion_failed.
DrainMeetsNoShard(p) ==
  LET d == First(pending)
  IN /\ At(p, "draining")
     /\ Unlocked /\ pending # {}
     /\ Erasable(d) /\ ShardOf(d) \notin dirs
     /\ Become(p, Escaped(p))
     /\ NoFault /\ UNCHANGED <<tables, disk, lock>>

\* unlink or fsync fails.
DrainFails(p) ==
  LET d == First(pending)
  IN /\ At(p, "draining")
     /\ Unlocked /\ pending # {}
     /\ Erasable(d)
     /\ Fault("delete", MaxDeleteFault)
     /\ files' \in {files, files \ {d}}
     /\ Become(p, Escaped(p))
     /\ UNCHANGED <<tables, temps, dirs, lock>>

\* "database is locked" after the busy timeout; after a commit it escapes to
\* the client although the commit stands.
GiveUp(p) ==
  /\ proc[p].pc \in {"draining", "sweep"}
  /\ lock \notin {p, NoProcess}
  /\ Become(p, Escaped(p))
  /\ NoFault /\ UNCHANGED <<tables, disk, lock>>

-------------------------------------------------------------------------------
(* A start: drain, sweep, open the committed snapshot *)

Start(p) ==
  /\ At(p, "down")
  /\ Become(p, [Down EXCEPT !.pc = "draining", !.boot = TRUE])
  /\ NoFault /\ UNCHANGED <<tables, disk, lock>>

SweepBegin(p) ==
  /\ At(p, "sweep")
  /\ Unlocked
  /\ lock' = p
  /\ Goto(p, "sweeping")
  /\ NoFault /\ UNCHANGED <<tables, disk>>

Orphaned == files \ Live

SweepFile(p, d) ==
  /\ At(p, "sweeping")
  /\ \/ d \in Orphaned /\ files' = files \ {d} /\ UNCHANGED temps
     \/ d \in temps /\ temps' = temps \ {d} /\ UNCHANGED files
  /\ NoFault /\ UNCHANGED <<tables, dirs, lock, proc>>

InShard(s) == {d \in files \cup temps : ShardOf(d) = s}

\* rmdir succeeds on an empty directory.
SweepShard(p, s) ==
  /\ At(p, "sweeping")
  /\ s \in dirs /\ InShard(s) = {}
  /\ dirs' = dirs \ {s}
  /\ NoFault /\ UNCHANGED <<tables, files, temps, lock, proc>>

SweepEnd(p) ==
  /\ At(p, "sweeping")
  /\ Orphaned = {} /\ temps = {}
  /\ \A s \in dirs : InShard(s) # {}
  /\ lock' = NoProcess
  /\ Goto(p, "open")
  /\ unswept' = FALSE
  /\ UNCHANGED <<tables, disk, faults>>

\* An unlink of the sweep fails; the start with it.
SweepFails(p) ==
  /\ At(p, "sweeping")
  /\ Orphaned # {} \/ temps # {}
  /\ Fault("delete", MaxDeleteFault)
  /\ lock' = NoProcess
  /\ Become(p, Down)
  /\ UNCHANGED <<tables, disk>>

\* _reload_committed_snapshot: a deferred BEGIN fixes what the rows say, then
\* every live blob is read, without the write lock.
SnapshotOpen(p) ==
  /\ At(p, "open")
  /\ proc' = [proc EXCEPT ![p].pc = "opening", ![p].need = Live]
  /\ NoFault /\ UNCHANGED <<tables, disk, lock>>

SnapshotRead(p, d) ==
  /\ At(p, "opening")
  /\ d \in proc[p].need \cap files
  /\ proc' = [proc EXCEPT ![p].need = @ \ {d}]
  /\ NoFault /\ UNCHANGED <<tables, disk, lock>>

SnapshotDone(p) ==
  /\ At(p, "opening")
  /\ proc[p].need = {}
  /\ Become(p, Up)
  /\ NoFault /\ UNCHANGED <<tables, disk, lock>>

\* artifact_blob_missing.
SnapshotFails(p) ==
  /\ At(p, "opening")
  /\ proc[p].need \ files # {}
  /\ Become(p, Escaped(p))
  /\ NoFault /\ UNCHANGED <<tables, disk, lock>>

-------------------------------------------------------------------------------
(* A crash: SQLite rolls an open transaction back, files stay as they are *)

Crash(p) ==
  /\ ~At(p, "down")
  /\ Fault("crash", MaxCrash)
  /\ lock' = IF lock = p THEN NoProcess ELSE lock
  /\ Become(p, Down)
  /\ \/ UNCHANGED <<temps, dirs>>
     \/ \E d \in LiveIn(proc[p].plan) \ (proc[p].done \cup files) :
          /\ At(p, "writing")
          /\ temps' = temps \cup {d}
          /\ dirs' = dirs \cup {ShardOf(d)}
  /\ UNCHANGED <<tables, files>>

-------------------------------------------------------------------------------
(* Specification *)

\* What a process does of its own accord once it is under way.
Progress(p) ==
  \/ Commit(p) \/ Rollback(p)
  \/ DrainBlob(p) \/ DrainRecord(p) \/ DrainDone(p) \/ DrainMeetsNoShard(p)
  \/ SweepBegin(p) \/ SweepEnd(p)
  \/ SnapshotOpen(p) \/ SnapshotDone(p) \/ SnapshotFails(p)
  \/ \E d \in Digest :
       WriteBlob(p, d) \/ DiscardBlob(p, d) \/ SweepFile(p, d) \/ SnapshotRead(p, d)
  \/ \E s \in Shard : SweepShard(p, s)

\* Failures of the file system and of the process, at most as many as the bounds.
Fail(p) ==
  \/ DrainFails(p) \/ SweepFails(p) \/ Crash(p)
  \/ \E d \in Digest : WriteFails(p, d) \/ DiscardFails(p, d)

CalmNext == \E p \in Process : Start(p) \/ Begin(p) \/ Progress(p) \/ Fail(p)
Next == CalmNext \/ \E p \in Process : Abort(p) \/ GiveUp(p)

Spec == Init /\ [][Next]_vars

\* Erasure is promised to a process that is started again when it is down, that
\* polls when it is up, and whose transactions get the lock and do not raise
\* for ever: a body that raises and a busy timeout are left out.
Fairness ==
  \A p \in Process : WF_vars(Start(p)) /\ SF_vars(BeginIdle(p)) /\ SF_vars(Progress(p))

FairSpec == Init /\ [][CalmNext]_vars /\ Fairness

-------------------------------------------------------------------------------
(* Properties *)

\* Every variable holds a value of its type, and the write lock is with the one
\* process that is inside a transaction.
TypeOK ==
  /\ artifacts \in Artifacts
  /\ pending \subseteq Digest
  /\ files \subseteq Digest /\ temps \subseteq Digest
  /\ dirs \subseteq Shard
  /\ lock \in Process \cup {NoProcess}
  /\ proc \in [Process -> Proc]
  /\ faults \in [FaultKind -> Nat]
  /\ unswept \in BOOLEAN
  /\ \A p \in Process : lock = p <=> proc[p].pc \in InTransaction

\* Every digest a committed row refers to has its file, through crashes, failed
\* flushes, drains and sweeps of any process, and whichever jobs share the
\* digest.  A store in which it fails can neither be opened nor written to.
BlobsPresent == Live \subseteq files

\* Bytes that no row refers to do not outlive their reason: unless a failure
\* since the last sweep explains it, a file is live, recorded for deletion, or
\* of the transaction in progress.
FilesAccounted ==
  unswept \/ files \subseteq Live \cup pending \cup UNION {proc[p].fresh : p \in Process}

\* docs/durable-local-persistence.md: "Deletion work is recorded transactionally
\* and retried on the next store startup if an operating-system deletion fails."
\* What an expiry records is erased in the end, or a live row claims it again.
ErasureCompletes ==
  \A d \in Digest : d \in pending ~> (d \in Live \/ d \notin files)

\* The records themselves are worked off.
PendingDrained ==
  \A d \in Digest : d \in pending ~> d \notin pending

\* docs/durable-local-persistence.md lists "missing blob" among the corruptions a
\* start fails closed on: a reload that misses a blob has met a store that lacks it.
ReloadMeetsItsBlobs ==
  BlobsPresent => \A p \in Process : At(p, "opening") => proc[p].need \subseteq files
==============================================================================
