--------------------------- MODULE BlobStoreProofs ---------------------------
(***************************************************************************)
(* That the rows of the store never refer to a missing blob.               *)
(*                                                                         *)
(* BlobsPresent is not inductive: a commit publishes the rows of a         *)
(* transaction whose files were written some steps earlier, and a failed   *)
(* flush deletes files.  IInv adds what a process in a transaction knows:  *)
(* what it has written is still there, and what it would discard is not    *)
(* live.  Other processes cannot disturb either, because every one of them *)
(* changes rows and files under the write lock only.                       *)
(***************************************************************************)
EXTENDS BlobStore, TLAPS

\* What a process in state s knows about the files fs and the live digests.
Sound(s, fs, live) ==
  /\ s.pc = "writing" => /\ s.done \subseteq fs
                         /\ s.done \subseteq LiveIn(s.plan)
                         /\ s.fresh \cap live = {}
  /\ s.pc = "discarding" => s.fresh \cap live = {}

IInv ==
  /\ TypeOK
  /\ BlobsPresent
  /\ \A p \in Process : Sound(proc[p], files, Live)

\* Live digests are digests.
LEMMA LiveTyped ==
  ASSUME NEW rows \in Artifacts
  PROVE  LiveIn(rows) \subseteq Digest
BY DEF LiveIn, Artifacts

\* Whatever the body of a transaction makes of the rows, they are rows.
LEMMA EditsTyped ==
  ASSUME artifacts \in Artifacts
  PROVE  Edits \subseteq Artifacts
<1>1. ASSUME NEW j \in Job, NEW D \in SUBSET Digest PROVE Stored(j, D) \in Artifacts
  BY DEF Stored, Artifacts
<1>2. ASSUME NEW j \in Job PROVE Expired(j) \in Artifacts
  BY DEF Expired, Artifacts
<1> QED
  BY <1>1, <1>2 DEF Edits

\* The initial and the restarted process are in no transaction.
LEMMA DownTyped ==
  /\ Down \in Proc /\ Up \in Proc
  /\ Down.pc = "down" /\ Up.pc = "up"
BY DEF Down, Up, Proc, Pc, NoRows, Artifacts

\* Counting a failure keeps the counters typed.
LEMMA FaultTyped ==
  ASSUME faults \in [FaultKind -> Nat], NEW k \in FaultKind, NEW b, Fault(k, b)
  PROVE  faults' \in [FaultKind -> Nat] /\ unswept' \in BOOLEAN
BY DEF Fault

\* Initially nothing is live and nobody holds the lock.
LEMMA InitInv == Init => IInv
<1> SUFFICES ASSUME Init PROVE IInv
  OBVIOUS
<1>1. TypeOK
  BY DownTyped, BlobAssumption DEF Init, TypeOK, NoRows, Artifacts, InTransaction, FaultKind
<1>2. Live = {}
  BY DEF Init, NoRows, Live, LiveIn
<1> QED
  BY <1>1, <1>2, DownTyped DEF Init, IInv, BlobsPresent, Sound

\* The step of one process p to state s keeps the invariant if p keeps its own
\* part of it and either nobody else holds the lock or rows and files stay.
LEMMA Frame ==
  ASSUME IInv,
         NEW p \in Process, NEW s \in Proc,
         proc' = [proc EXCEPT ![p] = s],
         artifacts' \in Artifacts, pending' \subseteq Digest,
         files' \subseteq Digest, temps' \subseteq Digest, dirs' \subseteq Shard,
         faults' \in [FaultKind -> Nat], unswept' \in BOOLEAN,
         \/ lock \in {p, NoProcess} /\ lock' \in {p, NoProcess}
         \/ lock' = lock /\ files' = files /\ artifacts' = artifacts,
         lock' = p <=> s.pc \in InTransaction,
         Live' \subseteq files',
         Sound(s, files', Live')
  PROVE  IInv'
<1>1. \A q \in Process \ {p} : lock' = q <=> lock = q
  BY BlobAssumption
<1>2. \A q \in Process : proc'[q] = IF q = p THEN s ELSE proc[q]
  BY DEF IInv, TypeOK
<1>3. proc' \in [Process -> Proc]
  BY DEF IInv, TypeOK
<1>4. lock' \in Process \cup {NoProcess}
  BY DEF IInv, TypeOK
<1>5. \A q \in Process : lock' = q <=> proc'[q].pc \in InTransaction
  BY <1>1, <1>2 DEF IInv, TypeOK
<1>6. TypeOK'
  BY <1>3, <1>4, <1>5 DEF TypeOK
<1>7. ASSUME NEW q \in Process PROVE Sound(proc'[q], files', Live')
  <2>1. CASE q = p
    BY <2>1, <1>2
  <2>2. CASE q # p /\ lock \in {p, NoProcess}
    BY <2>2, <1>2, BlobAssumption DEF IInv, TypeOK, Sound, InTransaction
  <2>3. CASE q # p /\ files' = files /\ artifacts' = artifacts
    BY <2>3, <1>2 DEF IInv, Live, LiveIn
  <2> QED
    BY <2>1, <2>2, <2>3
<1> QED
  BY <1>6, <1>7 DEF IInv, BlobsPresent

\* A transaction begins, writes, and commits or is rolled back.
LEMMA TransactionInv ==
  ASSUME IInv, NEW p \in Process,
         \/ Begin(p) \/ Commit(p) \/ Abort(p) \/ Rollback(p)
         \/ \E d \in Digest : WriteBlob(p, d) \/ WriteFails(p, d)
                              \/ DiscardBlob(p, d) \/ DiscardFails(p, d)
  PROVE  IInv'
<1> USE DEF Unlocked, At, Goto, Become, NoFault, tables, disk, InTransaction
<1>t. /\ TypeOK /\ proc[p] \in Proc /\ artifacts \in Artifacts
      /\ BlobsPresent /\ Sound(proc[p], files, Live)
  BY DEF IInv, TypeOK
<1>w. At(p, "writing") \/ At(p, "discarding") => lock = p
  BY <1>t DEF TypeOK
<1>1. ASSUME NEW rows \in Edits, BeginWith(p, rows) PROVE IInv'
  <2> DEFINE s == [Up EXCEPT !.pc = "writing", !.plan = rows]
  <2>1. rows \in Artifacts
    BY <1>t, EditsTyped
  <2>2. /\ s \in Proc /\ s.pc = "writing" /\ s.done = {} /\ s.fresh = {}
    BY <2>1, DownTyped DEF Proc, Pc, Up, Down
  <2>3. Sound(s, files', Live')
    BY <2>2 DEF Sound
  <2>4. Live' \subseteq files'
    BY <1>1 DEF BeginWith, Live, LiveIn
  <2> QED
    BY <1>1, <1>t, <2>2, <2>3, <2>4, Frame DEF BeginWith, TypeOK
<1>2. CASE Commit(p)
  <2>1. Live' = LiveIn(proc[p].plan)
    BY <1>2 DEF Commit, Live, LiveIn
  <2>2. Live' \subseteq files'
    BY <1>2, <1>t, <2>1 DEF Commit, Sound
  <2> DEFINE s == [Up EXCEPT !.pc = "draining"]
  <2>3. s \in Proc /\ s.pc = "draining"
    BY DownTyped DEF Proc, Pc, Up, Down
  <2>4. proc[p].plan \in Artifacts
    BY <1>t DEF Proc
  <2>5. DroppedBy(proc[p].plan) \subseteq Digest
    BY <1>t, LiveTyped DEF DroppedBy, Live
  <2>6. pending' \subseteq Digest
    BY <1>2, <1>t, <2>5 DEF Commit, TypeOK
  <2> QED
    BY <1>2, <1>t, <1>w, <2>2, <2>3, <2>4, <2>6, Frame, BlobAssumption
       DEF Commit, TypeOK, Sound
<1>3. CASE Abort(p)
  <2> DEFINE s == [proc[p] EXCEPT !.pc = "discarding"]
  <2>1. /\ s \in Proc /\ s.pc = "discarding" /\ s.fresh = proc[p].fresh
        /\ proc' = [proc EXCEPT ![p] = s]
    BY <1>3, <1>t DEF Abort, Proc, Pc
  <2>2. Live' = Live
    BY <1>3 DEF Abort, Live, LiveIn
  <2>3. Sound(s, files', Live')
    BY <1>3, <1>t, <2>1, <2>2 DEF Abort, Sound
  <2> QED
    BY <1>3, <1>t, <1>w, <2>1, <2>2, <2>3, Frame DEF Abort, TypeOK, BlobsPresent
<1>4. CASE Rollback(p)
  <2> DEFINE s == [Up EXCEPT !.pc = "open"]
  <2>1. s \in Proc /\ s.pc = "open"
    BY DownTyped DEF Proc, Pc, Up, Down
  <2>2. Live' = Live
    BY <1>4 DEF Rollback, Live, LiveIn
  <2> QED
    BY <1>4, <1>t, <1>w, <2>1, <2>2, Frame, BlobAssumption
       DEF Rollback, TypeOK, BlobsPresent, Sound
<1>5. ASSUME NEW d \in Digest, WriteBlob(p, d) PROVE IInv'
  <2> DEFINE s == [proc[p] EXCEPT !.done = @ \cup {d}, !.fresh = FreshAfter(p, d)]
  <2>1. FreshAfter(p, d) \subseteq Digest /\ FreshAfter(p, d) \cap Live = {}
    BY <1>5, <1>t DEF WriteBlob, FreshAfter, Sound, BlobsPresent, Proc
  <2>2. /\ s \in Proc /\ s.pc = "writing" /\ s.plan = proc[p].plan
        /\ s.done = proc[p].done \cup {d} /\ s.fresh = FreshAfter(p, d)
        /\ proc' = [proc EXCEPT ![p] = s]
    BY <1>5, <1>t, <2>1 DEF WriteBlob, Proc, Pc
  <2>3. Live' = Live
    BY <1>5 DEF WriteBlob, Live, LiveIn
  <2>4. Sound(s, files', Live')
    BY <1>5, <1>t, <2>1, <2>2, <2>3 DEF WriteBlob, Sound
  <2>5. files' \subseteq Digest /\ dirs' \subseteq Shard /\ Live' \subseteq files'
    BY <1>5, <1>t, <2>3, BlobAssumption DEF WriteBlob, TypeOK, BlobsPresent
  <2> QED
    BY <1>5, <1>t, <1>w, <2>2, <2>4, <2>5, Frame DEF WriteBlob, TypeOK
<1>6. ASSUME NEW d \in Digest, WriteFails(p, d) PROVE IInv'
  <2> DEFINE s == [proc[p] EXCEPT !.pc = "discarding"]
  <2>1. /\ s \in Proc /\ s.pc = "discarding" /\ s.fresh = proc[p].fresh
        /\ proc' = [proc EXCEPT ![p] = s]
    BY <1>6, <1>t DEF WriteFails, Proc, Pc
  <2>2. Live' = Live
    BY <1>6 DEF WriteFails, Live, LiveIn
  <2>3. Sound(s, files', Live')
    BY <1>6, <1>t, <2>1, <2>2 DEF WriteFails, Sound
  <2>4. files' \subseteq Digest /\ dirs' \subseteq Shard /\ Live' \subseteq files'
    BY <1>6, <1>t, <2>2, BlobAssumption DEF WriteFails, TypeOK, BlobsPresent
  <2>5. faults' \in [FaultKind -> Nat] /\ unswept' \in BOOLEAN
    <3>1. "write" \in FaultKind
      BY DEF FaultKind
    <3> QED
      BY <1>6, <1>t, <3>1, FaultTyped DEF WriteFails, TypeOK
  <2> QED
    BY <1>6, <1>t, <1>w, <2>1, <2>3, <2>4, <2>5, Frame DEF WriteFails, TypeOK
<1>7. ASSUME NEW d \in Digest, DiscardBlob(p, d) \/ DiscardFails(p, d) PROVE IInv'
  <2> DEFINE s == [proc[p] EXCEPT !.fresh = @ \ {d}]
  <2>1. /\ s \in Proc /\ s.pc = "discarding" /\ s.fresh = proc[p].fresh \ {d}
        /\ proc' = [proc EXCEPT ![p] = s]
    BY <1>7, <1>t DEF DiscardBlob, DiscardFails, Proc
  <2>2. Live' = Live /\ artifacts' = artifacts /\ lock' = lock
    BY <1>7 DEF DiscardBlob, DiscardFails, Live, LiveIn
  <2>3. Sound(s, files', Live')
    BY <1>7, <1>t, <2>1, <2>2 DEF DiscardBlob, DiscardFails, Sound
  <2>4. files' \subseteq Digest /\ Live' \subseteq files'
    BY <1>7, <1>t, <2>2 DEF DiscardBlob, DiscardFails, TypeOK, BlobsPresent, Sound
  <2>5. faults' \in [FaultKind -> Nat] /\ unswept' \in BOOLEAN
    <3>1. "delete" \in FaultKind
      BY DEF FaultKind
    <3> QED
      BY <1>7, <1>t, <3>1, FaultTyped DEF DiscardBlob, DiscardFails, TypeOK
  <2>6. pending' \subseteq Digest /\ temps' \subseteq Digest /\ dirs' \subseteq Shard
    BY <1>7, <1>t DEF DiscardBlob, DiscardFails, TypeOK
  <2>7. lock = p
    BY <1>7, <1>w DEF DiscardBlob, DiscardFails
  <2> QED
    BY <1>t, <2>1, <2>2, <2>3, <2>4, <2>5, <2>6, <2>7, Frame
<1> QED
  BY <1>1, <1>2, <1>3, <1>4, <1>5, <1>6, <1>7 DEF Begin

\* A drain erases what no row claims, then its record.
LEMMA DrainInv ==
  ASSUME IInv, NEW p \in Process,
         \/ DrainBlob(p) \/ DrainRecord(p) \/ DrainDone(p)
         \/ DrainMeetsNoShard(p) \/ DrainFails(p) \/ GiveUp(p)
  PROVE  IInv'
<1> USE DEF Unlocked, At, Goto, Become, NoFault, tables, disk, InTransaction
<1>t. /\ TypeOK /\ proc[p] \in Proc /\ BlobsPresent
      /\ lock = p <=> proc[p].pc \in InTransaction
  BY DEF IInv, TypeOK
<1>l. Live' = Live
  BY DEF DrainBlob, DrainRecord, DrainDone, DrainMeetsNoShard, DrainFails, GiveUp, Live, LiveIn
<1>d. ASSUME NEW pc \in Pc
      PROVE  /\ [proc[p] EXCEPT !.pc = pc] \in Proc
             /\ [proc[p] EXCEPT !.pc = pc].pc = pc
             /\ Goto(p, pc) => proc' = [proc EXCEPT ![p] = [proc[p] EXCEPT !.pc = pc]]
  BY <1>t DEF Proc
<1>e. Escaped(p) \in Proc /\ Escaped(p).pc \in {"down", "up"}
  BY DownTyped DEF Escaped
<1>1. CASE DrainBlob(p)
  <2>1. files' \subseteq Digest /\ Live' \subseteq files'
    BY <1>1, <1>t, <1>l DEF DrainBlob, TypeOK, BlobsPresent, Erasable
  <2>2. "erased" \in Pc
    BY DEF Pc
  <2> DEFINE s == [proc[p] EXCEPT !.pc = "erased"]
  <2>3. s \in Proc /\ s.pc = "erased" /\ proc' = [proc EXCEPT ![p] = s]
    BY <1>1, <1>d, <2>2 DEF DrainBlob
  <2> QED
    BY <1>1, <1>t, <1>l, <2>1, <2>3, Frame DEF DrainBlob, TypeOK, Sound
<1>2. CASE DrainRecord(p)
  <2>1. lock = p
    BY <1>2, <1>t DEF DrainRecord, TypeOK
  <2>2. "draining" \in Pc
    BY DEF Pc
  <2> DEFINE s == [proc[p] EXCEPT !.pc = "draining"]
  <2>3. s \in Proc /\ s.pc = "draining" /\ proc' = [proc EXCEPT ![p] = s]
    BY <1>2, <1>d, <2>2 DEF DrainRecord
  <2> QED
    BY <1>2, <1>t, <1>l, <2>1, <2>3, Frame, BlobAssumption
       DEF DrainRecord, TypeOK, Sound, BlobsPresent
<1>3. CASE DrainDone(p)
  <2> DEFINE s == [proc[p] EXCEPT !.pc = After(p, "sweep")]
  <2>1. After(p, "sweep") \in Pc /\ After(p, "sweep") \in {"sweep", "up"}
    BY DEF After, Pc
  <2>2. s \in Proc /\ s.pc \in {"sweep", "up"} /\ proc' = [proc EXCEPT ![p] = s]
    BY <1>3, <1>d, <2>1 DEF DrainDone
  <2> QED
    BY <1>3, <1>t, <1>l, <2>2, Frame, BlobAssumption DEF DrainDone, TypeOK, Sound, BlobsPresent
<1>4. CASE DrainMeetsNoShard(p)
  BY <1>4, <1>t, <1>l, <1>e, Frame, BlobAssumption
     DEF DrainMeetsNoShard, TypeOK, Sound, BlobsPresent
<1>5. CASE DrainFails(p)
  <2>1. files' \subseteq Digest /\ Live' \subseteq files'
    BY <1>5, <1>t, <1>l DEF DrainFails, TypeOK, BlobsPresent, Erasable
  <2>2. faults' \in [FaultKind -> Nat] /\ unswept' \in BOOLEAN
    <3>1. "delete" \in FaultKind
      BY DEF FaultKind
    <3> QED
      BY <1>5, <1>t, <3>1, FaultTyped DEF DrainFails, TypeOK
  <2> QED
    BY <1>5, <1>t, <1>l, <1>e, <2>1, <2>2, Frame, BlobAssumption DEF DrainFails, TypeOK, Sound
<1>6. CASE GiveUp(p)
  BY <1>6, <1>t, <1>l, <1>e, Frame DEF GiveUp, TypeOK, Sound, BlobsPresent
<1> QED
  BY <1>1, <1>2, <1>3, <1>4, <1>5, <1>6

\* A start sweeps what no row claims.
LEMMA SweepInv ==
  ASSUME IInv, NEW p \in Process,
         \/ Start(p) \/ SweepBegin(p) \/ SweepEnd(p) \/ SweepFails(p)
         \/ \E d \in Digest : SweepFile(p, d)
         \/ \E s \in Shard : SweepShard(p, s)
  PROVE  IInv'
<1> USE DEF Unlocked, At, Goto, Become, NoFault, tables, disk, InTransaction
<1>t. /\ TypeOK /\ proc[p] \in Proc /\ BlobsPresent
      /\ lock = p <=> proc[p].pc \in InTransaction
  BY DEF IInv, TypeOK
<1>l. Live' = Live
  BY DEF Start, SweepBegin, SweepEnd, SweepFails, SweepFile, SweepShard, Live, LiveIn
<1>d. ASSUME NEW pc \in Pc
      PROVE  /\ [proc[p] EXCEPT !.pc = pc] \in Proc
             /\ [proc[p] EXCEPT !.pc = pc].pc = pc
             /\ Goto(p, pc) => proc' = [proc EXCEPT ![p] = [proc[p] EXCEPT !.pc = pc]]
  BY <1>t DEF Proc
<1>1. CASE Start(p)
  <2> DEFINE s == [Down EXCEPT !.pc = "draining", !.boot = TRUE]
  <2>1. s \in Proc /\ s.pc = "draining"
    BY DownTyped DEF Proc, Pc
  <2> QED
    BY <1>1, <1>t, <1>l, <2>1, Frame, BlobAssumption DEF Start, TypeOK, Sound, BlobsPresent
<1>2. CASE SweepBegin(p)
  <2>1. "sweeping" \in Pc
    BY DEF Pc
  <2> DEFINE s == [proc[p] EXCEPT !.pc = "sweeping"]
  <2>2. s \in Proc /\ s.pc = "sweeping" /\ proc' = [proc EXCEPT ![p] = s]
    BY <1>2, <1>d, <2>1 DEF SweepBegin
  <2> QED
    BY <1>2, <1>t, <1>l, <2>2, Frame DEF SweepBegin, TypeOK, Sound, BlobsPresent
<1>3. CASE SweepEnd(p)
  <2>1. "open" \in Pc
    BY DEF Pc
  <2> DEFINE s == [proc[p] EXCEPT !.pc = "open"]
  <2>2. s \in Proc /\ s.pc = "open" /\ proc' = [proc EXCEPT ![p] = s]
    BY <1>3, <1>d, <2>1 DEF SweepEnd
  <2> QED
    BY <1>3, <1>t, <1>l, <2>2, Frame, BlobAssumption DEF SweepEnd, TypeOK, Sound, BlobsPresent
<1>4. CASE SweepFails(p)
  <2>1. faults' \in [FaultKind -> Nat] /\ unswept' \in BOOLEAN
    <3>1. "delete" \in FaultKind
      BY DEF FaultKind
    <3> QED
      BY <1>4, <1>t, <3>1, FaultTyped DEF SweepFails, TypeOK
  <2> QED
    BY <1>4, <1>t, <1>l, <2>1, DownTyped, Frame, BlobAssumption
       DEF SweepFails, TypeOK, Sound, BlobsPresent
<1>5. ASSUME NEW d \in Digest, SweepFile(p, d) PROVE IInv'
  <2>1. files' \subseteq Digest /\ temps' \subseteq Digest /\ Live' \subseteq files'
    BY <1>5, <1>t, <1>l DEF SweepFile, Orphaned, TypeOK, BlobsPresent
  <2>2. proc' = [proc EXCEPT ![p] = proc[p]]
    BY <1>5, <1>t DEF SweepFile, TypeOK
  <2> QED
    BY <1>5, <1>t, <1>l, <2>1, <2>2, Frame DEF SweepFile, TypeOK, Sound
<1>6. ASSUME NEW s \in Shard, SweepShard(p, s) PROVE IInv'
  <2>1. proc' = [proc EXCEPT ![p] = proc[p]]
    BY <1>6, <1>t DEF SweepShard, TypeOK
  <2> QED
    BY <1>6, <1>t, <1>l, <2>1, Frame DEF SweepShard, TypeOK, Sound, BlobsPresent
<1> QED
  BY <1>1, <1>2, <1>3, <1>4, <1>5, <1>6

\* Reading a snapshot and crashing change neither rows nor complete files.
LEMMA OpenInv ==
  ASSUME IInv, NEW p \in Process,
         \/ SnapshotOpen(p) \/ SnapshotDone(p) \/ SnapshotFails(p) \/ Crash(p)
         \/ \E d \in Digest : SnapshotRead(p, d)
  PROVE  IInv'
<1> USE DEF Unlocked, At, Goto, Become, NoFault, tables, disk, InTransaction
<1>t. /\ TypeOK /\ proc[p] \in Proc /\ BlobsPresent
      /\ lock = p <=> proc[p].pc \in InTransaction
  BY DEF IInv, TypeOK
<1>l. Live' = Live
  BY DEF SnapshotOpen, SnapshotDone, SnapshotFails, Crash, SnapshotRead, Live, LiveIn
<1>e. Escaped(p) \in Proc /\ Escaped(p).pc \in {"down", "up"}
  BY DownTyped DEF Escaped
<1>1. CASE SnapshotOpen(p)
  <2> DEFINE s == [proc[p] EXCEPT !.pc = "opening", !.need = Live]
  <2>1. Live \subseteq Digest
    BY <1>t, LiveTyped DEF Live, TypeOK
  <2>2. s \in Proc /\ s.pc = "opening" /\ proc' = [proc EXCEPT ![p] = s]
    BY <1>1, <1>t, <2>1 DEF SnapshotOpen, Proc, Pc
  <2>3. Live' \subseteq files' /\ Sound(s, files', Live') /\ lock # p
    BY <1>1, <1>t, <1>l, <2>2 DEF SnapshotOpen, Sound, BlobsPresent
  <2> HIDE DEF s
  <2> QED
    BY <1>1, <1>t, <2>2, <2>3, Frame DEF SnapshotOpen, TypeOK
<1>2. CASE SnapshotDone(p)
  BY <1>2, <1>t, <1>l, DownTyped, Frame DEF SnapshotDone, TypeOK, Sound, BlobsPresent
<1>3. CASE SnapshotFails(p)
  BY <1>3, <1>t, <1>l, <1>e, Frame DEF SnapshotFails, TypeOK, Sound, BlobsPresent
<1>4. CASE Crash(p)
  <2>1. faults' \in [FaultKind -> Nat] /\ unswept' \in BOOLEAN
    <3>1. "crash" \in FaultKind
      BY DEF FaultKind
    <3> QED
      BY <1>4, <1>t, <3>1, FaultTyped DEF Crash, TypeOK
  <2>2. LiveIn(proc[p].plan) \subseteq Digest
    BY <1>t, LiveTyped DEF Proc
  <2>3. temps' \subseteq Digest /\ dirs' \subseteq Shard
    BY <1>4, <1>t, <2>2, BlobAssumption DEF Crash, TypeOK
  <2> QED
    BY <1>4, <1>t, <1>l, <2>1, <2>3, DownTyped, Frame, BlobAssumption
       DEF Crash, TypeOK, Sound, BlobsPresent
<1>5. ASSUME NEW d \in Digest, SnapshotRead(p, d) PROVE IInv'
  <2> DEFINE s == [proc[p] EXCEPT !.need = @ \ {d}]
  <2>1. s \in Proc /\ s.pc = "opening" /\ proc' = [proc EXCEPT ![p] = s]
    BY <1>5, <1>t DEF SnapshotRead, Proc
  <2> QED
    BY <1>5, <1>t, <1>l, <2>1, Frame DEF SnapshotRead, TypeOK, Sound, BlobsPresent
<1> QED
  BY <1>1, <1>2, <1>3, <1>4, <1>5

\* A step of the store keeps the invariant.
LEMMA NextInv == IInv /\ [Next]_vars => IInv'
<1> SUFFICES ASSUME IInv, [Next]_vars PROVE IInv'
  OBVIOUS
<1>1. CASE UNCHANGED vars
  BY <1>1 DEF vars, IInv, TypeOK, BlobsPresent, Live, LiveIn
<1>2. CASE Next
  BY <1>2, TransactionInv, DrainInv, SweepInv, OpenInv DEF Next, CalmNext, Progress, Fail
<1> QED
  BY <1>1, <1>2

\* The invariant holds in every reachable state.
LEMMA Invariance == Spec => []IInv
BY InitInv, NextInv, PTL DEF Spec

\* Every reachable state of the store is well typed, and the write lock is with
\* the process inside a transaction.
THEOREM TypeCorrect == Spec => []TypeOK
<1>1. IInv => TypeOK
  BY DEF IInv
<1> QED
  BY <1>1, Invariance, PTL

\* No committed artifact row is ever without its blob: _write_live_blobs before
\* the commit, deletion only of what no row claims, and the discard of
\* _transaction_new_blobs together never lose a byte that is referred to.
THEOREM NothingLost == Spec => []BlobsPresent
<1>1. IInv => BlobsPresent
  BY DEF IInv
<1> QED
  BY <1>1, Invariance, PTL

-------------------------------------------------------------------------------
(* Accounting: no file outlives its reason.  FilesAccounted rests on what  *)
(* a process between two steps owes: that it forgets its new blobs only    *)
(* once they are live or discarded, and a deletion record only once the    *)
(* file is gone or live again.                                             *)

\* What a process in state s owes, given the files fs, the live digests and the
\* deletion records pd.
Tidy(s, fs, live, pd) ==
  /\ s.pc = "writing" => s.fresh \subseteq s.done
  /\ s.pc \notin {"writing", "discarding"} => s.fresh = {}
  /\ s.pc = "erased" /\ First(pd) \in fs => First(pd) \in live

AInv ==
  /\ IInv
  /\ FilesAccounted
  /\ \A p \in Process : Tidy(proc[p], files, Live, pending)

\* A step of process p to state s keeps the account if p stays tidy, nobody
\* else is in a transaction where the store changes, and whatever file the step
\* leaves unaccounted for was so before.
LEMMA Account ==
  ASSUME AInv,
         NEW p \in Process, NEW s,
         proc' = [proc EXCEPT ![p] = s],
         \/ lock \in {p, NoProcess}
         \/ files' = files /\ artifacts' = artifacts /\ pending' = pending,
         Tidy(s, files', Live', pending'),
         \/ unswept'
         \/ files' \subseteq Live'
         \/ /\ unswept' = unswept
            /\ \A d \in files' :
                 d \in Live' \cup pending' \cup s.fresh
                 \/ d \in files \ (Live \cup pending \cup proc[p].fresh)
  PROVE  /\ FilesAccounted'
         /\ \A q \in Process : Tidy(proc[q], files, Live, pending)'
<1>t. TypeOK /\ FilesAccounted
  BY DEF AInv, IInv
<1>2. \A q \in Process : proc'[q] = IF q = p THEN s ELSE proc[q]
  BY <1>t DEF TypeOK
<1>3. ASSUME NEW q \in Process PROVE Tidy(proc'[q], files', Live', pending')
  <2>1. CASE q = p
    BY <1>2, <2>1
  <2>2. CASE q # p /\ lock \in {p, NoProcess}
    <3>1. proc'[q] = proc[q] /\ proc[q].pc # "erased"
      BY <1>2, <1>t, <2>2, BlobAssumption DEF TypeOK, InTransaction
    <3>2. Tidy(proc[q], files, Live, pending)
      BY DEF AInv
    <3> QED BY <3>1, <3>2 DEF Tidy
  <2>3. CASE q # p /\ files' = files /\ artifacts' = artifacts /\ pending' = pending
    <3>1. Live' = Live
      BY <2>3 DEF Live, LiveIn
    <3>2. proc'[q] = proc[q] /\ Tidy(proc[q], files, Live, pending)
      BY <1>2, <2>3 DEF AInv
    <3> QED BY <2>3, <3>1, <3>2
  <2> QED BY <2>1, <2>2, <2>3
<1>4. FilesAccounted'
  <2> SUFFICES ASSUME ~unswept', NEW d \in files', d \notin Live', d \notin pending'
               PROVE  \E q \in Process : d \in proc'[q].fresh
    BY DEF FilesAccounted
  <2>1. CASE d \in s.fresh
    BY <1>2, <2>1
  <2>2. CASE d \notin s.fresh
    <3>1. /\ ~unswept /\ d \in files
          /\ d \notin Live /\ d \notin pending /\ d \notin proc[p].fresh
      BY <2>2
    <3>2. PICK q \in Process : d \in proc[q].fresh
      BY <1>t, <3>1 DEF FilesAccounted
    <3> QED BY <1>2, <3>1, <3>2
  <2> QED BY <2>1, <2>2
<1> QED BY <1>3, <1>4

\* The form of the account for a step that changes neither rows nor files.
LEMMA StillAccount ==
  ASSUME AInv, NEW p \in Process, NEW s,
         proc' = [proc EXCEPT ![p] = s],
         tables' = tables, files' = files,
         unswept' = unswept,
         Tidy(s, files, Live, pending),
         proc[p].fresh \subseteq s.fresh
  PROVE  /\ FilesAccounted'
         /\ \A q \in Process : Tidy(proc[q], files, Live, pending)'
<1>1. artifacts' = artifacts /\ pending' = pending /\ Live' = Live
  BY DEF tables, Live, LiveIn
<1>2. Tidy(s, files', Live', pending')
  BY <1>1
<1> QED BY <1>1, <1>2, Account

\* A process that moves on keeps its new blobs.
LEMMA GotoRecord ==
  ASSUME TypeOK, NEW p \in Process, NEW pc, Goto(p, pc)
  PROVE  \E s : /\ proc' = [proc EXCEPT ![p] = s]
                /\ s.pc = pc /\ s.fresh = proc[p].fresh /\ s.done = proc[p].done
<1> DEFINE s == [proc[p] EXCEPT !.pc = pc]
<1>1. proc[p] \in Proc
  BY DEF TypeOK
<1>2. s.pc = pc /\ s.fresh = proc[p].fresh /\ s.done = proc[p].done
  BY <1>1 DEF Proc
<1>3. proc' = [proc EXCEPT ![p] = s]
  BY DEF Goto
<1> QED BY <1>2, <1>3

-------------------------------------------------------------------------------
(* The steps *)

\* What a lemma on a step concludes.
Accounted == /\ FilesAccounted'
             /\ \A q \in Process : Tidy(proc[q], files, Live, pending)'

\* A transaction: new files are fresh until the commit makes them live.
LEMMA TransactionAccount ==
  ASSUME AInv, NEW p \in Process,
         \/ Begin(p) \/ Commit(p) \/ Abort(p) \/ Rollback(p)
         \/ \E d \in Digest : WriteBlob(p, d) \/ WriteFails(p, d)
                              \/ DiscardBlob(p, d) \/ DiscardFails(p, d)
  PROVE  Accounted
<1>t. /\ TypeOK /\ proc[p] \in Proc /\ Sound(proc[p], files, Live)
      /\ Tidy(proc[p], files, Live, pending)
  BY DEF AInv, IInv, TypeOK
<1>w. At(p, "writing") \/ At(p, "discarding") => lock = p
  BY <1>t DEF TypeOK, At, InTransaction
<1>i. /\ Up.pc = "up" /\ Up.fresh = {} /\ Up.done = {}
  BY DEF Up, Down
<1>1. ASSUME NEW rows \in Edits, BeginWith(p, rows) PROVE Accounted
  <2> DEFINE s == [Up EXCEPT !.pc = "writing", !.plan = rows]
  <2>1. s.pc = "writing" /\ s.fresh = {} /\ s.done = {}
    BY DEF Up, Down
  <2>2. proc[p].fresh = {}
    BY <1>1, <1>t DEF BeginWith, At, Tidy
  <2>3. proc' = [proc EXCEPT ![p] = s]
    BY <1>1 DEF BeginWith, Become
  <2> HIDE DEF s
  <2>4. Tidy(s, files, Live, pending)
    BY <2>1 DEF Tidy
  <2> QED BY <1>1, <2>1, <2>2, <2>3, <2>4, StillAccount
          DEF BeginWith, NoFault, disk, tables, Accounted
<1>2. CASE Commit(p)
  <2> DEFINE s == [Up EXCEPT !.pc = "draining"]
  <2>1. s.pc = "draining" /\ s.fresh = {} /\ proc' = [proc EXCEPT ![p] = s]
    BY <1>2 DEF Up, Down, Commit, Become
  <2>2. /\ Live' = LiveIn(proc[p].plan) /\ pending' = pending \cup (Live \ Live')
        /\ files' = files /\ unswept' = unswept
    BY <1>2 DEF Commit, Live, LiveIn, DroppedBy, NoFault, disk
  <2>3. proc[p].fresh \subseteq Live'
    BY <1>2, <1>t, <2>2 DEF Commit, At, Tidy
  <2> HIDE DEF s
  <2>4. Tidy(s, files', Live', pending')
    BY <2>1 DEF Tidy
  <2>5. lock = p
    BY <1>2, <1>w DEF Commit
  <2> QED BY <2>1, <2>2, <2>3, <2>4, <2>5, Account DEF Accounted
<1>3. CASE Abort(p)
  <2>1. PICK s : /\ proc' = [proc EXCEPT ![p] = s]
                 /\ s.pc = "discarding" /\ s.fresh = proc[p].fresh
    BY <1>3, <1>t, GotoRecord DEF Abort
  <2>2. Tidy(s, files, Live, pending)
    BY <2>1 DEF Tidy
  <2> QED BY <1>3, <2>1, <2>2, StillAccount DEF Abort, NoFault, disk, tables, Accounted
<1>4. CASE Rollback(p)
  <2> DEFINE s == [Up EXCEPT !.pc = "open"]
  <2>1. s.pc = "open" /\ s.fresh = {} /\ proc' = [proc EXCEPT ![p] = s]
    BY <1>4 DEF Up, Down, Rollback, Become
  <2> HIDE DEF s
  <2>2. Tidy(s, files, Live, pending)
    BY <2>1 DEF Tidy
  <2> QED BY <1>4, <2>1, <2>2, StillAccount DEF Rollback, NoFault, disk, tables, Accounted
<1>5. ASSUME NEW d \in Digest, WriteBlob(p, d) PROVE Accounted
  <2> DEFINE s == [proc[p] EXCEPT !.done = proc[p].done \cup {d}, !.fresh = FreshAfter(p, d)]
  <2>1. /\ s.pc = "writing" /\ s.fresh = FreshAfter(p, d) /\ s.done = proc[p].done \cup {d}
        /\ proc' = [proc EXCEPT ![p] = s]
    BY <1>5, <1>t DEF WriteBlob, Proc, At
  <2> HIDE DEF s
  <2>2. proc[p].fresh \subseteq proc[p].done
    BY <1>5, <1>t DEF WriteBlob, At, Tidy
  <2>3. Live' = Live /\ pending' = pending /\ unswept' = unswept /\ files' = files \cup {d}
    BY <1>5 DEF WriteBlob, tables, Live, LiveIn, NoFault
  <2>4. /\ FreshAfter(p, d) \subseteq proc[p].fresh \cup {d}
        /\ proc[p].fresh \subseteq FreshAfter(p, d)
        /\ d \in files \/ d \in FreshAfter(p, d)
    BY DEF FreshAfter
  <2>5. Tidy(s, files', Live', pending')
    BY <2>1, <2>2, <2>4 DEF Tidy
  <2>6. lock = p
    BY <1>5, <1>w DEF WriteBlob
  <2>7. \A e \in files' :
          e \in Live' \cup pending' \cup s.fresh
          \/ e \in files \ (Live \cup pending \cup proc[p].fresh)
    BY <2>1, <2>3, <2>4
  <2> QED BY <2>1, <2>3, <2>5, <2>6, <2>7, Account DEF Accounted
<1>6. ASSUME NEW d \in Digest, WriteFails(p, d) PROVE Accounted
  <2>1. PICK s : /\ proc' = [proc EXCEPT ![p] = s]
                 /\ s.pc = "discarding" /\ s.fresh = proc[p].fresh
    BY <1>6, <1>t, GotoRecord DEF WriteFails
  <2>2. Tidy(s, files', Live', pending')
    BY <2>1 DEF Tidy
  <2>3. unswept' /\ lock = p
    BY <1>6, <1>w DEF WriteFails, Fault
  <2> QED BY <2>1, <2>2, <2>3, Account DEF Accounted
<1>7. ASSUME NEW d \in Digest, DiscardBlob(p, d) \/ DiscardFails(p, d) PROVE Accounted
  <2> DEFINE s == [proc[p] EXCEPT !.fresh = proc[p].fresh \ {d}]
  <2>1. /\ s.pc = "discarding" /\ s.fresh = proc[p].fresh \ {d}
        /\ proc' = [proc EXCEPT ![p] = s]
    BY <1>7, <1>t DEF DiscardBlob, DiscardFails, Proc, At
  <2> HIDE DEF s
  <2>2. Tidy(s, files', Live', pending')
    BY <2>1 DEF Tidy
  <2>3. lock = p
    BY <1>7, <1>w DEF DiscardBlob, DiscardFails
  <2>4. CASE DiscardBlob(p, d)
    <3>1. Live' = Live /\ pending' = pending /\ unswept' = unswept /\ files' = files \ {d}
      BY <2>4 DEF DiscardBlob, tables, Live, LiveIn, NoFault
    <3> QED BY <2>1, <2>2, <2>3, <3>1, Account DEF Accounted
  <2>5. CASE DiscardFails(p, d)
    <3>1. unswept'
      BY <2>5 DEF DiscardFails, Fault
    <3> QED BY <2>1, <2>2, <2>3, <3>1, Account DEF Accounted
  <2> QED BY <1>7, <2>4, <2>5
<1> QED BY <1>1, <1>2, <1>3, <1>4, <1>5, <1>6, <1>7 DEF Begin

\* A drain: a record goes after its file, unless a row claims the file again.
LEMMA DrainAccount ==
  ASSUME AInv, NEW p \in Process,
         \/ DrainBlob(p) \/ DrainRecord(p) \/ DrainDone(p)
         \/ DrainMeetsNoShard(p) \/ DrainFails(p) \/ GiveUp(p)
  PROVE  Accounted
<1>t. /\ TypeOK /\ proc[p] \in Proc /\ Tidy(proc[p], files, Live, pending)
  BY DEF AInv, IInv, TypeOK
<1>f. proc[p].pc \in {"draining", "sweep", "erased"} /\ proc[p].fresh = {}
  BY <1>t DEF DrainBlob, DrainRecord, DrainDone, DrainMeetsNoShard, DrainFails, GiveUp, At, Tidy
<1>e. Escaped(p).fresh = {} /\ Escaped(p).pc \in {"up", "down"}
  BY DEF Escaped, Up, Down
<1>1. CASE DrainBlob(p)
  <2>1. PICK s : /\ proc' = [proc EXCEPT ![p] = s]
                 /\ s.pc = "erased" /\ s.fresh = proc[p].fresh
    BY <1>1, <1>t, GotoRecord DEF DrainBlob
  <2>2. Live' = Live /\ pending' = pending /\ unswept' = unswept /\ lock = NoProcess
    BY <1>1 DEF DrainBlob, tables, Live, LiveIn, NoFault, Unlocked
  <2>3. files' = IF First(pending) \notin Live THEN files \ {First(pending)} ELSE files
    BY <1>1 DEF DrainBlob, Erasable
  <2>4. Tidy(s, files', Live', pending')
    BY <1>f, <2>1, <2>2, <2>3 DEF Tidy
  <2> QED BY <2>1, <2>2, <2>3, <2>4, Account DEF Accounted
<1>2. CASE DrainRecord(p)
  <2>1. PICK s : /\ proc' = [proc EXCEPT ![p] = s]
                 /\ s.pc = "draining" /\ s.fresh = proc[p].fresh
    BY <1>2, <1>t, GotoRecord DEF DrainRecord
  <2>2. /\ Live' = Live /\ pending' = pending \ {First(pending)} /\ files' = files
        /\ unswept' = unswept
    BY <1>2 DEF DrainRecord, disk, Live, LiveIn, NoFault
  <2>3. First(pending) \in files => First(pending) \in Live
    BY <1>2, <1>t DEF DrainRecord, At, Tidy
  <2>4. Tidy(s, files', Live', pending')
    BY <1>f, <2>1 DEF Tidy
  <2>5. lock = p
    BY <1>2, <1>t DEF DrainRecord, At, TypeOK, InTransaction
  <2> QED BY <2>1, <2>2, <2>3, <2>4, <2>5, Account DEF Accounted
<1>3. CASE DrainDone(p)
  <2>1. PICK s : /\ proc' = [proc EXCEPT ![p] = s]
                 /\ s.pc = After(p, "sweep") /\ s.fresh = proc[p].fresh
    BY <1>3, <1>t, GotoRecord DEF DrainDone
  <2>2. Tidy(s, files, Live, pending)
    BY <1>f, <2>1 DEF Tidy, After
  <2> QED BY <1>3, <2>1, <2>2, StillAccount DEF DrainDone, NoFault, disk, tables, Accounted
<1>4. CASE DrainMeetsNoShard(p) \/ GiveUp(p)
  <2>1. Tidy(Escaped(p), files, Live, pending)
    BY <1>e DEF Tidy
  <2> QED BY <1>4, <1>e, <1>f, <2>1, StillAccount
          DEF DrainMeetsNoShard, GiveUp, Become, NoFault, disk, tables, Accounted
<1>5. CASE DrainFails(p)
  <2>1. Tidy(Escaped(p), files', Live', pending')
    BY <1>e DEF Tidy
  <2>2. unswept' /\ lock = NoProcess /\ proc' = [proc EXCEPT ![p] = Escaped(p)]
    BY <1>5 DEF DrainFails, Fault, Unlocked, Become
  <2> QED BY <2>1, <2>2, Account DEF Accounted
<1> QED BY <1>1, <1>2, <1>3, <1>4, <1>5

\* A start: the sweep removes what is in nobody's account.
LEMMA SweepAccount ==
  ASSUME AInv, NEW p \in Process,
         \/ Start(p) \/ SweepBegin(p) \/ SweepEnd(p) \/ SweepFails(p)
         \/ \E d \in Digest : SweepFile(p, d)
         \/ \E s \in Shard : SweepShard(p, s)
  PROVE  Accounted
<1>t. /\ TypeOK /\ proc[p] \in Proc /\ Tidy(proc[p], files, Live, pending)
  BY DEF AInv, IInv, TypeOK
<1>f. proc[p].pc \in {"down", "sweep", "sweeping"} /\ proc[p].fresh = {}
  BY <1>t DEF Start, SweepBegin, SweepEnd, SweepFails, SweepFile, SweepShard, At, Tidy
<1>w. At(p, "sweeping") => lock = p
  BY <1>t DEF TypeOK, At, InTransaction
<1>1. CASE Start(p)
  <2> DEFINE s == [Down EXCEPT !.pc = "draining", !.boot = TRUE]
  <2>1. s.pc = "draining" /\ s.fresh = {} /\ proc' = [proc EXCEPT ![p] = s]
    BY <1>1 DEF Down, Start, Become
  <2> HIDE DEF s
  <2>2. Tidy(s, files, Live, pending)
    BY <2>1 DEF Tidy
  <2> QED BY <1>1, <1>f, <2>1, <2>2, StillAccount DEF Start, NoFault, disk, tables, Accounted
<1>2. CASE SweepBegin(p)
  <2>1. PICK s : /\ proc' = [proc EXCEPT ![p] = s]
                 /\ s.pc = "sweeping" /\ s.fresh = proc[p].fresh
    BY <1>2, <1>t, GotoRecord DEF SweepBegin
  <2>2. Tidy(s, files, Live, pending)
    BY <1>f, <2>1 DEF Tidy
  <2> QED BY <1>2, <2>1, <2>2, StillAccount DEF SweepBegin, NoFault, disk, tables, Accounted
<1>3. CASE SweepEnd(p)
  <2>1. PICK s : /\ proc' = [proc EXCEPT ![p] = s]
                 /\ s.pc = "open" /\ s.fresh = proc[p].fresh
    BY <1>3, <1>t, GotoRecord DEF SweepEnd
  <2>2. Tidy(s, files', Live', pending')
    BY <1>f, <2>1 DEF Tidy
  <2>3. files' \subseteq Live' /\ lock = p
    BY <1>3, <1>w DEF SweepEnd, Orphaned, disk, tables, Live, LiveIn
  <2> QED BY <2>1, <2>2, <2>3, Account DEF Accounted
<1>4. CASE SweepFails(p)
  <2>1. Tidy(Down, files', Live', pending')
    BY DEF Tidy, Down
  <2>2. unswept' /\ lock = p /\ proc' = [proc EXCEPT ![p] = Down]
    BY <1>4, <1>w DEF SweepFails, Fault, Become
  <2> QED BY <2>1, <2>2, Account DEF Accounted
<1>5. ASSUME NEW d \in Digest, SweepFile(p, d) PROVE Accounted
  <2>1. proc' = [proc EXCEPT ![p] = proc[p]] /\ proc[p].pc = "sweeping"
    BY <1>5, <1>t DEF SweepFile, TypeOK, At
  <2>2. Live' = Live /\ pending' = pending /\ unswept' = unswept /\ files' \subseteq files
    BY <1>5 DEF SweepFile, tables, Live, LiveIn, NoFault
  <2>3. Tidy(proc[p], files', Live', pending')
    BY <1>f, <2>1 DEF Tidy
  <2>4. lock = p
    BY <1>5, <1>w DEF SweepFile
  <2> QED BY <2>1, <2>2, <2>3, <2>4, Account DEF Accounted
<1>6. ASSUME NEW s \in Shard, SweepShard(p, s) PROVE Accounted
  <2>1. proc' = [proc EXCEPT ![p] = proc[p]]
    BY <1>6, <1>t DEF SweepShard, TypeOK
  <2> QED BY <1>6, <1>t, <2>1, StillAccount DEF SweepShard, NoFault, tables, Accounted
<1> QED BY <1>1, <1>2, <1>3, <1>4, <1>5, <1>6

\* Reading a snapshot touches nothing; a crash is an excuse for what it leaves.
LEMMA OpenAccount ==
  ASSUME AInv, NEW p \in Process,
         \/ SnapshotOpen(p) \/ SnapshotDone(p) \/ SnapshotFails(p) \/ Crash(p)
         \/ \E d \in Digest : SnapshotRead(p, d)
  PROVE  Accounted
<1>t. /\ TypeOK /\ proc[p] \in Proc /\ Tidy(proc[p], files, Live, pending)
  BY DEF AInv, IInv, TypeOK
<1>1. ASSUME NEW s, proc' = [proc EXCEPT ![p] = s], s.fresh = {},
             s.pc \in {"up", "down", "opening"}, proc[p].fresh = {},
             tables' = tables, files' = files, unswept' = unswept
      PROVE  Accounted
  <2>1. Tidy(s, files, Live, pending)
    BY <1>1 DEF Tidy
  <2> QED BY <1>1, <2>1, StillAccount DEF Accounted
<1>2. CASE SnapshotOpen(p)
  <2> DEFINE s == [proc[p] EXCEPT !.pc = "opening", !.need = Live]
  <2>1. s.pc = "opening" /\ s.fresh = proc[p].fresh /\ proc' = [proc EXCEPT ![p] = s]
    BY <1>2, <1>t DEF SnapshotOpen, Proc
  <2>2. proc[p].fresh = {}
    BY <1>2, <1>t DEF SnapshotOpen, At, Tidy
  <2> HIDE DEF s
  <2> QED BY <1>1, <1>2, <2>1, <2>2 DEF SnapshotOpen, NoFault, disk, tables
<1>3. ASSUME NEW d \in Digest, SnapshotRead(p, d) PROVE Accounted
  <2> DEFINE s == [proc[p] EXCEPT !.need = proc[p].need \ {d}]
  <2>1. s.pc = "opening" /\ s.fresh = proc[p].fresh /\ proc' = [proc EXCEPT ![p] = s]
    BY <1>3, <1>t DEF SnapshotRead, Proc, At
  <2>2. proc[p].fresh = {}
    BY <1>3, <1>t DEF SnapshotRead, At, Tidy
  <2> HIDE DEF s
  <2> QED BY <1>1, <1>3, <2>1, <2>2 DEF SnapshotRead, NoFault, disk, tables
<1>4. CASE SnapshotDone(p) \/ SnapshotFails(p)
  <2>1. PICK s \in {Up, Down} : proc' = [proc EXCEPT ![p] = s]
    BY <1>4 DEF SnapshotDone, SnapshotFails, Escaped, Become
  <2>2. s.fresh = {} /\ s.pc \in {"up", "down"}
    BY DEF Up, Down
  <2>3. proc[p].fresh = {}
    BY <1>4, <1>t DEF SnapshotDone, SnapshotFails, At, Tidy
  <2> QED BY <1>1, <1>4, <2>1, <2>2, <2>3 DEF SnapshotDone, SnapshotFails, NoFault, disk, tables
<1>5. CASE Crash(p)
  <2>1. Tidy(Down, files', Live', pending')
    BY DEF Tidy, Down
  <2>2. /\ unswept' /\ proc' = [proc EXCEPT ![p] = Down]
        /\ files' = files /\ artifacts' = artifacts /\ pending' = pending
    BY <1>5 DEF Crash, Fault, Become, tables
  <2> QED BY <2>1, <2>2, Account DEF Accounted
<1> QED BY <1>2, <1>3, <1>4, <1>5

-------------------------------------------------------------------------------
(* The account of the specification *)

\* Initially there is no file.
LEMMA InitAccount == Init => AInv
<1> SUFFICES ASSUME Init PROVE AInv
  OBVIOUS
<1>1. FilesAccounted /\ \A p \in Process : Tidy(proc[p], files, Live, pending)
  BY DEF Init, FilesAccounted, Tidy, Down
<1> QED BY <1>1, InitInv DEF AInv

\* Every step keeps the account.
LEMMA NextAccount == AInv /\ [Next]_vars => AInv'
<1> SUFFICES ASSUME AInv, [Next]_vars PROVE Accounted
  BY NextInv DEF AInv, Accounted
<1>1. CASE UNCHANGED vars
  BY <1>1 DEF vars, AInv, Accounted, FilesAccounted, Tidy, Live, LiveIn
<1>2. CASE Next
  BY <1>2, TransactionAccount, DrainAccount, SweepAccount, OpenAccount
     DEF Next, CalmNext, Progress, Fail
<1> QED BY <1>1, <1>2

\* Unless a failure since the last sweep explains it, every blob file is live,
\* recorded for deletion, or of the transaction in progress: no order of
\* commits, rollbacks, drains and sweeps of any number of processes leaks bytes.
THEOREM NothingLeaks == Spec => []FilesAccounted
<1>1. AInv => FilesAccounted
  BY DEF AInv
<1> QED BY <1>1, InitAccount, NextAccount, PTL DEF Spec

==============================================================================
