--------------------------- MODULE ShutdownProofs ---------------------------
(***************************************************************************)
(* Proofs about Shutdown: whatever the number of requests, of files and of *)
(* queries, and wherever the threads are when the process is told to end.  *)
(***************************************************************************)
EXTENDS ShutdownProps, TLAPS

----------------------------------------------------------------------------
(* The inductive invariant                                                 *)

\* Where a closer holds the lock, where it has joined the compaction thread,
\* where it has joined the snapshot thread too.
Joined == {"close wal", "close mem table", "close pool"}
Merging == {"close indexer", "join indexer", "close snapshots", "join snapshots"} \cup Joined
Holding == {"close compaction", "join compaction", "release"} \cup Merging

QueueName == {"compaction", "indexer", "snapshot"}
Element == (SUBSET File) \cup Queries \cup {Close}

\* The types, those of the queues and of the closers made precise.
Typed ==
    /\ TypeOK
    /\ queues \in [QueueName -> Seq(Element)]
    /\ closer \in [Closers -> {"serving", "try", "done"} \cup Holding]

\* Who changes what the lock protects has it.
LockHeld ==
    /\ \A c \in Closers : closer[c] \in Holding => lock = c
    /\ \A w \in Writers : writer[w] \in {"locked", "appended"} => lock = w
    /\ compactor.pc = "locked" => lock = "compactor"

\* What a closer has joined has ended, and the log is closed last.
ThreadsEnded ==
    /\ \A c \in Closers :
           /\ closer[c] \in Merging => compactor.pc = "ended"
           /\ closer[c] \in Joined => snapshotter.pc = "ended"
           /\ closer[c] \in {"close mem table", "close pool"} => wal = "closed"
    /\ snapshotter.pc = "ended" => IsClosed("snapshot")
    /\ wal = "closed" => compactor.pc = "ended" /\ snapshotter.pc = "ended"

\* A commit is in the log from its last entry on, and never before.
LogKept ==
    \A w \in Writers :
        /\ writer[w] \in {"appended", "acked"} => w \in log
        /\ writer[w] \in {"new", "lock", "locked", "failed"} => w \notin log
        /\ writer[w] = "appended" => wal = "open"

\* A file that a query may come to is in one of the stores until the mem table
\* is closed: the snapshot thread forgets what it has copied, and the
\* compaction thread commits what it has written.
FilesStored ==
    /\ log \subseteq memTable \cup backing \/ (wal = "closed" /\ memTable = {})
    /\ snapshotter.pc = "forget" => snapshotter.files \subseteq backing
    /\ compactor.pc \in {"lock", "locked"} => Merged \in backing
    /\ \A q \in Queries : query[q].todo \subseteq log
    /\ QueriesMissRowsOnlyAtTheEnd

IInv == Typed /\ LockHeld /\ ThreadsEnded /\ LogKept /\ FilesStored

----------------------------------------------------------------------------
(* Frames: what a step leaves alone                                        *)

LEMMA LockFrame ==
    ASSUME LockHeld, UNCHANGED <<lock, closer, writer, compactor>> PROVE LockHeld'
BY DEF LockHeld

LEMMA ThreadsFrame ==
    ASSUME ThreadsEnded, UNCHANGED <<closer, compactor, snapshotter, wal>>,
           queues'["snapshot"] = queues["snapshot"]
    PROVE  ThreadsEnded'
BY DEF ThreadsEnded, IsClosed

LEMMA LogFrame == ASSUME LogKept, UNCHANGED <<writer, log, wal>> PROVE LogKept'
BY DEF LogKept

LEMMA FilesFrame ==
    ASSUME FilesStored, UNCHANGED <<log, wal, memTable, backing, query>>,
           snapshotter'.pc = "forget" => UNCHANGED snapshotter,
           compactor'.pc \in {"lock", "locked"} => compactor.pc \in {"lock", "locked"}
    PROVE  FilesStored'
BY DEF FilesStored, QueriesMissRowsOnlyAtTheEnd

----------------------------------------------------------------------------
(* Queues: what a push and a pop keep                                      *)

\* An element pushed onto a queue of a kind leaves a queue of that kind, and a
\* queue that was closed as it was.
LEMMA PushedQueue ==
    ASSUME NEW S, NEW queue \in Seq(S), NEW x \in S
    PROVE  /\ Pushed(queue, x) \in Seq(S)
           /\ queue # <<>> /\ Head(queue) = Close => Pushed(queue, x) = queue
BY DEF Pushed

LEMMA SnapshotJob ==
    ASSUME Typed, HasJob("snapshot") PROVE Head(queues["snapshot"]) \in SUBSET File
<1> DEFINE queue == queues["snapshot"]
           S == SUBSET File
<1>1. queue \in Seq(S \cup {Close}) /\ queue # <<>> /\ Head(queue) # Close
  BY DEF HasJob, Typed, TypeOK
<1> HIDE DEF queue, S
<1>2. Head(queue) \in S \cup {Close}
  BY <1>1
<1>3. Head(queue) \in S
  BY <1>1, <1>2
<1> QED
  BY <1>3 DEF queue, S

LEMMA TypedPush ==
    ASSUME Typed, NEW name \in QueueName, NEW x \in Element,
           queues' = [queues EXCEPT ![name] = Pushed(@, x)],
           name = "compaction" => x = Close,
           name = "indexer" => x \in Queries \cup {Close},
           name = "snapshot" => x \in (SUBSET File) \cup {Close}
    PROVE  /\ queues' \in [QueueName -> Seq(Element)]
           /\ queues'["compaction"] \in Seq({Close})
           /\ queues'["indexer"] \in Seq(Queries \cup {Close})
           /\ queues'["snapshot"] \in Seq((SUBSET File) \cup {Close})
           /\ IsClosed("snapshot") => IsClosed("snapshot")'
<1>1. Pushed(queues[name], x) \in Seq(Element)
  BY PushedQueue DEF Typed
<1>2. queues' \in [QueueName -> Seq(Element)]
  BY <1>1 DEF Typed
<1>3. queues'["compaction"] \in Seq({Close})
  <2>1. CASE name = "compaction"
    <3>1. Pushed(queues["compaction"], Close) \in Seq({Close})
      BY PushedQueue DEF Typed, TypeOK
    <3> QED
      BY <2>1, <3>1 DEF Typed
  <2>2. CASE name # "compaction"
    BY <2>2 DEF Typed, TypeOK, QueueName
  <2> QED
    BY <2>1, <2>2
<1>4. queues'["indexer"] \in Seq(Queries \cup {Close})
  <2>1. CASE name = "indexer"
    <3>1. Pushed(queues["indexer"], x) \in Seq(Queries \cup {Close})
      BY <2>1, PushedQueue DEF Typed, TypeOK
    <3> QED
      BY <2>1, <3>1 DEF Typed
  <2>2. CASE name # "indexer"
    BY <2>2 DEF Typed, TypeOK, QueueName
  <2> QED
    BY <2>1, <2>2
<1>5. queues'["snapshot"] \in Seq((SUBSET File) \cup {Close})
      /\ (IsClosed("snapshot") => IsClosed("snapshot")')
  <2>1. CASE name = "snapshot"
    <3>1. /\ Pushed(queues["snapshot"], x) \in Seq((SUBSET File) \cup {Close})
          /\ IsClosed("snapshot") => Pushed(queues["snapshot"], x) = queues["snapshot"]
      BY <2>1, PushedQueue DEF Typed, TypeOK, IsClosed
    <3> QED
      BY <2>1, <3>1 DEF Typed, IsClosed, QueueName
  <2>2. CASE name # "snapshot"
    BY <2>2 DEF Typed, TypeOK, QueueName, IsClosed
  <2> QED
    BY <2>1, <2>2
<1> QED
  BY <1>2, <1>3, <1>4, <1>5

LEMMA TypedPop ==
    ASSUME Typed, NEW name \in QueueName, HasJob(name), queues' = Popped(name)
    PROVE  /\ queues' \in [QueueName -> Seq(Element)]
           /\ queues'["compaction"] \in Seq({Close})
           /\ queues'["indexer"] \in Seq(Queries \cup {Close})
           /\ queues'["snapshot"] \in Seq((SUBSET File) \cup {Close})
           /\ name # "snapshot" => queues'["snapshot"] = queues["snapshot"]
<1>1. \A S : queues[name] \in Seq(S) => Tail(queues[name]) \in Seq(S)
  BY DEF HasJob
<1>2. queues' = [queues EXCEPT ![name] = Tail(@)]
  BY DEF Popped
<1>3. queues' \in [QueueName -> Seq(Element)]
  BY <1>1, <1>2 DEF Typed
<1>4. \A n \in QueueName : \A S : queues[n] \in Seq(S) => queues'[n] \in Seq(S)
  BY <1>1, <1>2 DEF Typed
<1> QED
  BY <1>2, <1>3, <1>4 DEF Typed, TypeOK, QueueName

----------------------------------------------------------------------------
(* The compaction thread                                                   *)

LEMMA CompactorStep == ASSUME IInv, Running, Compactor PROVE IInv'
<1> USE DEF IInv
<1>1. CASE CompactorStops
  <2> USE <1>1 DEF CompactorStops, store
  <2>1. Typed'
    BY DEF Typed, TypeOK, Running, requests
  <2>2. LockHeld'
    BY DEF LockHeld, Typed, TypeOK, requests
  <2>3. ThreadsEnded'
    BY DEF ThreadsEnded, Typed, TypeOK, IsClosed
  <2>4. LogKept'
    BY LogFrame DEF requests
  <2>5. FilesStored'
    BY FilesFrame DEF requests, Typed, TypeOK
  <2> QED
    BY <2>1, <2>2, <2>3, <2>4, <2>5
<1>2. CASE CompactorMerges
  <2>1. PICK S \in SUBSET (visible \ {Merged}) : compactor' = [pc |-> "lock", files |-> S]
    BY <1>2 DEF CompactorMerges
  <2>2. wal = "open"
    BY <1>2 DEF CompactorMerges, ThreadsEnded, Typed, TypeOK
  <2> USE <1>2, <2>1 DEF CompactorMerges
  <2>3. Typed'
    BY DEF Typed, TypeOK, Running, requests, File
  <2>4. LockHeld'
    BY DEF LockHeld, requests
  <2>5. ThreadsEnded'
    BY <2>2 DEF ThreadsEnded, Merging, Joined, IsClosed
  <2>6. LogKept'
    BY LogFrame DEF requests
  <2>7. FilesStored'
    BY <2>2 DEF FilesStored, QueriesMissRowsOnlyAtTheEnd, requests
  <2> QED
    BY <2>3, <2>4, <2>5, <2>6, <2>7
<1>3. CASE CompactorLocks
  <2> USE <1>3 DEF CompactorLocks, store
  <2>1. Typed'
    BY DEF Typed, TypeOK, Running, requests
  <2>2. LockHeld'
    BY ShutdownAssumption DEF LockHeld, Typed, TypeOK, requests
  <2>3. ThreadsEnded'
    BY DEF ThreadsEnded, Merging, Joined, IsClosed, Typed, TypeOK
  <2>4. LogKept'
    BY LogFrame DEF requests
  <2>5. FilesStored'
    BY FilesFrame DEF requests
  <2> QED
    BY <2>1, <2>2, <2>3, <2>4, <2>5
<1>4. CASE CompactorCommits
  <2> USE <1>4 DEF CompactorCommits
  <2>1. Merged \in backing
    BY DEF FilesStored
  <2>2. lock = "compactor"
    BY DEF LockHeld
  <2>3. Typed'
    BY DEF Typed, TypeOK, Running, requests, File
  <2>4. LockHeld'
    BY <2>2, ShutdownAssumption DEF LockHeld, requests, Closers
  <2>5. ThreadsEnded'
    BY DEF ThreadsEnded, Merging, Joined, IsClosed
  <2>6. LogKept'
    BY ShutdownAssumption DEF LogKept, requests
  <2>7. FilesStored'
    BY <2>1 DEF FilesStored, QueriesMissRowsOnlyAtTheEnd, requests
  <2> QED
    BY <2>3, <2>4, <2>5, <2>6, <2>7
<1> QED
  BY <1>1, <1>2, <1>3, <1>4 DEF Compactor

----------------------------------------------------------------------------
(* The indexer thread and the snapshot thread                              *)

LEMMA IndexerStep == ASSUME IInv, Running, Indexer PROVE IInv'
<1> USE DEF IInv, store, requests, threads
<1>1. CASE RunIndexJob
  <2> USE <1>1 DEF RunIndexJob
  <2>1. /\ queues' \in [QueueName -> Seq(Element)]
        /\ queues'["compaction"] \in Seq({Close})
        /\ queues'["indexer"] \in Seq(Queries \cup {Close})
        /\ queues'["snapshot"] \in Seq((SUBSET File) \cup {Close})
        /\ queues'["snapshot"] = queues["snapshot"]
    BY TypedPop DEF QueueName
  <2>2. Typed'
    BY <2>1 DEF Typed, TypeOK, Running
  <2> QED
    BY <2>1, <2>2, LockFrame, ThreadsFrame, LogFrame, FilesFrame
<1>2. CASE IndexerStops
  <2> USE <1>2 DEF IndexerStops
  <2>1. Typed'
    BY DEF Typed, TypeOK, Running
  <2> QED
    BY <2>1, LockFrame, ThreadsFrame, LogFrame, FilesFrame
<1> QED
  BY <1>1, <1>2 DEF Indexer

LEMMA SnapshotterStep == ASSUME IInv, Running, Snapshotter PROVE IInv'
<1> USE DEF IInv, requests
<1>1. CASE CopyFiles
  <2> USE <1>1 DEF CopyFiles
  <2>1. /\ queues' \in [QueueName -> Seq(Element)]
        /\ queues'["compaction"] \in Seq({Close})
        /\ queues'["indexer"] \in Seq(Queries \cup {Close})
        /\ queues'["snapshot"] \in Seq((SUBSET File) \cup {Close})
    BY TypedPop DEF QueueName
  <2>2. Head(queues["snapshot"]) \in SUBSET File
    BY SnapshotJob
  <2>3. wal = "open"
    BY DEF ThreadsEnded, Typed, TypeOK
  <2>4. Typed'
    BY <2>1, <2>2 DEF Typed, TypeOK, Running
  <2>5. ThreadsEnded'
    BY <2>3 DEF ThreadsEnded
  <2>6. FilesStored'
    BY <2>3 DEF FilesStored, QueriesMissRowsOnlyAtTheEnd
  <2> QED
    BY <2>4, <2>5, <2>6, LockFrame, LogFrame
<1>2. CASE ForgetFiles
  <2> USE <1>2 DEF ForgetFiles
  <2>1. Typed'
    BY DEF Typed, TypeOK, Running
  <2>2. ThreadsEnded'
    BY DEF ThreadsEnded, IsClosed
  <2>3. FilesStored'
    BY DEF FilesStored, QueriesMissRowsOnlyAtTheEnd
  <2> QED
    BY <2>1, <2>2, <2>3, LockFrame, LogFrame
<1>3. CASE SnapshotterStops
  <2> USE <1>3 DEF SnapshotterStops, store
  <2>1. Typed'
    BY DEF Typed, TypeOK, Running
  <2>2. ThreadsEnded'
    BY DEF ThreadsEnded, IsClosed, Typed, TypeOK
  <2> QED
    BY <2>1, <2>2, LockFrame, LogFrame, FilesFrame DEF Typed, TypeOK
<1> QED
  BY <1>1, <1>2, <1>3 DEF Snapshotter

LEMMA ErrorStep == ASSUME IInv, Running, CompactionFails \/ SnapshotJobFails PROVE IInv'
<1> USE DEF IInv, store, requests
<1>1. CASE CompactionFails
  <2> USE <1>1 DEF CompactionFails, Unwound
  <2>1. Typed'
    BY DEF Typed, TypeOK, Running, Closers
  <2>2. LockHeld'
    BY DEF LockHeld, Typed, TypeOK, Holding, Merging, Joined
  <2>3. ThreadsEnded'
    BY DEF ThreadsEnded, IsClosed, Typed, TypeOK, Merging, Joined
  <2> QED
    BY <2>1, <2>2, <2>3, LogFrame, FilesFrame DEF Typed, TypeOK
<1>2. CASE SnapshotJobFails
  <2> USE <1>2 DEF SnapshotJobFails, Unwound
  <2>1. /\ queues' \in [QueueName -> Seq(Element)]
        /\ queues'["compaction"] \in Seq({Close})
        /\ queues'["indexer"] \in Seq(Queries \cup {Close})
        /\ queues'["snapshot"] \in Seq((SUBSET File) \cup {Close})
    BY TypedPop DEF QueueName, Typed, TypeOK
  <2>2. Typed'
    BY <2>1 DEF Typed, TypeOK, Running, Closers
  <2>3. LockHeld'
    BY DEF LockHeld, Typed, TypeOK, Holding, Merging, Joined
  <2>4. ThreadsEnded'
    BY DEF ThreadsEnded, Typed, TypeOK, Merging, Joined
  <2> QED
    BY <2>2, <2>3, <2>4, LogFrame, FilesFrame
<1> QED
  BY <1>1, <1>2

----------------------------------------------------------------------------
(* Requests                                                                *)

LEMMA AskStep == ASSUME IInv, Running, NEW w \in Writers, Ask(w) PROVE IInv'
<1> USE DEF IInv, store, threads, Ask
<1>1. Typed'
  BY DEF Typed, TypeOK, Running
<1>2. LockHeld'
  BY DEF LockHeld, Typed, TypeOK
<1>3. LogKept'
  BY DEF LogKept, Typed, TypeOK
<1> QED
  BY <1>1, <1>2, <1>3, ThreadsFrame, FilesFrame

LEMMA WriterStep == ASSUME IInv, Running, NEW w \in Writers, Writer(w) PROVE IInv'
<1> USE DEF IInv, store, threads
<1>1. CASE Lock(w)
  <2> USE <1>1 DEF Lock
  <2>1. Typed'
    BY DEF Typed, TypeOK, Running
  <2>2. LockHeld'
    BY ShutdownAssumption DEF LockHeld, Typed, TypeOK
  <2>3. LogKept'
    BY DEF LogKept, Typed, TypeOK
  <2> QED
    BY <2>1, <2>2, <2>3, ThreadsFrame, FilesFrame
<1>2. CASE AppendEntries(w)
  <2> USE <1>2 DEF AppendEntries
  <2>1. Typed'
    BY DEF Typed, TypeOK, Running, File
  <2>2. LockHeld'
    BY DEF LockHeld, Typed, TypeOK
  <2>3. ThreadsEnded'
    BY ThreadsFrame
  <2>4. LogKept'
    BY DEF LogKept, Typed, TypeOK
  <2>5. FilesStored'
    BY DEF FilesStored, QueriesMissRowsOnlyAtTheEnd
  <2> QED
    BY <2>1, <2>2, <2>3, <2>4, <2>5
<1>3. CASE Acknowledge(w)
  <2> USE <1>3 DEF Acknowledge
  <2>1. lock = w /\ w \in log
    BY DEF LockHeld, LogKept
  <2>2. memTable \in SUBSET File
    BY DEF Typed, TypeOK, File
  <2>3. /\ queues' \in [QueueName -> Seq(Element)]
        /\ queues'["compaction"] \in Seq({Close})
        /\ queues'["indexer"] \in Seq(Queries \cup {Close})
        /\ queues'["snapshot"] \in Seq((SUBSET File) \cup {Close})
        /\ IsClosed("snapshot") => IsClosed("snapshot")'
    <3>1. CASE UNCHANGED queues
      BY <3>1 DEF Typed, TypeOK, IsClosed
    <3>2. CASE queues' = [queues EXCEPT !["snapshot"] = Pushed(@, memTable)]
      BY <2>2, <3>2, TypedPush DEF QueueName, Element
    <3> QED
      BY <3>1, <3>2
  <2>4. Typed'
    BY <2>1, <2>3 DEF Typed, TypeOK, Running
  <2>5. LockHeld'
    BY <2>1, ShutdownAssumption DEF LockHeld, Typed, TypeOK
  <2>6. ThreadsEnded'
    BY <2>3 DEF ThreadsEnded
  <2>7. LogKept'
    BY <2>1 DEF LogKept, Typed, TypeOK
  <2>8. FilesStored'
    BY FilesFrame
  <2> QED
    BY <2>4, <2>5, <2>6, <2>7, <2>8
<1>4. CASE writer[w] \in {"locked", "appended"} /\ Fail(w)
  <2> USE <1>4 DEF Fail
  <2>1. lock = w /\ writer[w] = "locked" /\ w \notin log
    BY DEF LockHeld, LogKept
  <2>2. Typed'
    BY DEF Typed, TypeOK, Running
  <2>3. LockHeld'
    BY <2>1, ShutdownAssumption DEF LockHeld, Typed, TypeOK
  <2>4. LogKept'
    BY <2>1 DEF LogKept, Typed, TypeOK
  <2> QED
    BY <2>2, <2>3, <2>4, ThreadsFrame, FilesFrame
<1> QED
  BY <1>1, <1>2, <1>3, <1>4 DEF Writer

LEMMA BeginStep == ASSUME IInv, Running, NEW q \in Queries, Begin(q) PROVE IInv'
<1> USE DEF IInv, store, threads, Begin
<1>1. Typed'
  BY DEF Typed, TypeOK, Running
<1>2. FilesStored'
  BY DEF FilesStored, QueriesMissRowsOnlyAtTheEnd, Typed, TypeOK
<1> QED
  BY <1>1, <1>2, LockFrame, ThreadsFrame, LogFrame

LEMMA ReadStep ==
    ASSUME IInv, Running, NEW q \in Queries, NEW f \in File, Read(q, f) PROVE IInv'
<1> USE DEF IInv, store, threads, Read
<1>1. /\ queues' \in [QueueName -> Seq(Element)]
      /\ queues'["compaction"] \in Seq({Close})
      /\ queues'["indexer"] \in Seq(Queries \cup {Close})
      /\ queues'["snapshot"] \in Seq((SUBSET File) \cup {Close})
      /\ IsClosed("snapshot") => IsClosed("snapshot")'
  <2>1. CASE UNCHANGED queues
    BY <2>1 DEF Typed, TypeOK, IsClosed
  <2>2. CASE queues' = [queues EXCEPT !["indexer"] = Pushed(@, q)]
    BY <2>2, TypedPush DEF QueueName, Element
  <2> QED
    BY <2>1, <2>2
<1>2. query[q] \in [pc : {"new", "run", "answered"}, todo : SUBSET File, missed : SUBSET File]
  BY DEF Typed, TypeOK
<1>3. CASE f \in pool \cup memTable \cup backing
  <2>1. query' = [query EXCEPT ![q].todo = @ \ {f}] /\ pool' = pool \cup {f}
    BY <1>3
  <2>2. Typed'
    BY <1>1, <1>2, <2>1 DEF Typed, TypeOK, Running
  <2>3. \A p \in Queries : /\ query'[p].todo \subseteq query[p].todo
                           /\ query'[p].missed = query[p].missed
    BY <2>1 DEF Typed, TypeOK
  <2>4. FilesStored'
    BY <2>3 DEF FilesStored, QueriesMissRowsOnlyAtTheEnd
  <2> QED
    BY <1>1, <2>2, <2>4, LockFrame, LogFrame DEF ThreadsEnded
<1>4. CASE f \notin pool \cup memTable \cup backing
  <2>1. /\ query' = [query EXCEPT ![q].todo = @ \ {f}, ![q].missed = @ \cup {f}]
        /\ UNCHANGED pool
    BY <1>4
  <2>2. Typed'
    BY <1>1, <1>2, <2>1 DEF Typed, TypeOK, Running
  <2>3. \A p \in Queries : /\ query'[p].todo \subseteq query[p].todo
                           /\ query'[p].missed \subseteq query[p].missed \cup {f}
    BY <1>2, <2>1 DEF Typed, TypeOK
  <2>4. wal = "closed" /\ memTable = {}
    BY <1>4 DEF FilesStored
  <2>5. FilesStored'
    BY <1>4, <2>3, <2>4 DEF FilesStored, QueriesMissRowsOnlyAtTheEnd
  <2> QED
    BY <1>1, <2>2, <2>5, LockFrame, LogFrame DEF ThreadsEnded
<1> QED
  BY <1>3, <1>4

LEMMA AnswerStep == ASSUME IInv, Running, NEW q \in Queries, AnswerQuery(q) PROVE IInv'
<1> USE DEF IInv, store, threads, AnswerQuery
<1>1. Typed'
  BY DEF Typed, TypeOK, Running
<1>2. FilesStored'
  BY DEF FilesStored, QueriesMissRowsOnlyAtTheEnd, Typed, TypeOK
<1> QED
  BY <1>1, <1>2, LockFrame, ThreadsFrame, LogFrame

----------------------------------------------------------------------------
(* Closing                                                                 *)

LEMMA StartClosingStep ==
    ASSUME IInv, Running, NEW c \in Closers, StartClosing(c) PROVE IInv'
<1> USE DEF IInv, store, threads, requests, StartClosing
<1>1. Typed'
  BY DEF Typed, TypeOK, Running
<1>2. LockHeld'
  BY DEF LockHeld, Typed, Holding, Merging, Joined
<1>3. ThreadsEnded'
  BY DEF ThreadsEnded, IsClosed, Typed, Merging, Joined
<1> QED
  BY <1>1, <1>2, <1>3, LogFrame, FilesFrame

LEMMA TryLockStep == ASSUME IInv, Running, NEW c \in Closers, TryLock(c) PROVE IInv'
<1> USE DEF IInv, store, threads, requests, TryLock
<1>1. Typed'
  BY DEF Typed, TypeOK, Running, Holding
<1>2. LockHeld'
  BY ShutdownAssumption DEF LockHeld, Typed, Holding, Merging, Joined
<1>3. ThreadsEnded'
  BY DEF ThreadsEnded, IsClosed, Typed, Merging, Joined
<1> QED
  BY <1>1, <1>2, <1>3, LogFrame, FilesFrame

\* Of the steps of a closer these take it from one place to the next.
LEMMA QueueCloseStep ==
    ASSUME IInv, Running, NEW c \in Closers,
           NEW name \in QueueName,
           NEW from \in {"close compaction", "close indexer", "close snapshots"},
           NEW to \in {"join compaction", "join indexer", "join snapshots"},
           QueueClose(c, name, from, to),
           to # "join compaction" => from \in Merging
    PROVE  IInv'
<1> USE DEF IInv, store, threads, requests, QueueClose, Step
<1>1. /\ queues' \in [QueueName -> Seq(Element)]
      /\ queues'["compaction"] \in Seq({Close})
      /\ queues'["indexer"] \in Seq(Queries \cup {Close})
      /\ queues'["snapshot"] \in Seq((SUBSET File) \cup {Close})
      /\ IsClosed("snapshot") => IsClosed("snapshot")'
  BY TypedPush DEF Element
<1>2. Typed'
  BY <1>1 DEF Typed, TypeOK, Running, Holding, Merging
<1>3. LockHeld'
  BY DEF LockHeld, Typed, Holding, Merging, Joined
<1>4. ThreadsEnded'
  BY <1>1 DEF ThreadsEnded, Typed, Merging, Joined
<1> QED
  BY <1>2, <1>3, <1>4, LogFrame, FilesFrame

LEMMA JoinStep ==
    ASSUME IInv, Running, NEW c \in Closers,
           \/ JoinThread(c, compactor.pc, "join compaction", "close indexer")
           \/ JoinThread(c, indexer, "join indexer", "close snapshots")
           \/ JoinThread(c, snapshotter.pc, "join snapshots", "close wal")
    PROVE  IInv'
<1> USE DEF IInv, store, threads, requests, JoinThread, Step
<1>1. Typed'
  BY DEF Typed, TypeOK, Running, Holding, Merging, Joined
<1>2. LockHeld'
  BY DEF LockHeld, Typed, Holding, Merging, Joined
<1>3. ThreadsEnded'
  BY DEF ThreadsEnded, IsClosed, Typed, Merging, Joined
<1> QED
  BY <1>1, <1>2, <1>3, LogFrame, FilesFrame

LEMMA CloseStoresStep ==
    ASSUME IInv, Running, NEW c \in Closers,
           CloseWal(c) \/ CloseMemTable(c) \/ ClosePool(c)
    PROVE  IInv'
<1> USE DEF IInv, threads, requests, Step
<1>1. lock = c /\ closer[c] \in Joined /\ compactor.pc = "ended" /\ snapshotter.pc = "ended"
  BY DEF LockHeld, ThreadsEnded, CloseWal, CloseMemTable, ClosePool, Joined, Merging, Holding
<1>2. CASE CloseWal(c)
  <2> USE <1>2 DEF CloseWal
  <2>1. Typed'
    BY DEF Typed, TypeOK, Running, Holding, Merging, Joined
  <2>2. LockHeld'
    BY DEF LockHeld, Typed, Holding, Merging, Joined
  <2>3. ThreadsEnded'
    BY <1>1 DEF ThreadsEnded, IsClosed, Typed, Merging, Joined
  <2>4. LogKept'
    BY <1>1, ShutdownAssumption DEF LogKept, LockHeld
  <2>5. FilesStored'
    BY <1>1 DEF FilesStored, QueriesMissRowsOnlyAtTheEnd
  <2> QED
    BY <2>1, <2>2, <2>3, <2>4, <2>5
<1>3. CASE CloseMemTable(c)
  <2> USE <1>3 DEF CloseMemTable
  <2>1. Typed'
    BY DEF Typed, TypeOK, Running, Holding, Merging, Joined
  <2>2. LockHeld'
    BY DEF LockHeld, Typed, Holding, Merging, Joined
  <2>3. ThreadsEnded'
    BY <1>1 DEF ThreadsEnded, IsClosed, Typed, Merging, Joined
  <2>4. LogKept'
    BY LogFrame
  <2>5. wal = "closed"
    BY DEF ThreadsEnded
  <2>6. FilesStored'
    BY <1>1, <2>5 DEF FilesStored, QueriesMissRowsOnlyAtTheEnd
  <2> QED
    BY <2>1, <2>2, <2>3, <2>4, <2>6
<1>4. CASE ClosePool(c)
  <2> USE <1>4 DEF ClosePool, store
  <2>1. Typed'
    BY DEF Typed, TypeOK, Running, Holding
  <2>2. LockHeld'
    BY DEF LockHeld, Typed, Holding, Merging, Joined
  <2>3. ThreadsEnded'
    BY DEF ThreadsEnded, IsClosed, Typed, Merging, Joined
  <2> QED
    BY <2>1, <2>2, <2>3, LogFrame, FilesFrame
<1> QED
  BY <1>2, <1>3, <1>4

LEMMA ReleaseStep ==
    ASSUME IInv, Running, (\E c \in Closers : ReleaseLock(c)) \/ InterruptAgain
    PROVE  IInv'
<1>1. PICK c \in Closers : /\ closer[c] \in Holding
                           /\ closer' = [closer EXCEPT ![c] = "done"]
                           /\ lock' = Nobody
                           /\ UNCHANGED <<queues, threads, requests, visible, store, pool>>
  BY DEF IInv, ReleaseLock, InterruptAgain, Step, Closers, Typed, Holding
<1> USE <1>1 DEF IInv, store, threads, requests
<1>2. lock = c
  BY DEF LockHeld
<1>3. Typed'
  BY DEF Typed, TypeOK, Running
<1>4. LockHeld'
  BY <1>2, ShutdownAssumption DEF LockHeld, Typed, Holding, Merging, Joined, Closers
<1>5. ThreadsEnded'
  BY DEF ThreadsEnded, IsClosed, Typed, Merging, Joined
<1> QED
  BY <1>3, <1>4, <1>5, LogFrame, FilesFrame

LEMMA ClosingStep == ASSUME IInv, Running, NEW c \in Closers, Closing(c) PROVE IInv'
<1>1. CASE QueueClose(c, "compaction", "close compaction", "join compaction")
  BY <1>1, QueueCloseStep DEF QueueName
<1>2. CASE QueueClose(c, "indexer", "close indexer", "join indexer")
  BY <1>2, QueueCloseStep DEF QueueName, Merging
<1>3. CASE QueueClose(c, "snapshot", "close snapshots", "join snapshots")
  BY <1>3, QueueCloseStep DEF QueueName, Merging
<1> QED
  BY <1>1, <1>2, <1>3, TryLockStep, JoinStep, CloseStoresStep, ReleaseStep DEF Closing

----------------------------------------------------------------------------
(* The theorems                                                            *)

LEMMA Invariant == Spec => []IInv
<1>1. Init => IInv
  <2> USE DEF Init, IInv, Closers
  <2>1. ASSUME Init PROVE Typed
    <3>1. queues \in [QueueName -> Seq(Element)]
      BY <2>1 DEF QueueName
    <3>2. \A name \in QueueName : \A S : queues[name] \in Seq(S)
      BY <2>1 DEF QueueName
    <3> QED
      BY <2>1, <3>1, <3>2 DEF Typed, TypeOK, QueueName
  <2>2. ASSUME Init PROVE LockHeld
    BY <2>2 DEF LockHeld, Holding, Merging, Joined
  <2>3. ASSUME Init PROVE ThreadsEnded
    BY <2>3 DEF ThreadsEnded, Merging, Joined
  <2>4. ASSUME Init PROVE LogKept
    BY <2>4 DEF LogKept
  <2>5. ASSUME Init PROVE FilesStored
    BY <2>5 DEF FilesStored, QueriesMissRowsOnlyAtTheEnd
  <2> QED
    BY <2>1, <2>2, <2>3, <2>4, <2>5
<1>2. IInv /\ [Next]_vars => IInv'
  <2> SUFFICES ASSUME IInv, [Next]_vars PROVE IInv'
    OBVIOUS
  <2>1. ASSUME UNCHANGED <<lock, queues, threads, closer, requests, visible, store, pool>>,
               ended' \in BOOLEAN
        PROVE  IInv'
    <3>1. Typed'
      BY <2>1 DEF IInv, Typed, TypeOK, threads, requests, store
    <3> QED
      BY <2>1, <3>1, LockFrame, ThreadsFrame, LogFrame, FilesFrame
      DEF IInv, threads, requests, store
  <2>2. CASE UNCHANGED vars
    BY <2>1, <2>2 DEF vars, IInv, Typed, TypeOK
  <2>3. CASE ~ended /\ \E c \in Closers : Exit(c)
    BY <2>1, <2>3 DEF Exit
  <2> QED
    BY <2>2, <2>3, CompactorStep, IndexerStep, SnapshotterStep, ErrorStep, AskStep, WriterStep,
       BeginStep, ReadStep, AnswerStep, StartClosingStep, ClosingStep, ReleaseStep
    DEF Next
<1> QED
  BY <1>1, <1>2, PTL DEF Spec

\* Every variable keeps its type, the queues hold only what their threads take,
\* and the visible files are files of the log.
THEOREM TypeCorrect == Spec => []TypeOK
<1>1. IInv => TypeOK
  BY DEF IInv, Typed
<1> QED
  BY <1>1, Invariant, PTL

\* However many requests there are and wherever the closer meets them, what was
\* acknowledged is in the log and what was refused is not, and a log that was
\* closed has no half commit and no job of the snapshot thread left.
THEOREM ClosedWhole == Spec => []CloseLeavesTheStoreWhole
<1>1. IInv => CloseLeavesTheStoreWhole
  <2> SUFFICES ASSUME IInv PROVE CloseLeavesTheStoreWhole
    OBVIOUS
  <2>1. AnswersMatchLog
    BY DEF IInv, LogKept, AnswersMatchLog
  <2>2. ClosedLogIsWhole
    BY DEF IInv, LogKept, ThreadsEnded, ClosedLogIsWhole, HasJob, IsClosed
  <2> QED
    BY <2>1, <2>2 DEF CloseLeavesTheStoreWhole
<1> QED
  BY <1>1, Invariant, PTL

\* No query of any number misses a file of the database it began with before
\* the mem table was closed, and none ever misses a file of the backing store.
THEOREM NoRowsMissed == Spec => []QueriesMissRowsOnlyAtTheEnd
<1>1. IInv => QueriesMissRowsOnlyAtTheEnd
  BY DEF IInv, FilesStored
<1> QED
  BY <1>1, Invariant, PTL
=============================================================================
