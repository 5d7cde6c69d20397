------------------------------ MODULE Shutdown ------------------------------
(***************************************************************************)
(* The end of the process (core.lisp): an interrupt of the main thread, a  *)
(* panic of a worker or an error of a background thread closes the         *)
(* database while requests are still served.  The closer tries to get the  *)
(* write lock, and with it ends the compaction thread, the indexer thread  *)
(* and the snapshot thread one after the other, by closing the queue each  *)
(* of them reads (queue.lisp) and joining it, then closes the log, the mem *)
(* table and the buffer pool.                                              *)
(*                                                                         *)
(* Of the data only files are left: one for each writer that committed and *)
(* one for the compaction.  Reading a file that is not found gives no rows *)
(* and no error.  A rotation of the log is a free choice of the commit.    *)
(***************************************************************************)
EXTENDS Naturals, Sequences, FiniteSets, TLC

CONSTANTS Writers,  \* requests that commit, each bringing a file of its name
          Queries,  \* requests that read
          Merged,   \* the file the compaction makes, once
          Close,    \* the element queue-close pushes
          Nobody    \* the owner of a free lock

\* The main thread when it is interrupted, and a worker that panics.
Closers == {"main", "worker"}

\* The threads that take the lock are different ones, and so are the files.
ASSUME ShutdownAssumption ==
    /\ Merged \notin Writers /\ Close \notin Queries
    /\ Writers \cap (Closers \cup {"compactor"}) = {}
    /\ Nobody \notin Writers \cup Closers \cup {"compactor"}

VARIABLES lock,      \* dbms-write-lock
          queues,    \* the three job queues, oldest element first
          compactor, indexer, snapshotter, \* the background threads
          closer,    \* where each closer is in %endb-close-dbms
          writer, query,
          visible,   \* the files of dbms-db
          log,       \* the files whose commit is in the log
          wal,       \* is the log open?
          memTable, backing, \* the files of the two object stores
          pool,      \* the files of the buffer pool
          ended      \* the process is gone

threads == <<compactor, indexer, snapshotter>>
store == <<log, wal, memTable, backing>>
requests == <<writer, query>>
vars == <<lock, queues, threads, closer, requests, visible, store, pool, ended>>

File == Writers \cup {Merged}

-----------------------------------------------------------------------------
(* Queues                                                                  *)

\* Mutant: a queue that holds a job accepts nothing.
MPushed(queue, x) == IF queue # <<>> THEN queue ELSE <<x>>

\* queue-push: nothing is accepted once Close is the oldest element.  What is
\* pushed behind it is accepted and never popped.
Pushed(queue, x) ==
    IF queue # <<>> /\ Head(queue) = Close THEN queue ELSE Append(queue, x)

\* queue-pop leaves Close where it is: every later call finds it again.
Popped(name) == [queues EXCEPT ![name] = Tail(@)]

IsClosed(name) == queues[name] # <<>> /\ Head(queues[name]) = Close

HasJob(name) == queues[name] # <<>> /\ Head(queues[name]) # Close

-----------------------------------------------------------------------------
(* The compaction thread: queue-pop with a time-out is its clock           *)

CompactorStops ==
    /\ compactor.pc = "wait" /\ IsClosed("compaction")
    /\ compactor' = [compactor EXCEPT !.pc = "ended"]
    /\ UNCHANGED <<lock, queues, indexer, snapshotter, closer, requests, visible, store, pool>>

CompactorMerges ==
    /\ compactor.pc = "wait" /\ queues["compaction"] = <<>>
    /\ \E S \in SUBSET (visible \ {Merged}) :
           /\ Cardinality(S) > 1
           /\ Merged \notin backing
           /\ compactor' = [pc |-> "lock", files |-> S]
    /\ backing' = backing \cup {Merged}
    /\ UNCHANGED <<lock, queues, indexer, snapshotter, closer, requests, visible, log, wal,
                   memTable, pool>>

CompactorLocks ==
    /\ compactor.pc = "lock" /\ lock = Nobody
    /\ lock' = "compactor"
    /\ compactor' = [compactor EXCEPT !.pc = "locked"]
    /\ UNCHANGED <<queues, indexer, snapshotter, closer, requests, visible, store, pool>>

\* Mutant: the files are exchanged in memory only.
MCompactorCommits ==
    /\ compactor.pc = "locked"
    /\ visible' = (visible \ compactor.files) \cup {Merged}
    /\ pool' = pool \ compactor.files
    /\ lock' = Nobody
    /\ compactor' = [pc |-> "wait", files |-> {}]
    /\ UNCHANGED <<queues, indexer, snapshotter, closer, requests, store>>

CompactorCommits ==
    /\ compactor.pc = "locked"
    /\ log' = log \cup {Merged}
    /\ visible' = (visible \ compactor.files) \cup {Merged}
    /\ pool' = pool \ compactor.files
    /\ lock' = Nobody
    /\ compactor' = [pc |-> "wait", files |-> {}]
    /\ UNCHANGED <<queues, indexer, snapshotter, closer, requests, wal, memTable, backing>>

Compactor == CompactorStops \/ CompactorMerges \/ CompactorLocks \/ CompactorCommits

-----------------------------------------------------------------------------
(* The indexer thread and the snapshot thread                              *)

RunIndexJob ==
    /\ indexer = "wait" /\ HasJob("indexer")
    /\ queues' = Popped("indexer")
    /\ UNCHANGED <<lock, threads, closer, requests, visible, store, pool>>

IndexerStops ==
    /\ indexer = "wait" /\ IsClosed("indexer")
    /\ indexer' = "ended"
    /\ UNCHANGED <<lock, queues, compactor, snapshotter, closer, requests, visible, store, pool>>

Indexer == RunIndexJob \/ IndexerStops

\* A job copies the files of the logs it was queued with into the backing
\* store, and forgets them in the mem table when the snapshot is complete.
CopyFiles ==
    /\ snapshotter.pc = "wait" /\ HasJob("snapshot")
    /\ snapshotter' = [pc |-> "forget", files |-> Head(queues["snapshot"])]
    /\ queues' = Popped("snapshot")
    /\ backing' = backing \cup Head(queues["snapshot"])
    /\ UNCHANGED <<lock, compactor, indexer, closer, requests, visible, log, wal, memTable, pool>>

\* Mutant: the mem table is emptied, with what came after the job.
MForgetFiles ==
    /\ snapshotter.pc = "forget"
    /\ memTable' = {}
    /\ snapshotter' = [pc |-> "wait", files |-> {}]
    /\ UNCHANGED <<lock, queues, compactor, indexer, closer, requests, visible, log, wal,
                   backing, pool>>

ForgetFiles ==
    /\ snapshotter.pc = "forget"
    /\ memTable' = memTable \ snapshotter.files
    /\ snapshotter' = [pc |-> "wait", files |-> {}]
    /\ UNCHANGED <<lock, queues, compactor, indexer, closer, requests, visible, log, wal,
                   backing, pool>>

SnapshotterStops ==
    /\ snapshotter.pc = "wait" /\ IsClosed("snapshot")
    /\ snapshotter' = [snapshotter EXCEPT !.pc = "ended"]
    /\ UNCHANGED <<lock, queues, compactor, indexer, closer, requests, visible, store, pool>>

Snapshotter == CopyFiles \/ ForgetFiles \/ SnapshotterStops

-----------------------------------------------------------------------------
(* Errors of the threads                                                   *)

\* Nothing handles an error of a background thread.  In an image built with
\* --non-interactive SBCL then unwinds the main thread, as an interrupt does.
Unwound == [closer EXCEPT !["main"] = IF @ = "serving" THEN "try" ELSE @]

CompactionFails ==
    /\ compactor.pc = "wait" /\ queues["compaction"] = <<>>
    /\ Cardinality(visible) > 1
    /\ compactor' = [compactor EXCEPT !.pc = "failed"]
    /\ closer' = Unwound
    /\ UNCHANGED <<lock, queues, indexer, snapshotter, requests, visible, store, pool>>

SnapshotJobFails ==
    /\ \/ /\ snapshotter.pc = "wait" /\ HasJob("snapshot")
          /\ queues' = Popped("snapshot")
       \/ /\ snapshotter.pc = "forget"
          /\ UNCHANGED queues
    /\ snapshotter' = [pc |-> "failed", files |-> {}]
    /\ closer' = Unwound
    /\ UNCHANGED <<lock, compactor, indexer, requests, visible, store, pool>>

-----------------------------------------------------------------------------
(* Requests, which the server takes until the process is gone              *)

Ask(w) ==
    /\ writer[w] = "new"
    /\ writer' = [writer EXCEPT ![w] = "lock"]
    /\ UNCHANGED <<lock, queues, threads, closer, query, visible, store, pool>>

Lock(w) ==
    /\ writer[w] = "lock" /\ lock = Nobody
    /\ lock' = w
    /\ writer' = [writer EXCEPT ![w] = "locked"]
    /\ UNCHANGED <<queues, threads, closer, query, visible, store, pool>>

\* Writing to a log that was closed is an error: the request is refused.
Fail(w) ==
    /\ wal = "closed"
    /\ writer' = [writer EXCEPT ![w] = "failed"]
    /\ lock' = IF lock = w THEN Nobody ELSE lock
    /\ UNCHANGED <<queues, threads, closer, query, visible, store, pool>>

\* store-write-tx up to the last entry of the commit.
AppendEntries(w) ==
    /\ writer[w] = "locked" /\ wal = "open"
    /\ log' = log \cup {w}
    /\ memTable' = memTable \cup {w}
    /\ writer' = [writer EXCEPT ![w] = "appended"]
    /\ UNCHANGED <<lock, queues, threads, closer, query, visible, wal, backing, pool>>

\* Its end: wal-fsync or %rotate-wal, which may queue a snapshot of all that
\* is in the mem table; the answer is given and the lock released.
Acknowledge(w) ==
    /\ writer[w] = "appended" /\ wal = "open"
    /\ \/ UNCHANGED queues
       \/ queues' = [queues EXCEPT !["snapshot"] = Pushed(@, memTable)]
    /\ visible' = visible \cup {w}
    /\ writer' = [writer EXCEPT ![w] = "acked"]
    /\ lock' = Nobody
    /\ UNCHANGED <<threads, closer, query, store, pool>>

Writer(w) ==
    \/ Lock(w) \/ AppendEntries(w) \/ Acknowledge(w)
    \/ writer[w] \in {"locked", "appended"} /\ Fail(w)

Begin(q) ==
    /\ query[q].pc = "new"
    /\ query' = [query EXCEPT ![q] = [pc |-> "run", todo |-> visible, missed |-> {}]]
    /\ UNCHANGED <<lock, queues, threads, closer, writer, visible, store, pool>>

\* buffer-pool-get: a file that neither the pool nor the store has is passed
\* over.  The first time a large file is searched its index is asked for.
Read(q, f) ==
    /\ f \in query[q].todo
    /\ IF f \in pool \cup memTable \cup backing
       THEN /\ pool' = pool \cup {f}
            /\ query' = [query EXCEPT ![q].todo = @ \ {f}]
            /\ \/ UNCHANGED queues
               \/ /\ f \notin pool
                  /\ queues' = [queues EXCEPT !["indexer"] = Pushed(@, q)]
       ELSE /\ query' = [query EXCEPT ![q].todo = @ \ {f}, ![q].missed = @ \cup {f}]
            /\ UNCHANGED <<pool, queues>>
    /\ UNCHANGED <<lock, threads, closer, writer, visible, store>>

AnswerQuery(q) ==
    /\ query[q].pc = "run" /\ query[q].todo = {}
    /\ query' = [query EXCEPT ![q].pc = "answered"]
    /\ UNCHANGED <<lock, queues, threads, closer, writer, visible, store, pool>>

-----------------------------------------------------------------------------
(* Closing: %endb-close-dbms, dbms-close, db-close and store-close         *)

\* An interrupt unwinds the main thread out of start-server; a panic calls the
\* hook on the thread that panicked.
StartClosing(c) ==
    /\ closer[c] = "serving"
    /\ closer' = [closer EXCEPT ![c] = "try"]
    /\ UNCHANGED <<lock, queues, threads, requests, visible, store, pool>>

\* Mutant: the database is closed without its lock.
MTryLock(c) ==
    /\ closer[c] = "try"
    /\ closer' = [closer EXCEPT ![c] = "close compaction"]
    /\ UNCHANGED <<lock, queues, threads, requests, visible, store, pool>>

\* The lock is not waited for: if it is taken the database is left as it is.
TryLock(c) ==
    /\ closer[c] = "try"
    /\ IF lock = Nobody
       THEN /\ lock' = c
            /\ closer' = [closer EXCEPT ![c] = "close compaction"]
       ELSE /\ closer' = [closer EXCEPT ![c] = "done"]
            /\ UNCHANGED lock
    /\ UNCHANGED <<queues, threads, requests, visible, store, pool>>

Step(c, from, to) ==
    /\ closer[c] = from
    /\ closer' = [closer EXCEPT ![c] = to]

QueueClose(c, name, from, to) ==
    /\ Step(c, from, to)
    /\ queues' = [queues EXCEPT ![name] = Pushed(@, Close)]
    /\ UNCHANGED <<lock, threads, requests, visible, store, pool>>

\* Joining a thread that ended with an error is an error too, and closing ends
\* there, but for the lock.
JoinThread(c, thread, from, to) ==
    /\ \/ thread = "ended" /\ Step(c, from, to)
       \/ thread = "failed" /\ Step(c, from, "release")
    /\ UNCHANGED <<lock, queues, threads, requests, visible, store, pool>>

CloseWal(c) ==
    /\ Step(c, "close wal", "close mem table")
    /\ wal' = "closed"
    /\ UNCHANGED <<lock, queues, threads, requests, visible, log, memTable, backing, pool>>

CloseMemTable(c) ==
    /\ Step(c, "close mem table", "close pool")
    /\ memTable' = {}
    /\ UNCHANGED <<lock, queues, threads, requests, visible, log, wal, backing, pool>>

ClosePool(c) ==
    /\ Step(c, "close pool", "release")
    /\ pool' = {}
    /\ UNCHANGED <<lock, queues, threads, requests, visible, store>>

ReleaseLock(c) ==
    /\ Step(c, "release", "done")
    /\ lock' = Nobody
    /\ UNCHANGED <<queues, threads, requests, visible, store, pool>>

Closing(c) ==
    \/ TryLock(c)
    \/ QueueClose(c, "compaction", "close compaction", "join compaction")
    \/ JoinThread(c, compactor.pc, "join compaction", "close indexer")
    \/ QueueClose(c, "indexer", "close indexer", "join indexer")
    \/ JoinThread(c, indexer, "join indexer", "close snapshots")
    \/ QueueClose(c, "snapshot", "close snapshots", "join snapshots")
    \/ JoinThread(c, snapshotter.pc, "join snapshots", "close wal")
    \/ CloseWal(c) \/ CloseMemTable(c) \/ ClosePool(c) \/ ReleaseLock(c)

\* A second interrupt while the main thread closes: unwind-protect gives the
\* lock back, and that is all.
InterruptAgain ==
    /\ closer["main"] \notin {"serving", "try", "release", "done"}
    /\ closer' = [closer EXCEPT !["main"] = "done"]
    /\ lock' = Nobody
    /\ UNCHANGED <<queues, threads, requests, visible, store, pool>>

\* uiop:quit of the main thread, the abort that follows a panic.
Exit(c) ==
    /\ closer[c] = "done"
    /\ ended' = TRUE
    /\ UNCHANGED <<lock, queues, threads, closer, requests, visible, store, pool>>

-----------------------------------------------------------------------------
Init ==
    /\ lock = Nobody
    /\ queues = [name \in {"compaction", "indexer", "snapshot"} |-> <<>>]
    /\ compactor = [pc |-> "wait", files |-> {}]
    /\ indexer = "wait"
    /\ snapshotter = [pc |-> "wait", files |-> {}]
    /\ closer = [c \in Closers |-> "serving"]
    /\ writer = [w \in Writers |-> "new"]
    /\ query = [q \in Queries |-> [pc |-> "new", todo |-> {}, missed |-> {}]]
    /\ visible = {} /\ log = {} /\ wal = "open"
    /\ memTable = {} /\ backing = {} /\ pool = {}
    /\ ended = FALSE

Running == ~ended /\ UNCHANGED ended

Next ==
    \/ /\ Running
       /\ \/ Compactor \/ Indexer \/ Snapshotter
          \/ CompactionFails \/ SnapshotJobFails
          \/ \E w \in Writers : Ask(w) \/ Writer(w)
          \/ \E q \in Queries : Begin(q) \/ AnswerQuery(q) \/ \E f \in File : Read(q, f)
          \/ \E c \in Closers : StartClosing(c) \/ Closing(c)
          \/ InterruptAgain
    \/ ~ended /\ \E c \in Closers : Exit(c)

Spec == Init /\ [][Next]_vars

\* Threads run when they can.  Nobody has to send a request, to interrupt the
\* process, or to make it panic, and no thread has to fail.
FairSpec ==
    /\ Spec
    /\ WF_vars(Running /\ Compactor)
    /\ WF_vars(Running /\ Indexer)
    /\ WF_vars(Running /\ Snapshotter)
    /\ \A w \in Writers : WF_vars(Running /\ Writer(w))
    /\ \A c \in Closers : WF_vars((Running /\ Closing(c)) \/ (~ended /\ Exit(c)))
=============================================================================
