----------------------------- MODULE DiskStore -----------------------------
(***************************************************************************)
(* The disk store of src/storage.lisp: the write-ahead log, its rotation   *)
(* into an archive, the snapshot thread, and the start-up that rebuilds    *)
(* the database from what a crash left on disk.                            *)
(*                                                                         *)
(* Abstractions.  A transaction is identified by its id (_last_tx + 1) and *)
(* by its version, the number of the process run ("boot") that wrote it.   *)
(* Its metadata diff adds the one arrow file it writes, so a database      *)
(* state (the fset map `md') is a function from ids to versions, and the   *)
(* version doubles as the sha1 the metadata records for the file.  A tar   *)
(* file is, per entry name, the last entry of that name: replay and        *)
(* extraction both apply entries in order.  Sizes are left out: whether a  *)
(* commit reaches *wal-target-size* is a free choice.                      *)
(***************************************************************************)
EXTENDS Naturals, Sequences, FiniteSets

CONSTANTS MaxTx,            \* bound: transaction ids are 1..MaxTx
          MaxBoot,          \* bound: the process is started at most MaxBoot times
          WalsPerSnapshot,  \* *wals-per-snapshot*
          RotateCrash,      \* may the process die inside %rotate-wal?
          TornWrites        \* may a crash leave half an entry behind?

ASSUME BoundsAssumption == MaxTx \in Nat \ {0} /\ MaxBoot \in Nat \ {0}
ASSUME SnapshotAssumption == WalsPerSnapshot \in Nat \ {0}
ASSUME CrashAssumption == RotateCrash \in BOOLEAN /\ TornWrites \in BOOLEAN

TxId == 1..MaxTx
WalName == 1..(MaxTx + 1)  \* a log is named after the first id it may hold
None == 0
Garbage == MaxBoot + 1     \* an arrow entry cut off and padded with zeros
Version == 0..MaxBoot
Content == 0..Garbage

Empty == [n \in TxId |-> None]
EmptyWal == [log |-> Empty, obj |-> Empty]
States == [TxId -> Version]
Objects == [TxId -> Content]
Wals == [log : States, obj : Objects]
Jobs == [wals : SUBSET WalName, md : States, tx : TxId, objs : SUBSET TxId]
NoJob == [wals |-> {}, md |-> Empty, tx |-> 1, objs |-> {}]

VARIABLES
  \* on disk
  walFiles,   \* names of the logs in the wal directory
  wal,        \* their contents
  archived,   \* names of the logs copied to object_store/_wal
  archive,    \* their contents
  objects,    \* arrow files in the backing object store
  snapFiles,  \* ids of the snapshots in object_store/_snapshot
  snaps,      \* their contents
  latest,     \* tx_id of latest_snapshot.json, or None
  tail,       \* what a crash cut short at the end of the last log
  \* in memory
  mode,       \* of the process
  boot,       \* number of this run of the process
  md,         \* metadata of dbms-db; while down, what it last was
  doubt,      \* version of the transaction being written, or None
  pc,         \* where the committing thread is; it holds the write lock
  active,     \* name of the log the open stream writes to
  gap,        \* is the stream positioned behind an end-of-archive marker?
  mem,        \* mem-table-object-store
  pending,    \* pending-wals
  queue,      \* snapshot-queue
  spc,        \* where the snapshot thread is
  job,        \* the job it runs
  todo,       \* logs the current loop of the job has still to visit
  previous,   \* tx_id of the snapshot that was the latest before the job's
  reader,     \* file a query missed in mem and will fetch from disk, or None
  misread     \* has a query met a missing file or a wrong checksum?

logs == <<walFiles, wal, tail>>
archives == <<archived, archive>>
snapshots == <<snapFiles, snaps, latest>>
disk == <<logs, archives, objects, snapshots>>
process == <<mode, boot>>
tx == <<md, doubt, pc>>
stream == <<active, gap>>
tables == <<mem, pending, queue>>
thread == <<spc, job, todo, previous>>
query == <<reader, misread>>
vars == <<disk, process, tx, stream, tables, thread, query>>

----------------------------------------------------------------------------
MinOf(S) == CHOOSE x \in S : \A y \in S : x <= y
MaxOf(S) == CHOOSE x \in S : \A y \in S : y <= x

Has(s) == {n \in TxId : s[n] # None}

\* _last_tx of a database state.
Last(s) == IF Has(s) = {} THEN 0 ELSE MaxOf(Has(s))

\* The id of the transaction being written.
Tx == Last(md) + 1

\* json-merge-patch of md with the diff of the transaction being written.
NewMd == [md EXCEPT ![Tx] = doubt]

\* The last file of the wal directory, in the order of the names.
MLatestWalFile == IF walFiles = {} THEN 0 ELSE MaxOf(walFiles)
LatestWalFile == IF walFiles = {} THEN 1 ELSE MaxOf(walFiles)

\* What the first k entries of the transaction being written add to a log;
\* behind an end-of-archive marker they are never read again.
Logged(w, k) ==
    IF gap THEN w
    ELSE [log |-> IF k >= 2 THEN [w.log EXCEPT ![Tx] = doubt] ELSE w.log,
          obj |-> IF k >= 1 THEN [w.obj EXCEPT ![Tx] = doubt] ELSE w.obj]

\* Reading logs in the order of their names: the entry applied last wins.
LastOf(files, entries, base) ==
    [n \in TxId |->
        LET holding == {s \in files : entries[s][n] # None}
        IN  IF holding = {} THEN base[n] ELSE entries[MaxOf(holding)][n]]

\* Logs store-replay applies: those the latest snapshot does not precede.
MToApply(files) == {s \in files : latest = None \/ s > latest + 1}
ToApply(files) == {s \in files : latest = None \/ s >= latest}

\* Archived logs store-replay fetches over the local ones.
Fetched == {s \in archived : latest # None /\ s > latest}

\* What store-replay finds once it has fetched them, the logs it replays and
\* the database state it rebuilds.
Fresh(s) == IF s \in Fetched THEN archive[s] ELSE wal[s]
Replayed == ToApply(walFiles \cup Fetched)
Recovered == LastOf(Replayed, [s \in WalName |-> Fresh(s).log],
                    IF latest = None THEN Empty ELSE snaps[latest])

\* The snapshot store-replay is pointed to is there, and no log it applies has
\* a log entry padded with zeros, which is not JSON.
Readable ==
    /\ latest # None => latest \in snapFiles
    /\ ~(tail = "log" /\ active \in Replayed \ Fetched)

\* queue-push and queue-pop: first in, first out.
MPushed(q, x) == <<x>> \o q
Pushed(q, x) == Append(q, x)

\* Logs a snapshot job takes when it is queued, and those it deletes once
\* the snapshot is stored.
MWalsToUnpack == {LatestWalFile}
WalsToUnpack == walFiles
MWalsToDelete == walFiles
WalsToDelete == job.wals

\* The mem table without the files that were in it when the job was queued.
MForgotten == Empty
Forgotten == [n \in TxId |-> IF n \in job.objs THEN None ELSE mem[n]]

----------------------------------------------------------------------------
Init ==
    /\ walFiles = {} /\ wal = [s \in WalName |-> EmptyWal] /\ tail = "clean"
    /\ archived = {} /\ archive = [s \in WalName |-> EmptyWal]
    /\ objects = Empty
    /\ snapFiles = {} /\ snaps = [n \in TxId |-> Empty] /\ latest = None
    /\ mode = "down" /\ boot = 0
    /\ md = Empty /\ doubt = None /\ pc = "idle"
    /\ active = 1 /\ gap = FALSE /\ mem = Empty /\ pending = 0
    /\ queue = <<>> /\ spc = "idle" /\ job = NoJob /\ todo = {} /\ previous = None
    /\ reader = None /\ misread = FALSE

\* initialize-instance: the last log is opened at its end.  A damaged log is
\* copied aside and closed as an archive, which appends zeros to it.
Open ==
    /\ mode = "down" /\ boot < MaxBoot
    /\ mode' = "opened"
    /\ boot' = boot + 1
    /\ active' = LatestWalFile
    /\ walFiles' = walFiles \cup {LatestWalFile}
    /\ IF tail = "object"
       THEN wal' = [wal EXCEPT ![LatestWalFile].obj[Tx] = Garbage] /\ tail' = "clean"
       ELSE UNCHANGED <<wal, tail>>
    /\ UNCHANGED <<archives, objects, snapshots, tx, gap, tables, thread, query>>

\* store-replay: the metadata of the latest snapshot, then the logs from it
\* on, after the archived copies of those logs have been written over them.
Replay ==
    /\ mode = "opened" /\ Readable
    /\ mode' = "up"
    /\ walFiles' = walFiles \cup Fetched
    /\ wal' = [s \in WalName |-> Fresh(s)]
    /\ md' = Recovered
    /\ doubt' = None
    /\ mem' = LastOf(Replayed, [s \in WalName |-> Fresh(s).obj], Empty)
    /\ pending' = IF Replayed = {} THEN 0 ELSE Cardinality(Replayed) - 1
    /\ gap' = (active \in Fetched /\ archive[active] # wal[active])
    /\ UNCHANGED <<tail, archives, objects, snapshots, boot, pc, active, queue, thread,
                   query>>

\* store-replay signals an error and the process exits.
FailToReplay ==
    /\ mode = "opened" /\ ~Readable
    /\ mode' = "failed"
    /\ UNCHANGED <<disk, boot, tx, stream, tables, thread, query>>

----------------------------------------------------------------------------
(* store-write-tx, called with the write lock held.                        *)

\* The arrow file is appended to the log and put into the mem table.
AppendObject ==
    /\ mode = "up" /\ pc = "idle" /\ Last(md) < MaxTx
    /\ pc' = "object"
    /\ doubt' = boot
    /\ mem' = [mem EXCEPT ![Tx] = boot]
    /\ UNCHANGED <<disk, process, md, stream, pending, queue, thread, query>>

\* The metadata diff is appended to the log.
AppendLog ==
    /\ mode = "up" /\ pc = "object"
    /\ pc' = "log"
    /\ UNCHANGED <<disk, process, md, doubt, stream, tables, thread, query>>

MFlushTo(next) ==
    /\ mode = "up" /\ pc = "log"
    /\ pc' = next
    /\ UNCHANGED <<disk, process, md, doubt, stream, tables, thread, query>>

FlushTo(next) ==
    /\ mode = "up" /\ pc = "log"
    /\ wal' = [wal EXCEPT ![active] = Logged(@, 2)]
    /\ pc' = next
    /\ UNCHANGED <<walFiles, tail, archives, objects, snapshots, process, md, doubt,
                   stream, tables, thread, query>>

\* wal-fsync: the log is below its target size.
Fsync == FlushTo("stored")

\* %rotate-wal begins: wal-close, which flushes.
CloseWal == FlushTo("closed")

\* The closed log is archived; with enough of them pending, a job for the
\* snapshot thread takes the logs and the mem table as they now are.
ArchiveWal ==
    /\ mode = "up" /\ pc = "closed"
    /\ pc' = "archived"
    /\ archived' = archived \cup {LatestWalFile}
    /\ archive' = [archive EXCEPT ![LatestWalFile] = wal[LatestWalFile]]
    /\ IF pending + 1 >= WalsPerSnapshot
       THEN /\ pending' = 0
            /\ queue' = Pushed(queue, [wals |-> WalsToUnpack, md |-> NewMd, tx |-> Tx,
                                       objs |-> Has(mem)])
       ELSE pending' = pending + 1 /\ UNCHANGED queue
    /\ UNCHANGED <<logs, objects, snapshots, process, md, doubt, stream, mem, thread,
                   query>>

\* %rotate-wal ends: the next log is created.
OpenWal ==
    /\ mode = "up" /\ pc = "archived"
    /\ pc' = "stored"
    /\ active' = Tx + 1
    /\ walFiles' = walFiles \cup {Tx + 1}
    /\ gap' = FALSE
    /\ UNCHANGED <<wal, tail, archives, objects, snapshots, process, md, doubt, tables,
                   thread, query>>

\* commit-write-tx returns and dbms-db is set: the commit is acknowledged.
Commit ==
    /\ mode = "up" /\ pc = "stored"
    /\ pc' = "idle"
    /\ md' = NewMd
    /\ doubt' = None
    /\ UNCHANGED <<disk, process, stream, tables, thread, query>>

----------------------------------------------------------------------------
(* The snapshot thread.                                                    *)

MRunning == mode = "up"
Running == mode \in {"up", "closing"}

\* The next job is popped; of its logs it takes those that are still there.
TakeJob ==
    /\ Running /\ spc = "idle" /\ queue # <<>>
    /\ spc' = "unpack"
    /\ job' = [Head(queue) EXCEPT !.wals = @ \cap walFiles]
    /\ queue' = Tail(queue)
    /\ todo' = Head(queue).wals \cap walFiles
    /\ UNCHANGED <<disk, process, tx, stream, mem, pending, previous, query>>

\* %extract-tar-into-object-store for one log.
UnpackWal ==
    /\ Running /\ spc = "unpack" /\ todo # {}
    /\ LET content == wal[MinOf(todo)].obj
       IN  objects' = [n \in TxId |-> IF content[n] = None THEN objects[n]
                                                           ELSE content[n]]
    /\ todo' = todo \ {MinOf(todo)}
    /\ UNCHANGED <<logs, archives, snapshots, process, tx, stream, tables, spc, job,
                   previous, query>>

\* The snapshot is written, after the pointer to its predecessor was read.
PutSnapshot ==
    /\ Running /\ spc = "unpack" /\ todo = {}
    /\ spc' = "point"
    /\ previous' = latest
    /\ snapFiles' = snapFiles \cup {job.tx}
    /\ snaps' = [snaps EXCEPT ![job.tx] = job.md]
    /\ UNCHANGED <<logs, archives, objects, latest, process, tx, stream, tables, job,
                   todo, query>>

\* latest_snapshot.json is replaced.
PointToSnapshot ==
    /\ Running /\ spc = "point"
    /\ spc' = "prune"
    /\ latest' = job.tx
    /\ UNCHANGED <<logs, archives, objects, snapFiles, snaps, process, tx, stream,
                   tables, job, todo, previous, query>>

\* The snapshot it pointed to before is deleted; the logs are next.
DeletePrevious ==
    /\ Running /\ spc = "prune"
    /\ spc' = "delete"
    /\ snapFiles' = snapFiles \ {previous}
    /\ todo' = WalsToDelete
    /\ UNCHANGED <<logs, archives, objects, snaps, latest, process, tx, stream, tables,
                   job, previous, query>>

\* One log is deleted.
DeleteWal ==
    /\ Running /\ spc = "delete" /\ todo # {}
    /\ walFiles' = walFiles \ {MinOf(todo)}
    /\ wal' = [wal EXCEPT ![MinOf(todo)] = EmptyWal]
    /\ todo' = todo \ {MinOf(todo)}
    /\ UNCHANGED <<tail, archives, objects, snapshots, process, tx, stream, tables, spc,
                   job, previous, query>>

\* The files now in the backing store leave the mem table.
ForgetObjects ==
    /\ Running /\ spc = "delete" /\ todo = {}
    /\ spc' = "idle"
    /\ mem' = Forgotten
    /\ job' = NoJob
    /\ previous' = None
    /\ UNCHANGED <<disk, process, tx, stream, pending, queue, todo, query>>

SnapshotThread ==
    \/ TakeJob \/ UnpackWal \/ PutSnapshot \/ PointToSnapshot
    \/ DeletePrevious \/ DeleteWal \/ ForgetObjects

----------------------------------------------------------------------------
(* store-get-object, called by a query: the mem table, then the backing     *)
(* store.  buffer-pool-get asserts that what it gets has the sha1 of md.    *)

ReadMem ==
    /\ Running /\ reader = None
    /\ \E n \in Has(md) :
         IF mem[n] = None
         THEN reader' = n /\ UNCHANGED misread
         ELSE misread' = (misread \/ mem[n] # md[n]) /\ UNCHANGED reader
    /\ UNCHANGED <<disk, process, tx, stream, tables, thread>>

ReadBacking ==
    /\ Running /\ reader # None
    /\ misread' = (misread \/ objects[reader] # md[reader])
    /\ reader' = None
    /\ UNCHANGED <<disk, process, tx, stream, tables, thread>>

----------------------------------------------------------------------------
\* store-close, with the write lock held: the queue is closed and the
\* snapshot thread joined, which first finishes the jobs it was given.
BeginClose ==
    /\ mode = "up" /\ pc = "idle"
    /\ mode' = "closing"
    /\ UNCHANGED <<disk, boot, tx, stream, tables, thread, query>>

\* What is left of the process when it is gone: nothing.
Forget ==
    /\ mode' = "down"
    /\ pc' = "idle" /\ gap' = FALSE /\ mem' = Empty /\ pending' = 0
    /\ queue' = <<>> /\ spc' = "idle" /\ job' = NoJob /\ todo' = {} /\ previous' = None
    /\ reader' = None

EndClose ==
    /\ mode = "closing" /\ queue = <<>> /\ spc = "idle"
    /\ Forget
    /\ UNCHANGED <<disk, boot, md, doubt, active, misread>>

\* Entries of the transaction being written that wait in the stream's buffer.
Unflushed == CASE pc = "object" -> 1 [] pc = "log" -> 2 [] OTHER -> 0

\* The process dies.  Of the entries still in the stream's buffer a prefix
\* reached the log, and the next one perhaps in part.
Crash ==
    /\ mode \in {"opened", "up", "closing", "failed"}
    /\ pc \in {"closed", "archived"} => RotateCrash
    /\ \E k \in 0..Unflushed, cut \in BOOLEAN :
         /\ cut => TornWrites /\ ~gap /\ k < Unflushed
         /\ wal' = [wal EXCEPT ![active] = Logged(@, k)]
         /\ tail' = IF cut THEN (IF k = 0 THEN "object" ELSE "log") ELSE tail
    /\ Forget
    /\ UNCHANGED <<walFiles, archives, objects, snapshots, boot, md, doubt, active,
                   misread>>

Next ==
    \/ Open \/ Replay \/ FailToReplay
    \/ AppendObject \/ AppendLog \/ Fsync \/ CloseWal \/ ArchiveWal \/ OpenWal \/ Commit
    \/ SnapshotThread
    \/ ReadMem \/ ReadBacking
    \/ BeginClose \/ EndClose \/ Crash

Spec == Init /\ [][Next]_vars

\* The operating system runs every thread; nothing makes the process start,
\* commit, be asked to close or die.
FairSpec == Spec /\ WF_vars(SnapshotThread) /\ WF_vars(EndClose)
=============================================================================
