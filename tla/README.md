# Verification of endb

endb is a SQL document database: a Common Lisp core (`src/src`) behind a Rust
HTTP and WebSocket server (`src/lib`). This directory holds TLA+ models of the
parts whose correctness depends on order, concurrency and crashes, the TLC
configurations that check them, and TLAPS proofs about them.

## Inventory

| component | state it keeps | operations | properties that make it correct |
|---|---|---|---|
| disk store (`storage.lisp`) | logs, archive, snapshots, mem table, queue of snapshot jobs | open, replay, write a transaction, rotate, build a snapshot, get an object, close | nothing acknowledged is lost; a snapshot is complete before logs go; readers always find a file |
| log and object stores (`storage/wal.lisp`, `storage/object-store.lisp`) | tar streams, directories, hash tables | append, flush, close, put, get, delete, list | an entry is there as a whole or not |
| queue (`queue.lisp`) | list, lock, condition variable | push, pop, close | first in first out, closing ends the consumer |
| transactions (`sql.lisp`, `http.lisp`) | `dbms-db`, `dbms-write-lock`, one write-db per request | begin, execute, commit, retry | commits are serial, answers are true |
| interactive transactions (`http.lisp`) | `db` and `original-md` of a connection | BEGIN, COMMIT, ROLLBACK | isolation, conflicts detected |
| savepoints (`sql/db.lisp`) | synchronized hash table, timers | SAVEPOINT, ROLLBACK TO, RELEASE, expiry | branches are never committed |
| tables and DML (`sql/db.lisp`) | metadata of the arrow files of a table: deleted and erased rows | insert, delete, update, erase | a table has the rows its statements gave it, each with its end |
| compaction (`sql/db.lisp`) | arrow files of a table | find, merge, put, exchange | no row is lost, revived or read twice; a file in use is not written over |
| indexer (`sql/db.lisp`, `sql/expr.lisp`) | hash indexes of columns | compute an index | it ends; an index is a cache |
| buffer pool (`storage/buffer-pool.lisp`) | entries, their total size | get, put, evict, deep copy | what is cached has the recorded checksum, memory is bounded, eviction ends |
| JSON patches (`json.lisp`) | none | diff, merge | merging a diff restores the state |
| bloom filter (`bloom.lisp`) | bits | insert, check | no false negatives |
| HTTP server (`lib/endb_server`) | response channels, tasks, worker threads | route a request, answer, upgrade to WebSocket, message, close | only the authorised get in; answers are whole; everything ends |
| Lisp side of the server (`lib/server.lisp`, `http.lisp`, `lib/endb_lib`) | table of connections, boxes of a response | callbacks | every connection is removed, a box is taken once |
| parser and its generator (`lib/endb_cst`, `lib/endb_proc_macro`, `lib/cst.lisp`) | events, errors, stack of the tree | parse, hand over, report | it ends, the tree is the text, hints are true |
| process (`core.lisp`, `lib.lisp`) | panic hook | start, close | shutdown ends and leaves the log whole |
| compiler, expressions, arrow | none shared | pure functions | results, not order |

Interaction: a request arrives in the Rust server, which calls Lisp, for a query
in a blocking thread of its own and for a WebSocket message in the asynchronous
task of the connection. The handler executes SQL, which the Rust parser turned
into a tree, on a private write-db, takes `dbms-write-lock` to commit, and the
commit calls the store. Queries read files through the buffer pool. Three
background threads exist, each with its job queue: the snapshot thread (fed by the
store), the compaction thread (commits like a client; its queue is only its clock
and its end) and the indexer (fed by queries). Timers remove savepoints. At the end
of the process the main thread, or a worker that panics, closes the queues and
joins the threads.

The hard behaviours are listed line by line under `hazards` in `PROJECT.json`.
The worst ones: a crash anywhere between the steps of rotation and snapshot; a
writer and the snapshot thread working on the same logs; commits prepared on a
state that is no longer current; requests executed twice; savepoints that
vanish under a request; files merged outside the lock while their rows are deleted;
messages that wait for the write lock on the threads its holder needs; closing
under the lock that a joined thread waits for.

## Modules

| module | what it is |
|---|---|
| `DurableStore` | abstract: an acknowledged state and at most one transaction in doubt |
| `DiskStore` | the disk store with crashes: writer, rotation, snapshot thread, start-up, readers |
| `DiskStoreProps` | its type invariant and properties, the refinement to `DurableStore` |
| `DiskStoreProofs`, `RecoveryProofs` | TLAPS: the types of `DiskStore` and lemmas on its operators; what it recovers, and that it implements `DurableStore` |
| `Transactions` | HTTP requests, WebSocket transactions, savepoints, retry, compaction's commit |
| `TransactionsProps`, `MCTransactions` | its properties and the instances for TLC |
| `TransactionsProofs`, `AnswersProofs` | TLAPS: commits, isolation and savepoints in `Transactions`; its answers |
| `VersionedTable` | abstract: rows with the system time at which they ended |
| `Compaction` | statements, queries and the compaction thread on the files of one table |
| `CompactionProps` | its properties, the refinement to `VersionedTable` |
| `CompactionProofs` | TLAPS: types, files in use, what queries read, the refinement to `VersionedTable` |
| `BufferPool`, `BufferPoolProps` | readers, eviction and the size of the buffer pool |
| `BufferPoolProofs` | TLAPS: its memory is bounded |
| `Shutdown`, `ShutdownProps` | closing the database under requests, with queues and background threads |
| `ShutdownProofs` | TLAPS: what closing leaves |
| `Service`, `ServiceProps` | what one HTTP request is routed to |
| `Server`, `ServerProps`, `MCServer` | channels, tasks, workers, handlers and WebSockets; instances of it and all requests for `Service` |
| `ServerProofs` | TLAPS: answers, connections and who is let in |
| `Peg` | the parsers that the macro `peg!` generates |
| `SqlGrammar` | the 145 rules of the SQL grammar, as data |
| `ParseSql`, `ParseSqlProps` | a SQL string from Lisp to its tree or report |
| `GrammarProps`, `MCParseSql` | conditions on the rules themselves; the statements to parse |

`Server` is composed with `Service` in `ServiceProps`: the routes a query may take in
`Server` are those `Service!Call` gives (`RoutesAssumption`). `Transactions` and
`Compaction` meet in the commit: `Transactions` has the compaction as a client that
locks and commits, `Compaction` what is in that commit. `Shutdown` has the queues,
threads and locks of all of them and of the data only the names of files.

### DiskStore

A transaction is its id and a version (the run of the process that wrote it), a
database state maps ids to versions, and the version stands for the sha1 that the
metadata records for the arrow file of that transaction. A log is, per entry, the
last thing written under that name, because replay and extraction apply entries in
order. Sizes are dropped: reaching `*wal-target-size*` is a free choice between
`Fsync` and `CloseWal`.

`store-write-tx` is `AppendObject`, `AppendLog`, then `Fsync` or the rotation
`CloseWal`, `ArchiveWal`, `OpenWal`; `commit-write-tx` ends with `Commit`. The
entries appended since the last flush are in the stream's buffer: `Crash` keeps
any prefix of them and, with `TornWrites`, part of the next. The snapshot thread is
`TakeJob`, `UnpackWal` per log, `PutSnapshot`, `PointToSnapshot`, `DeletePrevious`,
`DeleteWal` per log, `ForgetObjects`. Start-up is `Open` and then `Replay` or
`FailToReplay`. A query misses the mem table (`ReadMem`) and only later looks in
the backing store (`ReadBacking`).

Crash means that the process dies, not the machine: `wal-fsync` is
`finish-output`, and what the operating system has is taken to survive. A put of
the directory store is atomic (it renames a complete file).

### Transactions

A database state is the number of commits below it and the writes on top. `run[c]`
is the handler of a client's request with a program counter; `tx[c]` is the
`db-connection`. A request is a sequence of statements drawn from a small set of
scripts. `endb-query` and `endb-on-ws-message` share their actions; where they
differ the client's kind is in the guard: savepoints are disabled over WebSocket,
BEGIN is refused over HTTP, and BEGIN, COMMIT and ROLLBACK are errors among the
statements of a longer request (`Alone`).

`Lock` takes `dbms-write-lock`. Under it `Verify` compares the original state with
`dbms-db`, `Conflict` refuses a transaction, and `Retry` runs a request again from
the current state. `Commit` and `ViolateConstraint` are `commit-write-tx`, which
itself looks at nothing but its argument: that nobody has committed since `Verify`,
or during the whole second run of a request, is left to the lock. An HTTP handler
keeps the lock while it sends its answer (`Receive`, `HangUp`). The compaction
thread takes the lock, makes its write-db (`compaction`) and commits it.

### Compaction

The metadata of one table maps files to the rows that were deleted (with the
transaction that did) and erased. A file is named by the first and last file it was
merged from, so that `CompactedFilename` is `%arrow-files-compacted-filename`, and
never changes; `objects` has the rows of every file that was ever stored. A row is the
transaction that wrote it and its number there. Statements are `Insert`, `Delete`, `Update` and
`Erase`, one step each, as they run and commit under the write lock on the current
metadata; a run of them that a conflict repeats is the matter of `Transactions`. The
thread is `StartCompaction` (snapshot of the metadata, choice of files), `Merge`
(reads, blanks for erased rows), `PutMerged` and, under the lock, `CompactFiles`,
which carries over what was deleted and erased meanwhile. A query takes its snapshot
(`Open`) and reads it file by file (`Scan`); what it has still to read and what it has
seen are sets. The order in which `fset:do-map` gives
the files is free; a file counts as many bytes as it holds rows. The merged array is a
function of the rank of a row (`Joined`, by the numbers of rows before each file,
`Upto`), so that it can be reasoned about without recursion.

`VersionedTable` has rows and ends only. The refinement computes them from files and
metadata, so that the exchange of files is a transaction that changes no row. `Merge` of nothing but erased rows ends
the thread (see Observations).

### BufferPool

A reader misses and fetches (`Miss`), compares `current-size` without the lock
(`CheckSize`), evicts under it if need be (`StartEvicting`, `EvictEntry`,
`StopEvicting`) and enters its file (`Enter`). The random choice of entries is
free. The compaction drops merged files (`Forget`), the end of the process everything
(`Close`). Pools of write transactions are private to them.

### Shutdown

`main` and `worker` are the two ways into `%endb-close-dbms`: an interrupt that
unwinds `start-server`, and the panic hook. `closer[c]` walks through `dbms-close`,
`db-close` and `store-close` line by line; `queue-close` is `Pushed` with the element
`Close`, and an element behind it is never popped. The background threads are
reduced to waiting, working, ending and failing. An unhandled error of a thread
unwinds the main thread (`Unwound`): the Makefile builds the image with
`--non-interactive`, where SBCL's debugger is disabled and its hook calls `exit`. An
interrupt while closing (`InterruptAgain`) releases the lock and gives up. Requests go
on until `Exit`, as the worker threads of the server do. The release profile of the
Rust crates aborts on panic, after the hook.

### Service and Server

`Service` is a function of a request, the record of the headers and parts that
`EndbService::call` looks at. The parsing done by hyper, url and multer is outside. The
checks of `call` are chains of IF in the order of the code, where more than one may
apply. `None` stands for a header or a command-line option that is absent.

`Server` follows one query from `Ask` to `EndBody` in three places: the future that
hyper polls, the blocking thread of `endb-query` and the client. `oneshot` holds the
head until the future takes it, with the status of the answer that was begun, and
`channel` is the body (capacity one). A future or task takes a step when a
worker is free; `Busy` workers are those inside `endb-on-ws-message`, also while it waits
for the lock. The closure holds `dbms-write-lock` while it answers
(`http.lisp:125-141`); leaving it by an error releases it (`Released`). What the
handler did inside `handler-bind` is nested: an abort there finds no handler and ends
the process (`Escape`). Boxes handed to `on-response-init` are counted. A WebSocket
goes through `Connect`, `OnInit`, messages and `StreamEnds`; the table of connections is
keyed by the peer's address, which is used again only after the client's side of the
connection is gone. A reply fits the buffer of its WebSocket.

### Parser

A parser of `Peg` takes a position and a state of events and errors and returns a result
and a new state, as the generated functions do, including `truncate`, the patching of
hidden rules and the suppression of errors inside negations. Inputs are sequences of
tokens; white space and comments, which terminals skip, have none; a regular
expression is the set of token sequences it matches. `ParseSql` adds `endb_parse_sql_cst`:
a first pass without errors, the events replayed backwards through callbacks onto a
stack, or a second pass with errors and a report, kept as its groups of errors.

## Runs

| run | expects | question | bounds and why they suffice |
|---|---|---|---|
| `disk_store` | pass | recovery, snapshot consistency, readers, jobs and close end, refinement to `DurableStore` | 5 transactions with 2 logs per snapshot give two overlapping snapshot jobs with a log left over; 3 process runs give a crash of a recovered process; torn entries are allowed; no crash inside the rotation |
| `disk_store_rotate_crash` | violation | are acknowledged rows there after a restart? | with crashes inside the rotation: no |
| `disk_store_torn` | violation | does start-up repair a damaged log? | a cut metadata entry: no |
| `transactions` | pass | serial commits, true and fresh answers, isolation, every request ends | one HTTP and one WebSocket client with three requests each: BEGIN, a write and COMMIT fit |
| `transactions_savepoints` | pass | savepoint branches | two symmetric HTTP clients with two requests each and one compaction: one enters, the other rolls back to it, commits, releases or lets it expire |
| `transactions_retry` | violation | is a conflicting request run again as if for the first time? | no, its own savepoint is in the way |
| `compaction` | pass | rows, snapshots of queries, file names, refinement to `VersionedTable`, the thread comes to rest | 5 transactions, one row each, crashes before the third; files of at most 3 rows are merged, so a merged file can be merged again while its rows are deleted and erased; one query |
| `buffer_pool` | pass | memory is bounded, gets end | 3 readers with 2 gets, two small files and a large one, a pool of 3: enough for a double count to fill the target |
| `shutdown` | pass | log and answers agree, queries miss rows only at the end, closing ends | two writers (the least for a merge), one query, one merge, both closers |
| `server` | pass | routing; whole answers, connections, everything ends | 9450 requests for the routing; one query of each route, two WebSockets from one address with a message each, two workers, answers of two chunks |
| `server_rows` | violation | is a box of a response taken once? | a row that cannot be encoded: no |
| `parse_sql` | pass | the grammar's functions end, trees and hints are right | all rules; 225 statements, well formed and not, in particular with aliases, hidden rules and committed keywords |

`CHECK_DEADLOCK FALSE` everywhere: a process may stay down or end, clients may stop
sending, and a parser is done with its string.

Every property of a passing run has a mutant in `PROJECT.json`: an operator whose
name starts with `M`, next to the definition it replaces, that puts a plausible bug
into the model and makes TLC find the property violated.

### Properties that name their exception

Three liveness properties hold only up to a standstill the code can reach, which the
property states: `RequestsEndUnlessStarved` (every worker handles a message that waits
for the write lock, whose holder waits for a worker to take its chunk),
`CloseEndsUnlessDeadlocked` (the closer joins the compaction thread, which waits for
the closer's lock) and `GetsEndUnlessOvercounted` (an eviction that cannot bring down a
size counted twice). TLC reaches each of the three.

### Bounds

`MaxTx`, `MaxBoot`, `MaxRequests`, `MaxCompactions`, `MaxRows`, `CrashFreeTx`,
`MaxGets` and `MaxMessages` bound counters in the guards of the actions that raise them;
in `Compaction` `MaxTx` is also where queries stop to begin.
Nothing else is bounded: queue and log lengths follow.

### Fairness

`DiskStore!FairSpec` has weak fairness of the snapshot thread and of `EndClose`: the
operating system schedules threads. Nothing forces the process to start, commit, be
closed or die. `Transactions!FairSpec` has weak fairness of each handler, of the
compaction thread's commit, and of clients taking their answer or going away. The
last is an assumption about clients: the HTTP handler sends its answer inside
`with-lock-held` (`http.lisp:129-130`), so a client that does neither blocks all
writers. SBCL's mutex is not first come first served; weak fairness of `Lock`
suffices only because the number of requests is bounded, and so for the locks of the
other modules. `Compaction` has weak fairness of the thread, and its liveness assumes
that crashes come to an end. `BufferPool` has it of each reader: that an entry is evicted is
a matter of chance, certain in the end. `Shutdown` has it of the threads, of requests
under way and of a closer once it started; nobody has to interrupt or to fail.
`Server` has it of each handler, future and task; that hyper's peer takes what is sent
is part of the future.

## Proofs

Every theorem below holds for every value of the constants that the named assumptions
of its module allow; TLC evaluates those on every run. They say what the code gives:
the sets of actors are disjoint and none contains the value that stands for nobody,
bounds are naturals, a range of sizes is not empty, the readers of the pool are
finitely many, and `None` is not a pair of credentials. Nothing else is assumed, except
`~RotateCrash` in all theorems of `RecoveryProofs` but `SnapshotsMoveOn`.

**`DiskStoreProofs`** proves that `TypeOK` is inductive. It needs that the extremes
chosen by `MinOf` and `MaxOf` exist, hence the lemmas on finite sets of naturals, and
that the id of a transaction in flight is in range.

**`RecoveryProofs`** proves, when the process does not die inside `%rotate-wal`
(with it the run `disk_store_rotate_crash` finds an acknowledged transaction lost),
but at any other step, with torn log entries or without and for any number of restarts:

- `Recoverable`: `AlwaysRecoverable`, a start-up at any moment would rebuild the
  acknowledged state with or without the transaction in flight;
- `AckedAreRecovered`: `AckedSurvives`, the formula that finding 1 violates;
- `SnapshotComplete`, `DeletedAreSnapshotted`: the pointer names a complete snapshot,
  and a log goes only when the snapshot has it;
- `QueriesRead`: `ReadsMatchSha`, no query misses a file between its two look-ups;
- `Implements`: `Durability`, each step is a step of `DurableStore` or a stutter.

None of these is inductive. `RecoveryInv` says that there is one database state `D`, with
ids up to `L`, that everything on disk agrees with. `D` is what was acknowledged, plus the
transaction in flight once its log entry was flushed (`WriterOK`). Logs say of each
id in `D` what `D` says, and only the last one may hold the file of an id after `L`
(`LogsOK`, `NamesOK`); every id after the latest snapshot is in a log that was begun
after it (`SnapshotOK`), and so for every job in the queue at its own boundary
(`QueueOK`); the job that runs has in the backing store, or in a log it has still to
unpack, what its snapshot will need (`ThreadOK`); the mem table or the backing store has
every file a query may come to (`MemOK`). A crash cuts the last log after some entry and
keeps `D` or adds the transaction in flight to it, and replay of such a disk yields `D`.

`SnapshotsMoveOn` needs no such hypothesis: `SnapshotsAdvance`, the pointer only moves
forward, wherever the process died. There is then no `D` to agree with, so its invariant
`OrderInv` is another one. It speaks of ids only: jobs are queued and run in the order of
their transactions, all after the latest snapshot (`WaitingOK`, `RunningOK`), and the
latest snapshot has the transaction it is named after (`LatestOK`), so that whatever a
start-up loses, it does not fall behind that snapshot and use its ids again. For the other
theorems the hypothesis is needed: with crashes inside the rotation, 3 ids, 4 starts and
a snapshot per log TLC finds each of `SnapshotSelfContained`, `OnlySnapshottedWalsDeleted`
and `ReadsMatchSha` violated, as it does `AckedSurvives` in the run `disk_store_rotate_crash`, in the wake of finding 1.

**`TransactionsProofs`** proves, for any finite or infinite sets of clients, any scripts
and any bounds, from `ClientAssumption` and `ScriptAssumption`:

- `TypeCorrect`: `TypeOK` is inductive by itself.
- `Serial`: `Spec => CommitsAreSerial`. That each commit is made from the state it
  replaces is not inductive: it rests on what handlers know at every earlier point.
  The invariant `IInv` says, per handler (`RunOK`), that the write-db is the
  original state plus its own writes until a rollback to a savepoint is noted
  in `savepointp`, and that no such handler ever reaches the lock; that a request
  which may run twice contains no such rollback, so that its second run cannot leave
  the lock's state either; per connection (`TxOK`, `LinkOK`) that the transaction a
  message works on is the one `COMMIT` will compare; and about the lock (`LockOK`,
  `CompactorOK`), that whoever works under it holds it and has a write-db made from
  the current state. `Frames` shows once that an action of one client leaves the
  others' parts alone, and each action has a lemma for its own part.
- `Isolated` and `Branches`: `TransactionsAreIsolated` and `BranchesAreNotCommitted`,
  which follow from `TxOK` and `RunOK`.

**`AnswersProofs`** adds to that invariant what connects a handler with the log: a request
is in it at most once, and exactly when its handler answers "created" (`LoggedOK`), and
a handler outside transactions and savepoints reads a state no older than its request
(`Fresh`). `TrueAnswers` and `FreshAnswers` are `AnswersAreTrue` and `AnswersAreFresh`.

**`CompactionProofs`** proves every safety property of the run, from
`CompactionAssumption`, which says of values only that the time without end is no
transaction and a blank no row.

- `Unwritten`: `FilesInUseAreImmutable`. Nothing in
  the code looks whether the name of a merged file is free. It is, because no two files of
  the table share the first half of their names or the second (`Distinct`): the first half
  of the new name belongs to the first merged file, its second half to the last one, and
  the two are different files. A file that only the snapshot of a query still names has
  one half that no file of the table has any more (`Retired`), and as ids only grow and
  merged names reuse only halves that are in the table, it stays so. A crash leaves objects
  that nobody names, so that they may be written again.
- `Preserved`: `TableIsPreserved`, the refinement to `VersionedTable`, a step for a step.
  On top of the above, `RowsInv` says that no row is in two places of the table or of a
  snapshot (`Unique`), that each row has one end at most (`Entries`), that a blank of the merge
  is known to be erased (`Filled`), and that the files the thread merges have not changed and
  that rows that were erased when it read them still are (`Merged`): what it merged from a stale
  snapshot is, at the commit, wrong only about entries, and these are carried over from
  the current metadata. `Written` states what the four statements have in common, and
  `ExchangedRows` what the exchange does to one row.
- `SnapshotsAreRead`: `QueriesReadTheirSnapshot`, from `Scans` (what a query has seen
  is what its snapshot says of the files it is done with) and `Unique`.
- `TypeCorrect`: `TypeOK`. That no file counts fewer rows than one or more than there can
  be takes `Unique` again: the merged rows are different ones (`MergedSize`).

About the merged array the proofs need where the rows of each file begin in it, that the
places of two files do not overlap, and that there are no others (`JoinedElements`). That is no
induction over data: the file in which a place lies is the first one up to which there
are as many rows, and a least number exists (`LeastNumber`, from well-foundedness).

**`BufferPoolProofs`** proves `PoolStaysBounded` (`Bounded`). Readers compare the size
without the lock, so what is inductive counts them: the readers on their way to enter a
file leave room, each for one large file (`RoomToEnter`), and the counter covers what is in
the pool although files are counted twice and evicted in between (`CounterCovers`).

**`ShutdownProofs`** proves `CloseLeavesTheStoreWhole` (`ClosedWhole`) and
`QueriesMissRowsOnlyAtTheEnd` (`NoRowsMissed`). The invariant says who holds the lock where
(`LockHeld`), which threads a closer has joined at which of its lines (`ThreadsEnded`), and
where the files of a query are at any point (`FilesStored`).

**`ServerProofs`** proves `AnswersAreWhole` (`WholeAnswers`) from the relation between the
places of client, task and handler (`StagesMatch`) and from a balance: what the client has,
what is in the channel and what the handler has left make up the answer it began
(`NothingIsLost`). `OwnConnections` is `ConnectionsMatchSockets`: of the WebSockets that had one
address only one is live (`SocketOK`). `Authorized` and `Answered` are `OnlyAuthorized` and
`ClientsAreAnswered` about `Service!Call`, for whatever set of requests `Requests` is.

`TypeCorrect` of `BufferPoolProofs`, `ShutdownProofs` and `ServerProofs` is the `TypeOK` of
the run; it is part of each invariant.

Only model-checked, and why:

- liveness under fairness (all properties whose name says that something ends or
  settles): out of the prover's reach;
- `LastParameterWins`: `Service` folds over the parts of a request, which takes an
  induction over their number;
- the parser and its grammar: the generated functions are recursive, and so are `Peg`
  and `ParseSql`, with RECURSIVE operators.

## Findings

1. *Crash inside the rotation* (`disk_store_rotate_crash`). Between the archiving
   of a log and the creation of its successor the log is both archived and active.
   After a restart it grows, and a later start-up overwrites it with the archived
   copy (`storage.lisp:189-194`), or skips a log that was named 1 again
   (`storage.lisp:64-67`, `196-201`).
2. *Torn metadata* (`disk_store_torn`). "truncating damaged" (`storage.lisp:81`)
   pads the entry instead, and replay fails to parse it.
3. *Retry meets its own savepoint* (`transactions_retry`).
4. *A row that cannot be written* (`server_rows`). The error path of `endb-query`
   calls `on-response-init` again and takes boxes that were freed.

## Observations

Behaviour of the code that the models show and no document speaks against:

- The compaction ends with an error when every row of the files it merges is erased:
  the merged array is a null array without the column whose length is taken
  (`sql/db.lisp:478-479`). The next start meets the same files.
- `%endb-close-dbms` holds the write lock while it joins the compaction thread, which
  needs it to commit (`core.lisp:21`, `sql.lisp:48`): closing may never end.
- Between the closing of the mem table and the end of the process queries are answered
  without the rows that were still there (`storage.lisp:279`).
- Two queries that miss the same file count it twice; once the surplus exceeds the
  target of the eviction, the loop at `buffer-pool.lisp:30` does not end and keeps its lock.
- Two WebSocket messages are enough to occupy two workers while they wait for the write
  lock, and its holder then cannot send (`lib/endb_server/src/lib.rs:152`).
- `ON` is no invalid column alias (`lib/endb_cst/src/sql.rs:155`): in `INSERT ... SELECT 1
  ON CONFLICT ...`, without a FROM, it is read as one and the statement is refused.
- An upgrade that fails leaves its connection in the table (`lib/endb_server/src/lib.rs:148`).

## Not modelled, and the plan

Next: the order of the locks of `Shutdown` as a theorem.

Not modelled, although within reach: writes to the log that fail (`storage.lisp:258`), the
algorithms of `json-diff` and `json-merge-patch`, the bloom filter, three-valued logic.

Left out for good: the SQL compiler (a pure translation of unbounded syntax into Lisp),
values, Arrow arrays and their encoding, tar (external libraries), the crash of the
machine (`wal-fsync` is `finish-output`), the in-memory store (single assignments),
logging, the drawing of error reports, the command line and the test driver.
