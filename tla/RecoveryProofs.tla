--------------------------- MODULE RecoveryProofs ---------------------------
(***************************************************************************)
(* What the disk store recovers: proofs about DiskStore for any number of  *)
(* transactions, starts and logs per snapshot, with logs that a crash cut  *)
(* off and crashes at any step but those inside %rotate-wal; at the end    *)
(* the order of the snapshots, with crashes at any step.                   *)
(***************************************************************************)
EXTENDS DiskStoreProofs

USE DEF disk, logs, archives, snapshots, process, tx, stream, tables, thread, query

----------------------------------------------------------------------------
(* The inductive invariant.  D is the database state on disk, L its last id. *)

Prefix(D, L) == \A n \in TxId : D[n] # None <=> n <= L

\* The part of D a snapshot taken at the transaction t has.
Upto(D, t) == [n \in TxId |-> IF n <= t THEN D[n] ELSE None]

\* The transaction being written is in the log.
Flushed == pc \in {"closed", "archived", "stored"}

\* D is what was acknowledged or, once it was flushed, that and the transaction
\* being written, also after the process died before it was acknowledged.
WriterOK(D, L) ==
    /\ \/ D = md /\ ~Flushed
       \/ /\ D = NewMd /\ L = Tx /\ doubt # None /\ tail # "object"
          /\ Flushed \/ (pc = "idle" /\ mode \in {"down", "opened", "failed"})
    /\ pc # "idle" => doubt # None
    /\ mode \in {"up", "closing"} /\ pc = "idle" => doubt = None
    /\ mode # "down" => boot # 0
    /\ tail = "object" => mode = "down"
    /\ ~gap

\* Logs agree with D about what was committed; only the log being written may
\* hold the arrow file of a transaction that never was.
LogsOK(D, L) ==
    /\ \A s \in WalName \ walFiles : wal[s] = EmptyWal
    /\ \A s \in walFiles, n \in TxId :
           /\ wal[s].log[n] # None => wal[s].log[n] = D[n] /\ wal[s].obj[n] # None
           /\ wal[s].obj[n] # None =>
                  /\ s <= n
                  /\ n <= L => wal[s].obj[n] = D[n]
                  /\ n > L => n = L + 1 /\ s = active /\ ~Flushed

\* The log being written is the last one, except while a rotation has not yet
\* created it.
NamesOK(L) ==
    /\ pc # "archived" =>
           /\ \A s \in walFiles : s <= active
           /\ active \in walFiles \/ (walFiles = {} /\ active = 1 /\ mode = "down")
           /\ active \notin archived
    /\ \A s \in walFiles : s <= L + 1 /\ (pc \in {"closed", "archived"} => s <= L)

\* An archived log is there unchanged, or a snapshot made it superfluous.
ArchivesOK ==
    \A s \in archived :
        /\ s \in walFiles => archive[s] = wal[s]
        /\ s \notin walFiles => s <= latest

\* Transactions after b are in logs that were begun after b.
BoundaryOK(b, L) ==
    /\ b <= L /\ (pc # "archived" => b < active)
    /\ \A s \in walFiles, n \in TxId : wal[s].obj[n] # None /\ n > b => s > b

\* What the latest snapshot does not have is in a log.
SnapshotOK(D, L) ==
    /\ BoundaryOK(latest, L)
    /\ latest # None => latest \in snapFiles /\ snaps[latest] = Upto(D, latest)
    /\ \A n \in TxId : latest < n /\ n <= L => \E s \in walFiles : wal[s].log[n] # None
    /\ \A n \in TxId : objects[n] # None => objects[n] = D[n]
    /\ \A n \in TxId : n <= latest => objects[n] # None

JobOK(j, D, L) ==
    /\ BoundaryOK(j.tx, L)
    /\ j.md = Upto(D, j.tx)
    /\ \A s \in j.wals : s <= j.tx
    /\ \A s \in walFiles : s <= j.tx => s \in j.wals
    /\ \A n \in j.objs : n <= j.tx

\* Jobs wait in the order of their transactions, after the job that runs.
QueueOK(D, L) ==
    /\ \A i \in 1 .. Len(queue) :
           /\ JobOK(queue[i], D, L) /\ latest < queue[i].tx
           /\ spc # "idle" => job.tx < queue[i].tx
    /\ \A i, k \in 1 .. Len(queue) : i < k => queue[i].tx < queue[k].tx

\* The job that runs has what it will need for its snapshot in the backing
\* store or in a log it has still to unpack.
ThreadOK(D, L) ==
    /\ spc # "idle" => JobOK(job, D, L)
    /\ spc \in {"unpack", "point"} => latest < job.tx
    /\ spc = "unpack" =>
           /\ todo \subseteq walFiles
           /\ \A s \in todo : s <= job.tx
           /\ \A n \in TxId : n <= job.tx /\ objects[n] = None =>
                  \E s \in todo : wal[s].obj[n] # None
    /\ spc \in {"point", "prune", "delete"} => \A n \in TxId : n <= job.tx => objects[n] # None
    /\ spc = "point" => previous = latest /\ job.tx \in snapFiles /\ snaps[job.tx] = job.md
    /\ spc \in {"prune", "delete"} => latest = job.tx
    /\ spc = "prune" => previous < job.tx
    /\ spc = "delete" => \A s \in todo : s <= job.tx

\* Queries find every arrow file in the mem table or in the backing store.
MemOK(D, L) ==
    /\ mode \in {"up", "closing"} =>
           \A n \in TxId :
               /\ mem[n] # None /\ n <= L => mem[n] = D[n]
               /\ mem[n] = None /\ n <= L => objects[n] # None
               /\ mem[n] # None /\ n > L => n = L + 1 /\ ~Flushed
    /\ pc \in {"object", "log"} => mem[Tx] = doubt
    /\ reader # None => reader \in Has(md) /\ objects[reader] # None
    /\ ~misread

Sound(D, L) ==
    /\ Prefix(D, L)
    /\ WriterOK(D, L)
    /\ LogsOK(D, L)
    /\ NamesOK(L)
    /\ ArchivesOK
    /\ SnapshotOK(D, L)
    /\ QueueOK(D, L)
    /\ ThreadOK(D, L)
    /\ MemOK(D, L)

RecoveryInv == TypeInv /\ \E D \in States, L \in 0 .. MaxTx : Sound(D, L)

----------------------------------------------------------------------------
(* Consequences of the invariant                                           *)

LEMMA Names == WalName \subseteq Nat \ {0} /\ TxId \subseteq WalName /\ MaxTx \in Nat
BY BoundsAssumption DEF WalName, TxId

LEMMA LastOfPrefix ==
    ASSUME NEW D, NEW L \in 0 .. MaxTx, Prefix(D, L)
    PROVE  Last(D) = L
<1>1. Has(D) = {n \in TxId : n <= L} /\ Has(D) \in SUBSET (0 .. MaxTx)
  BY Names, BoundsAssumption DEF Has, Prefix, TxId
<1>2. CASE L = 0
  BY <1>1, <1>2, Names DEF Last
<1>3. CASE L # 0
  <2>1. L \in Has(D) /\ \A n \in Has(D) : n <= L
    BY <1>1, <1>3, BoundsAssumption DEF TxId
  <2>2. MaxOf(Has(D)) \in Has(D) /\ L <= MaxOf(Has(D))
    BY <1>1, <2>1, MaxOfMember, Names
  <2>3. MaxOf(Has(D)) = L
    BY <1>1, <2>1, <2>2, Names
  <2> QED
    BY <2>1, <2>3 DEF Last
<1> QED
  BY <1>2, <1>3

LEMMA LatestIsActive ==
    ASSUME TypeOK, NEW L, NamesOK(L), pc # "archived"
    PROVE  LatestWalFile = active
<1>1. walFiles \in SUBSET WalName /\ active \in WalName
  BY DEF TypeOK
<1>2. CASE walFiles = {}
  BY <1>2 DEF NamesOK, LatestWalFile
<1>3. CASE walFiles # {}
  <2>1. MaxOf(walFiles) \in walFiles /\ \A s \in walFiles : s <= MaxOf(walFiles)
    BY <1>1, <1>3, MaxOfWals
  <2>2. active \in walFiles /\ \A s \in walFiles : s <= active
    BY <1>3 DEF NamesOK
  <2>3. active <= MaxOf(walFiles) /\ MaxOf(walFiles) <= active /\ MaxOf(walFiles) \in Nat /\ active \in Nat
    BY <1>1, <2>1, <2>2, Names
  <2> QED
    BY <1>3, <2>3 DEF LatestWalFile
<1> QED
  BY <1>2, <1>3

\* Logs that agree about an entry restore it, whatever the order of reading.
Agree(files, entries, n, v) == \A s \in files : entries[s][n] # None => entries[s][n] = v
Held(files, entries, n) == \E s \in files : entries[s][n] # None

LEMMA LastOfAgreeing ==
    ASSUME NEW files \in SUBSET WalName, NEW entries, NEW base, NEW n \in TxId, NEW v,
           Agree(files, entries, n, v)
    PROVE  /\ Held(files, entries, n) => LastOf(files, entries, base)[n] = v
           /\ ~Held(files, entries, n) => LastOf(files, entries, base)[n] = base[n]
<1> DEFINE holding == {s \in files : entries[s][n] # None}
<1>1. LastOf(files, entries, base)[n] =
        IF holding = {} THEN base[n] ELSE entries[MaxOf(holding)][n]
  BY DEF LastOf
<1>2. holding \in SUBSET WalName
  OBVIOUS
<1>3. holding # {} => MaxOf(holding) \in holding
  <2> HIDE DEF holding
  <2> QED
    BY <1>2, MaxOfWals
<1> QED
  BY <1>1, <1>3 DEF Agree, Held

\* The archive brings nothing back that the wal directory does not have.
LEMMA NothingFetched ==
    ASSUME TypeOK, ArchivesOK
    PROVE  /\ Fetched \subseteq walFiles
           /\ \A s \in WalName : Fresh(s) = wal[s]
           /\ Replayed = {s \in walFiles : latest <= s}
<1>0. latest \in Nat /\ archived \subseteq Nat /\ walFiles \subseteq Nat
  BY Names DEF TypeOK, None
<1>1. ASSUME NEW s \in Fetched PROVE s \in walFiles
  <2>1. s \in archived /\ s > latest /\ s \in Nat
    BY <1>0 DEF Fetched
  <2>2. ~(s <= latest)
    BY <1>0, <2>1
  <2> QED
    BY <2>1, <2>2 DEF ArchivesOK
<1>2. \A s \in WalName : Fresh(s) = wal[s]
  BY <1>1 DEF ArchivesOK, Fresh, Fetched
<1>3. Replayed = {s \in walFiles : latest <= s}
  <2>1. walFiles \cup Fetched = walFiles
    BY <1>1
  <2>2. \A s \in walFiles : latest = None \/ s >= latest <=> latest <= s
    BY <1>0 DEF None
  <2> QED
    BY <2>1, <2>2 DEF Replayed, ToApply
<1> QED
  BY <1>1, <1>2, <1>3

LEMMA Rebuilds ==
    ASSUME TypeOK, NEW D \in States, NEW L \in 0 .. MaxTx, Prefix(D, L), LogsOK(D, L),
           ArchivesOK, SnapshotOK(D, L)
    PROVE  Recovered = D
<1> DEFINE base == IF latest = None THEN Empty ELSE snaps[latest]
           entries == [s \in WalName |-> Fresh(s).log]
           R == LastOf(Replayed, entries, base)
<1>1. Replayed \in SUBSET WalName /\ \A s \in WalName : entries[s] = wal[s].log
  BY NothingFetched DEF TypeOK
<1>2. latest \in Nat /\ walFiles \subseteq WalName /\ WalName \subseteq Nat /\ TxId \subseteq Nat
  BY Names DEF TypeOK, None
<1> SUFFICES ASSUME NEW n \in TxId PROVE R[n] = D[n]
  BY DEF Recovered, LastOf, States
<1> HIDE DEF entries, base
<1>3. Agree(Replayed, entries, n, D[n])
  BY <1>1, NothingFetched DEF LogsOK, Agree
<1>4. /\ Held(Replayed, entries, n) => R[n] = D[n]
      /\ ~Held(Replayed, entries, n) => R[n] = base[n]
  BY <1>1, <1>3, LastOfAgreeing
<1>5. base[n] = IF n <= latest THEN D[n] ELSE None
  <2>1. CASE latest = None
    BY <1>2, <2>1 DEF base, Empty, None, TxId
  <2>2. CASE latest # None
    BY <1>2, <2>2 DEF base, SnapshotOK, Upto
  <2> QED
    BY <2>1, <2>2
<1>6. ASSUME latest < n, n <= L PROVE Held(Replayed, entries, n)
  <2>1. PICK s \in walFiles : wal[s].log[n] # None
    BY <1>6 DEF SnapshotOK
  <2>2. wal[s].obj[n] # None
    BY <2>1 DEF LogsOK
  <2>3. s > latest
    BY <1>6, <2>2 DEF SnapshotOK, BoundaryOK
  <2>4. s \in Replayed
    BY <1>2, <2>3, NothingFetched
  <2> QED
    BY <1>1, <1>2, <2>1, <2>4 DEF Held
<1> QED
  BY <1>2, <1>4, <1>5, <1>6 DEF Prefix

----------------------------------------------------------------------------
(* What all steps keep                                                     *)

\* D1 is D or D with transactions after L.
Grows(D, L, D1, L1) == L <= L1 /\ \A n \in TxId : n <= L => D1[n] = D[n]

\* New logs and new entries come after L or into the log being written.
LogsGrow(L) ==
    /\ \A s \in walFiles' : s \in walFiles \/ s > L
    /\ \A s \in walFiles', n \in TxId : wal'[s].obj[n] # None =>
           \/ s \in walFiles /\ wal[s].obj[n] # None
           \/ s > L
           \/ pc # "archived" /\ s = active
    /\ pc' # "archived" => active' > L \/ (pc # "archived" /\ active' = active)

\* Nothing disappears from a log.
LogsKept ==
    /\ walFiles \subseteq walFiles'
    /\ \A s \in walFiles, n \in TxId :
           /\ wal[s].log[n] # None => wal'[s].log[n] # None
           /\ wal[s].obj[n] # None => wal'[s].obj[n] # None

\* BoundaryOK and JobOK after a step, of a boundary and a job it does not change.
BoundaryAfter(b, L) ==
    /\ b <= L /\ (pc' # "archived" => b < active')
    /\ \A s \in walFiles', n \in TxId : wal'[s].obj[n] # None /\ n > b => s > b

JobAfter(j, D, L) ==
    /\ BoundaryAfter(j.tx, L)
    /\ j.md = Upto(D, j.tx)
    /\ \A s \in j.wals : s <= j.tx
    /\ \A s \in walFiles' : s <= j.tx => s \in j.wals
    /\ \A n \in j.objs : n <= j.tx

LEMMA BoundaryGrows ==
    ASSUME TypeOK, TypeOK', NEW L \in Nat, NEW L1 \in Nat, L <= L1, LogsGrow(L),
           NEW b \in Nat, BoundaryOK(b, L)
    PROVE  BoundaryAfter(b, L1)
<1>1. /\ walFiles \subseteq Nat /\ walFiles' \subseteq Nat /\ active \in Nat /\ active' \in Nat
      /\ TxId \subseteq Nat
  BY Names DEF TypeOK
<1>2. b <= L1
  BY DEF BoundaryOK
<1>3. pc' # "archived" => b < active'
  BY <1>1 DEF BoundaryOK, LogsGrow
<1>4. ASSUME NEW s \in walFiles', NEW n \in TxId, wal'[s].obj[n] # None, n > b PROVE s > b
  <2>1. \/ s \in walFiles /\ wal[s].obj[n] # None
        \/ s > L
        \/ pc # "archived" /\ s = active
    BY <1>4 DEF LogsGrow
  <2> QED
    BY <1>1, <1>4, <2>1 DEF BoundaryOK
<1> QED
  BY <1>2, <1>3, <1>4 DEF BoundaryAfter

LEMMA JobGrows ==
    ASSUME TypeOK, TypeOK', NEW D \in States, NEW D1 \in States, NEW L \in Nat, NEW L1 \in Nat,
           Grows(D, L, D1, L1), LogsGrow(L), NEW j \in Jobs, JobOK(j, D, L)
    PROVE  JobAfter(j, D1, L1)
<1>1. j.tx \in Nat /\ j.tx <= L /\ L <= L1 /\ TxId \subseteq Nat /\ walFiles' \subseteq Nat
  BY Names DEF Jobs, JobOK, BoundaryOK, Grows, TypeOK
<1>2. BoundaryAfter(j.tx, L1)
  BY <1>1, BoundaryGrows DEF JobOK
<1>3. j.md = Upto(D1, j.tx)
  <2>1. \A n \in TxId : n <= j.tx => D1[n] = D[n]
    BY <1>1 DEF Grows
  <2>2. Upto(D1, j.tx) = Upto(D, j.tx)
    BY <2>1 DEF Upto
  <2> QED
    BY <2>2 DEF JobOK
<1>4. \A s \in walFiles' : s <= j.tx => s \in j.wals
  <2> TAKE s \in walFiles'
  <2>1. s \in walFiles \/ s > L
    BY DEF LogsGrow
  <2> QED
    BY <1>1, <2>1 DEF JobOK
<1> QED
  BY <1>2, <1>3, <1>4 DEF JobAfter, JobOK

LEMMA QueueFrame ==
    ASSUME TypeOK, TypeOK', NEW D \in States, NEW D1 \in States, NEW L \in Nat, NEW L1 \in Nat,
           Grows(D, L, D1, L1), LogsGrow(L), QueueOK(D, L), UNCHANGED queue,
           latest' = latest \/ (spc # "idle" /\ latest' = job.tx),
           spc' # "idle" => spc # "idle" /\ job' = job
    PROVE  QueueOK(D1, L1)'
<1>1. ASSUME NEW i \in 1 .. Len(queue) PROVE JobOK(queue[i], D1, L1)'
  <2>1. queue[i] \in Jobs
    BY DEF TypeOK
  <2>2. JobAfter(queue[i], D1, L1)
    BY <2>1, JobGrows DEF QueueOK
  <2> QED
    BY <2>2 DEF JobOK, JobAfter, BoundaryOK, BoundaryAfter
<1> QED
  BY <1>1 DEF QueueOK

LEMMA ThreadFrame ==
    ASSUME TypeOK, TypeOK', NEW D \in States, NEW D1 \in States, NEW L \in Nat, NEW L1 \in Nat,
           Grows(D, L, D1, L1), LogsGrow(L), LogsKept, ThreadOK(D, L),
           UNCHANGED <<spc, job, todo, previous, latest, snapFiles, snaps, objects>>
    PROVE  ThreadOK(D1, L1)'
<1>1. spc # "idle" => JobOK(job, D1, L1)'
  <2>1. job \in Jobs
    BY DEF TypeOK
  <2>2. spc # "idle" => JobAfter(job, D1, L1)
    BY <2>1, JobGrows DEF ThreadOK
  <2> QED
    BY <2>2 DEF JobOK, JobAfter, BoundaryOK, BoundaryAfter
<1>2. spc = "unpack" =>
           /\ todo \subseteq walFiles'
           /\ \A n \in TxId : n <= job.tx /\ objects[n] = None =>
                  \E s \in todo : wal'[s].obj[n] # None
  BY DEF ThreadOK, LogsKept
<1> QED
  BY <1>1, <1>2 DEF ThreadOK

LEMMA SnapshotFrame ==
    ASSUME TypeOK, TypeOK', NEW D \in States, NEW D1 \in States, NEW L \in Nat, NEW L1 \in Nat,
           Prefix(D, L), Grows(D, L, D1, L1), LogsGrow(L), LogsKept, SnapshotOK(D, L),
           L1 # L => L1 = L + 1 /\ \E s \in walFiles' : wal'[s].log[L1] # None,
           UNCHANGED <<latest, snapFiles, snaps, objects>>
    PROVE  SnapshotOK(D1, L1)'
<1>1. latest \in Nat /\ latest <= L /\ L <= L1 /\ TxId \subseteq Nat
  BY Names DEF TypeOK, None, SnapshotOK, BoundaryOK, Grows
<1>2. BoundaryOK(latest, L1)'
  BY <1>1, BoundaryGrows DEF SnapshotOK, BoundaryOK, BoundaryAfter
<1>3. Upto(D1, latest) = Upto(D, latest)
  BY <1>1 DEF Upto, Grows
<1>4. ASSUME NEW n \in TxId, latest < n, n <= L1 PROVE \E s \in walFiles' : wal'[s].log[n] # None
  <2>1. CASE n <= L
    BY <1>4, <2>1 DEF SnapshotOK, LogsKept
  <2>2. CASE ~(n <= L)
    BY <1>1, <1>4, <2>2
  <2> QED
    BY <2>1, <2>2
<1>5. \A n \in TxId : objects[n] # None => objects[n] = D1[n]
  BY <1>1 DEF SnapshotOK, Grows, Prefix
<1> QED
  BY <1>2, <1>3, <1>4, <1>5 DEF SnapshotOK

LEMMA LogsSame ==
    ASSUME NEW L, UNCHANGED <<walFiles, wal, active>>, pc' # "archived" => pc # "archived"
    PROVE  LogsGrow(L) /\ LogsKept
BY DEF LogsGrow, LogsKept

LEMMA GrowsSame == ASSUME NEW D, NEW L \in Nat PROVE Grows(D, L, D, L)
BY DEF Grows

\* A step of the writer, the start-up or a query that keeps D.
LEMMA KeepsRest ==
    ASSUME TypeOK, TypeOK', NEW D \in States, NEW L \in 0 .. MaxTx, Sound(D, L),
           LogsGrow(L), LogsKept,
           UNCHANGED <<latest, snapFiles, snaps, objects, queue, spc, job, todo, previous>>
    PROVE  SnapshotOK(D, L)' /\ QueueOK(D, L)' /\ ThreadOK(D, L)'
<1>1. L \in Nat /\ Grows(D, L, D, L)
  BY GrowsSame
<1>2. Prefix(D, L) /\ SnapshotOK(D, L) /\ QueueOK(D, L) /\ ThreadOK(D, L)
  BY DEF Sound
<1>3. SnapshotOK(D, L)'
  BY <1>1, <1>2, SnapshotFrame
<1>4. QueueOK(D, L)'
  BY <1>1, <1>2, QueueFrame
<1>5. ThreadOK(D, L)'
  BY <1>1, <1>2, ThreadFrame
<1> QED
  BY <1>3, <1>4, <1>5

\* Where the writer is and what D then is.
LEMMA WriterCases ==
    ASSUME TypeInv, NEW D \in States, NEW L \in 0 .. MaxTx, Prefix(D, L), WriterOK(D, L)
    PROVE  /\ ~Flushed /\ mode \in {"up", "closing"} => D = md
           /\ D = md => Tx = L + 1
           /\ Flushed => D = NewMd /\ L = Tx /\ doubt # None
           /\ \A n \in Has(md) : n <= L /\ D[n] = md[n]
           /\ Tx \in Nat
<1>1. ~Flushed /\ mode \in {"up", "closing"} => D = md
  <2>1. pc # "idle" => mode = "up"
    BY DEF TypeInv, WriterHasRoom
  <2> QED
    BY <2>1 DEF WriterOK
<1>2. D = md => Last(md) = L
  BY LastOfPrefix
<1>3. Last(md) \in 0 .. MaxTx /\ MaxTx \in Nat /\ TxId \subseteq Nat /\ Has(md) \subseteq TxId
  BY LastType, Names
<1>4. Flushed => D = NewMd /\ L = Tx /\ doubt # None
  BY DEF WriterOK
<1>5. ASSUME NEW n \in Has(md) PROVE n <= L /\ D[n] = md[n]
  <2>1. n \in TxId /\ md[n] # None /\ md \in States
    BY DEF Has, TypeInv, TypeOK
  <2>2. CASE D = md
    BY <2>1, <2>2 DEF Prefix
  <2>3. CASE D = NewMd /\ L = Tx
    <3>1. n <= Last(md)
      <4>1. Has(md) \in SUBSET (0 .. MaxTx)
        BY <1>3 DEF TxId
      <4> QED
        BY <1>3, <4>1, MaxOfMember DEF Last
    <3>2. n # Tx /\ n <= Tx
      BY <1>3, <2>1, <3>1 DEF Tx
    <3> QED
      BY <2>1, <2>3, <3>2 DEF NewMd, States
  <2> QED
    BY <2>2, <2>3 DEF WriterOK
<1> QED
  BY <1>1, <1>2, <1>3, <1>4, <1>5 DEF Tx

\* The transaction being written becomes the last one of D.
LEMMA Extended ==
    ASSUME TypeInv, NEW L \in 0 .. MaxTx, Prefix(md, L), doubt # None, Tx <= MaxTx
    PROVE  /\ NewMd \in States /\ Tx = L + 1 /\ Tx \in 0 .. MaxTx /\ Tx \in TxId
           /\ Prefix(NewMd, Tx) /\ Grows(md, L, NewMd, Tx)
           /\ NewMd[Tx] = doubt /\ \A n \in TxId : n # Tx => NewMd[n] = md[n]
<1>1. md \in States /\ doubt \in Version
  BY DEF TypeInv, TypeOK
<1>2. Tx = L + 1 /\ Tx \in 0 .. MaxTx /\ Tx \in TxId
  BY LastOfPrefix, Names DEF Tx, TxId
<1>3. /\ NewMd \in States
      /\ NewMd[Tx] = doubt /\ \A n \in TxId : n # Tx => NewMd[n] = md[n]
  BY <1>1, <1>2 DEF NewMd, States
<1>4. Prefix(NewMd, Tx)
  <2> SUFFICES ASSUME NEW n \in TxId PROVE NewMd[n] # None <=> n <= Tx
    BY DEF Prefix
  <2>1. CASE n = Tx
    BY <1>2, <1>3, <2>1, Names
  <2>2. CASE n # Tx
    <3>1. n <= Tx <=> n <= L
      BY <1>2, <2>2, Names
    <3> QED
      BY <1>3, <2>2, <3>1 DEF Prefix
  <2> QED
    BY <2>1, <2>2
<1>5. Grows(md, L, NewMd, Tx)
  BY <1>2, <1>3, Names DEF Grows
<1> QED
  BY <1>2, <1>3, <1>4, <1>5

LEMMA EmptyWals == \A n \in TxId : EmptyWal.log[n] = None /\ EmptyWal.obj[n] = None
BY DEF EmptyWal, Empty

----------------------------------------------------------------------------
(* The writer                                                              *)

LEMMA AppendObjectStep ==
    ASSUME TypeInv, NEW D \in States, NEW L \in 0 .. MaxTx, Sound(D, L), AppendObject
    PROVE  Sound(D, L)'
<1>1. TypeInv' /\ TypeOK /\ TypeOK' /\ mem \in Objects
  BY TypeAppendObject DEF TypeInv, TypeOK
<1>2. /\ mode = "up" /\ pc = "idle" /\ pc' = "object" /\ doubt' = boot
      /\ mem' = [mem EXCEPT ![Tx] = boot]
      /\ UNCHANGED <<disk, process, md, stream, pending, queue, thread, query>>
  BY DEF AppendObject
<1>3. D = md /\ Tx = L + 1
  BY <1>2, WriterCases DEF Sound, Flushed
<1>4. LogsGrow(L) /\ LogsKept
  BY <1>2, LogsSame
<1>5. SnapshotOK(D, L)' /\ QueueOK(D, L)' /\ ThreadOK(D, L)'
  BY <1>1, <1>2, <1>4, KeepsRest
<1>6. WriterOK(D, L)'
  BY <1>2, <1>3 DEF Sound, WriterOK, Flushed, None
<1>7. LogsOK(D, L)' /\ NamesOK(L)' /\ ArchivesOK'
  BY <1>2 DEF Sound, LogsOK, NamesOK, ArchivesOK, Flushed
<1>8. MemOK(D, L)'
  <2>1. Tx' = Tx /\ Tx \in TxId
    <3>1. Last(md) < MaxTx /\ Last(md) \in 0 .. MaxTx
      BY LastType DEF AppendObject
    <3> QED
      BY <1>2, <3>1, Names DEF Tx, TxId
  <2>2. mem'[Tx] = doubt' /\ \A n \in TxId : n # Tx => mem'[n] = mem[n]
    BY <1>1, <1>2, <2>1 DEF Objects
  <2> QED
    BY <1>2, <1>3, <2>1, <2>2, Names DEF Sound, MemOK, Flushed, Has
<1> QED
  BY <1>5, <1>6, <1>7, <1>8 DEF Sound, Prefix

LEMMA AppendLogStep ==
    ASSUME TypeInv, NEW D \in States, NEW L \in 0 .. MaxTx, Sound(D, L), AppendLog
    PROVE  Sound(D, L)'
<1>1. TypeInv' /\ TypeOK /\ TypeOK'
  BY TypeAppendLog DEF TypeInv
<1>2. /\ mode = "up" /\ pc = "object" /\ pc' = "log"
      /\ UNCHANGED <<disk, process, md, doubt, stream, tables, thread, query>>
  BY DEF AppendLog
<1>3. LogsGrow(L) /\ LogsKept
  BY <1>2, LogsSame
<1>4. SnapshotOK(D, L)' /\ QueueOK(D, L)' /\ ThreadOK(D, L)'
  BY <1>1, <1>2, <1>3, KeepsRest
<1>5. WriterOK(D, L)'
  BY <1>2 DEF Sound, WriterOK, Flushed
<1>6. LogsOK(D, L)' /\ NamesOK(L)' /\ ArchivesOK'
  BY <1>2 DEF Sound, LogsOK, NamesOK, ArchivesOK, Flushed
<1>7. MemOK(D, L)'
  BY <1>2 DEF Sound, MemOK, Flushed, Has, Tx
<1> QED
  BY <1>4, <1>5, <1>6, <1>7 DEF Sound, Prefix

\* Both entries of the transaction being written reach the log.
LEMMA FlushedLogs ==
    ASSUME TypeInv, TypeOK', NEW D \in States, NEW L \in 0 .. MaxTx, Sound(D, L),
           mode = "up", pc = "log", pc' # "archived",
           wal' = [wal EXCEPT ![active] = Logged(wal[active], 2)],
           UNCHANGED <<walFiles, active, archives, objects, snapshots>>
    PROVE  \E D1 \in States, L1 \in 0 .. MaxTx :
              /\ D1 = NewMd /\ L1 = Tx /\ L1 = L + 1 /\ L1 \in TxId /\ D1[L1] = doubt
              /\ \A n \in TxId : n # L1 => D1[n] = D[n]
              /\ Prefix(D1, L1) /\ Grows(D, L, D1, L1) /\ LogsGrow(L) /\ LogsKept
              /\ SnapshotOK(D1, L1)' /\ LogsOK(D1, L1)' /\ NamesOK(L1)' /\ ArchivesOK'
<1>1. /\ TypeOK /\ TypeOK' /\ wal \in [WalName -> Wals] /\ active \in WalName
      /\ walFiles \subseteq WalName /\ WalName \subseteq Nat /\ TxId \subseteq Nat
  BY Names DEF TypeInv, TypeOK
<1>2. /\ wal' = [wal EXCEPT ![active] = Logged(wal[active], 2)]
      /\ UNCHANGED <<walFiles, active, archives, objects, snapshots>>
  OBVIOUS
<1>3. D = md /\ doubt # None /\ ~gap /\ Last(md) < MaxTx /\ Last(md) \in 0 .. MaxTx
  BY LastType DEF Sound, WriterOK, Flushed, TypeInv, WriterHasRoom
<1>4. Tx <= MaxTx
  BY <1>3, Names DEF Tx
<1>5. PICK D1 \in States, L1 \in 0 .. MaxTx :
        /\ D1 = NewMd /\ L1 = Tx /\ L1 = L + 1 /\ L1 \in TxId
        /\ Prefix(D1, L1) /\ Grows(D, L, D1, L1)
        /\ D1[L1] = doubt /\ \A n \in TxId : n # L1 => D1[n] = D[n]
  BY <1>3, <1>4, Extended DEF Sound
<1>6. /\ \A s \in WalName : s # active => wal'[s] = wal[s]
      /\ wal'[active].log = [wal[active].log EXCEPT ![L1] = doubt]
      /\ wal'[active].obj = [wal[active].obj EXCEPT ![L1] = doubt]
  BY <1>1, <1>2, <1>3, <1>5 DEF Logged
<1>7. \A n \in TxId : /\ wal'[active].log[n] = IF n = L1 THEN doubt ELSE wal[active].log[n]
                      /\ wal'[active].obj[n] = IF n = L1 THEN doubt ELSE wal[active].obj[n]
  <2>1. wal[active].log \in States /\ wal[active].obj \in Objects
    BY <1>1 DEF Wals
  <2> QED
    BY <1>6, <2>1 DEF States, Objects
<1>8. active \in walFiles /\ active <= L1 /\ active \notin archived
  BY <1>2, <1>5 DEF Sound, NamesOK
<1>9. LogsGrow(L) /\ LogsKept
  BY <1>1, <1>2, <1>3, <1>6, <1>7 DEF LogsGrow, LogsKept
<1>10. SnapshotOK(D1, L1)'
  <2>1. L \in Nat /\ L1 \in Nat /\ Prefix(D, L) /\ SnapshotOK(D, L)
    BY <1>5, Names DEF Sound
  <2>2. \E s \in walFiles' : wal'[s].log[L1] # None
    BY <1>2, <1>3, <1>5, <1>7, <1>8
  <2> QED
    BY <1>1, <1>2, <1>5, <1>9, <2>1, <2>2, SnapshotFrame
<1>11. LogsOK(D1, L1)'
  <2>1. \A s \in WalName \ walFiles' : wal'[s] = EmptyWal
    BY <1>2, <1>6, <1>8 DEF Sound, LogsOK
  <2>2. ASSUME NEW s \in walFiles', NEW n \in TxId
        PROVE  /\ wal'[s].log[n] # None => wal'[s].log[n] = D1[n] /\ wal'[s].obj[n] # None
               /\ wal'[s].obj[n] # None =>
                      /\ s <= n
                      /\ n <= L1 => wal'[s].obj[n] = D1[n]
                      /\ n > L1 => n = L1 + 1 /\ s = active' /\ ~Flushed'
    <3>1. s \in walFiles /\ n \in Nat
      BY <1>1, <1>2
    <3>2. CASE s = active /\ n = L1
      BY <1>1, <1>3, <1>5, <1>7, <1>8, <3>1, <3>2, Names
    <3>3. CASE ~(s = active /\ n = L1)
      <4>1. wal'[s].log[n] = wal[s].log[n] /\ wal'[s].obj[n] = wal[s].obj[n]
        BY <1>1, <1>6, <1>7, <3>1, <3>3
      <4>2. wal[s].obj[n] # None => s <= n /\ n <= L /\ wal[s].obj[n] = D[n]
        <5>1. wal[s].obj[n] # None /\ n > L => n = L + 1 /\ s = active
          BY <3>1 DEF Sound, LogsOK
        <5> QED
          BY <1>5, <3>1, <3>3, <5>1, Names DEF Sound, LogsOK
      <4>3. n <= L => n # L1 /\ n <= L1 /\ D1[n] = D[n]
        BY <1>5, <3>1, Names
      <4> QED
        BY <1>5, <3>1, <4>1, <4>2, <4>3, Names DEF Sound, LogsOK
    <3> QED
      BY <3>2, <3>3
  <2> QED
    BY <2>1, <2>2 DEF LogsOK
<1>12. NamesOK(L1)'
  BY <1>1, <1>2, <1>5, Names DEF Sound, NamesOK
<1>13. ArchivesOK'
  BY <1>1, <1>2, <1>6, <1>8 DEF Sound, ArchivesOK, TypeOK
<1> QED
  BY <1>5, <1>9, <1>10, <1>11, <1>12, <1>13

LEMMA FlushToStep ==
    ASSUME TypeInv, NEW D \in States, NEW L \in 0 .. MaxTx, Sound(D, L),
           NEW next \in {"stored", "closed"}, FlushTo(next)
    PROVE  \E D1 \in States, L1 \in 0 .. MaxTx : Sound(D1, L1)'
<1>1. TypeInv' /\ TypeOK /\ TypeOK' /\ TxId \subseteq Nat
  BY TypeFlushTo, Names DEF TypeInv
<1>2. /\ mode = "up" /\ pc = "log" /\ pc' = next
      /\ wal' = [wal EXCEPT ![active] = Logged(wal[active], 2)]
      /\ UNCHANGED <<walFiles, tail, archives, objects, snapshots, process, md, doubt,
                     stream, tables, thread, query>>
  BY DEF FlushTo
<1>3. D = md /\ doubt # None /\ ~gap /\ tail # "object"
  BY <1>2 DEF Sound, WriterOK, Flushed
<1>4. PICK D1 \in States, L1 \in 0 .. MaxTx :
        /\ D1 = NewMd /\ L1 = Tx /\ L1 = L + 1 /\ L1 \in TxId /\ D1[L1] = doubt
        /\ \A n \in TxId : n # L1 => D1[n] = D[n]
        /\ Prefix(D1, L1) /\ Grows(D, L, D1, L1) /\ LogsGrow(L) /\ LogsKept
        /\ SnapshotOK(D1, L1)' /\ LogsOK(D1, L1)' /\ NamesOK(L1)' /\ ArchivesOK'
  BY <1>1, <1>2, FlushedLogs
<1>5. QueueOK(D1, L1)' /\ ThreadOK(D1, L1)'
  <2>1. L \in Nat /\ L1 \in Nat /\ QueueOK(D, L) /\ ThreadOK(D, L)
    BY Names DEF Sound
  <2>2. QueueOK(D1, L1)'
    BY <1>1, <1>2, <1>4, <2>1, QueueFrame
  <2>3. ThreadOK(D1, L1)'
    BY <1>1, <1>2, <1>4, <2>1, ThreadFrame
  <2> QED
    BY <2>2, <2>3
<1>6. WriterOK(D1, L1)'
  <2>1. D1 = NewMd' /\ L1 = Tx'
    BY <1>2, <1>4 DEF NewMd, Tx
  <2> QED
    BY <1>2, <1>3, <2>1 DEF Sound, WriterOK, Flushed
<1>7. MemOK(D1, L1)'
  <2>1. mem[L1] = doubt
    BY <1>2, <1>4 DEF Sound, MemOK
  <2>2. ASSUME NEW n \in TxId
        PROVE  /\ mem[n] # None /\ n <= L1 => mem[n] = D1[n]
               /\ mem[n] = None /\ n <= L1 => objects[n] # None
               /\ ~(mem[n] # None /\ n > L1)
    <3>1. CASE n = L1
      BY <1>3, <1>4, <2>1, <3>1, Names
    <3>2. CASE n # L1
      BY <1>1, <1>2, <1>4, <3>2, Names DEF Sound, MemOK
    <3> QED
      BY <3>1, <3>2
  <2> QED
    BY <1>2, <2>2 DEF Sound, MemOK, Has
<1> QED
  BY <1>4, <1>5, <1>6, <1>7 DEF Sound, Prefix

LEMMA ArchiveWalStep ==
    ASSUME TypeInv, NEW D \in States, NEW L \in 0 .. MaxTx, Sound(D, L), ArchiveWal
    PROVE  Sound(D, L)'
<1>1. TypeInv' /\ TypeOK /\ TypeOK' /\ L \in Nat
  BY TypeArchiveWal, Names DEF TypeInv
<1>2. /\ mode = "up" /\ pc = "closed" /\ pc' = "archived"
      /\ archived' = archived \cup {LatestWalFile}
      /\ archive' = [archive EXCEPT ![LatestWalFile] = wal[LatestWalFile]]
      /\ UNCHANGED <<logs, objects, snapshots, process, md, doubt, stream, mem, thread, query>>
  BY DEF ArchiveWal
<1>3. D = NewMd /\ L = Tx /\ doubt # None
  BY <1>2 DEF Sound, WriterOK, Flushed
<1>4. /\ LatestWalFile = active /\ active \in walFiles /\ active <= L /\ active \in Nat
      /\ active \in WalName
  BY <1>1, <1>2, LatestIsActive, Names DEF Sound, NamesOK, TypeOK
<1>5. LogsGrow(L) /\ LogsKept /\ Grows(D, L, D, L)
  BY <1>1, <1>2, LogsSame, GrowsSame
<1>6. SnapshotOK(D, L)' /\ ThreadOK(D, L)'
  BY <1>1, <1>2, <1>5, SnapshotFrame, ThreadFrame DEF Sound
<1>7. WriterOK(D, L)' /\ LogsOK(D, L)' /\ NamesOK(L)' /\ MemOK(D, L)'
  <2>1. D = NewMd' /\ L = Tx' /\ Has(md)' = Has(md)
    BY <1>2, <1>3 DEF NewMd, Tx, Has
  <2>2. WriterOK(D, L)'
    BY <1>2, <2>1 DEF Sound, WriterOK, Flushed
  <2>3. LogsOK(D, L)' /\ NamesOK(L)'
    BY <1>2 DEF Sound, LogsOK, NamesOK, Flushed
  <2>4. MemOK(D, L)'
    BY <1>2, <2>1 DEF Sound, MemOK, Flushed
  <2> QED
    BY <2>2, <2>3, <2>4
<1>8. ArchivesOK'
  <2>1. archive'[active] = wal[active] /\ \A s \in WalName : s # active => archive'[s] = archive[s]
    BY <1>1, <1>2, <1>4 DEF TypeOK
  <2> QED
    BY <1>1, <1>2, <1>4, <2>1 DEF Sound, ArchivesOK, TypeOK
<1>9. QueueOK(D, L)'
  <2>1. CASE queue' = queue
    BY <1>1, <1>2, <1>5, <2>1, QueueFrame DEF Sound
  <2>2. CASE queue' = Append(queue, [wals |-> walFiles, md |-> NewMd, tx |-> Tx, objs |-> Has(mem)])
    <3> DEFINE j == [wals |-> walFiles, md |-> NewMd, tx |-> Tx, objs |-> Has(mem)]
    <3>1. j.wals = walFiles /\ j.md = D /\ j.tx = L /\ j.objs = Has(mem)
      BY <1>3
    <3> HIDE DEF j
    <3>2. queue \in Seq(Jobs) /\ Len(queue) \in Nat /\ queue' = Append(queue, j)
      BY <1>1, <2>2 DEF TypeOK, j
    <3>3. /\ Len(queue') = Len(queue) + 1 /\ queue'[Len(queue) + 1] = j
          /\ \A i \in 1 .. Len(queue) : queue'[i] = queue[i] /\ queue[i] \in Jobs
      BY <3>2
    <3>4. BoundaryAfter(L, L)
      BY <1>1, <1>2 DEF BoundaryAfter, Sound, LogsOK, Flushed
    <3>5. D = Upto(D, L)
      BY DEF Sound, Prefix, Upto, States
    <3>6. \A s \in walFiles : s <= L
      BY <1>2 DEF Sound, NamesOK
    <3>7. \A n \in Has(mem) : n <= L
      <4> SUFFICES ASSUME NEW n \in Has(mem), ~(n <= L) PROVE FALSE
        OBVIOUS
      <4>1. n \in TxId /\ mem[n] # None /\ n > L
        BY <1>1, Names DEF Has
      <4> QED
        BY <1>2, <4>1 DEF Sound, MemOK, Flushed
    <3>8. JobAfter(j, D, L)
      BY <1>2, <3>1, <3>4, <3>5, <3>6, <3>7 DEF JobAfter
    <3>9. ASSUME NEW i \in 1 .. Len(queue) PROVE JobAfter(queue[i], D, L)
      BY <1>1, <1>5, <3>3, JobGrows DEF Sound, QueueOK
    <3>10. \A i \in 1 .. Len(queue') : JobAfter(queue'[i], D, L)
      BY <3>2, <3>3, <3>8, <3>9
    <3>11. \A i \in 1 .. Len(queue') : JobOK(queue[i], D, L)'
      BY <3>10 DEF JobOK, JobAfter, BoundaryOK, BoundaryAfter
    <3>12. latest < L /\ (spc # "idle" => job.tx < L) /\ \A i \in 1 .. Len(queue) : queue[i].tx < L
      <4>1. latest < active
        BY <1>2 DEF Sound, SnapshotOK, BoundaryOK
      <4>2. spc # "idle" => job.tx < active
        BY <1>2 DEF Sound, ThreadOK, JobOK, BoundaryOK
      <4>3. \A i \in 1 .. Len(queue) : queue[i].tx < active
        BY <1>2 DEF Sound, QueueOK, JobOK, BoundaryOK
      <4>4. latest \in Nat /\ job.tx \in Nat /\ \A i \in 1 .. Len(queue) : queue[i].tx \in Nat
        <5>1. TxId \subseteq Nat /\ latest \in {None} \cup TxId /\ job \in Jobs
          BY <1>1, Names DEF TypeOK
        <5>2. \A g \in Jobs : g.tx \in Nat
          BY <5>1 DEF Jobs
        <5>3. None \in Nat
          BY DEF None
        <5>4. latest \in Nat
          BY <5>1, <5>3
        <5>5. job.tx \in Nat
          BY <5>1, <5>2, Zenon
        <5>6. \A i \in 1 .. Len(queue) : queue[i].tx \in Nat
          BY <3>3, <5>2, Zenon
        <5> QED
          BY <5>4, <5>5, <5>6
      <4> QED
        BY <1>1, <1>4, <4>1, <4>2, <4>3, <4>4
    <3>13. \A i \in 1 .. Len(queue') : latest < queue'[i].tx /\ (spc # "idle" => job.tx < queue'[i].tx)
      BY <3>1, <3>2, <3>3, <3>12 DEF Sound, QueueOK
    <3>14. \A i, k \in 1 .. Len(queue') : i < k => queue'[i].tx < queue'[k].tx
      BY <3>1, <3>2, <3>3, <3>12 DEF Sound, QueueOK
    <3> QED
      BY <1>2, <3>11, <3>13, <3>14 DEF QueueOK
  <2> QED
    BY <2>1, <2>2 DEF ArchiveWal, Pushed, WalsToUnpack
<1> QED
  BY <1>6, <1>7, <1>8, <1>9 DEF Sound, Prefix

LEMMA OpenWalStep ==
    ASSUME TypeInv, NEW D \in States, NEW L \in 0 .. MaxTx, Sound(D, L), OpenWal
    PROVE  Sound(D, L)'
<1>1. TypeInv' /\ TypeOK /\ TypeOK' /\ L \in Nat /\ MaxTx \in Nat
  BY TypeOpenWal, Names DEF TypeInv
<1>2. /\ mode = "up" /\ pc = "archived" /\ pc' = "stored" /\ active' = Tx + 1
      /\ walFiles' = walFiles \cup {Tx + 1} /\ gap' = FALSE
      /\ UNCHANGED <<wal, tail, archives, objects, snapshots, process, md, doubt, tables,
                     thread, query>>
  BY DEF OpenWal
<1>3. D = NewMd /\ L = Tx /\ doubt # None
  BY <1>2 DEF Sound, WriterOK, Flushed
<1>4. /\ active' = L + 1 /\ walFiles' = walFiles \cup {L + 1} /\ L + 1 \in WalName
      /\ walFiles \subseteq Nat /\ TxId \subseteq Nat
  BY <1>1, <1>2, <1>3, Names DEF WalName, TypeOK
<1>5. \A s \in walFiles : s <= L
  BY <1>2 DEF Sound, NamesOK
<1>6. wal[L + 1] = EmptyWal
  BY <1>1, <1>4, <1>5 DEF Sound, LogsOK
<1>7. \A n \in TxId : wal[L + 1].log[n] = None /\ wal[L + 1].obj[n] = None
  BY <1>6, EmptyWals
<1>8. LogsGrow(L) /\ LogsKept
  BY <1>1, <1>2, <1>4 DEF LogsGrow, LogsKept
<1>9. SnapshotOK(D, L)' /\ QueueOK(D, L)' /\ ThreadOK(D, L)'
  BY <1>1, <1>2, <1>8, KeepsRest
<1>10. WriterOK(D, L)'
  <2>1. D = NewMd' /\ L = Tx'
    BY <1>2, <1>3 DEF NewMd, Tx
  <2> QED
    BY <1>2, <2>1 DEF Sound, WriterOK, Flushed
<1>11. LogsOK(D, L)'
  BY <1>1, <1>2, <1>4, <1>7 DEF Sound, LogsOK, Flushed
<1>12. NamesOK(L)'
  <2>1. L + 1 \notin archived
    <3>1. latest <= L /\ latest \in Nat
      BY <1>1, Names DEF Sound, SnapshotOK, BoundaryOK, TypeOK, None
    <3>2. \A s \in archived : s <= L
      <4> TAKE s \in archived
      <4>1. s \in Nat
        BY <1>1, Names DEF TypeOK
      <4> QED
        BY <1>1, <1>5, <3>1, <4>1 DEF Sound, ArchivesOK
    <3> QED
      BY <1>1, <3>2
  <2> QED
    BY <1>1, <1>2, <1>4, <1>5, <2>1 DEF NamesOK
<1>13. ArchivesOK'
  <2>1. \A s \in archived : s \in walFiles' => s \in walFiles
    <3>1. L + 1 \notin archived
      BY <1>12, <1>2, <1>4 DEF NamesOK
    <3> QED
      BY <1>4, <3>1
  <2> QED
    BY <1>2, <1>4, <2>1 DEF Sound, ArchivesOK
<1>14. MemOK(D, L)'
  BY <1>2 DEF Sound, MemOK, Flushed, Has
<1> QED
  BY <1>9, <1>10, <1>11, <1>12, <1>13, <1>14 DEF Sound, Prefix

LEMMA CommitStep ==
    ASSUME TypeInv, NEW D \in States, NEW L \in 0 .. MaxTx, Sound(D, L), Commit
    PROVE  Sound(D, L)'
<1>1. TypeInv' /\ TypeOK /\ TypeOK' /\ L \in Nat
  BY TypeCommit, Names DEF TypeInv
<1>2. /\ mode = "up" /\ pc = "stored" /\ pc' = "idle" /\ md' = NewMd /\ doubt' = None
      /\ UNCHANGED <<disk, process, stream, tables, thread, query>>
  BY DEF Commit
<1>3. md' = D
  BY <1>2 DEF Sound, WriterOK, Flushed
<1>4. LogsGrow(L) /\ LogsKept
  BY <1>2, LogsSame
<1>5. SnapshotOK(D, L)' /\ QueueOK(D, L)' /\ ThreadOK(D, L)'
  BY <1>1, <1>2, <1>4, KeepsRest
<1>6. WriterOK(D, L)'
  BY <1>2, <1>3 DEF Sound, WriterOK, Flushed
<1>7. LogsOK(D, L)' /\ NamesOK(L)' /\ ArchivesOK'
  BY <1>2 DEF Sound, LogsOK, NamesOK, ArchivesOK, Flushed
<1>8. Has(md) \subseteq Has(md)'
  <2>1. \A n \in Has(md) : n <= L /\ D[n] = md[n]
    BY WriterCases DEF Sound
  <2> QED
    BY <1>3, <2>1 DEF Has
<1>9. MemOK(D, L)'
  BY <1>2, <1>8 DEF Sound, MemOK, Flushed
<1> QED
  BY <1>5, <1>6, <1>7, <1>9 DEF Sound, Prefix

----------------------------------------------------------------------------
(* The start-up                                                            *)

LEMMA OpenStep ==
    ASSUME TypeInv, NEW D \in States, NEW L \in 0 .. MaxTx, Sound(D, L), Open
    PROVE  Sound(D, L)'
<1>1. /\ TypeInv' /\ TypeOK /\ TypeOK' /\ L \in Nat /\ wal \in [WalName -> Wals]
      /\ walFiles \subseteq WalName /\ WalName \subseteq Nat \ {0} /\ TxId \subseteq Nat
      /\ active \in WalName /\ boot \in Nat /\ latest \in Nat
  <2>1. TypeInv'
    BY TypeOpen
  <2>2. boot \in Nat /\ latest \in Nat /\ L \in Nat
    BY Names, BoundsAssumption DEF TypeInv, TypeOK, Version, None
  <2>3. WalName \subseteq Nat \ {0} /\ TxId \subseteq Nat
    BY Names
  <2> QED
    BY <2>1, <2>2, <2>3 DEF TypeInv, TypeOK
<1>2. pc = "idle" /\ ~Flushed /\ mode = "down"
  BY DEF TypeInv, WriterHasRoom, Open, Flushed
<1>3. LatestWalFile = active
  BY <1>1, <1>2, LatestIsActive DEF Sound
<1>4. /\ mode' = "opened" /\ boot' = boot + 1 /\ active' = active
      /\ walFiles' = walFiles \cup {active}
      /\ \/ /\ tail = "object" /\ wal' = [wal EXCEPT ![active].obj[Tx] = Garbage] /\ tail' = "clean"
         \/ tail # "object" /\ UNCHANGED <<wal, tail>>
      /\ UNCHANGED <<archives, objects, snapshots, tx, gap, tables, thread, query>>
  BY <1>3 DEF Open
<1>5. tail = "object" => D = md /\ Tx = L + 1
  BY WriterCases DEF Sound, WriterOK
<1>6. /\ \A s \in WalName : s # active => wal'[s] = wal[s]
      /\ wal'[active].log = wal[active].log
      /\ \A n \in TxId : wal'[active].obj[n] = wal[active].obj[n] \/ (n = L + 1 /\ tail = "object")
      /\ \A n \in TxId : wal[active].obj[n] # None => wal'[active].obj[n] # None
  <2>1. wal[active].log \in States /\ wal[active].obj \in Objects /\ wal[active] \in Wals
    BY <1>1 DEF Wals
  <2>2. CASE tail = "object"
    <3>1. wal' = [wal EXCEPT ![active] = [wal[active] EXCEPT !.obj = [wal[active].obj EXCEPT ![Tx] = Garbage]]]
      BY <1>4, <2>2
    <3>2. wal'[active] = [wal[active] EXCEPT !.obj = [wal[active].obj EXCEPT ![Tx] = Garbage]]
      BY <1>1, <3>1
    <3>3. wal'[active].obj = [wal[active].obj EXCEPT ![Tx] = Garbage] /\ wal'[active].log = wal[active].log
      BY <2>1, <3>2 DEF Wals
    <3>4. Garbage # None
      BY BoundsAssumption DEF Garbage, None
    <3>5. \A n \in TxId : wal'[active].obj[n] = IF n = Tx THEN Garbage ELSE wal[active].obj[n]
      BY <2>1, <3>3 DEF Objects
    <3>6. \A s \in WalName : s # active => wal'[s] = wal[s]
      BY <1>1, <3>1
    <3> QED
      BY <1>5, <2>2, <3>3, <3>4, <3>5, <3>6
  <2>3. CASE tail # "object"
    BY <1>4, <2>3
  <2> QED
    BY <2>2, <2>3
<1>7. active \notin walFiles => walFiles = {} /\ active = 1 /\ L < active
  <2> SUFFICES ASSUME active \notin walFiles PROVE walFiles = {} /\ active = 1 /\ L < active
    OBVIOUS
  <2>1. walFiles = {} /\ active = 1
    BY <1>2 DEF Sound, NamesOK
  <2>2. latest < 1 /\ L <= MaxTx
    BY <1>2, <2>1, Names DEF Sound, SnapshotOK, BoundaryOK
  <2>3. \A n \in TxId : ~(latest < n /\ n <= L)
    BY <2>1 DEF Sound, SnapshotOK
  <2>4. L = 0
    <3> SUFFICES ASSUME L # 0 PROVE FALSE
      OBVIOUS
    <3>1. L \in TxId /\ latest < L
      BY <1>1, <2>2, Names DEF TxId
    <3> QED
      BY <1>1, <2>3, <3>1
  <2> QED
    BY <2>1, <2>4
<1>8. active <= L + 1
  <2>1. active \in walFiles => active <= L + 1
    BY DEF Sound, NamesOK
  <2> QED
    BY <1>1, <1>7, <2>1
<1>9. LogsGrow(L) /\ LogsKept
  <2>1. LogsGrow(L)
    BY <1>1, <1>2, <1>4, <1>6, <1>7 DEF LogsGrow
  <2>2. LogsKept
    BY <1>1, <1>4, <1>6 DEF LogsKept
  <2> QED
    BY <2>1, <2>2
<1>10. SnapshotOK(D, L)' /\ QueueOK(D, L)' /\ ThreadOK(D, L)'
  BY <1>1, <1>4, <1>9, KeepsRest
<1>11. WriterOK(D, L)'
  <2>1. Tx' = Tx /\ NewMd' = NewMd /\ Flushed' = Flushed /\ tail' # "object"
    BY <1>4 DEF Tx, NewMd, Flushed
  <2>2. boot' # 0 /\ mode' = "opened" /\ pc' = "idle"
    BY <1>1, <1>2, <1>4
  <2> QED
    BY <1>2, <1>4, <2>1, <2>2 DEF Sound, WriterOK
<1>12. LogsOK(D, L)'
  <2>1. \A s \in WalName \ walFiles' : wal'[s] = EmptyWal
    BY <1>4, <1>6 DEF Sound, LogsOK
  <2>2. ASSUME NEW s \in walFiles', NEW n \in TxId
        PROVE  /\ wal'[s].log[n] # None => wal'[s].log[n] = D[n] /\ wal'[s].obj[n] # None
               /\ wal'[s].obj[n] # None =>
                      /\ s <= n
                      /\ n <= L => wal'[s].obj[n] = D[n]
                      /\ n > L => n = L + 1 /\ s = active' /\ ~Flushed'
    <3>1. ~Flushed' /\ active' = active /\ n \in Nat
      BY <1>1, <1>2, <1>4 DEF Flushed
    <3>2. CASE s \in walFiles /\ s # active
      <4>1. wal'[s] = wal[s]
        BY <1>1, <1>6, <3>2
      <4> QED
        BY <3>1, <3>2, <4>1 DEF Sound, LogsOK
    <3>3. CASE s \in walFiles /\ s = active
      <4>1. CASE n = L + 1 /\ tail = "object"
        <5>1. wal[s].log[n] = None
          BY <1>1, <3>1, <3>3, <4>1 DEF Sound, LogsOK, Prefix
        <5> QED
          BY <1>1, <1>6, <1>8, <3>1, <3>3, <4>1, <5>1
      <4>2. CASE ~(n = L + 1 /\ tail = "object")
        BY <1>1, <1>6, <3>1, <3>3, <4>2 DEF Sound, LogsOK
      <4> QED
        BY <4>1, <4>2
    <3>4. CASE s \notin walFiles
      <4>1. s = active /\ wal[s] = EmptyWal
        BY <1>1, <1>4, <3>4 DEF Sound, LogsOK
      <4>2. wal[s].log[n] = None /\ wal[s].obj[n] = None
        BY <4>1, EmptyWals
      <4> QED
        BY <1>1, <1>6, <1>8, <3>1, <4>1, <4>2
    <3> QED
      BY <3>2, <3>3, <3>4
  <2> QED
    BY <2>1, <2>2 DEF LogsOK
<1>13. NamesOK(L)'
  BY <1>1, <1>2, <1>4, <1>7, <1>8 DEF Sound, NamesOK
<1>14. ArchivesOK'
  BY <1>1, <1>2, <1>4, <1>6 DEF Sound, ArchivesOK, NamesOK, TypeOK
<1>15. MemOK(D, L)'
  BY <1>2, <1>4 DEF Sound, MemOK, Has
<1> QED
  BY <1>10, <1>11, <1>12, <1>13, <1>14, <1>15 DEF Sound, Prefix

LEMMA ReplayStep ==
    ASSUME TypeInv, NEW D \in States, NEW L \in 0 .. MaxTx, Sound(D, L), Replay
    PROVE  Sound(D, L)' /\ md' = D
<1>1. /\ TypeInv' /\ TypeOK /\ TypeOK' /\ L \in Nat /\ latest \in Nat
      /\ wal \in [WalName -> Wals] /\ walFiles \subseteq WalName /\ WalName \subseteq Nat \ {0}
      /\ TxId \subseteq Nat
  <2>1. TypeInv'
    BY TypeReplay
  <2>2. latest \in Nat /\ L \in Nat
    BY Names DEF TypeInv, TypeOK, None
  <2> QED
    BY <2>1, <2>2, Names DEF TypeInv, TypeOK
<1>2. pc = "idle" /\ ~Flushed /\ mode = "opened" /\ mode' = "up" /\ doubt' = None
  BY DEF TypeInv, WriterHasRoom, Replay, Flushed
<1>3. /\ Fetched \subseteq walFiles /\ Replayed = {s \in walFiles : latest <= s}
      /\ \A s \in WalName : Fresh(s) = wal[s]
  BY <1>1, NothingFetched DEF Sound
<1>4. wal' = wal /\ walFiles' = walFiles
  BY <1>1, <1>3 DEF Replay
<1>5. md' = D
  BY <1>1, Rebuilds DEF Sound, Replay
<1>6. ~gap'
  <2>1. active \notin archived
    BY <1>2 DEF Sound, NamesOK
  <2> QED
    BY <2>1 DEF Replay, Fetched
<1>7. UNCHANGED <<tail, archives, objects, snapshots, boot, pc, active, queue, thread, query>>
  BY DEF Replay
<1>8. LogsGrow(L) /\ LogsKept
  BY <1>4, <1>7, LogsSame
<1>9. SnapshotOK(D, L)' /\ QueueOK(D, L)' /\ ThreadOK(D, L)'
  BY <1>1, <1>7, <1>8, KeepsRest
<1>10. WriterOK(D, L)'
  BY <1>2, <1>5, <1>6, <1>7 DEF Sound, WriterOK, Flushed
<1>11. LogsOK(D, L)' /\ NamesOK(L)' /\ ArchivesOK'
  BY <1>2, <1>4, <1>7 DEF Sound, LogsOK, NamesOK, ArchivesOK, Flushed
<1>12. MemOK(D, L)'
  <2> DEFINE entries == [s \in WalName |-> Fresh(s).obj]
  <2>1. mem' = LastOf(Replayed, entries, Empty)
    BY DEF Replay
  <2>2. \A s \in WalName : entries[s] = wal[s].obj
    BY <1>3
  <2> HIDE DEF entries
  <2>3. Replayed \subseteq walFiles /\ Replayed \in SUBSET WalName
    BY <1>1, <1>3
  <2>4. ASSUME NEW n \in TxId, n <= L
        PROVE  /\ mem'[n] # None => mem'[n] = D[n]
               /\ mem'[n] = None => objects[n] # None
    <3>1. Agree(Replayed, entries, n, D[n])
      BY <1>1, <2>2, <2>3, <2>4 DEF Agree, Sound, LogsOK
    <3>2. /\ Held(Replayed, entries, n) => mem'[n] = D[n]
          /\ ~Held(Replayed, entries, n) => mem'[n] = Empty[n]
      BY <2>1, <2>3, <3>1, LastOfAgreeing
    <3>3. D[n] # None /\ Empty[n] = None
      BY <2>4 DEF Sound, Prefix, Empty
    <3>4. ~Held(Replayed, entries, n) => objects[n] # None
      <4>1. CASE n <= latest
        BY <4>1 DEF Sound, SnapshotOK
      <4>2. CASE latest < n
        <5>1. PICK s \in walFiles : wal[s].log[n] # None
          BY <2>4, <4>2 DEF Sound, SnapshotOK
        <5>2. wal[s].obj[n] # None
          BY <5>1 DEF Sound, LogsOK
        <5>3. s > latest
          BY <4>2, <5>2 DEF Sound, SnapshotOK, BoundaryOK
        <5>4. s \in Replayed
          BY <1>1, <1>3, <5>3
        <5> QED
          BY <1>1, <2>2, <5>2, <5>4 DEF Held
      <4> QED
        BY <1>1, <4>1, <4>2
    <3> QED
      BY <3>2, <3>3, <3>4
  <2>5. ASSUME NEW n \in TxId, n > L, mem'[n] # None PROVE n = L + 1
    <3> SUFFICES ASSUME n # L + 1 PROVE FALSE
      OBVIOUS
    <3>1. \A s \in Replayed : entries[s][n] = None
      BY <1>1, <2>2, <2>3, <2>5 DEF Sound, LogsOK
    <3>2. Agree(Replayed, entries, n, None) /\ ~Held(Replayed, entries, n)
      BY <3>1 DEF Agree, Held
    <3>3. mem'[n] = Empty[n]
      BY <2>1, <2>3, <3>2, LastOfAgreeing
    <3> QED
      BY <2>5, <3>3 DEF Empty
  <2>6. reader # None => reader \in Has(md)' /\ objects[reader] # None
    <3>1. \A n \in Has(md) : n \in TxId /\ D[n] = md[n] /\ md[n] # None
      BY WriterCases DEF Sound, Has
    <3> QED
      BY <1>5, <3>1 DEF Sound, MemOK, Has
  <2> QED
    BY <1>1, <1>2, <1>7, <2>4, <2>5, <2>6 DEF Sound, MemOK, Flushed
<1> QED
  BY <1>5, <1>9, <1>10, <1>11, <1>12 DEF Sound, Prefix

LEMMA FailToReplayStep ==
    ASSUME TypeInv, NEW D \in States, NEW L \in 0 .. MaxTx, Sound(D, L), FailToReplay
    PROVE  Sound(D, L)'
<1>1. TypeOK /\ TypeOK' /\ pc = "idle" /\ mode = "opened" /\ mode' = "failed"
  BY TypeNext DEF TypeInv, WriterHasRoom, Next, FailToReplay
<1>2. UNCHANGED <<disk, boot, tx, stream, tables, thread, query>>
  BY DEF FailToReplay
<1>3. LogsGrow(L) /\ LogsKept
  BY <1>2, LogsSame
<1>4. SnapshotOK(D, L)' /\ QueueOK(D, L)' /\ ThreadOK(D, L)'
  BY <1>1, <1>2, <1>3, KeepsRest
<1>5. WriterOK(D, L)'
  BY <1>1, <1>2 DEF Sound, WriterOK, Flushed, NewMd, Tx
<1>6. LogsOK(D, L)' /\ NamesOK(L)' /\ ArchivesOK'
  BY <1>1, <1>2 DEF Sound, LogsOK, NamesOK, ArchivesOK, Flushed
<1>7. MemOK(D, L)'
  BY <1>1, <1>2 DEF Sound, MemOK, Has
<1> QED
  BY <1>4, <1>5, <1>6, <1>7 DEF Sound, Prefix

----------------------------------------------------------------------------
(* Queries, the close and the crash                                        *)

LEMMA ReadMemStep ==
    ASSUME TypeInv, NEW D \in States, NEW L \in 0 .. MaxTx, Sound(D, L), ReadMem
    PROVE  Sound(D, L)'
<1>1. TypeOK /\ TypeOK' /\ mode \in {"up", "closing"} /\ UNCHANGED <<disk, process, tx, stream, tables, thread>>
  BY TypeQuery DEF TypeInv, ReadMem, Running
<1>2. LogsGrow(L) /\ LogsKept
  BY <1>1, LogsSame
<1>3. SnapshotOK(D, L)' /\ QueueOK(D, L)' /\ ThreadOK(D, L)'
  BY <1>1, <1>2, KeepsRest
<1>4. WriterOK(D, L)' /\ LogsOK(D, L)' /\ NamesOK(L)' /\ ArchivesOK'
  BY <1>1 DEF Sound, WriterOK, LogsOK, NamesOK, ArchivesOK, Flushed, NewMd, Tx
<1>5. MemOK(D, L)'
  <2>1. PICK n \in Has(md) : IF mem[n] = None
                             THEN reader' = n /\ UNCHANGED misread
                             ELSE misread' = (misread \/ mem[n] # md[n]) /\ UNCHANGED reader
    BY DEF ReadMem
  <2>2. n \in TxId /\ n <= L /\ D[n] = md[n]
    BY WriterCases DEF Sound, Has
  <2>3. mem[n] # None => mem[n] = md[n]
    BY <1>1, <2>2 DEF Sound, MemOK
  <2>4. mem[n] = None => objects[n] # None
    BY <1>1, <2>2 DEF Sound, MemOK
  <2>5. ~misread'
    BY <2>1, <2>3 DEF Sound, MemOK
  <2>6. reader' # None => reader' \in Has(md) /\ objects[reader'] # None
    BY <2>1, <2>4 DEF Sound, MemOK
  <2> QED
    BY <1>1, <2>5, <2>6 DEF Sound, MemOK, Flushed, Has, Tx
<1> QED
  BY <1>3, <1>4, <1>5 DEF Sound, Prefix

LEMMA ReadBackingStep ==
    ASSUME TypeInv, NEW D \in States, NEW L \in 0 .. MaxTx, Sound(D, L), ReadBacking
    PROVE  Sound(D, L)'
<1>1. /\ TypeOK /\ TypeOK' /\ reader # None /\ reader' = None
      /\ misread' = (misread \/ objects[reader] # md[reader])
      /\ UNCHANGED <<disk, process, tx, stream, tables, thread>>
  BY TypeQuery DEF TypeInv, ReadBacking
<1>2. LogsGrow(L) /\ LogsKept
  BY <1>1, LogsSame
<1>3. SnapshotOK(D, L)' /\ QueueOK(D, L)' /\ ThreadOK(D, L)'
  BY <1>1, <1>2, KeepsRest
<1>4. WriterOK(D, L)' /\ LogsOK(D, L)' /\ NamesOK(L)' /\ ArchivesOK'
  BY <1>1 DEF Sound, WriterOK, LogsOK, NamesOK, ArchivesOK, Flushed, NewMd, Tx
<1>5. MemOK(D, L)'
  <2>1. reader \in Has(md) /\ objects[reader] # None
    BY <1>1 DEF Sound, MemOK
  <2>2. reader \in TxId /\ D[reader] = md[reader]
    BY <2>1, WriterCases DEF Sound, Has
  <2>3. objects[reader] = md[reader]
    BY <2>1, <2>2 DEF Sound, SnapshotOK
  <2>4. ~misread'
    BY <1>1, <2>3 DEF Sound, MemOK
  <2> QED
    BY <1>1, <2>4 DEF Sound, MemOK, Flushed, Has, Tx
<1> QED
  BY <1>3, <1>4, <1>5 DEF Sound, Prefix

LEMMA BeginCloseStep ==
    ASSUME TypeInv, NEW D \in States, NEW L \in 0 .. MaxTx, Sound(D, L), BeginClose
    PROVE  Sound(D, L)'
<1>1. /\ TypeOK /\ TypeOK' /\ mode = "up" /\ pc = "idle" /\ mode' = "closing"
      /\ UNCHANGED <<disk, boot, tx, stream, tables, thread, query>>
  BY TypeNext DEF TypeInv, Next, BeginClose
<1>2. LogsGrow(L) /\ LogsKept
  BY <1>1, LogsSame
<1>3. SnapshotOK(D, L)' /\ QueueOK(D, L)' /\ ThreadOK(D, L)'
  BY <1>1, <1>2, KeepsRest
<1>4. WriterOK(D, L)' /\ LogsOK(D, L)' /\ NamesOK(L)' /\ ArchivesOK'
  BY <1>1 DEF Sound, WriterOK, LogsOK, NamesOK, ArchivesOK, Flushed, NewMd, Tx
<1>5. MemOK(D, L)'
  BY <1>1 DEF Sound, MemOK, Flushed, Has, Tx
<1> QED
  BY <1>3, <1>4, <1>5 DEF Sound, Prefix

\* What is left of a process that is gone is sound.
LEMMA ForgetRest ==
    ASSUME Forget, ~misread', NEW D, NEW L
    PROVE  QueueOK(D, L)' /\ ThreadOK(D, L)' /\ MemOK(D, L)'
<1>1. QueueOK(D, L)'
  BY DEF Forget, QueueOK
<1>2. ThreadOK(D, L)'
  BY DEF Forget, ThreadOK
<1>3. MemOK(D, L)'
  BY DEF Forget, MemOK
<1> QED
  BY <1>1, <1>2, <1>3

LEMMA EndCloseStep ==
    ASSUME TypeInv, NEW D \in States, NEW L \in 0 .. MaxTx, Sound(D, L), EndClose
    PROVE  Sound(D, L)'
<1>1. /\ TypeOK /\ TypeOK' /\ mode = "closing" /\ pc = "idle" /\ Forget
      /\ UNCHANGED <<disk, boot, md, doubt, active, misread>>
  BY TypeNext DEF TypeInv, WriterHasRoom, Next, EndClose
<1>2. mode' = "down" /\ pc' = "idle" /\ gap' = FALSE
  BY <1>1 DEF Forget
<1>3. LogsGrow(L) /\ LogsKept
  BY <1>1, LogsSame
<1>4. SnapshotOK(D, L)'
  BY <1>1, <1>3, GrowsSame, SnapshotFrame, Names DEF Sound
<1>5. WriterOK(D, L)' /\ LogsOK(D, L)' /\ NamesOK(L)' /\ ArchivesOK'
  BY <1>1, <1>2 DEF Sound, WriterOK, LogsOK, NamesOK, ArchivesOK, Flushed, NewMd, Tx
<1>6. QueueOK(D, L)' /\ ThreadOK(D, L)' /\ MemOK(D, L)'
  BY <1>1, ForgetRest DEF Sound, MemOK
<1> QED
  BY <1>4, <1>5, <1>6 DEF Sound, Prefix

LEMMA CrashStep ==
    ASSUME TypeInv, NEW D \in States, NEW L \in 0 .. MaxTx, Sound(D, L), Crash, ~RotateCrash
    PROVE  \E D1 \in States, L1 \in 0 .. MaxTx : Sound(D1, L1)'
<1>1. /\ TypeInv' /\ TypeOK /\ TypeOK' /\ L \in Nat /\ wal \in [WalName -> Wals]
      /\ active \in WalName /\ walFiles \subseteq WalName /\ WalName \subseteq Nat
      /\ TxId \subseteq Nat
  <2>1. TypeInv' /\ L \in Nat
    BY TypeCrash, Names
  <2> QED
    BY <2>1, Names DEF TypeInv, TypeOK
<1>2. /\ mode \in {"opened", "up", "closing", "failed"} /\ pc \notin {"closed", "archived"}
      /\ Forget
      /\ UNCHANGED <<walFiles, archives, objects, snapshots, boot, md, doubt, active, misread>>
  BY DEF Crash
<1>3. mode' = "down" /\ pc' = "idle" /\ gap' = FALSE
  BY <1>2 DEF Forget
<1>4. ~gap /\ tail # "object" /\ active \in walFiles /\ active \notin archived /\ active <= L + 1
  BY <1>1, <1>2 DEF Sound, WriterOK, NamesOK
<1>5. PICK k \in 0 .. Unflushed, cut \in BOOLEAN :
        /\ cut => TornWrites /\ ~gap /\ k < Unflushed
        /\ wal' = [wal EXCEPT ![active] = Logged(wal[active], k)]
        /\ tail' = IF cut THEN (IF k = 0 THEN "object" ELSE "log") ELSE tail
  BY DEF Crash
<1>6. /\ k \in {0, 1, 2} /\ (k = 2 => pc = "log") /\ (k < Unflushed \/ k # 0 => pc \in {"object", "log"})
      /\ (cut => pc \in {"object", "log"}) /\ (k = 2 => ~cut)
  BY <1>5 DEF Unflushed
<1>7. QueueOK(D, L)' /\ ThreadOK(D, L)' /\ MemOK(D, L)'
  BY <1>2, ForgetRest DEF Sound, MemOK
<1>8. CASE k = 2
  <2>1. mode = "up" /\ pc = "log" /\ D = md /\ doubt # None /\ tail' = tail
    BY <1>5, <1>6, <1>8 DEF Sound, WriterOK, Flushed, TypeInv, WriterHasRoom
  <2>2. wal' = [wal EXCEPT ![active] = Logged(wal[active], 2)]
    BY <1>5, <1>8
  <2>3. PICK D1 \in States, L1 \in 0 .. MaxTx :
          /\ D1 = NewMd /\ L1 = Tx /\ L1 = L + 1 /\ L1 \in TxId /\ D1[L1] = doubt
          /\ \A n \in TxId : n # L1 => D1[n] = D[n]
          /\ Prefix(D1, L1) /\ Grows(D, L, D1, L1) /\ LogsGrow(L) /\ LogsKept
          /\ SnapshotOK(D1, L1)' /\ LogsOK(D1, L1)' /\ NamesOK(L1)' /\ ArchivesOK'
    BY <1>1, <1>2, <1>3, <2>1, <2>2, FlushedLogs
  <2>4. QueueOK(D1, L1)' /\ ThreadOK(D1, L1)' /\ MemOK(D1, L1)'
    BY <1>2, ForgetRest DEF Sound, MemOK
  <2>5. WriterOK(D1, L1)'
    <3>1. D1 = NewMd' /\ L1 = Tx'
      BY <1>2, <2>3 DEF NewMd, Tx
    <3> QED
      BY <1>2, <1>3, <1>4, <2>1, <3>1 DEF Sound, WriterOK, Flushed
  <2> QED
    BY <2>3, <2>4, <2>5 DEF Sound, Prefix
<1>9. CASE k # 2
  <2>1. k = 1 => D = md /\ doubt # None /\ Tx = L + 1 /\ Tx \in TxId
    <3> SUFFICES ASSUME k = 1 PROVE D = md /\ doubt # None /\ Tx = L + 1 /\ Tx \in TxId
      OBVIOUS
    <3>1. pc \in {"object", "log"} /\ D = md /\ doubt # None
      BY <1>6 DEF Sound, WriterOK, Flushed
    <3>2. Tx = L + 1
      BY <3>1, WriterCases DEF Sound
    <3>3. Last(md) < MaxTx /\ Last(md) \in 0 .. MaxTx
      BY <3>1, LastType DEF TypeInv, WriterHasRoom
    <3> QED
      BY <3>1, <3>2, <3>3, Names DEF Tx, TxId
  <2>2. /\ \A s \in WalName : s # active => wal'[s] = wal[s]
        /\ wal'[active].log = wal[active].log
        /\ wal'[active].obj = IF k = 1 THEN [wal[active].obj EXCEPT ![Tx] = doubt] ELSE wal[active].obj
    BY <1>1, <1>4, <1>5, <1>6, <1>9 DEF Logged
  <2>3. \A n \in TxId : wal'[active].obj[n] = IF k = 1 /\ n = L + 1 THEN doubt ELSE wal[active].obj[n]
    <3>1. wal[active].obj \in Objects
      BY <1>1 DEF Wals
    <3> QED
      BY <2>1, <2>2, <3>1 DEF Objects
  <2>4. LogsGrow(L) /\ LogsKept
    BY <1>1, <1>2, <1>3, <2>1, <2>2, <2>3 DEF LogsGrow, LogsKept
  <2>5. SnapshotOK(D, L)'
    BY <1>1, <1>2, <2>4, GrowsSame, SnapshotFrame DEF Sound
  <2>6. WriterOK(D, L)'
    <3>1. NewMd' = NewMd /\ Tx' = Tx /\ ~Flushed'
      BY <1>2, <1>3 DEF NewMd, Tx, Flushed
    <3>2. CASE D = md
      BY <1>2, <1>3, <3>1, <3>2 DEF Sound, WriterOK
    <3>3. CASE D # md
      <4>1. D = NewMd /\ L = Tx /\ doubt # None /\ (pc = "stored" \/ pc = "idle")
        BY <1>2, <3>3 DEF Sound, WriterOK, Flushed
      <4>2. tail' = tail
        BY <1>5, <1>6, <4>1
      <4> QED
        BY <1>2, <1>3, <1>4, <3>1, <4>1, <4>2 DEF Sound, WriterOK
    <3> QED
      BY <3>2, <3>3
  <2>7. LogsOK(D, L)'
    <3>1. \A s \in WalName \ walFiles' : wal'[s] = EmptyWal
      BY <1>2, <1>4, <2>2 DEF Sound, LogsOK
    <3>2. ASSUME NEW s \in walFiles', NEW n \in TxId
          PROVE  /\ wal'[s].log[n] # None => wal'[s].log[n] = D[n] /\ wal'[s].obj[n] # None
                 /\ wal'[s].obj[n] # None =>
                        /\ s <= n
                        /\ n <= L => wal'[s].obj[n] = D[n]
                        /\ n > L => n = L + 1 /\ s = active' /\ ~Flushed'
      <4>1. s \in walFiles /\ active' = active /\ ~Flushed' /\ n \in Nat
        BY <1>1, <1>2, <1>3 DEF Flushed
      <4>2. CASE s # active
        <5>1. wal'[s] = wal[s]
          BY <1>1, <2>2, <4>1, <4>2
        <5> QED
          BY <4>1, <4>2, <5>1 DEF Sound, LogsOK
      <4>3. CASE s = active /\ ~(k = 1 /\ n = L + 1)
        BY <2>2, <2>3, <4>1, <4>3 DEF Sound, LogsOK
      <4>4. CASE s = active /\ k = 1 /\ n = L + 1
        <5>1. wal'[s].obj[n] = doubt /\ wal'[s].log[n] = wal[s].log[n] /\ doubt # None
          BY <2>1, <2>2, <2>3, <4>4
        <5> QED
          BY <1>1, <1>4, <4>1, <4>4, <5>1 DEF Sound, LogsOK
      <4> QED
        BY <4>2, <4>3, <4>4
    <3> QED
      BY <3>1, <3>2 DEF LogsOK
  <2>8. NamesOK(L)'
    BY <1>2, <1>3, <1>4 DEF Sound, NamesOK
  <2>9. ArchivesOK'
    BY <1>1, <1>2, <1>4, <2>2 DEF Sound, ArchivesOK, TypeOK
  <2>10. Sound(D, L)'
    BY <1>7, <2>5, <2>6, <2>7, <2>8, <2>9 DEF Sound, Prefix
  <2> QED
    BY <2>10
<1> QED
  BY <1>8, <1>9

----------------------------------------------------------------------------
(* The snapshot thread                                                     *)

LEMMA WriterSame ==
    ASSUME NEW D, NEW L, WriterOK(D, L), UNCHANGED <<process, tx, stream, tail>>
    PROVE  WriterOK(D, L)'
BY DEF WriterOK, Flushed, NewMd, Tx

LEMMA LogsUntouched ==
    ASSUME NEW D, NEW L, LogsOK(D, L), NamesOK(L), ArchivesOK, TypeOK, TypeOK',
           latest <= latest', UNCHANGED <<walFiles, wal, archives, active, pc, mode>>
    PROVE  LogsOK(D, L)' /\ NamesOK(L)' /\ ArchivesOK'
<1>1. LogsOK(D, L)' /\ NamesOK(L)'
  BY DEF LogsOK, NamesOK, Flushed
<1>2. archived \subseteq Nat /\ latest \in Nat /\ latest' \in Nat
  BY Names DEF TypeOK, None
<1>3. ArchivesOK'
  BY <1>2 DEF ArchivesOK
<1> QED
  BY <1>1, <1>3

\* Queries do not mind a backing store with more files.
LEMMA MemSame ==
    ASSUME NEW D, NEW L, MemOK(D, L), UNCHANGED <<mode, tx, mem, query>>,
           \A n \in TxId : objects[n] # None => objects'[n] # None
    PROVE  MemOK(D, L)'
<1>1. Has(md)' = Has(md) /\ Tx' = Tx /\ Flushed' = Flushed /\ Has(md) \subseteq TxId
  BY DEF Has, Tx, Flushed
<1> QED
  BY <1>1 DEF MemOK

LEMMA ThreadTypes ==
    ASSUME TypeOK
    PROVE  /\ latest \in Nat /\ previous \in Nat /\ TxId \subseteq Nat /\ WalName \subseteq Nat
           /\ walFiles \subseteq Nat /\ todo \in SUBSET WalName /\ job \in Jobs /\ job.tx \in Nat
<1>1. job \in Jobs
  BY DEF TypeOK
<1>2. job.tx \in TxId
  BY <1>1 DEF Jobs
<1>3. (latest = None \/ latest \in TxId) /\ (previous = None \/ previous \in TxId)
  BY DEF TypeOK
<1>4. WalName \subseteq Nat /\ TxId \subseteq Nat
  BY Names
<1>5. latest \in Nat /\ previous \in Nat /\ job.tx \in Nat
  <2>1. None \in Nat /\ \A n \in TxId : n \in Nat
    BY <1>4 DEF None
  <2> QED
    BY <1>2, <1>3, <2>1, Zenon
<1>6. walFiles \subseteq WalName /\ todo \subseteq WalName
  BY DEF TypeOK
<1> QED
  BY <1>1, <1>4, <1>5, <1>6

LEMMA TakeJobStep ==
    ASSUME TypeInv, NEW D \in States, NEW L \in 0 .. MaxTx, Sound(D, L), TakeJob
    PROVE  Sound(D, L)'
<1>1. /\ TypeInv' /\ TypeOK /\ TypeOK' /\ L \in Nat /\ latest \in Nat /\ TxId \subseteq Nat
      /\ walFiles \subseteq Nat
  <2>1. TypeInv' /\ L \in Nat
    BY TypeTakeJob, Names
  <2>2. TypeOK
    BY DEF TypeInv
  <2> QED
    BY <2>1, <2>2, ThreadTypes DEF TypeInv
<1>2. /\ spc = "idle" /\ queue # <<>> /\ spc' = "unpack"
      /\ job' = [Head(queue) EXCEPT !.wals = Head(queue).wals \cap walFiles]
      /\ queue' = Tail(queue) /\ todo' = Head(queue).wals \cap walFiles
      /\ UNCHANGED <<disk, process, tx, stream, mem, pending, previous, query>>
  BY DEF TakeJob
<1>3. /\ Len(queue) \in Nat \ {0} /\ Head(queue) = queue[1] /\ Len(queue') = Len(queue) - 1
      /\ queue[1] \in Jobs /\ \A i \in 1 .. Len(queue') : queue'[i] = queue[i + 1]
  <2>1. queue \in Seq(Jobs)
    BY <1>1 DEF TypeOK
  <2> QED
    BY <1>2, <2>1
<1>4. PICK j \in Jobs : j = queue[1]
  BY <1>3
<1>5. /\ job'.wals = j.wals \cap walFiles /\ job'.md = j.md /\ job'.tx = j.tx /\ job'.objs = j.objs
      /\ todo' = j.wals \cap walFiles
  BY <1>2, <1>3, <1>4 DEF Jobs
<1>6. JobOK(j, D, L) /\ latest < j.tx /\ j.tx \in Nat /\ j.tx <= L
  <2>1. 1 \in 1 .. Len(queue) /\ QueueOK(D, L)
    BY <1>3 DEF Sound
  <2>2. JobOK(j, D, L) /\ latest < j.tx
    BY <1>4, <2>1 DEF QueueOK
  <2> QED
    BY <1>1, <2>2 DEF Jobs, JobOK, BoundaryOK
<1>7. LogsGrow(L) /\ LogsKept /\ Grows(D, L, D, L)
  BY <1>1, <1>2, LogsSame, GrowsSame
<1>8. SnapshotOK(D, L)'
  BY <1>1, <1>2, <1>7, SnapshotFrame DEF Sound
<1>9. LogsOK(D, L)' /\ NamesOK(L)' /\ ArchivesOK'
  BY <1>1, <1>2, LogsUntouched DEF Sound
<1>10. WriterOK(D, L)' /\ MemOK(D, L)'
  BY <1>2, WriterSame, MemSame DEF Sound
<1>11. QueueOK(D, L)'
  <2>1. ASSUME NEW i \in 1 .. Len(queue') PROVE JobOK(queue[i], D, L)' /\ latest < queue'[i].tx /\ job'.tx < queue'[i].tx
    <3>1. i + 1 \in 1 .. Len(queue) /\ 1 \in 1 .. Len(queue) /\ 1 < i + 1 /\ queue'[i] = queue[i + 1]
      BY <1>3
    <3>2. JobOK(queue[i + 1], D, L) /\ latest < queue[i + 1].tx /\ queue[1].tx < queue[i + 1].tx
      BY <3>1 DEF Sound, QueueOK
    <3>3. queue[i + 1] \in Jobs
      BY <1>1, <3>1 DEF TypeOK
    <3>4. JobAfter(queue[i + 1], D, L)
      BY <1>1, <1>7, <3>2, <3>3, JobGrows
    <3>5. JobOK(queue[i], D, L)'
      BY <3>1, <3>4 DEF JobOK, JobAfter, BoundaryOK, BoundaryAfter
    <3> QED
      BY <1>4, <1>5, <3>1, <3>2, <3>5
  <2>2. ASSUME NEW i \in 1 .. Len(queue'), NEW k \in 1 .. Len(queue'), i < k PROVE queue'[i].tx < queue'[k].tx
    <3>1. i + 1 \in 1 .. Len(queue) /\ k + 1 \in 1 .. Len(queue) /\ i + 1 < k + 1
      BY <1>3, <2>2
    <3>2. queue[i + 1].tx < queue[k + 1].tx
      BY <3>1 DEF Sound, QueueOK
    <3> QED
      BY <1>3, <3>2
  <2> QED
    BY <1>2, <2>1, <2>2 DEF QueueOK
<1>12. ThreadOK(D, L)'
  <2>1. JobOK(job, D, L)'
    <3>1. JobAfter(j, D, L)
      BY <1>1, <1>6, <1>7, JobGrows
    <3> QED
      BY <1>2, <1>5, <3>1 DEF JobOK, JobAfter, BoundaryOK, BoundaryAfter
  <2>2. \A s \in todo' : s <= job'.tx
    BY <1>5, <1>6 DEF JobOK
  <2>3. ASSUME NEW n \in TxId, n <= j.tx, objects[n] = None PROVE \E s \in todo' : wal[s].obj[n] # None
    <3>1. latest < n /\ n <= L
      <4>1. ~(n <= latest)
        BY <2>3 DEF Sound, SnapshotOK
      <4> QED
        BY <1>1, <1>6, <2>3, <4>1
    <3>2. PICK s \in walFiles : wal[s].log[n] # None
      BY <3>1 DEF Sound, SnapshotOK
    <3>3. wal[s].obj[n] # None /\ s <= n
      BY <3>2 DEF Sound, LogsOK
    <3>4. s <= j.tx
      BY <1>1, <1>6, <2>3, <3>3
    <3>5. s \in j.wals
      BY <1>6, <3>4 DEF JobOK
    <3> QED
      BY <1>5, <3>3, <3>5
  <2> QED
    BY <1>2, <1>5, <1>6, <2>1, <2>2, <2>3 DEF ThreadOK
<1> QED
  BY <1>8, <1>9, <1>10, <1>11, <1>12 DEF Sound, Prefix

LEMMA UnpackWalStep ==
    ASSUME TypeInv, NEW D \in States, NEW L \in 0 .. MaxTx, Sound(D, L), UnpackWal
    PROVE  Sound(D, L)'
<1>1. /\ TypeInv' /\ TypeOK /\ TypeOK' /\ L \in Nat /\ latest \in Nat /\ TxId \subseteq Nat
      /\ walFiles \subseteq Nat /\ todo \subseteq WalName /\ job \in Jobs /\ job.tx \in Nat
  <2>1. TypeInv' /\ L \in Nat
    BY TypeUnpackWal, Names
  <2>2. TypeOK
    BY DEF TypeInv
  <2> QED
    BY <2>1, <2>2, ThreadTypes DEF TypeInv
<1>2. /\ spc = "unpack" /\ todo # {} /\ todo' = todo \ {MinOf(todo)}
      /\ objects' = [n \in TxId |-> IF wal[MinOf(todo)].obj[n] = None THEN objects[n]
                                    ELSE wal[MinOf(todo)].obj[n]]
      /\ UNCHANGED <<logs, archives, snapshots, process, tx, stream, tables, spc, job, previous,
                     query>>
  BY DEF UnpackWal
<1>3. PICK m \in todo : m = MinOf(todo)
  BY <1>1, <1>2, MinOfWals
<1>4. /\ todo' = todo \ {m} /\ wal' = wal /\ latest' = latest
      /\ \A n \in TxId : objects'[n] = IF wal[m].obj[n] = None THEN objects[n] ELSE wal[m].obj[n]
  BY <1>2, <1>3
<1>5. /\ m \in walFiles /\ m <= job.tx /\ JobOK(job, D, L) /\ latest < job.tx /\ job.tx <= L
  BY <1>2, <1>3 DEF Sound, ThreadOK, JobOK, BoundaryOK
<1>6. ASSUME NEW n \in TxId, wal[m].obj[n] # None PROVE wal[m].obj[n] = D[n]
  <2>1. ~(n > job.tx)
    <3>1. n > job.tx => m > job.tx
      BY <1>5, <1>6 DEF JobOK, BoundaryOK
    <3> QED
      BY <1>1, <1>5, <3>1
  <2>2. n <= L
    BY <1>1, <1>5, <2>1
  <2> QED
    BY <1>5, <1>6, <2>2 DEF Sound, LogsOK
<1>7. LogsGrow(L) /\ LogsKept /\ Grows(D, L, D, L)
  BY <1>1, <1>2, LogsSame, GrowsSame
<1>8. SnapshotOK(D, L)'
  <2>1. BoundaryAfter(latest, L)
    BY <1>1, <1>7, BoundaryGrows DEF Sound, SnapshotOK
  <2>2. \A n \in TxId : objects'[n] # None => objects'[n] = D[n]
    BY <1>4, <1>6 DEF Sound, SnapshotOK
  <2>3. \A n \in TxId : n <= latest => objects'[n] # None
    BY <1>4 DEF Sound, SnapshotOK
  <2> QED
    BY <1>2, <2>1, <2>2, <2>3 DEF Sound, SnapshotOK, BoundaryOK, BoundaryAfter
<1>9. LogsOK(D, L)' /\ NamesOK(L)' /\ ArchivesOK'
  BY <1>1, <1>2, LogsUntouched DEF Sound
<1>10. WriterOK(D, L)' /\ MemOK(D, L)'
  BY <1>2, <1>4, WriterSame, MemSame DEF Sound
<1>11. QueueOK(D, L)'
  BY <1>1, <1>2, <1>7, QueueFrame DEF Sound
<1>12. ThreadOK(D, L)'
  <2>1. JobOK(job, D, L)'
    <3>1. JobAfter(job, D, L)
      BY <1>1, <1>5, <1>7, JobGrows
    <3> QED
      BY <1>2, <3>1 DEF JobOK, JobAfter, BoundaryOK, BoundaryAfter
  <2>2. ASSUME NEW n \in TxId, n <= job.tx, objects'[n] = None PROVE \E s \in todo' : wal[s].obj[n] # None
    <3>1. wal[m].obj[n] = None /\ objects[n] = None
      BY <1>4, <2>2
    <3>2. PICK s \in todo : wal[s].obj[n] # None
      BY <1>2, <2>2, <3>1 DEF Sound, ThreadOK
    <3> QED
      BY <1>4, <3>1, <3>2
  <2> QED
    BY <1>2, <1>4, <2>1, <2>2 DEF Sound, ThreadOK
<1> QED
  BY <1>8, <1>9, <1>10, <1>11, <1>12 DEF Sound, Prefix

LEMMA PutSnapshotStep ==
    ASSUME TypeInv, NEW D \in States, NEW L \in 0 .. MaxTx, Sound(D, L), PutSnapshot
    PROVE  Sound(D, L)'
<1>1. /\ TypeInv' /\ TypeOK /\ TypeOK' /\ L \in Nat /\ latest \in Nat /\ job.tx \in Nat
      /\ job.tx \in TxId /\ TxId \subseteq Nat /\ snaps \in [TxId -> States]
  <2>1. TypeInv' /\ L \in Nat
    BY TypePutSnapshot, Names
  <2>2. TypeOK
    BY DEF TypeInv
  <2>3. job.tx \in TxId /\ snaps \in [TxId -> States]
    BY <2>2 DEF TypeOK, Jobs
  <2> QED
    BY <2>1, <2>2, <2>3, ThreadTypes DEF TypeInv
<1>2. /\ spc = "unpack" /\ todo = {} /\ spc' = "point" /\ previous' = latest
      /\ snapFiles' = snapFiles \cup {job.tx} /\ snaps' = [snaps EXCEPT ![job.tx] = job.md]
      /\ UNCHANGED <<logs, archives, objects, latest, process, tx, stream, tables, job, todo,
                     query>>
  BY DEF PutSnapshot
<1>3. JobOK(job, D, L) /\ latest < job.tx
  BY <1>2 DEF Sound, ThreadOK
<1>4. LogsGrow(L) /\ LogsKept /\ Grows(D, L, D, L)
  BY <1>1, <1>2, LogsSame, GrowsSame
<1>5. SnapshotOK(D, L)'
  <2>1. BoundaryAfter(latest, L)
    BY <1>1, <1>4, BoundaryGrows DEF Sound, SnapshotOK
  <2>2. latest # None => latest \in snapFiles' /\ snaps'[latest] = Upto(D, latest)
    <3>1. latest # job.tx /\ (latest # None => latest \in TxId)
      BY <1>1, <1>3 DEF TypeOK
    <3> QED
      BY <1>1, <1>2, <3>1 DEF Sound, SnapshotOK
  <2> QED
    BY <1>2, <2>1, <2>2 DEF Sound, SnapshotOK, BoundaryOK, BoundaryAfter
<1>6. LogsOK(D, L)' /\ NamesOK(L)' /\ ArchivesOK'
  BY <1>1, <1>2, LogsUntouched DEF Sound
<1>7. WriterOK(D, L)' /\ MemOK(D, L)'
  BY <1>2, WriterSame, MemSame DEF Sound
<1>8. QueueOK(D, L)'
  BY <1>1, <1>2, <1>4, QueueFrame DEF Sound
<1>9. ThreadOK(D, L)'
  <2>1. JobOK(job, D, L)'
    <3>1. JobAfter(job, D, L)
      BY <1>1, <1>3, <1>4, ThreadTypes, JobGrows
    <3> QED
      BY <1>2, <3>1 DEF JobOK, JobAfter, BoundaryOK, BoundaryAfter
  <2>2. \A n \in TxId : n <= job.tx => objects[n] # None
    BY <1>2 DEF Sound, ThreadOK
  <2>3. job.tx \in snapFiles' /\ snaps'[job.tx] = job.md
    BY <1>1, <1>2
  <2> QED
    BY <1>2, <1>3, <2>1, <2>2, <2>3 DEF ThreadOK
<1> QED
  BY <1>5, <1>6, <1>7, <1>8, <1>9 DEF Sound, Prefix

LEMMA PointToSnapshotStep ==
    ASSUME TypeInv, NEW D \in States, NEW L \in 0 .. MaxTx, Sound(D, L), PointToSnapshot
    PROVE  Sound(D, L)' /\ latest < latest'
<1>1. /\ TypeInv' /\ TypeOK /\ TypeOK' /\ L \in Nat /\ latest \in Nat /\ job.tx \in Nat
      /\ TxId \subseteq Nat
  <2>1. TypeInv' /\ L \in Nat
    BY TypePointToSnapshot, Names
  <2>2. TypeOK
    BY DEF TypeInv
  <2> QED
    BY <2>1, <2>2, ThreadTypes DEF TypeInv
<1>2. /\ spc = "point" /\ spc' = "prune" /\ latest' = job.tx
      /\ UNCHANGED <<logs, archives, objects, snapFiles, snaps, process, tx, stream, tables, job,
                     todo, previous, query>>
  BY DEF PointToSnapshot
<1>3. /\ JobOK(job, D, L) /\ latest < job.tx /\ job.tx \in snapFiles /\ snaps[job.tx] = job.md
      /\ previous = latest /\ \A n \in TxId : n <= job.tx => objects[n] # None
  BY <1>2 DEF Sound, ThreadOK
<1>4. LogsGrow(L) /\ LogsKept /\ Grows(D, L, D, L)
  BY <1>1, <1>2, LogsSame, GrowsSame
<1>5. JobAfter(job, D, L)
  BY <1>1, <1>3, <1>4, ThreadTypes, JobGrows
<1>6. SnapshotOK(D, L)'
  <2>1. BoundaryAfter(job.tx, L) /\ job.md = Upto(D, job.tx)
    BY <1>5 DEF JobAfter
  <2>2. ASSUME NEW n \in TxId, job.tx < n, n <= L PROVE \E s \in walFiles : wal[s].log[n] # None
    <3>1. latest < n
      BY <1>1, <1>3, <2>2
    <3> QED
      BY <2>2, <3>1 DEF Sound, SnapshotOK
  <2> QED
    BY <1>2, <1>3, <2>1, <2>2 DEF Sound, SnapshotOK, BoundaryOK, BoundaryAfter
<1>7. LogsOK(D, L)' /\ NamesOK(L)' /\ ArchivesOK'
  BY <1>1, <1>2, <1>3, LogsUntouched DEF Sound
<1>8. WriterOK(D, L)' /\ MemOK(D, L)'
  BY <1>2, WriterSame, MemSame DEF Sound
<1>9. QueueOK(D, L)'
  BY <1>1, <1>2, <1>4, QueueFrame DEF Sound
<1>10. ThreadOK(D, L)'
  <2>1. JobOK(job, D, L)'
    BY <1>2, <1>5 DEF JobOK, JobAfter, BoundaryOK, BoundaryAfter
  <2> QED
    BY <1>2, <1>3, <2>1 DEF ThreadOK
<1> QED
  BY <1>2, <1>3, <1>6, <1>7, <1>8, <1>9, <1>10 DEF Sound, Prefix

LEMMA DeletePreviousStep ==
    ASSUME TypeInv, NEW D \in States, NEW L \in 0 .. MaxTx, Sound(D, L), DeletePrevious
    PROVE  Sound(D, L)'
<1>1. /\ TypeInv' /\ TypeOK /\ TypeOK' /\ L \in Nat /\ latest \in Nat /\ job.tx \in Nat
      /\ TxId \subseteq Nat /\ previous \in Nat
  <2>1. TypeInv' /\ L \in Nat
    BY TypeDeletePrevious, Names
  <2>2. TypeOK
    BY DEF TypeInv
  <2> QED
    BY <2>1, <2>2, ThreadTypes DEF TypeInv
<1>2. /\ spc = "prune" /\ spc' = "delete" /\ snapFiles' = snapFiles \ {previous} /\ todo' = job.wals
      /\ UNCHANGED <<logs, archives, objects, snaps, latest, process, tx, stream, tables, job,
                     previous, query>>
  BY DEF DeletePrevious, WalsToDelete
<1>3. JobOK(job, D, L) /\ latest = job.tx /\ previous < job.tx /\ \A n \in TxId : n <= job.tx => objects[n] # None
  BY <1>2 DEF Sound, ThreadOK
<1>4. LogsGrow(L) /\ LogsKept /\ Grows(D, L, D, L)
  BY <1>1, <1>2, LogsSame, GrowsSame
<1>5. SnapshotOK(D, L)'
  <2>1. BoundaryAfter(latest, L)
    BY <1>1, <1>4, BoundaryGrows DEF Sound, SnapshotOK
  <2>2. latest # None => latest \in snapFiles'
    <3>1. latest # previous
      BY <1>1, <1>3
    <3> QED
      BY <1>2, <3>1 DEF Sound, SnapshotOK
  <2> QED
    BY <1>2, <2>1, <2>2 DEF Sound, SnapshotOK, BoundaryOK, BoundaryAfter
<1>6. LogsOK(D, L)' /\ NamesOK(L)' /\ ArchivesOK'
  BY <1>1, <1>2, LogsUntouched DEF Sound
<1>7. WriterOK(D, L)' /\ MemOK(D, L)'
  BY <1>2, WriterSame, MemSame DEF Sound
<1>8. QueueOK(D, L)'
  BY <1>1, <1>2, <1>4, QueueFrame DEF Sound
<1>9. ThreadOK(D, L)'
  <2>1. JobOK(job, D, L)'
    <3>1. JobAfter(job, D, L)
      BY <1>1, <1>3, <1>4, ThreadTypes, JobGrows
    <3> QED
      BY <1>2, <3>1 DEF JobOK, JobAfter, BoundaryOK, BoundaryAfter
  <2>2. \A s \in todo' : s <= job.tx
    BY <1>2, <1>3 DEF JobOK
  <2> QED
    BY <1>2, <1>3, <2>1, <2>2 DEF ThreadOK
<1> QED
  BY <1>5, <1>6, <1>7, <1>8, <1>9 DEF Sound, Prefix

LEMMA DeleteWalStep ==
    ASSUME TypeInv, NEW D \in States, NEW L \in 0 .. MaxTx, Sound(D, L), DeleteWal
    PROVE  Sound(D, L)'
<1>1. /\ TypeInv' /\ TypeOK /\ TypeOK' /\ L \in Nat /\ latest \in Nat /\ job.tx \in Nat
      /\ TxId \subseteq Nat /\ WalName \subseteq Nat /\ todo \in SUBSET WalName
      /\ walFiles \subseteq WalName /\ wal \in [WalName -> Wals] /\ archived \subseteq WalName
      /\ active \in Nat
  <2>1. TypeInv' /\ L \in Nat
    BY TypeDeleteWal, Names
  <2>2. TypeOK
    BY DEF TypeInv
  <2>3. active \in WalName
    BY <2>2 DEF TypeOK
  <2>4. walFiles \subseteq WalName /\ wal \in [WalName -> Wals] /\ archived \subseteq WalName
    BY <2>2 DEF TypeOK
  <2> QED
    BY <2>1, <2>2, <2>3, <2>4, ThreadTypes DEF TypeInv
<1>2. /\ Running /\ spc = "delete" /\ todo # {} /\ todo' = todo \ {MinOf(todo)}
      /\ walFiles' = walFiles \ {MinOf(todo)} /\ wal' = [wal EXCEPT ![MinOf(todo)] = EmptyWal]
      /\ UNCHANGED <<tail, archives, objects, snapshots, process, tx, stream, tables, spc, job,
                     previous, query>>
  BY DEF DeleteWal
<1>3. PICK m \in todo : m = MinOf(todo)
  BY <1>1, <1>2, MinOfWals
<1>4. /\ todo' = todo \ {m} /\ walFiles' = walFiles \ {m} /\ wal'[m] = EmptyWal /\ m \in Nat
      /\ \A s \in WalName : s # m => wal'[s] = wal[s]
  BY <1>1, <1>2, <1>3
<1>5. JobOK(job, D, L) /\ latest = job.tx /\ m <= latest /\ \A n \in TxId : n <= job.tx => objects[n] # None
  BY <1>2, <1>3 DEF Sound, ThreadOK
<1>6. LogsGrow(L) /\ Grows(D, L, D, L)
  BY <1>1, <1>2, <1>4, GrowsSame DEF LogsGrow
<1>7. SnapshotOK(D, L)'
  <2>1. BoundaryAfter(latest, L)
    BY <1>1, <1>6, BoundaryGrows DEF Sound, SnapshotOK
  <2>2. ASSUME NEW n \in TxId, latest < n, n <= L PROVE \E s \in walFiles' : wal'[s].log[n] # None
    <3>1. PICK s \in walFiles : wal[s].log[n] # None
      BY <2>2 DEF Sound, SnapshotOK
    <3>2. wal[s].obj[n] # None
      BY <3>1 DEF Sound, LogsOK
    <3>3. s > latest
      BY <2>2, <3>2 DEF Sound, SnapshotOK, BoundaryOK
    <3>4. s # m
      BY <1>1, <1>4, <1>5, <3>3
    <3> QED
      BY <1>1, <1>4, <3>1, <3>4
  <2> QED
    BY <1>2, <2>1, <2>2 DEF Sound, SnapshotOK, BoundaryOK, BoundaryAfter
<1>8. LogsOK(D, L)'
  <2>1. \A s \in WalName \ walFiles' : wal'[s] = EmptyWal
    BY <1>4 DEF Sound, LogsOK
  <2>2. \A s \in walFiles' : s \in walFiles /\ wal'[s] = wal[s]
    BY <1>1, <1>4
  <2>3. active' = active /\ Flushed' = Flushed
    BY <1>2 DEF Flushed
  <2> QED
    BY <2>1, <2>2, <2>3 DEF Sound, LogsOK
<1>9. NamesOK(L)'
  <2>1. pc # "archived" => m # active /\ active \in walFiles
    <3>1. pc # "archived" => job.tx < active
      BY <1>5 DEF JobOK, BoundaryOK
    <3> QED
      BY <1>1, <1>2, <1>4, <1>5, <3>1 DEF Running, Sound, NamesOK
  <2> QED
    BY <1>2, <1>4, <2>1 DEF Sound, NamesOK
<1>10. ArchivesOK'
  BY <1>1, <1>2, <1>4, <1>5 DEF Sound, ArchivesOK
<1>11. WriterOK(D, L)' /\ MemOK(D, L)'
  BY <1>2, WriterSame, MemSame DEF Sound
<1>12. QueueOK(D, L)'
  BY <1>1, <1>2, <1>6, QueueFrame DEF Sound
<1>13. ThreadOK(D, L)'
  <2>1. JobOK(job, D, L)'
    <3>1. JobAfter(job, D, L)
      BY <1>1, <1>5, <1>6, ThreadTypes, JobGrows
    <3> QED
      BY <1>2, <3>1 DEF JobOK, JobAfter, BoundaryOK, BoundaryAfter
  <2>2. \A s \in todo' : s <= job.tx
    BY <1>2, <1>4 DEF Sound, ThreadOK
  <2> QED
    BY <1>2, <1>5, <2>1, <2>2 DEF ThreadOK
<1> QED
  BY <1>7, <1>8, <1>9, <1>10, <1>11, <1>12, <1>13 DEF Sound, Prefix

LEMMA ForgetObjectsStep ==
    ASSUME TypeInv, NEW D \in States, NEW L \in 0 .. MaxTx, Sound(D, L), ForgetObjects
    PROVE  Sound(D, L)'
<1>1. /\ TypeInv' /\ TypeOK /\ TypeOK' /\ L \in Nat /\ latest \in Nat /\ job.tx \in Nat
      /\ TxId \subseteq Nat
  <2>1. TypeInv' /\ L \in Nat
    BY TypeForgetObjects, Names
  <2>2. TypeOK
    BY DEF TypeInv
  <2> QED
    BY <2>1, <2>2, ThreadTypes DEF TypeInv
<1>2. /\ Running /\ spc = "delete" /\ spc' = "idle" /\ mem' = Forgotten /\ job' = NoJob /\ previous' = None
      /\ UNCHANGED <<disk, process, tx, stream, pending, queue, todo, query>>
  BY DEF ForgetObjects
<1>3. JobOK(job, D, L) /\ \A n \in TxId : n <= job.tx => objects[n] # None
  BY <1>2 DEF Sound, ThreadOK
<1>4. LogsGrow(L) /\ LogsKept /\ Grows(D, L, D, L)
  BY <1>1, <1>2, LogsSame, GrowsSame
<1>5. SnapshotOK(D, L)'
  BY <1>1, <1>2, <1>4, SnapshotFrame DEF Sound
<1>6. LogsOK(D, L)' /\ NamesOK(L)' /\ ArchivesOK'
  BY <1>1, <1>2, LogsUntouched DEF Sound
<1>7. WriterOK(D, L)'
  BY <1>2, WriterSame DEF Sound
<1>8. QueueOK(D, L)'
  BY <1>1, <1>2, <1>4, QueueFrame DEF Sound
<1>9. ThreadOK(D, L)'
  BY <1>2 DEF ThreadOK
<1>10. MemOK(D, L)'
  <2>1. \A n \in TxId : mem'[n] = IF n \in job.objs THEN None ELSE mem[n]
    BY <1>2 DEF Forgotten
  <2>2. \A n \in TxId : n \in job.objs => objects[n] # None /\ n <= L
    <3> TAKE n \in TxId
    <3> HAVE n \in job.objs
    <3>1. n <= job.tx /\ job.tx <= L
      BY <1>3 DEF JobOK, BoundaryOK
    <3> QED
      BY <1>1, <1>3, <3>1
  <2>3. ASSUME pc \in {"object", "log"} PROVE mem'[Tx] = doubt
    <3>1. Tx = L + 1
      <4>1. D = md
        BY <2>3 DEF Sound, WriterOK, Flushed
      <4> QED
        BY <4>1, WriterCases DEF Sound
    <3>2. Tx \in TxId
      <4>1. Last(md) < MaxTx /\ Last(md) \in 0 .. MaxTx
        BY <2>3, LastType DEF TypeInv, WriterHasRoom
      <4> QED
        BY <4>1, Names DEF Tx, TxId
    <3>3. Tx \notin job.objs
      BY <1>1, <2>2, <3>1, <3>2
    <3> QED
      BY <2>1, <2>3, <3>2, <3>3 DEF Sound, MemOK
  <2>4. Has(md)' = Has(md) /\ Tx' = Tx /\ Flushed' = Flushed
    BY <1>2 DEF Has, Tx, Flushed
  <2>5. ASSUME NEW n \in TxId
        PROVE  /\ mem'[n] # None /\ n <= L => mem'[n] = D[n]
               /\ mem'[n] = None /\ n <= L => objects[n] # None
               /\ mem'[n] # None /\ n > L => n = L + 1 /\ ~Flushed
    BY <1>2, <2>1, <2>2 DEF Running, Sound, MemOK
  <2> QED
    BY <1>2, <2>3, <2>4, <2>5 DEF Sound, MemOK
<1> QED
  BY <1>5, <1>6, <1>7, <1>8, <1>9, <1>10 DEF Sound, Prefix

----------------------------------------------------------------------------
(* The invariant holds                                                     *)

LEMMA RecoveryInit == Init => RecoveryInv
<1> SUFFICES ASSUME Init PROVE RecoveryInv
  OBVIOUS
<1>1. TypeInv /\ Empty \in States /\ 0 \in 0 .. MaxTx /\ \A n \in TxId : n \in Nat /\ Empty[n] = None
  BY TypeInit, EmptyType, Names DEF Empty
<1>2. \A n \in TxId : ~(n <= 0) /\ n # 0
  BY Names
<1>3. Prefix(Empty, 0)
  BY <1>1, <1>2 DEF Prefix
<1>4. WriterOK(Empty, 0)
  BY DEF Init, WriterOK, Flushed
<1>5. LogsOK(Empty, 0) /\ NamesOK(0) /\ ArchivesOK
  BY DEF Init, LogsOK, NamesOK, ArchivesOK
<1>6. SnapshotOK(Empty, 0)
  BY <1>1, <1>2, EmptyWals DEF Init, SnapshotOK, BoundaryOK, None
<1>7. QueueOK(Empty, 0) /\ ThreadOK(Empty, 0) /\ MemOK(Empty, 0)
  BY DEF Init, QueueOK, ThreadOK, MemOK
<1>8. Sound(Empty, 0)
  BY <1>3, <1>4, <1>5, <1>6, <1>7 DEF Sound
<1> QED
  BY <1>1, <1>8 DEF RecoveryInv

LEMMA SoundStep ==
    ASSUME TypeInv, NEW D \in States, NEW L \in 0 .. MaxTx, Sound(D, L), [Next]_vars, ~RotateCrash
    PROVE  \E D1 \in States, L1 \in 0 .. MaxTx : Sound(D1, L1)'
<1> DEFINE Goal == \E D1 \in States, L1 \in 0 .. MaxTx : Sound(D1, L1)'
<1>1. Sound(D, L)' => Goal
  OBVIOUS
<1> HIDE DEF Goal
<1> SUFFICES Goal
  BY DEF Goal
<1>2. CASE Open \/ Replay \/ FailToReplay
  BY <1>1, <1>2, OpenStep, ReplayStep, FailToReplayStep
<1>3. CASE AppendObject \/ AppendLog \/ ArchiveWal \/ OpenWal \/ Commit
  BY <1>1, <1>3, AppendObjectStep, AppendLogStep, ArchiveWalStep, OpenWalStep, CommitStep
<1>4. CASE Fsync
  BY <1>4, FlushToStep DEF Fsync, Goal
<1>5. CASE CloseWal
  BY <1>5, FlushToStep DEF CloseWal, Goal
<1>6. CASE SnapshotThread
  <2>1. CASE TakeJob \/ UnpackWal \/ PutSnapshot
    BY <1>1, <2>1, TakeJobStep, UnpackWalStep, PutSnapshotStep
  <2>2. CASE PointToSnapshot \/ DeletePrevious
    BY <1>1, <2>2, PointToSnapshotStep, DeletePreviousStep
  <2>3. CASE DeleteWal \/ ForgetObjects
    BY <1>1, <2>3, DeleteWalStep, ForgetObjectsStep
  <2> QED
    BY <1>6, <2>1, <2>2, <2>3 DEF SnapshotThread
<1>7. CASE ReadMem \/ ReadBacking
  BY <1>1, <1>7, ReadMemStep, ReadBackingStep
<1>8. CASE BeginClose \/ EndClose
  BY <1>1, <1>8, BeginCloseStep, EndCloseStep
<1>9. CASE Crash
  BY <1>9, CrashStep DEF Goal
<1>10. CASE UNCHANGED vars
  <2>1. /\ Prefix(D, L) /\ WriterOK(D, L)' /\ LogsOK(D, L)' /\ NamesOK(L)' /\ ArchivesOK'
    BY <1>10 DEF vars, Sound, WriterOK, LogsOK, NamesOK, ArchivesOK, Flushed, NewMd, Tx
  <2>2. SnapshotOK(D, L)' /\ QueueOK(D, L)'
    BY <1>10 DEF vars, Sound, SnapshotOK, QueueOK, JobOK, BoundaryOK
  <2>3. ThreadOK(D, L)'
    BY <1>10 DEF vars, Sound, ThreadOK, JobOK, BoundaryOK
  <2>4. MemOK(D, L)'
    BY <1>10 DEF vars, Sound, MemOK, Flushed, Has, Tx
  <2> QED
    BY <1>1, <2>1, <2>2, <2>3, <2>4 DEF Sound, Prefix
<1> QED
  BY <1>2, <1>3, <1>4, <1>5, <1>6, <1>7, <1>8, <1>9, <1>10 DEF Next

LEMMA RecoveryNext ==
    ASSUME RecoveryInv, [Next]_vars, ~RotateCrash PROVE RecoveryInv'
<1>1. PICK D \in States, L \in 0 .. MaxTx : Sound(D, L)
  BY DEF RecoveryInv
<1>2. TypeInv /\ TypeInv'
  BY TypeNext DEF RecoveryInv
<1>3. PICK D1 \in States, L1 \in 0 .. MaxTx : Sound(D1, L1)'
  BY <1>1, <1>2, SoundStep
<1> QED
  BY <1>2, <1>3 DEF RecoveryInv

LEMMA RecoveryInvariant == ASSUME ~RotateCrash PROVE Spec => []RecoveryInv
<1>1. Init => RecoveryInv
  BY RecoveryInit
<1>2. RecoveryInv /\ [Next]_vars => RecoveryInv'
  BY RecoveryNext
<1> QED
  BY <1>1, <1>2, PTL DEF Spec

----------------------------------------------------------------------------
(* What follows from it                                                    *)

\* Unless the process dies inside %rotate-wal, a start-up at any moment would
\* rebuild the acknowledged state, perhaps with the transaction in flight.
THEOREM Recoverable == ASSUME ~RotateCrash PROVE Spec => []AlwaysRecoverable
<1>1. RecoveryInv => AlwaysRecoverable
  <2> SUFFICES ASSUME RecoveryInv PROVE AlwaysRecoverable
    OBVIOUS
  <2>1. PICK D \in States, L \in 0 .. MaxTx : Sound(D, L)
    BY DEF RecoveryInv
  <2>2. Recovered = D
    BY <2>1, Rebuilds DEF RecoveryInv, TypeInv, Sound
  <2>3. D = md \/ (doubt # None /\ D = NewMd)
    BY <2>1 DEF Sound, WriterOK
  <2> QED
    BY <2>2, <2>3 DEF AlwaysRecoverable
<1> QED
  BY <1>1, RecoveryInvariant, PTL

\* The snapshot latest_snapshot.json names is there, with all of its arrow files.
THEOREM SnapshotComplete == ASSUME ~RotateCrash PROVE Spec => []SnapshotSelfContained
<1>1. RecoveryInv => SnapshotSelfContained
  <2> SUFFICES ASSUME RecoveryInv, latest # None
               PROVE  /\ latest \in snapFiles
                      /\ \A n \in Has(snaps[latest]) : objects[n] = snaps[latest][n]
    BY DEF SnapshotSelfContained
  <2>1. PICK D \in States, L \in 0 .. MaxTx : Sound(D, L)
    BY DEF RecoveryInv
  <2>2. latest \in snapFiles /\ snaps[latest] = Upto(D, latest)
    BY <2>1 DEF Sound, SnapshotOK
  <2>3. ASSUME NEW n \in Has(snaps[latest]) PROVE objects[n] = snaps[latest][n]
    <3>1. n \in TxId /\ n <= latest /\ snaps[latest][n] = D[n]
      BY <2>2, <2>3 DEF Has, Upto
    <3> QED
      BY <2>1, <3>1 DEF Sound, SnapshotOK
  <2> QED
    BY <2>2, <2>3
<1> QED
  BY <1>1, RecoveryInvariant, PTL

\* No query meets a missing arrow file or one with the wrong checksum.
THEOREM QueriesRead == ASSUME ~RotateCrash PROVE Spec => []ReadsMatchSha
<1>1. RecoveryInv => ReadsMatchSha
  BY DEF RecoveryInv, Sound, MemOK, ReadsMatchSha
<1> QED
  BY <1>1, RecoveryInvariant, PTL

\* A log is deleted only once the latest snapshot holds all it logged.
THEOREM DeletedAreSnapshotted == ASSUME ~RotateCrash PROVE Spec => OnlySnapshottedWalsDeleted
<1> DEFINE Deletes == \A s \in walFiles \ walFiles' : \A n \in Has(wal[s].log) :
                         latest # None /\ snaps[latest][n] = wal[s].log[n]
<1>1. RecoveryInv /\ [Next]_vars => [Deletes]_vars
  <2> SUFFICES ASSUME RecoveryInv, Next, NEW s \in walFiles \ walFiles', NEW n \in Has(wal[s].log)
               PROVE  latest # None /\ snaps[latest][n] = wal[s].log[n]
    OBVIOUS
  <2>1. PICK D \in States, L \in 0 .. MaxTx : Sound(D, L)
    BY DEF RecoveryInv
  <2>2. DeleteWal
    BY DEF Next, Open, Replay, FailToReplay, AppendObject, AppendLog, Fsync, CloseWal, FlushTo,
           ArchiveWal, OpenWal, Commit, SnapshotThread, TakeJob, UnpackWal, PutSnapshot,
           PointToSnapshot, DeletePrevious, ForgetObjects, ReadMem, ReadBacking, BeginClose,
           EndClose, Crash
  <2>3. TypeOK /\ n \in TxId /\ wal[s].log[n] # None
    BY DEF RecoveryInv, TypeInv, Has
  <2>4. s \in todo /\ spc = "delete"
    <3>1. walFiles' = walFiles \ {MinOf(todo)} /\ todo # {} /\ spc = "delete"
      BY <2>2 DEF DeleteWal
    <3>2. MinOf(todo) \in todo
      BY <2>3, <3>1, ThreadTypes, MinOfWals
    <3> QED
      BY <3>1, <3>2
  <2>5. s <= latest /\ latest <= L
    BY <2>1, <2>4 DEF Sound, ThreadOK, SnapshotOK, BoundaryOK
  <2>6. wal[s].log[n] = D[n] /\ wal[s].obj[n] # None
    BY <2>1, <2>3 DEF Sound, LogsOK
  <2>7. n > latest => s > latest
    BY <2>1, <2>3, <2>6 DEF Sound, SnapshotOK, BoundaryOK
  <2>8. n <= latest /\ latest # None
    <3>1. s \in Nat /\ n \in Nat \ {0} /\ latest \in Nat
      BY <2>3, ThreadTypes, Names
    <3> QED
      BY <2>5, <2>7, <3>1 DEF None
  <2>9. snaps[latest] = Upto(D, latest)
    BY <2>1, <2>8 DEF Sound, SnapshotOK
  <2> QED
    BY <2>3, <2>6, <2>8, <2>9 DEF Upto
<1>2. OnlySnapshottedWalsDeleted <=> [][Deletes]_vars
  BY DEF OnlySnapshottedWalsDeleted
<1> HIDE DEF Deletes
<1> QED
  BY <1>1, <1>2, RecoveryInvariant, PTL DEF Spec

\* A start-up brings back every transaction acknowledged before.
THEOREM AckedAreRecovered == ASSUME ~RotateCrash PROVE Spec => AckedSurvives
<1> DEFINE Survive == mode = "opened" /\ mode' = "up" => \A n \in Has(md) : md'[n] = md[n]
<1>1. RecoveryInv /\ [Next]_vars => [Survive]_vars
  <2> SUFFICES ASSUME RecoveryInv, Next, mode = "opened", mode' = "up", NEW n \in Has(md)
               PROVE  md'[n] = md[n]
    OBVIOUS
  <2>1. PICK D \in States, L \in 0 .. MaxTx : Sound(D, L)
    BY DEF RecoveryInv
  <2>2. Replay
    BY DEF Next, Open, FailToReplay, AppendObject, AppendLog, Fsync, CloseWal, FlushTo,
           ArchiveWal, OpenWal, Commit, SnapshotThread, TakeJob, UnpackWal, PutSnapshot,
           PointToSnapshot, DeletePrevious, DeleteWal, ForgetObjects, ReadMem, ReadBacking,
           BeginClose, EndClose, Crash, Forget
  <2>3. md' = D
    BY <2>1, <2>2, ReplayStep DEF RecoveryInv
  <2> QED
    BY <2>1, <2>3, WriterCases DEF RecoveryInv, Sound
<1>2. AckedSurvives <=> [][Survive]_vars
  BY DEF AckedSurvives
<1> HIDE DEF Survive
<1> QED
  BY <1>1, <1>2, RecoveryInvariant, PTL DEF Spec

----------------------------------------------------------------------------
(* The refinement of DurableStore                                          *)

\* The acknowledged state has the transactions up to its last one.
LEMMA AckedPrefix ==
    ASSUME TypeInv, NEW D \in States, NEW L \in 0 .. MaxTx, Sound(D, L)
    PROVE  Prefix(md, Last(md))
<1>1. Last(md) \in 0 .. MaxTx /\ MaxTx \in Nat /\ TxId \subseteq Nat /\ md \in States
      /\ Has(md) \in SUBSET (0 .. MaxTx)
  BY LastType, Names DEF TypeInv, TypeOK, TxId
<1>2. CASE D = md
  BY <1>2, LastOfPrefix DEF Sound
<1>3. CASE D = NewMd /\ L = Tx
  <2>1. L = Last(md) + 1 /\ L \in Nat
    BY <1>1, <1>3 DEF Tx
  <2>2. \A n \in TxId : n # L => D[n] = md[n]
    BY <1>1, <1>3 DEF NewMd, States
  <2>3. \A n \in Has(md) : n <= Last(md)
    <3>1. Has(md) # {} => \A n \in Has(md) : n <= MaxOf(Has(md))
      BY <1>1, MaxOfMember
    <3> QED
      BY <3>1 DEF Last
  <2>4. ASSUME NEW n \in TxId PROVE md[n] # None <=> n <= Last(md)
    <3>1. md[n] # None => n <= Last(md)
      BY <2>3 DEF Has
    <3>2. n <= Last(md) => n # L /\ n <= L
      BY <1>1, <2>1
    <3> QED
      BY <2>2, <3>1, <3>2 DEF Sound, Prefix
  <2> QED
    BY <2>4 DEF Prefix
<1> QED
  BY <1>2, <1>3 DEF Sound, WriterOK

LEMMA NextIdIsTx ==
    ASSUME TypeInv, NEW D \in States, NEW L \in 0 .. MaxTx, Sound(D, L)
    PROVE  Durable!NextId(md) = Tx /\ Durable!Applied(md, doubt) = NewMd
<1>1. Last(md) \in 0 .. MaxTx /\ MaxTx \in Nat /\ Tx = Last(md) + 1
  BY LastType, Names DEF Tx
<1>2. Prefix(md, Last(md))
  BY AckedPrefix
<1> DEFINE Next1(n) == /\ \A m \in 1 .. MaxTx : md[m] # 0 => m < n
                       /\ n = 1 \/ md[n - 1] # 0
<1>3. \A m \in 1 .. MaxTx : md[m] # 0 <=> m <= Last(md)
  BY <1>2 DEF Prefix, TxId, None
<1>4. Tx \in 1 .. MaxTx + 1 /\ Next1(Tx)
  <2>1. Tx \in 1 .. MaxTx + 1 /\ \A m \in 1 .. MaxTx : m <= Last(md) => m < Tx
    BY <1>1
  <2>2. Tx = 1 \/ (Tx - 1 \in 1 .. MaxTx /\ Tx - 1 <= Last(md))
    BY <1>1
  <2> QED
    BY <1>3, <2>1, <2>2
<1>5. ASSUME NEW n \in 1 .. MaxTx + 1, Next1(n) PROVE n = Tx
  <2>1. n = 1 \/ n - 1 <= Last(md)
    BY <1>1, <1>3, <1>5
  <2>2. Last(md) = 0 \/ Last(md) < n
    BY <1>1, <1>3, <1>5
  <2> QED
    BY <1>1, <2>1, <2>2
<1>6. Durable!NextId(md) = CHOOSE n \in 1 .. MaxTx + 1 : Next1(n)
  BY DEF Durable!NextId, Durable!None
<1> HIDE DEF Next1
<1>7. Durable!NextId(md) = Tx
  BY <1>4, <1>5, <1>6
<1> QED
  BY <1>7 DEF Durable!Applied, NewMd

\* Whatever it does with logs, archives and snapshots, and wherever it dies but
\* inside %rotate-wal, the store does what DurableStore promises.
THEOREM Implements == ASSUME ~RotateCrash PROVE Spec => Durability
<1>1. Init => Durable!Init
  BY DEF Init, Durable!Init, Empty, Durable!Empty, None, Durable!None, TxId
<1>2. RecoveryInv /\ [Next]_vars => [Durable!Next]_Durable!avars
  <2> SUFFICES ASSUME RecoveryInv, [Next]_vars PROVE Durable!Next \/ UNCHANGED <<md, doubt>>
    BY DEF Durable!avars
  <2>1. PICK D \in States, L \in 0 .. MaxTx : Sound(D, L)
    BY DEF RecoveryInv
  <2>2. /\ TypeInv /\ Durable!NextId(md) = Tx /\ Durable!Applied(md, doubt) = NewMd
        /\ boot \in 0 .. MaxBoot /\ MaxBoot \in Nat /\ MaxTx \in Nat
        /\ Last(md) \in 0 .. MaxTx
    BY <2>1, NextIdIsTx, LastType, BoundsAssumption DEF RecoveryInv, TypeInv, TypeOK, Version
  <2>3. CASE AppendObject
    <3>1. mode = "up" /\ pc = "idle" /\ Last(md) < MaxTx /\ doubt' = boot /\ md' = md
      BY <2>3 DEF AppendObject
    <3>2. doubt = 0 /\ boot # 0
      BY <2>1, <3>1 DEF Sound, WriterOK, None
    <3>3. Tx <= MaxTx /\ boot \in 1 .. MaxBoot
      BY <2>2, <3>1, <3>2 DEF Tx
    <3> QED
      BY <2>2, <3>1, <3>2, <3>3 DEF Durable!Next, Durable!Submit, Durable!None
  <2>4. CASE Commit
    <3>1. doubt # 0 /\ md' = NewMd /\ doubt' = 0
      BY <2>1, <2>4 DEF Commit, Sound, WriterOK, None
    <3> QED
      BY <2>2, <3>1 DEF Durable!Next, Durable!Acknowledge, Durable!None
  <2>5. CASE Replay
    <3>1. md' = D /\ doubt' = 0
      BY <2>1, <2>2, <2>5, ReplayStep DEF Replay, None
    <3>2. D = md \/ (doubt # 0 /\ D = NewMd)
      BY <2>1 DEF Sound, WriterOK, None
    <3>3. CASE doubt = 0
      BY <3>1, <3>2, <3>3
    <3>4. CASE doubt # 0
      BY <2>2, <3>1, <3>2, <3>4 DEF Durable!Next, Durable!Recover, Durable!None
    <3> QED
      BY <3>3, <3>4
  <2>6. CASE ~(AppendObject \/ Commit \/ Replay)
    BY <2>6 DEF Next, vars, Open, FailToReplay, AppendLog, Fsync, CloseWal, FlushTo, ArchiveWal,
                OpenWal, SnapshotThread, TakeJob, UnpackWal, PutSnapshot, PointToSnapshot,
                DeletePrevious, DeleteWal, ForgetObjects, ReadMem, ReadBacking, BeginClose,
                EndClose, Crash
  <2> QED
    BY <2>3, <2>4, <2>5, <2>6
<1> QED
  BY <1>1, <1>2, RecoveryInvariant, PTL DEF Spec, Durability, Durable!Spec

----------------------------------------------------------------------------
(* The order of the snapshots, with crashes at any step                    *)

\* The last transaction that was committed or is about to be.
Begun == IF pc \in {"archived", "stored"} THEN Tx ELSE Last(md)

\* The latest snapshot has the transaction it is named after, so that nothing
\* that is rebuilt from it falls behind it.
LatestOK ==
    /\ latest # None => snaps[latest][latest] # None
    /\ mode \in {"up", "closing"} => latest <= Begun

WritingOK == (mode # "down" => boot # 0) /\ (pc # "idle" => doubt # None)

WaitingOK ==
    /\ \A i \in 1 .. Len(queue) :
           /\ queue[i].tx <= Begun /\ queue[i].md[queue[i].tx] # None /\ latest < queue[i].tx
           /\ spc # "idle" => job.tx < queue[i].tx
    /\ \A i, k \in 1 .. Len(queue) : i < k => queue[i].tx < queue[k].tx

RunningOK ==
    /\ mode \notin {"up", "closing"} => queue = <<>> /\ spc = "idle"
    /\ spc \in {"unpack", "point"} =>
           job.tx <= Begun /\ job.md[job.tx] # None /\ latest < job.tx
    /\ spc = "point" => snaps[job.tx] = job.md
    /\ spc \in {"prune", "delete"} => latest = job.tx

OrderInv == TypeInv /\ LatestOK /\ WritingOK /\ WaitingOK /\ RunningOK

LEMMA BegunType == Begun \in Nat /\ Begun' \in Nat
<1>1. \A s : Last(s) \in Nat
  BY LastType, Names
<1>2. Last(md) \in Nat /\ Last(md') \in Nat
  BY <1>1
<1> QED
  BY <1>2 DEF Begun, Tx

LEMMA OrderTypes ==
    ASSUME TypeInv
    PROVE  /\ latest \in Nat /\ Last(md) \in Nat /\ Tx \in Nat /\ Last(md) < Tx /\ None = 0
           /\ \A i \in 1 .. Len(queue) : queue[i].tx \in Nat
           /\ job.tx \in Nat /\ Len(queue) \in Nat
<1>1. latest \in Nat /\ None = 0
  BY Names DEF TypeInv, TypeOK, None
<1>2. Last(md) \in Nat
  BY LastType, Names
<1>3. \A j \in Jobs : j.tx \in Nat
  BY Names DEF Jobs
<1>4. queue \in Seq(Jobs) /\ job \in Jobs
  BY DEF TypeInv, TypeOK
<1> QED
  BY <1>1, <1>2, <1>3, <1>4 DEF Tx

\* The last transaction of a state comes after each of its transactions.
LEMMA LastIsLast ==
    ASSUME NEW s, NEW n \in TxId, s[n] # None
    PROVE  n <= Last(s)
<1>1. n \in Has(s) /\ Has(s) \in SUBSET (0 .. MaxTx) /\ MaxTx \in Nat
  BY BoundsAssumption DEF Has, TxId
<1>2. n <= MaxOf(Has(s))
  BY <1>1, MaxOfMember
<1> QED
  BY <1>1, <1>2 DEF Last

LEMMA CommittedIsLast ==
    ASSUME TypeInv, doubt # None, Last(md) < MaxTx
    PROVE  NewMd[Tx] # None /\ Tx <= Last(NewMd) /\ Tx \in TxId
<1>1. Tx \in TxId
  BY LastType, BoundsAssumption DEF Tx, TxId
<1>2. NewMd[Tx] = doubt
  BY <1>1 DEF TypeInv, TypeOK, States, NewMd
<1> QED
  BY <1>1, <1>2, LastIsLast

\* A step that leaves the snapshots and the thread alone.
LEMMA OrderFrame ==
    ASSUME OrderInv, TypeInv', UNCHANGED <<latest, snaps, queue, spc, job>>,
           WritingOK', Begun <= Begun',
           mode \in {"up", "closing"} \/ mode' \notin {"up", "closing"},
           mode' \in {"up", "closing"} \/ (queue = <<>> /\ spc = "idle")
    PROVE  OrderInv'
<1>1. TypeInv
  BY DEF OrderInv
<1>2. LatestOK'
  BY <1>1, OrderTypes, BegunType DEF OrderInv, LatestOK
<1>3. WaitingOK'
  <2>1. \A i \in 1 .. Len(queue) : queue[i].tx <= Begun'
    BY <1>1, OrderTypes, BegunType DEF OrderInv, WaitingOK
  <2> QED
    BY <2>1 DEF OrderInv, WaitingOK
<1>4. RunningOK'
  <2>1. spc \in {"unpack", "point"} => job.tx <= Begun'
    BY <1>1, OrderTypes, BegunType DEF OrderInv, RunningOK
  <2> QED
    BY <2>1 DEF OrderInv, RunningOK
<1> QED
  BY <1>2, <1>3, <1>4 DEF OrderInv

LEMMA OrderWriter ==
    ASSUME OrderInv, TypeInv',
           AppendObject \/ AppendLog \/ Fsync \/ CloseWal \/ OpenWal \/ Commit
    PROVE  OrderInv'
<1>1. /\ UNCHANGED <<latest, snaps, queue, spc, job, mode, boot>> /\ mode = "up"
  BY DEF AppendObject, AppendLog, Fsync, CloseWal, FlushTo, OpenWal, Commit
<1>2. WritingOK'
  BY <1>1 DEF OrderInv, WritingOK, AppendObject, AppendLog, Fsync, CloseWal, FlushTo, OpenWal,
              Commit, None
<1>3. CASE AppendObject \/ AppendLog \/ Fsync \/ CloseWal \/ OpenWal
  <2>1. UNCHANGED md /\ (pc \in {"archived", "stored"} => pc' \in {"archived", "stored"})
    BY <1>3 DEF AppendObject, AppendLog, Fsync, CloseWal, FlushTo, OpenWal
  <2>2. Begun <= Begun'
    <3>1. Last(md) \in Nat
      BY LastType, Names
    <3> QED
      BY <2>1, <3>1 DEF Begun, Tx
  <2> QED
    BY <1>1, <1>2, <2>2, OrderFrame
<1>4. CASE Commit
  <2>1. md' = NewMd /\ pc = "stored"
    BY <1>4 DEF Commit
  <2>2. Tx <= Last(NewMd) /\ Last(NewMd) \in Nat
    BY <2>1, CommittedIsLast, LastType, Names DEF OrderInv, WritingOK, TypeInv, WriterHasRoom
  <2>3. Begun <= Begun'
    BY <2>1, <2>2, <1>1, <1>4 DEF Begun, Commit
  <2> QED
    BY <1>1, <1>2, <2>3, OrderFrame
<1> QED
  BY <1>3, <1>4

LEMMA OrderQuiet ==
    ASSUME OrderInv, TypeInv',
           \/ FailToReplay \/ ReadMem \/ ReadBacking \/ BeginClose \/ UNCHANGED vars
           \/ UnpackWal
    PROVE  OrderInv'
<1>1. UNCHANGED <<latest, snaps, queue, spc, job, md, pc, doubt, boot>>
  BY DEF FailToReplay, ReadMem, ReadBacking, BeginClose, UnpackWal, vars
<1>2. \/ UNCHANGED mode
      \/ mode = "up" /\ mode' = "closing"
      \/ mode = "opened" /\ mode' = "failed"
  BY DEF FailToReplay, ReadMem, ReadBacking, BeginClose, UnpackWal, vars
<1>3. WritingOK'
  BY <1>1, <1>2 DEF OrderInv, WritingOK
<1>4. Begun <= Begun'
  BY <1>1, BegunType DEF Begun, Tx
<1>5. /\ mode \in {"up", "closing"} \/ mode' \notin {"up", "closing"}
      /\ mode' \in {"up", "closing"} \/ (queue = <<>> /\ spc = "idle")
  BY <1>2 DEF OrderInv, RunningOK
<1> QED
  BY <1>1, <1>3, <1>4, <1>5, OrderFrame

\* Without a process nobody writes and no job waits.
LEMMA OrderDown ==
    ASSUME OrderInv, TypeInv', UNCHANGED <<latest, snaps>>, WritingOK',
           mode' \notin {"up", "closing"}, queue' = <<>>, spc' = "idle"
    PROVE  OrderInv'
<1>1. LatestOK'
  BY DEF OrderInv, LatestOK
<1>2. WaitingOK'
  <2>1. 1 .. Len(queue') = {}
    OBVIOUS
  <2> QED
    BY <2>1 DEF WaitingOK
<1>3. RunningOK'
  BY DEF RunningOK
<1> QED
  BY <1>1, <1>2, <1>3 DEF OrderInv

LEMMA OrderStops ==
    ASSUME OrderInv, TypeInv', Open \/ EndClose \/ Crash
    PROVE  OrderInv'
<1>1. UNCHANGED <<latest, snaps>>
  BY DEF Open, EndClose, Crash
<1>2. queue' = <<>> /\ spc' = "idle" /\ mode' \in {"opened", "down"}
  BY DEF OrderInv, RunningOK, Open, EndClose, Crash, Forget
<1>3. WritingOK'
  <2>1. CASE Open
    <3>1. boot \in Nat /\ boot' = boot + 1 /\ UNCHANGED <<pc, doubt>> /\ mode = "down"
      BY <2>1, BoundsAssumption DEF Open, OrderInv, TypeInv, TypeOK, Version
    <3> QED
      BY <3>1 DEF OrderInv, WritingOK
  <2>2. CASE EndClose \/ Crash
    <3>1. mode' = "down" /\ pc' = "idle"
      BY <2>2 DEF EndClose, Crash, Forget
    <3> QED
      BY <3>1 DEF WritingOK
  <2> QED
    BY <2>1, <2>2
<1> QED
  BY <1>1, <1>2, <1>3, OrderDown

\* Even if acknowledged transactions are lost, what a start-up rebuilds does
\* not fall behind the latest snapshot.
LEMMA OrderReplay ==
    ASSUME OrderInv, TypeInv', Replay
    PROVE  OrderInv'
<1>1. /\ mode = "opened" /\ mode' = "up" /\ md' = Recovered
      /\ UNCHANGED <<latest, snaps, queue, spc, job, boot, pc>>
  BY DEF Replay
<1>2. queue = <<>> /\ spc = "idle" /\ pc = "idle"
  BY <1>1 DEF OrderInv, RunningOK, TypeInv, WriterHasRoom
<1>3. latest <= Last(Recovered)
  <2>0. latest \in Nat /\ Last(Recovered) \in Nat /\ None = 0
    BY OrderTypes, LastType, Names DEF OrderInv
  <2>1. CASE latest = None
    BY <2>0, <2>1
  <2>2. CASE latest # None
    <3>1. latest \in TxId /\ snaps[latest][latest] # None
      BY <2>2 DEF OrderInv, TypeInv, TypeOK, LatestOK
    <3> DEFINE entries == [s \in WalName |-> Fresh(s).log]
               holding == {s \in Replayed : entries[s][latest] # None}
    <3>2. Recovered[latest] = IF holding = {} THEN snaps[latest][latest]
                              ELSE entries[MaxOf(holding)][latest]
      BY <2>2, <3>1 DEF Recovered, LastOf
    <3>3. holding \in SUBSET WalName
      BY DEF OrderInv, TypeInv, TypeOK, Replayed, ToApply, Fetched
    <3>4. holding # {} => entries[MaxOf(holding)][latest] # None
      <4>1. holding # {} => MaxOf(holding) \in holding
        BY <3>3, MaxOfWals
      <4> QED
        BY <4>1
    <3>5. Recovered[latest] # None
      BY <3>1, <3>2, <3>4
    <3> QED
      BY <3>1, <3>5, LastIsLast
  <2> QED
    BY <2>1, <2>2
<1>4. LatestOK'
  <2>1. Begun' = Last(Recovered)
    BY <1>1, <1>2 DEF Begun
  <2> QED
    BY <2>1, <1>1, <1>3 DEF OrderInv, LatestOK
<1>5. WritingOK'
  BY <1>1, <1>2 DEF OrderInv, WritingOK
<1>6. WaitingOK'
  <2>1. 1 .. Len(queue') = {}
    BY <1>1, <1>2
  <2> QED
    BY <2>1 DEF WaitingOK
<1>7. RunningOK'
  BY <1>1, <1>2 DEF RunningOK
<1> QED
  BY <1>4, <1>5, <1>6, <1>7 DEF OrderInv

\* A job is for a transaction that no other job is for and no snapshot has.
LEMMA OrderArchiveWal ==
    ASSUME OrderInv, TypeInv', ArchiveWal
    PROVE  OrderInv'
<1> DEFINE new == [wals |-> WalsToUnpack, md |-> NewMd, tx |-> Tx, objs |-> Has(mem)]
<1>1. /\ mode = "up" /\ pc = "closed" /\ pc' = "archived" /\ doubt # None
      /\ UNCHANGED <<latest, snaps, spc, job, boot, mode, md, doubt>>
      /\ queue' = queue \/ queue' = Append(queue, new)
  BY DEF ArchiveWal, Pushed, OrderInv, WritingOK
<1>2. new.tx = Tx /\ new.md[Tx] # None
  BY <1>1, CommittedIsLast DEF OrderInv, TypeInv, WriterHasRoom
<1> HIDE DEF new
<1>3. /\ latest \in Nat /\ Last(md) \in Nat /\ Tx \in Nat /\ Last(md) < Tx
      /\ \A i \in 1 .. Len(queue) : queue[i].tx \in Nat
      /\ job.tx \in Nat /\ Len(queue) \in Nat /\ queue \in Seq(Jobs)
  BY OrderTypes DEF OrderInv, TypeInv, TypeOK
<1>4. Begun = Last(md) /\ Begun' = Tx
  BY <1>1 DEF Begun, Tx
<1>6. LatestOK' /\ latest < Tx
  <2>1. latest < Tx
    BY <1>1, <1>3, <1>4 DEF OrderInv, LatestOK
  <2> QED
    BY <2>1, <1>1, <1>3, <1>4 DEF OrderInv, LatestOK
<1>7. WritingOK'
  BY <1>1 DEF OrderInv, WritingOK
<1>8. RunningOK' /\ (spc # "idle" => job.tx < Tx)
  <2>1. spc \in {"unpack", "point"} => job.tx <= Begun' /\ job.tx < Tx
    BY <1>3, <1>4 DEF OrderInv, RunningOK
  <2>2. spc \in {"prune", "delete"} => job.tx < Tx
    BY <1>6 DEF OrderInv, RunningOK
  <2>3. spc \in {"idle", "unpack", "point", "prune", "delete"}
    BY DEF OrderInv, TypeInv, TypeOK
  <2>4. RunningOK'
    BY <2>1, <1>1 DEF OrderInv, RunningOK
  <2> QED
    BY <2>1, <2>2, <2>3, <2>4
<1>9. WaitingOK'
  <2>1. \A i \in 1 .. Len(queue) :
            /\ queue[i].tx <= Begun' /\ queue[i].md[queue[i].tx] # None /\ latest < queue[i].tx
            /\ spc # "idle" => job.tx < queue[i].tx
            /\ queue[i].tx < Tx
    <3>1. \A i \in 1 .. Len(queue) : queue[i].tx <= Begun
      BY DEF OrderInv, WaitingOK
    <3>2. \A i \in 1 .. Len(queue) : queue[i].tx < Tx /\ queue[i].tx <= Begun'
      BY <3>1, <1>3, <1>4
    <3> QED
      BY <3>2 DEF OrderInv, WaitingOK
  <2>2. \A i, k \in 1 .. Len(queue) : i < k => queue[i].tx < queue[k].tx
    BY DEF OrderInv, WaitingOK
  <2>3. CASE queue' = queue
    BY <2>1, <2>2, <2>3, <1>1 DEF WaitingOK
  <2>4. CASE queue' = Append(queue, new)
    <3>1. /\ Len(queue') = Len(queue) + 1
          /\ \A i \in 1 .. Len(queue) : queue'[i] = queue[i]
          /\ queue'[Len(queue) + 1] = new
      BY <2>4, <1>3
    <3>2. \A i \in 1 .. Len(queue') : i \in 1 .. Len(queue) \/ i = Len(queue) + 1
      BY <3>1, <1>3
    <3>3. ASSUME NEW i \in 1 .. Len(queue')
          PROVE  /\ queue'[i].tx <= Begun' /\ queue'[i].md[queue'[i].tx] # None
                 /\ latest < queue'[i].tx
                 /\ spc # "idle" => job.tx < queue'[i].tx
      BY <3>1, <3>2, <2>1, <1>2, <1>3, <1>4, <1>6, <1>8
    <3>4. ASSUME NEW i \in 1 .. Len(queue'), NEW k \in 1 .. Len(queue'), i < k
          PROVE  queue'[i].tx < queue'[k].tx
      <4>1. i \in 1 .. Len(queue)
        BY <3>1, <3>4, <1>3
      <4> QED
        BY <4>1, <3>1, <3>2, <2>1, <2>2, <3>4, <1>2
    <3> QED
      BY <3>3, <3>4, <1>1 DEF WaitingOK
  <2> QED
    BY <2>3, <2>4, <1>1
<1> QED
  BY <1>6, <1>7, <1>8, <1>9 DEF OrderInv

\* The steps of the thread leave the writer alone.
LEMMA OrderThread ==
    ASSUME OrderInv, SnapshotThread
    PROVE  /\ UNCHANGED <<mode, boot, md, doubt, pc>> /\ mode \in {"up", "closing"}
           /\ WritingOK' /\ Begun' = Begun
<1>1. UNCHANGED <<mode, boot, md, doubt, pc>> /\ mode \in {"up", "closing"}
  BY DEF SnapshotThread, Running, TakeJob, UnpackWal, PutSnapshot, PointToSnapshot,
         DeletePrevious, DeleteWal, ForgetObjects
<1>2. WritingOK'
  BY <1>1 DEF OrderInv, WritingOK
<1>3. Begun' = Begun
  BY <1>1 DEF Begun, Tx
<1> QED
  BY <1>1, <1>2, <1>3

LEMMA OrderTakeJob ==
    ASSUME OrderInv, TypeInv', TakeJob
    PROVE  OrderInv'
<1>1. /\ spc = "idle" /\ spc' = "unpack" /\ queue # <<>> /\ queue' = Tail(queue)
      /\ job' = [Head(queue) EXCEPT !.wals = @ \cap walFiles]
      /\ UNCHANGED <<latest, snaps>>
  BY DEF TakeJob
<1>2. /\ mode' \in {"up", "closing"} /\ WritingOK' /\ mode \in {"up", "closing"}
      /\ Begun' = Begun
  BY OrderThread DEF SnapshotThread
<1>3. /\ latest \in Nat /\ queue \in Seq(Jobs) /\ Len(queue) \in Nat /\ Len(queue) # 0
      /\ \A i \in 1 .. Len(queue) : queue[i].tx \in Nat
  BY <1>1, OrderTypes DEF OrderInv, TypeInv, TypeOK
<1>4. job'.tx = queue[1].tx /\ job'.md = queue[1].md /\ 1 \in 1 .. Len(queue)
  <2>1. Head(queue) = queue[1] /\ 1 \in 1 .. Len(queue) /\ Head(queue) \in Jobs
    BY <1>1, <1>3
  <2> QED
    BY <2>1, <1>1 DEF Jobs
<1>5. /\ Len(queue') = Len(queue) - 1
      /\ \A i \in 1 .. Len(queue') : i + 1 \in 1 .. Len(queue) /\ queue'[i] = queue[i + 1]
  <2>1. Len(queue') = Len(queue) - 1
    BY <1>1, <1>3
  <2>2. \A i \in 1 .. Len(queue') : i + 1 \in 1 .. Len(queue)
    BY <2>1, <1>3
  <2>3. \A i \in 1 .. Len(queue') : Tail(queue)[i] = queue[i + 1]
    BY <2>1, <1>1, <1>3
  <2> QED
    BY <2>1, <2>2, <2>3, <1>1
<1>6. LatestOK'
  BY <1>1, <1>2, <1>3 DEF OrderInv, LatestOK
<1>7. \A i \in 1 .. Len(queue) :
          queue[i].tx <= Begun' /\ queue[i].md[queue[i].tx] # None /\ latest < queue[i].tx
  BY <1>2, <1>3 DEF OrderInv, WaitingOK
<1>8. \A i, k \in 1 .. Len(queue) : i < k => queue[i].tx < queue[k].tx
  BY DEF OrderInv, WaitingOK
<1>9. WaitingOK'
  <2>1. ASSUME NEW i \in 1 .. Len(queue')
        PROVE  /\ queue'[i].tx <= Begun' /\ queue'[i].md[queue'[i].tx] # None
               /\ latest' < queue'[i].tx
    BY <1>1, <1>5, <1>7
  <2>2. ASSUME NEW i \in 1 .. Len(queue') PROVE job'.tx < queue'[i].tx
    <3>1. i + 1 \in 1 .. Len(queue) /\ 1 < i + 1 /\ queue'[i] = queue[i + 1]
      BY <1>5
    <3> QED
      BY <3>1, <1>4, <1>8
  <2>3. ASSUME NEW i \in 1 .. Len(queue'), NEW k \in 1 .. Len(queue'), i < k
        PROVE  queue'[i].tx < queue'[k].tx
    <3>1. i + 1 < k + 1
      BY <2>3
    <3> QED
      BY <3>1, <1>5, <1>8
  <2> QED
    BY <2>1, <2>2, <2>3 DEF WaitingOK
<1>10. RunningOK'
  <2>1. job'.tx <= Begun' /\ job'.md[job'.tx] # None /\ latest' < job'.tx
    BY <1>1, <1>4, <1>7
  <2> QED
    BY <2>1, <1>1, <1>2 DEF RunningOK
<1> QED
  BY <1>2, <1>6, <1>9, <1>10 DEF OrderInv

\* The job is later than the latest snapshot, which its own does not overwrite.
LEMMA OrderPutSnapshot ==
    ASSUME OrderInv, TypeInv', PutSnapshot
    PROVE  OrderInv'
<1>1. /\ spc = "unpack" /\ spc' = "point" /\ snaps' = [snaps EXCEPT ![job.tx] = job.md]
      /\ UNCHANGED <<latest, queue, job>>
  BY DEF PutSnapshot
<1>2. /\ mode' \in {"up", "closing"} /\ WritingOK' /\ mode \in {"up", "closing"}
      /\ Begun' = Begun
  BY OrderThread DEF SnapshotThread
<1>3. /\ latest \in Nat /\ job.tx \in TxId /\ job.tx \in Nat /\ DOMAIN snaps = TxId
      /\ latest = None \/ latest \in TxId
      /\ \A i \in 1 .. Len(queue) : queue[i].tx \in Nat
  BY OrderTypes DEF OrderInv, TypeInv, TypeOK, Jobs
<1>4. job.tx <= Begun /\ job.md[job.tx] # None /\ latest < job.tx
  BY <1>1 DEF OrderInv, RunningOK
<1>5. LatestOK'
  <2>1. latest # None => snaps'[latest] = snaps[latest]
    BY <1>1, <1>3, <1>4
  <2> QED
    BY <2>1, <1>1, <1>2, <1>3 DEF OrderInv, LatestOK
<1>6. WaitingOK'
  BY <1>1, <1>2, <1>3 DEF OrderInv, WaitingOK
<1>7. RunningOK'
  <2>1. snaps'[job.tx] = job.md
    BY <1>1, <1>3
  <2> QED
    BY <2>1, <1>1, <1>2, <1>3, <1>4 DEF RunningOK
<1> QED
  BY <1>2, <1>5, <1>6, <1>7 DEF OrderInv

LEMMA OrderPointToSnapshot ==
    ASSUME OrderInv, TypeInv', PointToSnapshot
    PROVE  OrderInv' /\ latest < latest'
<1>1. /\ spc = "point" /\ spc' = "prune" /\ latest' = job.tx
      /\ UNCHANGED <<snaps, queue, job>>
  BY DEF PointToSnapshot
<1>2. /\ mode' \in {"up", "closing"} /\ WritingOK'
      /\ Begun' = Begun
  BY OrderThread DEF SnapshotThread
<1>3. job.tx \in Nat /\ \A i \in 1 .. Len(queue) : queue[i].tx \in Nat
  BY OrderTypes DEF OrderInv
<1>4. job.tx <= Begun /\ job.md[job.tx] # None /\ latest < job.tx /\ snaps[job.tx] = job.md
  BY <1>1 DEF OrderInv, RunningOK
<1>5. LatestOK'
  <2>1. latest' <= Begun'
    BY <1>1, <1>2, <1>3, <1>4
  <2>2. snaps'[latest'][latest'] # None
    BY <1>1, <1>4
  <2> QED
    BY <2>1, <2>2 DEF LatestOK
<1>6. WaitingOK'
  BY <1>1, <1>2, <1>3 DEF OrderInv, WaitingOK
<1>7. RunningOK'
  BY <1>1, <1>2 DEF RunningOK
<1> QED
  BY <1>1, <1>2, <1>4, <1>5, <1>6, <1>7 DEF OrderInv

LEMMA OrderDelete ==
    ASSUME OrderInv, TypeInv', DeletePrevious \/ DeleteWal \/ ForgetObjects
    PROVE  OrderInv'
<1>1. /\ spc \in {"prune", "delete"} /\ UNCHANGED <<latest, snaps, queue>>
      /\ \/ spc' = "delete" /\ job' = job
         \/ spc' = "idle"
  BY DEF DeletePrevious, DeleteWal, ForgetObjects
<1>2. /\ mode' \in {"up", "closing"} /\ WritingOK' /\ mode \in {"up", "closing"}
      /\ Begun' = Begun
  BY OrderThread DEF SnapshotThread
<1>3. latest \in Nat /\ \A i \in 1 .. Len(queue) : queue[i].tx \in Nat
  BY OrderTypes DEF OrderInv
<1>4. LatestOK'
  BY <1>1, <1>2, <1>3 DEF OrderInv, LatestOK
<1>5. WaitingOK'
  BY <1>1, <1>2, <1>3 DEF OrderInv, WaitingOK
<1>6. RunningOK'
  BY <1>1, <1>2 DEF OrderInv, RunningOK
<1> QED
  BY <1>2, <1>4, <1>5, <1>6 DEF OrderInv

LEMMA OrderInit == Init => OrderInv
<1> SUFFICES ASSUME Init PROVE OrderInv
  OBVIOUS
<1>1. TypeInv
  BY TypeInit
<1>2. latest = None /\ mode = "down" /\ queue = <<>> /\ spc = "idle" /\ pc = "idle"
  BY DEF Init
<1>3. WaitingOK
  <2>1. 1 .. Len(queue) = {}
    BY <1>2
  <2> QED
    BY <2>1 DEF WaitingOK
<1> QED
  BY <1>1, <1>2, <1>3 DEF OrderInv, LatestOK, WritingOK, RunningOK

LEMMA OrderNext == OrderInv /\ [Next]_vars => OrderInv' /\ (latest' = latest \/ latest < latest')
<1> SUFFICES ASSUME OrderInv, [Next]_vars
             PROVE  OrderInv' /\ (latest' = latest \/ latest < latest')
  OBVIOUS
<1>1. TypeInv'
  BY TypeNext DEF OrderInv
<1>2. CASE PointToSnapshot
  BY <1>1, <1>2, OrderPointToSnapshot
<1>3. CASE ~PointToSnapshot
  <2>1. latest' = latest
    BY <1>3 DEF Next, Open, Replay, FailToReplay, AppendObject, AppendLog, Fsync, CloseWal,
                FlushTo, ArchiveWal, OpenWal, Commit, SnapshotThread, TakeJob, UnpackWal,
                PutSnapshot, DeletePrevious, DeleteWal, ForgetObjects, ReadMem, ReadBacking,
                BeginClose, EndClose, Crash, vars
  <2>2. OrderInv'
    BY <1>1, <1>3, OrderWriter, OrderQuiet, OrderStops, OrderReplay, OrderArchiveWal,
       OrderTakeJob, OrderPutSnapshot, OrderDelete DEF Next, SnapshotThread
  <2> QED
    BY <2>1, <2>2
<1> QED
  BY <1>2, <1>3

\* latest_snapshot.json is only ever replaced by a later snapshot, wherever the
\* process died and whatever the start-ups since then lost.
THEOREM SnapshotsMoveOn == Spec => SnapshotsAdvance
<1>1. OrderInv /\ [Next]_vars => [latest' # latest => latest' > latest]_vars
  <2> SUFFICES ASSUME OrderInv, Next, latest' # latest PROVE latest' > latest
    OBVIOUS
  <2>1. latest < latest' /\ TypeInv /\ TypeInv'
    BY OrderNext, TypeNext DEF OrderInv
  <2>2. latest \in Nat /\ latest' \in Nat
    BY <2>1, Names DEF TypeInv, TypeOK, None
  <2> QED
    BY <2>1, <2>2
<1>2. Spec => []OrderInv
  BY OrderInit, OrderNext, PTL DEF Spec
<1> QED
  BY <1>1, <1>2, PTL DEF Spec, SnapshotsAdvance
=============================================================================
