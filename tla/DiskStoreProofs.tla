-------------------------- MODULE DiskStoreProofs --------------------------
(***************************************************************************)
(* Proofs about DiskStore, for every value of its constants.               *)
(***************************************************************************)
EXTENDS DiskStoreProps, FiniteSetTheorems, WellFoundedInduction, TLAPS

----------------------------------------------------------------------------
(* Least and greatest log names and transaction ids.                       *)

LEMMA LessThanWellFounded ==
    IsWellFoundedOn({p \in Nat \X Nat : p[1] < p[2]}, Nat)
BY NatLessThanWellFounded, SMT DEF OpToRel

LEMMA MinOfMember ==
    ASSUME NEW S \in SUBSET Nat, S # {}
    PROVE  MinOf(S) \in S /\ \A y \in S : MinOf(S) <= y
<1>1. PICK x \in S : \A y \in S : ~(<<y, x>> \in {p \in Nat \X Nat : p[1] < p[2]})
  BY LessThanWellFounded, WFMin
<1>2. ASSUME NEW y \in S PROVE x <= y
  <2>1. x \in Nat /\ y \in Nat
    OBVIOUS
  <2>2. ~(y < x)
    BY <1>1, <2>1
  <2> QED
    BY <2>1, <2>2
<1> QED
  BY <1>2 DEF MinOf

LEMMA MaxOfMember ==
    ASSUME NEW N \in Nat, NEW S \in SUBSET (0..N), S # {}
    PROVE  MaxOf(S) \in S /\ \A y \in S : y <= MaxOf(S)
<1> DEFINE T == {y \in 0..N : N - y \in S}
<1>1. PICK x \in S : TRUE
  OBVIOUS
<1>2. N - x \in 0..N /\ N - (N - x) = x
  OBVIOUS
<1>3. N - x \in T
  BY <1>1, <1>2
<1> HIDE DEF T
<1>4. MinOf(T) \in T /\ \A y \in T : MinOf(T) <= y
  <2>1. \A y \in T : y \in Nat
    BY DEF T
  <2>2. T \in SUBSET Nat /\ T # {}
    BY <1>3, <2>1
  <2> QED
    BY <2>2, MinOfMember
<1>5. \A y \in S : y <= N - MinOf(T)
  <2> TAKE y \in S
  <2>1. N - y \in 0..N /\ N - (N - y) = y
    OBVIOUS
  <2>2. N - y \in T
    BY <2>1 DEF T
  <2> QED
    BY <2>1, <2>2, <1>4 DEF T
<1> QED
  BY <1>4, <1>5 DEF MaxOf, T

----------------------------------------------------------------------------
(* What the operators of DiskStore return.                                 *)

LEMMA LastType ==
    ASSUME NEW s PROVE Last(s) \in 0..MaxTx /\ Has(s) \subseteq TxId
<1>1. Has(s) \in SUBSET (0..MaxTx) /\ Has(s) \subseteq TxId
  BY BoundsAssumption DEF Has, TxId
<1>2. CASE Has(s) = {}
  BY <1>1, <1>2, BoundsAssumption DEF Last
<1>3. CASE Has(s) # {}
  <2>1. MaxOf(Has(s)) \in Has(s)
    BY <1>1, <1>3, BoundsAssumption, MaxOfMember
  <2> QED
    BY <1>1, <1>3, <2>1 DEF Last
<1> QED
  BY <1>2, <1>3

LEMMA MaxOfWals ==
    ASSUME NEW S \in SUBSET WalName, S # {}
    PROVE  MaxOf(S) \in S /\ \A y \in S : y <= MaxOf(S)
<1>1. S \in SUBSET (0..(MaxTx + 1)) /\ MaxTx + 1 \in Nat
  BY BoundsAssumption DEF WalName
<1> QED
  BY <1>1, MaxOfMember

LEMMA MinOfWals ==
    ASSUME NEW S \in SUBSET WalName, S # {}
    PROVE  MinOf(S) \in S /\ \A y \in S : MinOf(S) <= y
<1>1. S \in SUBSET Nat
  BY BoundsAssumption DEF WalName
<1> QED
  BY <1>1, MinOfMember

LEMMA LatestType ==
    ASSUME walFiles \subseteq WalName PROVE LatestWalFile \in WalName
<1>1. 1 \in WalName
  BY BoundsAssumption DEF WalName
<1>2. walFiles # {} => MaxOf(walFiles) \in walFiles
  BY MaxOfWals
<1> QED
  BY <1>1, <1>2 DEF LatestWalFile

LEMMA LastOfType ==
    ASSUME NEW V, NEW files \in SUBSET WalName,
           NEW entries \in [WalName -> [TxId -> V]], NEW base \in [TxId -> V]
    PROVE  LastOf(files, entries, base) \in [TxId -> V]
<1> SUFFICES ASSUME NEW n \in TxId
             PROVE  LET holding == {f \in files : entries[f][n] # None}
                    IN  (IF holding = {} THEN base[n]
                                         ELSE entries[MaxOf(holding)][n]) \in V
  BY DEF LastOf
<1> DEFINE holding == {f \in files : entries[f][n] # None}
<1>1. holding \in SUBSET WalName
  OBVIOUS
<1> HIDE DEF holding
<1>2. holding # {} => MaxOf(holding) \in WalName
  BY <1>1, MaxOfWals
<1> QED
  BY <1>2 DEF holding

LEMMA LoggedType ==
    ASSUME NEW w \in Wals, NEW k, doubt \in Version
    PROVE  Logged(w, k) \in Wals
<1>1. w.log \in States /\ w.obj \in Objects
  BY DEF Wals
<1>2. doubt \in Content
  BY BoundsAssumption DEF Version, Content, Garbage
<1>3. [w.log EXCEPT ![Tx] = doubt] \in States
  BY <1>1 DEF States
<1>4. [w.obj EXCEPT ![Tx] = doubt] \in Objects
  BY <1>1, <1>2 DEF Objects
<1> QED
  BY <1>1, <1>3, <1>4 DEF Logged, Wals

LEMMA EmptyType == Empty \in States /\ Empty \in Objects /\ EmptyWal \in Wals
<1>1. None \in Version /\ None \in Content
  BY BoundsAssumption DEF None, Version, Content, Garbage
<1> QED
  BY <1>1 DEF Empty, EmptyWal, States, Objects, Wals

LEMMA CountOfWals ==
    ASSUME NEW S \in SUBSET WalName, S # {}
    PROVE  Cardinality(S) - 1 \in Nat
<1>1. IsFiniteSet(WalName)
  BY FS_Interval, BoundsAssumption DEF WalName
<1>2. IsFiniteSet(S)
  BY <1>1, FS_Subset
<1>3. Cardinality(S) \in Nat /\ Cardinality(S) # 0
  BY <1>2, FS_CardinalityType, FS_EmptySet
<1> QED
  BY <1>3

----------------------------------------------------------------------------
(* Type correctness.                                                       *)

\* While a transaction is being written there is room for its id.
WriterHasRoom == pc # "idle" => mode = "up" /\ Last(md) < MaxTx

TypeInv == TypeOK /\ WriterHasRoom

\* The tuples that UNCHANGED lists are no more than their variables.
USE DEF disk, logs, archives, snapshots, process, tx, stream,
        tables, thread, query

LEMMA TypeInit == Init => TypeInv
<1> SUFFICES ASSUME Init PROVE TypeInv
  OBVIOUS
<1>1. None = 0 /\ 0 \in Version /\ 1 \in WalName /\ 1 \in TxId
  BY BoundsAssumption DEF None, Version, WalName, TxId
<1>2. NoJob \in Jobs
  BY <1>1, EmptyType DEF NoJob, Jobs
<1>3. wal \in [WalName -> Wals] /\ archive \in [WalName -> Wals]
  BY EmptyType DEF Init
<1>4. snaps \in [TxId -> States] /\ queue \in Seq(Jobs)
  BY EmptyType DEF Init
<1>5. objects \in Objects /\ md \in States /\ mem \in Objects
  BY EmptyType DEF Init
<1> QED
  BY <1>1, <1>2, <1>3, <1>4, <1>5 DEF Init, TypeInv, TypeOK, WriterHasRoom

\* What the actions of the start-up and of the writer keep.
LEMMA TypeOpen == TypeInv /\ Open => TypeInv'
<1> SUFFICES ASSUME TypeInv, Open PROVE TypeInv'
  OBVIOUS
<1> USE DEF TypeInv, Open
<1>1. LatestWalFile \in WalName
  BY LatestType DEF TypeOK
<1>2. Garbage \in Content
  BY BoundsAssumption DEF Garbage, Content
<1>3. wal' \in [WalName -> Wals]
  <2>1. wal[LatestWalFile] \in Wals
    BY <1>1 DEF TypeOK
  <2>2. [wal[LatestWalFile] EXCEPT !.obj[Tx] = Garbage] \in Wals
    BY <2>1, <1>2 DEF Wals, Objects
  <2> QED
    BY <2>2 DEF TypeOK
<1>4. boot' \in Version
  BY BoundsAssumption DEF TypeOK, Version
<1> QED
  BY <1>1, <1>3, <1>4 DEF TypeOK, WriterHasRoom

LEMMA TypeReplay == TypeInv /\ Replay => TypeInv'
<1> SUFFICES ASSUME TypeInv, Replay PROVE TypeInv'
  OBVIOUS
<1> USE DEF TypeInv, Replay
<1>1. Fetched \subseteq WalName /\ Replayed \subseteq WalName
  BY DEF TypeOK, Fetched, Replayed, ToApply
<1>2. \A s \in WalName : Fresh(s) \in Wals
  BY DEF TypeOK, Fresh
<1>3. wal' \in [WalName -> Wals]
  BY <1>2
<1>4. md' \in States
  <2>1. (IF latest = None THEN Empty ELSE snaps[latest]) \in States
    BY EmptyType DEF TypeOK
  <2>2. [s \in WalName |-> Fresh(s).log] \in [WalName -> States]
    BY <1>2 DEF Wals
  <2> QED
    BY <1>1, <2>1, <2>2, LastOfType DEF Recovered, States
<1>5. mem' \in Objects
  <2>1. [s \in WalName |-> Fresh(s).obj] \in [WalName -> Objects]
    BY <1>2 DEF Wals
  <2> QED
    BY <1>1, <2>1, EmptyType, LastOfType DEF Objects
<1>6. pending' \in Nat
  BY <1>1, CountOfWals
<1>7. doubt' \in Version /\ pc' = "idle" /\ mode' = "up" /\ gap' \in BOOLEAN
  BY BoundsAssumption DEF Version, None, TypeOK, WriterHasRoom
<1>8. walFiles' \subseteq WalName
  BY <1>1 DEF TypeOK
<1> QED
  BY <1>3, <1>4, <1>5, <1>6, <1>7, <1>8 DEF TypeOK, WriterHasRoom

LEMMA TypeAppendObject == TypeInv /\ AppendObject => TypeInv'
<1> SUFFICES ASSUME TypeInv, AppendObject PROVE TypeInv'
  OBVIOUS
<1> USE DEF TypeInv, AppendObject
<1>1. boot \in Version /\ boot \in Content
  BY BoundsAssumption DEF TypeOK, Version, Content, Garbage
<1>2. mem' \in Objects
  BY <1>1 DEF TypeOK, Objects
<1> QED
  BY <1>1, <1>2 DEF TypeOK, WriterHasRoom

LEMMA TypeAppendLog == TypeInv /\ AppendLog => TypeInv'
<1> SUFFICES ASSUME TypeInv, AppendLog PROVE TypeInv'
  OBVIOUS
<1> USE DEF TypeInv, AppendLog
<1> QED
  BY DEF TypeOK, WriterHasRoom

LEMMA TypeFlushTo ==
    ASSUME TypeInv, NEW next \in {"stored", "closed"}, FlushTo(next)
    PROVE  TypeInv'
<1> USE DEF TypeInv, FlushTo
<1>1. wal' \in [WalName -> Wals]
  <2>1. wal[active] \in Wals
    BY DEF TypeOK
  <2>2. Logged(wal[active], 2) \in Wals
    BY <2>1, LoggedType DEF TypeOK
  <2> QED
    BY <2>2 DEF TypeOK
<1> QED
  BY <1>1 DEF TypeOK, WriterHasRoom

LEMMA TypeArchiveWal == TypeInv /\ ArchiveWal => TypeInv'
<1> SUFFICES ASSUME TypeInv, ArchiveWal PROVE TypeInv'
  OBVIOUS
<1> USE DEF TypeInv, ArchiveWal
<1>1. LatestWalFile \in WalName
  BY LatestType DEF TypeOK
<1>2. archived' \subseteq WalName /\ archive' \in [WalName -> Wals]
  BY <1>1 DEF TypeOK
<1>3. pending' \in Nat
  BY DEF TypeOK
<1>4. queue' \in Seq(Jobs)
  <2>1. Tx \in TxId
    <3>1. Last(md) \in 0..MaxTx /\ Last(md) < MaxTx
      BY LastType DEF WriterHasRoom
    <3> QED
      BY <3>1, BoundsAssumption DEF Tx, TxId
  <2>2. NewMd \in States
    BY DEF TypeOK, NewMd, States
  <2>3. [wals |-> WalsToUnpack, md |-> NewMd, tx |-> Tx, objs |-> Has(mem)] \in Jobs
    BY <2>1, <2>2, LastType DEF Jobs, WalsToUnpack, TypeOK
  <2> QED
    BY <2>3 DEF TypeOK, Pushed
<1> QED
  BY <1>2, <1>3, <1>4 DEF TypeOK, WriterHasRoom

LEMMA TypeOpenWal == TypeInv /\ OpenWal => TypeInv'
<1> SUFFICES ASSUME TypeInv, OpenWal PROVE TypeInv'
  OBVIOUS
<1> USE DEF TypeInv, OpenWal
<1>1. Tx + 1 \in WalName
  BY LastType, BoundsAssumption DEF Tx, WalName, WriterHasRoom
<1> QED
  BY <1>1 DEF TypeOK, WriterHasRoom

LEMMA TypeCommit == TypeInv /\ Commit => TypeInv'
<1> SUFFICES ASSUME TypeInv, Commit PROVE TypeInv'
  OBVIOUS
<1> USE DEF TypeInv, Commit
<1>1. md' \in States
  BY DEF TypeOK, NewMd, States
<1> QED
  BY <1>1, BoundsAssumption DEF TypeOK, WriterHasRoom, Version, None

\* What the actions of the snapshot thread keep.
LEMMA TypeTakeJob == TypeInv /\ TakeJob => TypeInv'
<1> SUFFICES ASSUME TypeInv, TakeJob PROVE TypeInv'
  OBVIOUS
<1> USE DEF TypeInv, TakeJob
<1>1. Head(queue) \in Jobs /\ Tail(queue) \in Seq(Jobs)
  BY DEF TypeOK
<1>2. job' \in Jobs /\ todo' \subseteq WalName
  BY <1>1 DEF Jobs, TypeOK
<1> QED
  BY <1>1, <1>2 DEF TypeOK, WriterHasRoom

LEMMA TypeUnpackWal == TypeInv /\ UnpackWal => TypeInv'
<1> SUFFICES ASSUME TypeInv, UnpackWal PROVE TypeInv'
  OBVIOUS
<1> USE DEF TypeInv, UnpackWal
<1>1. MinOf(todo) \in WalName
  BY MinOfWals DEF TypeOK
<1>2. wal[MinOf(todo)].obj \in Objects
  BY <1>1 DEF TypeOK, Wals
<1>3. objects' \in Objects
  BY <1>2 DEF TypeOK, Objects
<1> QED
  BY <1>3 DEF TypeOK, WriterHasRoom

LEMMA TypePutSnapshot == TypeInv /\ PutSnapshot => TypeInv'
<1> SUFFICES ASSUME TypeInv, PutSnapshot PROVE TypeInv'
  OBVIOUS
<1> USE DEF TypeInv, PutSnapshot
<1>1. job.tx \in TxId /\ job.md \in States
  BY DEF TypeOK, Jobs
<1> QED
  BY <1>1 DEF TypeOK, WriterHasRoom

LEMMA TypePointToSnapshot == TypeInv /\ PointToSnapshot => TypeInv'
<1> SUFFICES ASSUME TypeInv, PointToSnapshot PROVE TypeInv'
  OBVIOUS
<1> USE DEF TypeInv, PointToSnapshot
<1>1. job.tx \in TxId
  BY DEF TypeOK, Jobs
<1> QED
  BY <1>1 DEF TypeOK, WriterHasRoom

LEMMA TypeDeletePrevious == TypeInv /\ DeletePrevious => TypeInv'
<1> SUFFICES ASSUME TypeInv, DeletePrevious PROVE TypeInv'
  OBVIOUS
<1> USE DEF TypeInv, DeletePrevious
<1>1. todo' \subseteq WalName
  BY DEF TypeOK, Jobs, WalsToDelete
<1> QED
  BY <1>1 DEF TypeOK, WriterHasRoom

LEMMA TypeDeleteWal == TypeInv /\ DeleteWal => TypeInv'
<1> SUFFICES ASSUME TypeInv, DeleteWal PROVE TypeInv'
  OBVIOUS
<1> USE DEF TypeInv, DeleteWal
<1>1. wal' \in [WalName -> Wals]
  BY EmptyType DEF TypeOK
<1> QED
  BY <1>1 DEF TypeOK, WriterHasRoom

LEMMA TypeForgetObjects == TypeInv /\ ForgetObjects => TypeInv'
<1> SUFFICES ASSUME TypeInv, ForgetObjects PROVE TypeInv'
  OBVIOUS
<1> USE DEF TypeInv, ForgetObjects
<1>1. mem' \in Objects
  BY BoundsAssumption DEF TypeOK, Forgotten, Objects, Content, None, Garbage
<1>2. NoJob \in Jobs
  BY EmptyType, BoundsAssumption DEF NoJob, Jobs, TxId
<1> QED
  BY <1>1, <1>2 DEF TypeOK, WriterHasRoom

\* What queries, closing and a crash keep.
LEMMA TypeQuery == TypeInv /\ (ReadMem \/ ReadBacking) => TypeInv'
<1> SUFFICES ASSUME TypeInv, ReadMem \/ ReadBacking PROVE TypeInv'
  OBVIOUS
<1> USE DEF TypeInv
<1>1. Has(md) \subseteq TxId
  BY LastType
<1> QED
  BY <1>1 DEF TypeOK, WriterHasRoom, ReadMem, ReadBacking

LEMMA TypeForget ==
    ASSUME TypeInv, Forget,
           wal' \in [WalName -> Wals], tail' \in {"clean", "object", "log"},
           UNCHANGED <<walFiles, archives, objects, snapshots, boot, md, doubt,
                       active, misread>>
    PROVE  TypeInv'
<1>1. job' \in Jobs /\ mem' \in Objects
  BY EmptyType, BoundsAssumption DEF Forget, NoJob, Jobs, TxId
<1>2. queue' \in Seq(Jobs) /\ pending' \in Nat
  BY DEF Forget
<1> QED
  BY <1>1, <1>2 DEF TypeInv, TypeOK, WriterHasRoom, Forget

LEMMA TypeCrash == TypeInv /\ Crash => TypeInv'
<1> SUFFICES ASSUME TypeInv, Crash PROVE TypeInv'
  OBVIOUS
<1>1. wal[active] \in Wals /\ doubt \in Version
  BY DEF TypeInv, TypeOK
<1>2. \A k : Logged(wal[active], k) \in Wals
  BY <1>1, LoggedType
<1>3. wal' \in [WalName -> Wals] /\ tail' \in {"clean", "object", "log"}
  BY <1>2 DEF Crash, TypeInv, TypeOK
<1> QED
  BY <1>3, TypeForget DEF Crash

\* Every step keeps the types, and the writer room for its transaction.
LEMMA TypeNext == TypeInv /\ [Next]_vars => TypeInv'
<1> SUFFICES ASSUME TypeInv, [Next]_vars PROVE TypeInv'
  OBVIOUS
<1>1. CASE Open \/ Replay
  BY <1>1, TypeOpen, TypeReplay
<1>2. CASE AppendObject \/ AppendLog \/ Fsync \/ CloseWal
  BY <1>2, TypeAppendObject, TypeAppendLog, TypeFlushTo DEF Fsync, CloseWal
<1>3. CASE ArchiveWal \/ OpenWal \/ Commit
  BY <1>3, TypeArchiveWal, TypeOpenWal, TypeCommit
<1>4. CASE SnapshotThread
  BY <1>4, TypeTakeJob, TypeUnpackWal, TypePutSnapshot, TypePointToSnapshot,
     TypeDeletePrevious, TypeDeleteWal, TypeForgetObjects DEF SnapshotThread
<1>5. CASE ReadMem \/ ReadBacking
  BY <1>5, TypeQuery
<1>6. CASE FailToReplay \/ BeginClose
  BY <1>6 DEF FailToReplay, BeginClose, TypeInv, TypeOK, WriterHasRoom
<1>7. CASE EndClose
  BY <1>7, TypeForget DEF EndClose, TypeInv, TypeOK
<1>8. CASE Crash
  BY <1>8, TypeCrash
<1>9. CASE UNCHANGED vars
  BY <1>9 DEF TypeInv, TypeOK, WriterHasRoom, vars
<1> QED
  BY <1>1, <1>2, <1>3, <1>4, <1>5, <1>6, <1>7, <1>8, <1>9 DEF Next

\* The values of every variable stay within what TypeOK allows.
THEOREM TypeCorrect == Spec => []TypeOK
<1>1. Init => TypeInv
  BY TypeInit
<1>2. TypeInv /\ [Next]_vars => TypeInv'
  BY TypeNext
<1> QED
  BY <1>1, <1>2, PTL DEF Spec, TypeInv
=============================================================================
