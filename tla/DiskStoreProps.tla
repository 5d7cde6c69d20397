--------------------------- MODULE DiskStoreProps ---------------------------
(***************************************************************************)
(* What DiskStore must guarantee.                                          *)
(***************************************************************************)
EXTENDS DiskStore

\* Every variable stays within the values the code can give it.
TypeOK ==
    /\ walFiles \subseteq WalName /\ wal \in [WalName -> Wals]
    /\ archived \subseteq WalName /\ archive \in [WalName -> Wals]
    /\ objects \in Objects
    /\ snapFiles \subseteq TxId /\ snaps \in [TxId -> States]
    /\ latest \in {None} \cup TxId
    /\ tail \in {"clean", "object", "log"}
    /\ mode \in {"down", "opened", "up", "closing", "failed"}
    /\ boot \in Version /\ md \in States /\ doubt \in Version
    /\ pc \in {"idle", "object", "log", "closed", "archived", "stored"}
    /\ active \in WalName /\ gap \in BOOLEAN /\ mem \in Objects /\ pending \in Nat
    /\ queue \in Seq(Jobs)
    /\ spc \in {"idle", "unpack", "point", "prune", "delete"}
    /\ job \in Jobs /\ todo \subseteq WalName /\ previous \in {None} \cup TxId
    /\ reader \in {None} \cup TxId /\ misread \in BOOLEAN

----------------------------------------------------------------------------
\* At every moment the process may die, and a start-up that followed would
\* rebuild the acknowledged state, with or without the transaction that is in
\* flight: whatever the writer and the snapshot thread have half done.
AlwaysRecoverable ==
    \/ Recovered = md
    \/ doubt # None /\ Recovered = NewMd

\* DiskStore keeps the promise of DurableStore.
Durable == INSTANCE DurableStore WITH acked <- md
Durability == Durable!Spec

\* A start-up brings back every transaction that was acknowledged before
\* (a reopened database answers with the rows committed to it).
AckedSurvives ==
    [][mode = "opened" /\ mode' = "up" =>
          \A n \in Has(md) : md'[n] = md[n]]_vars

\* A start-up that finds its last log damaged repairs it and succeeds.
StartSucceeds == mode # "failed"

\* latest_snapshot.json names a snapshot that is there, and every arrow file
\* the snapshot lists is in the backing store with the checksum it lists.
SnapshotSelfContained ==
    latest # None =>
        /\ latest \in snapFiles
        /\ \A n \in Has(snaps[latest]) : objects[n] = snaps[latest][n]

\* No query meets a missing arrow file or a wrong checksum, however its two
\* lookups fall between the snapshot thread's copying and forgetting.
ReadsMatchSha == ~misread

\* A log is deleted only once the latest snapshot holds all it logged.
OnlySnapshottedWalsDeleted ==
    [][\A s \in walFiles \ walFiles' : \A n \in Has(wal[s].log) :
          latest # None /\ snaps[latest][n] = wal[s].log[n]]_vars

\* Snapshots only ever move forward.
SnapshotsAdvance == [][latest' # latest => latest' > latest]_vars

\* The snapshot thread gets every queued job done, unless the process dies, and
\* closing the store ends: joining that thread cannot hang.
JobsAndCloseEnd ==
    /\ queue # <<>> ~> (queue = <<>> /\ spc = "idle") \/ mode = "down"
    /\ mode = "closing" ~> mode = "down"
=============================================================================
