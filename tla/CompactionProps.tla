-------------------------- MODULE CompactionProps ---------------------------
(***************************************************************************)
(* What must be true of a table while its files are merged.                *)
(***************************************************************************)
EXTENDS Compaction

Row == (1 .. lastTx) \X (1 .. MaxRows)

FileName == (1 .. lastTx) \X (1 .. lastTx)

Entry == [row : Nat, end : 1 .. lastTx]

TypeOK ==
    /\ lastTx \in Nat
    /\ DOMAIN md \subseteq FileName
    /\ \A f \in DOMAIN md : /\ md[f].deleted \subseteq Entry
                            /\ md[f].erased \subseteq Nat
                            /\ md[f].size \in 1 .. (MaxTx * MaxRows)
    /\ DOMAIN objects \subseteq FileName
    /\ \A f \in DOMAIN objects : objects[f] \in Seq(Row \cup {Null})
    /\ compactor.pc \in {"idle", "merging", "merged", "put", "dead"}
    /\ \A r \in Reader : readers[r].todo \subseteq DOMAIN readers[r].md

\* The rows a table has, with their ends.
RowsOf(table) ==
    {[row |-> Content(p[1])[p[2]], end |-> SystemTimeEnd(table[p[1]].deleted, p[2])] :
        p \in Places(table)}

Table == INSTANCE VersionedTable WITH now <- lastTx, rows <- RowsOf(md)

\* The table with its files and its compaction thread implements the table of
\* VersionedTable: no statement is undone, no row lost, revived or given
\* another end because its file was merged from a snapshot that was stale by
\* the time of the commit, and no blank of the merge is ever taken for a row.
TableIsPreserved == Table!TableSpec

\* A query answers with each row of its snapshot once, whatever was merged,
\* exchanged or written over since it began, and also when the compaction
\* began before it and commits after it.
QueriesReadTheirSnapshot ==
    \A r \in Reader :
        readers[r].open /\ readers[r].todo = {} =>
            /\ \A s, t \in readers[r].seen : s.row = t.row => s = t
            /\ {[row |-> s.row, end |-> s.end] : s \in readers[r].seen} = RowsOf(readers[r].md)

\* A file that the meta data or the snapshot of a query names is not written
\* again: %arrow-files-compacted-filename finds a name that was never used,
\* except by a compaction that a crash cut off before its commit.
FilesInUse == DOMAIN md \cup UNION {DOMAIN readers[r].md : r \in Reader}

FilesInUseAreImmutable ==
    [][\A f \in FilesInUse : f \in DOMAIN objects' /\ objects'[f] = objects[f]]_vars

\* Once there are no more writes and the process stays up, the compaction
\* comes to rest with nothing left to merge, unless all it found were erased
\* rows.
CompactionSettles ==
    <>[][~Crash]_vars =>
    <>[](\/ compactor.pc = "dead"
         \/ \A f, g \in DOMAIN md : f # g => md[f].size + md[g].size > TargetSize)
=============================================================================
