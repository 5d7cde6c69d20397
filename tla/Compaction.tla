----------------------------- MODULE Compaction -----------------------------
(***************************************************************************)
(* One table and the compaction thread of sql/db.lisp.  The rows of a      *)
(* table are in files that never change; the meta data says which rows of  *)
(* a file are deleted or erased.  The compaction reads a snapshot of the   *)
(* meta data, merges small files into a new one outside the write lock,    *)
(* puts the new file into the object store, and only then takes the lock   *)
(* to exchange the files in the meta data, carrying over what was deleted  *)
(* and erased meanwhile.  Queries go on with the snapshot they have.       *)
(*                                                                         *)
(* A transaction that writes is one step: it runs under the write lock on  *)
(* the current meta data.  Time is the number of the transaction.  A file  *)
(* is named by the first and the last file it was merged from and counts   *)
(* as many bytes as it holds rows.                                         *)
(***************************************************************************)
EXTENDS Naturals, Sequences, FiniteSets, SequencesExt

CONSTANTS Reader,      \* queries that run beside the writers
          MaxTx,       \* bound: no statement or query begins after this transaction
          MaxRows,     \* bound: rows one statement inserts or touches
          CrashFreeTx, \* bound: there is no crash after this transaction
          TargetSize,  \* target-size of the compaction, in rows
          Forever,     \* +end-of-time+
          Null         \* what the merge puts in the place of an erased row

ASSUME CompactionAssumption ==
    /\ MaxTx \in Nat /\ MaxRows \in Nat \ {0}
    /\ TargetSize \in Nat /\ CrashFreeTx \in Nat
    /\ Forever \notin Nat /\ Null \notin Nat \X Nat

VARIABLES lastTx,     \* _last_tx of the meta data
          md,         \* file name -> what the meta data says of the file
          objects,    \* file name -> its rows: the transaction log and the object store
          compactor,  \* the compaction thread
          readers     \* the queries

vars == <<lastTx, md, objects, compactor, readers>>

-----------------------------------------------------------------------------
(* Files                                                                   *)

\* The file a transaction writes its rows to.
BatchFile(tx) == <<tx, tx>>

\* Only the files with a range in their name can share its first half, and
\* they sort after the file without one.
Before(f, g) == f[1] < g[1] \/ (f[1] = g[1] /\ f[2] < g[2])

\* Mutant: the merged file takes the name of the first.
MCompactedFilename(files) == Head(files)

CompactedFilename(files) == <<Head(files)[1], Last(files)[2]>>

\* A file that is not found has no rows.
Content(f) == IF f \in DOMAIN objects THEN objects[f] ELSE <<>>

\* A map with v under k.
With(map, k, v) == [x \in DOMAIN map \cup {k} |-> IF x = k THEN v ELSE map[x]]

FileMd(size) == [deleted |-> {}, erased |-> {}, size |-> size]

SystemTimeEnd(entries, i) ==
    IF \E e \in entries : e.row = i
    THEN (CHOOSE e \in entries : e.row = i).end
    ELSE Forever

\* The places of a table's files that hold rows which were not erased, and
\* those of them that hold rows a statement sees.
Places(table) ==
    UNION {{<<f, i>> : i \in DOMAIN Content(f) \ table[f].erased} : f \in DOMAIN table}

VisiblePlaces(table) ==
    {p \in Places(table) : SystemTimeEnd(table[p[1]].deleted, p[2]) = Forever}

Some(P) == {S \in SUBSET P : Cardinality(S) \in 1 .. MaxRows}

-----------------------------------------------------------------------------
(* Statements: dml-insert, dml-delete, dml-erase and the commit            *)

Rows(n) == [k \in 1 .. n |-> <<lastTx + 1, k>>]

WithRows(table, n) == With(table, BatchFile(lastTx + 1), FileMd(n))

WithDeleted(table, P) ==
    [f \in DOMAIN table |->
        [table[f] EXCEPT !.deleted = @ \cup
            {[row |-> p[2], end |-> lastTx + 1] : p \in {q \in P : q[1] = f}}]]

WithErased(table, P) ==
    [f \in DOMAIN table |->
        [table[f] EXCEPT !.erased = @ \cup {p[2] : p \in {q \in P : q[1] = f}}]]

Commit(table) ==
    /\ md' = table
    /\ lastTx' = lastTx + 1

Statement ==
    /\ lastTx < MaxTx
    /\ UNCHANGED <<compactor, readers>>

Insert(n) ==
    /\ Statement
    /\ objects' = With(objects, BatchFile(lastTx + 1), Rows(n))
    /\ Commit(WithRows(md, n))

Delete(P) ==
    /\ Statement
    /\ Commit(WithDeleted(md, P))
    /\ UNCHANGED objects

\* An update inserts the new versions and deletes the old ones.
Update(P) ==
    /\ Statement
    /\ objects' = With(objects, BatchFile(lastTx + 1), Rows(Cardinality(P)))
    /\ Commit(WithDeleted(WithRows(md, Cardinality(P)), P))

\* ERASE scans all of system time: it reaches deleted rows too.
Erase(P) ==
    /\ Statement
    /\ Commit(WithErased(md, P))
    /\ UNCHANGED objects

-----------------------------------------------------------------------------
(* The compaction thread                                                   *)

Idle == [pc |-> "idle", md |-> <<>>, files |-> <<>>, content |-> <<>>]

Size(table, S) == Cardinality(UNION {{f} \X (1 .. table[f].size) : f \in S})

\* Files are taken in the order of the map, which nothing relates to their
\* age, as long as they fit, until the target is reached.
FilesToCompact(table) ==
    {S \in SUBSET DOMAIN table :
        LET size == Size(table, S)
        IN  /\ size <= TargetSize
            /\ \/ size = TargetSize
               \/ \A f \in DOMAIN table \ S : size + table[f].size > TargetSize}

\* The one sequence of the files of S in the order of their names.
Sorted(S) ==
    {files \in [1 .. Cardinality(S) -> S] :
        /\ ToSet(files) = S
        /\ \A j, k \in DOMAIN files : j < k => Before(files[j], files[k])}

\* Mutant: two files are not worth a merge.
MStartCompaction ==
    /\ compactor.pc = "idle"
    /\ \E S \in FilesToCompact(md) :
           /\ Cardinality(S) > 2
           /\ \E files \in Sorted(S) :
                  compactor' = [pc |-> "merging", md |-> md, files |-> files,
                                content |-> <<>>]
    /\ UNCHANGED <<lastTx, md, objects, readers>>

StartCompaction ==
    /\ compactor.pc = "idle"
    /\ \E S \in FilesToCompact(md) :
           /\ Cardinality(S) > 1
           /\ \E files \in Sorted(S) :
                  compactor' = [pc |-> "merging", md |-> md, files |-> files,
                                content |-> <<>>]
    /\ UNCHANGED <<lastTx, md, objects, readers>>

\* The rows of a file that were not erased when the meta data was read.
Kept(f) == DOMAIN Content(f) \ compactor.md[f].erased

Blanked(f) == [i \in DOMAIN Content(f) |-> IF i \in Kept(f) THEN Content(f)[i] ELSE Null]

\* How many elements the first k of some sequences have, and all of them in
\* one sequence: each element comes after those of the sequences before its own.
Upto(seqs, k) == Cardinality(UNION {{j} \X DOMAIN seqs[j] : j \in 1 .. k})

Joined(seqs) ==
    [m \in 1 .. Upto(seqs, Len(seqs)) |->
        LET k == CHOOSE k \in DOMAIN seqs : m \in Upto(seqs, k - 1) + 1 .. Upto(seqs, k)
        IN  seqs[k][m - Upto(seqs, k - 1)]]

MergedRows == Joined([k \in DOMAIN compactor.files |-> Blanked(compactor.files[k])])

\* Mutant: files without a row are merged like any other.
MMerge ==
    /\ compactor.pc = "merging"
    /\ compactor' = [compactor EXCEPT !.pc = "merged", !.content = MergedRows]
    /\ UNCHANGED <<lastTx, md, objects, readers>>

\* If nothing is left the merged array has no column of the table, and taking
\* its length is an error that nobody handles: the thread does nothing more,
\* and in an image built with --non-interactive SBCL ends the process (Crash).
Merge ==
    /\ compactor.pc = "merging"
    /\ compactor' = [compactor EXCEPT
                        !.pc = IF \A k \in DOMAIN compactor.files : Kept(compactor.files[k]) = {}
                               THEN "dead" ELSE "merged",
                        !.content = MergedRows]
    /\ UNCHANGED <<lastTx, md, objects, readers>>

PutMerged ==
    /\ compactor.pc = "merged"
    /\ objects' = With(objects, CompactedFilename(compactor.files), compactor.content)
    /\ compactor' = [compactor EXCEPT !.pc = "put"]
    /\ UNCHANGED <<lastTx, md, readers>>

\* Where the rows of the k-th file begin in the merged one.
Offset(k) == Upto([j \in DOMAIN compactor.files |-> Content(compactor.files[j])], k - 1)

\* Mutant: what was deleted when the files were read is carried over.
MCarriedDeleted ==
    UNION {{[e EXCEPT !.row = Offset(k) + @] :
                e \in compactor.md[compactor.files[k]].deleted} : k \in DOMAIN compactor.files}

CarriedDeleted ==
    UNION {{[e EXCEPT !.row = Offset(k) + @] : e \in md[compactor.files[k]].deleted} :
              k \in DOMAIN compactor.files}

CarriedErased ==
    UNION {{Offset(k) + i : i \in md[compactor.files[k]].erased} :
              k \in DOMAIN compactor.files}

CompactedMd ==
    [deleted |-> CarriedDeleted, erased |-> CarriedErased,
     size |-> Cardinality({m \in DOMAIN compactor.content : compactor.content[m] # Null})]

WithoutFiles(table, S) == [f \in DOMAIN table \ S |-> table[f]]

\* Mutant: the objects of the merged files are deleted with their names.
MCompactFiles ==
    /\ compactor.pc = "put"
    /\ Commit(WithoutFiles(With(md, CompactedFilename(compactor.files), CompactedMd),
                           ToSet(compactor.files)))
    /\ objects' = WithoutFiles(objects, ToSet(compactor.files))
    /\ compactor' = Idle
    /\ UNCHANGED readers

CompactFiles ==
    /\ compactor.pc = "put"
    /\ Commit(WithoutFiles(With(md, CompactedFilename(compactor.files), CompactedMd),
                           ToSet(compactor.files)))
    /\ compactor' = Idle
    /\ UNCHANGED <<objects, readers>>

-----------------------------------------------------------------------------
(* Queries: a snapshot of the meta data, read file by file                 *)

NotReading == [open |-> FALSE, md |-> <<>>, todo |-> {}, seen |-> {}]

Open(r) ==
    /\ ~readers[r].open /\ lastTx < MaxTx
    /\ readers' = [readers EXCEPT ![r] = [open |-> TRUE, md |-> md,
                                          todo |-> DOMAIN md, seen |-> {}]]
    /\ UNCHANGED <<lastTx, md, objects, compactor>>

\* The rows of one file with their ends, without the erased ones.
Scanned(table, f) ==
    {[place |-> <<f, i>>, row |-> Content(f)[i], end |-> SystemTimeEnd(table[f].deleted, i)] :
        i \in DOMAIN Content(f) \ table[f].erased}

\* Files are read in the order of the map.
Scan(r) ==
    /\ \E f \in readers[r].todo :
           /\ \A g \in readers[r].todo \ {f} : Before(f, g)
           /\ readers' = [readers EXCEPT ![r].todo = @ \ {f},
                                         ![r].seen = @ \cup Scanned(readers[r].md, f)]
    /\ UNCHANGED <<lastTx, md, objects, compactor>>

Close(r) ==
    /\ readers[r].open /\ readers[r].todo = {}
    /\ readers' = [readers EXCEPT ![r] = NotReading]
    /\ UNCHANGED <<lastTx, md, objects, compactor>>

-----------------------------------------------------------------------------
Crash ==
    /\ lastTx < CrashFreeTx
    /\ compactor' = Idle
    /\ readers' = [r \in Reader |-> NotReading]
    /\ UNCHANGED <<lastTx, md, objects>>

Init ==
    /\ lastTx = 0
    /\ md = <<>> /\ objects = <<>>
    /\ compactor = Idle
    /\ readers = [r \in Reader |-> NotReading]

Compact == StartCompaction \/ Merge \/ PutMerged \/ CompactFiles

Next ==
    \/ \E n \in 1 .. MaxRows : Insert(n)
    \/ \E P \in Some(VisiblePlaces(md)) : Delete(P)
    \/ \E P \in Some(VisiblePlaces(md)) : Update(P)
    \/ \E P \in Some(Places(md)) : Erase(P)
    \/ Compact
    \/ \E r \in Reader : Open(r) \/ Scan(r) \/ Close(r)
    \/ Crash

Spec == Init /\ [][Next]_vars

\* The compaction thread never stops looking for files to merge.
FairSpec == Spec /\ WF_vars(Compact)
=============================================================================
