-------------------------- MODULE CompactionProofs --------------------------
(***************************************************************************)
(* Proofs about a table and its compaction, for any number of queries,     *)
(* transactions and rows and any target of the compaction: a file in use   *)
(* is never written again, a query that is done has read its snapshot, and *)
(* the files implement the table of VersionedTable.                        *)
(*                                                                         *)
(* The name of a merged file is made of the first half of its first file   *)
(* and the second half of its last.  Nothing in the code looks whether the *)
(* name is free.  It is, because no two files of the table share either    *)
(* half (Distinct), and because one half of a file that only an older      *)
(* snapshot still names is gone from the table for good (Retired).         *)
(*                                                                         *)
(* So the rows of a file stay where they are, and what is said of them by  *)
(* their place stays true.  What remains is that no row is in two places   *)
(* (Unique), that a row is deleted once (Entries), that a blank of the     *)
(* merge is known to be erased (Filled), and that the merged rows are      *)
(* still those of the files at the time of the exchange (Merged).          *)
(***************************************************************************)
EXTENDS CompactionProps, FiniteSetTheorems, TLAPS

Files(r) == DOMAIN readers[r].md

Merges == {"merging", "merged", "put"}

-----------------------------------------------------------------------------
(* The inductive invariant                                                 *)

Names ==
    /\ lastTx \in Nat
    /\ DOMAIN md \subseteq FileName
    /\ \A r \in Reader : Files(r) \subseteq FileName

\* What the records of the threads have for fields.
Shapes ==
    /\ compactor = [pc |-> compactor.pc, md |-> compactor.md,
                    files |-> compactor.files, content |-> compactor.content]
    /\ DOMAIN readers = Reader
    /\ \A r \in Reader :
           readers[r] = [open |-> readers[r].open, md |-> readers[r].md,
                         todo |-> readers[r].todo, seen |-> readers[r].seen]

\* Both halves of its name tell a file of the table from every other.
Distinct == \A f, g \in DOMAIN md : f[1] = g[1] \/ f[2] = g[2] => f = g

\* A file that is in use is there.
Stored == FilesInUse \subseteq DOMAIN objects

\* No file of the table has the one half of the name, or none has the other.
Lost(f) == \/ \A g \in DOMAIN md : g[1] # f[1]
           \/ \A g \in DOMAIN md : g[2] # f[2]

Retired == \A r \in Reader : \A f \in Files(r) : f \in DOMAIN md \/ Lost(f)

\* The files to merge stay in the table until they are exchanged: nobody but
\* the compaction thread takes a file out of it.
Merging ==
    compactor.pc \in Merges =>
        /\ compactor.files \in Seq(DOMAIN md)
        /\ Len(compactor.files) > 1
        /\ Head(compactor.files) # Last(compactor.files)
        /\ compactor.pc = "put" => CompactedFilename(compactor.files) \in DOMAIN objects

CompactionInv == Names /\ Shapes /\ Distinct /\ Stored /\ Retired /\ Merging

-----------------------------------------------------------------------------
(* Maps and names                                                          *)

\* A map with a value under a key.
LEMMA WithMap ==
    ASSUME NEW map, NEW k, NEW v
    PROVE  /\ DOMAIN With(map, k, v) = DOMAIN map \cup {k}
           /\ \A x \in DOMAIN map : x # k => With(map, k, v)[x] = map[x]
BY DEF With

\* Deleting and erasing rows leaves the files of a table.
LEMMA SameFiles ==
    ASSUME NEW table, NEW P
    PROVE  /\ DOMAIN WithDeleted(table, P) = DOMAIN table
           /\ DOMAIN WithErased(table, P) = DOMAIN table
BY DEF WithDeleted, WithErased

\* The names there can be are among those there can be later.
LEMMA NamesGrow ==
    ASSUME lastTx \in Nat, lastTx' = lastTx \/ lastTx' = lastTx + 1
    PROVE  lastTx' \in Nat /\ FileName \subseteq FileName'
<1>1. lastTx' \in Nat /\ 1 .. lastTx \subseteq 1 .. lastTx'
    OBVIOUS
<1>. QED
    BY <1>1 DEF FileName

\* The ends of a sequence of files are files.
LEMMA Ends ==
    ASSUME NEW S, NEW files \in Seq(S), Len(files) > 1
    PROVE  /\ Head(files) \in S /\ Last(files) \in S
           /\ Head(files) \in ToSet(files) /\ Last(files) \in ToSet(files)
           /\ ToSet(files) \subseteq S
           /\ Head(files) = files[1] /\ Last(files) = files[Len(files)]
<1>1. Len(files) \in Nat /\ DOMAIN files = 1 .. Len(files)
    OBVIOUS
<1>2. 1 \in DOMAIN files /\ Len(files) \in DOMAIN files
    BY <1>1
<1>3. \A i \in DOMAIN files : files[i] \in S
    BY <1>1
<1>4. Head(files) = files[1] /\ Last(files) = files[Len(files)]
    BY <1>2 DEF Last
<1>. QED
    BY <1>2, <1>3, <1>4 DEF ToSet

\* The files a merge takes, in the order of their names, begin and end with
\* two different ones.
LEMMA SortedFiles ==
    ASSUME Names, NEW S \in SUBSET DOMAIN md, Cardinality(S) > 1,
           NEW files \in Sorted(S)
    PROVE  /\ files \in Seq(DOMAIN md)
           /\ Len(files) > 1
           /\ Head(files) # Last(files)
<1>1. IsFiniteSet(1 .. lastTx)
    BY FS_Interval DEF Names
<1>2. IsFiniteSet(FileName)
    BY <1>1, FS_Product DEF FileName
<1>3. S \subseteq FileName
    BY DEF Names
<1>4. Cardinality(S) \in Nat
    BY <1>2, <1>3, FS_Subset, FS_CardinalityType
<1>5. /\ files \in [1 .. Cardinality(S) -> S]
      /\ \A j, k \in DOMAIN files : j < k => Before(files[j], files[k])
    BY DEF Sorted
<1>6. files \in Seq(S) /\ Len(files) = Cardinality(S)
    BY <1>4, <1>5
<1>7. files \in Seq(DOMAIN md)
    BY <1>6
<1>8. Head(files) = files[1] /\ Last(files) = files[Len(files)]
    BY <1>6, Ends
<1>9. Before(files[1], files[Len(files)])
    <2>1. 1 \in DOMAIN files /\ Len(files) \in DOMAIN files /\ 1 < Len(files)
        BY <1>4, <1>5, <1>6
    <2>. QED
        BY <2>1, <1>5
<1>10. files[1] \in FileName /\ files[Len(files)] \in FileName
    BY <1>3, <1>4, <1>5, <1>6
<1>11. ASSUME files[1] = files[Len(files)] PROVE FALSE
    <2>1. PICK a \in 1 .. lastTx, b \in 1 .. lastTx : files[1] = <<a, b>>
        BY <1>10 DEF FileName
    <2>2. a < a \/ (a = a /\ b < b)
        BY <2>1, <1>9, <1>11 DEF Before
    <2>. QED
        BY <2>2 DEF Names
<1>. QED
    BY <1>4, <1>6, <1>7, <1>8, <1>11

\* The name of the merged file is not in use.
LEMMA FreshName ==
    ASSUME Names, Distinct, Retired, Merging, compactor.pc \in Merges
    PROVE  /\ CompactedFilename(compactor.files) \notin FilesInUse
           /\ CompactedFilename(compactor.files) \in FileName
<1>. DEFINE a == Head(compactor.files)
            z == Last(compactor.files)
            F == CompactedFilename(compactor.files)
<1>1. a \in DOMAIN md /\ z \in DOMAIN md /\ a # z
    BY Ends DEF Merging
<1>2. F = <<a[1], z[2]>>
    BY DEF CompactedFilename
<1>3. a \in FileName /\ z \in FileName
    BY <1>1 DEF Names
<1>. HIDE DEF a, z, F
<1>4. F[1] = a[1] /\ F[2] = z[2]
    BY <1>2
<1>5. F \notin DOMAIN md
    BY <1>1, <1>4 DEF Distinct
<1>6. ~Lost(F)
    BY <1>1, <1>4 DEF Lost
<1>7. F \notin FilesInUse
    BY <1>5, <1>6 DEF Retired, FilesInUse, Files
<1>8. F \in FileName
    BY <1>2, <1>3 DEF FileName
<1>. QED
    BY <1>7, <1>8 DEF F

\* The file of a transaction that has not happened is not in use, and shares
\* neither half of its name.
LEMMA FreshBatch ==
    ASSUME Names
    PROVE  /\ BatchFile(lastTx + 1) \notin FilesInUse
           /\ BatchFile(lastTx + 1)[1] = lastTx + 1
           /\ BatchFile(lastTx + 1)[2] = lastTx + 1
           /\ \A f \in FileName : f[1] # lastTx + 1 /\ f[2] # lastTx + 1
<1>1. lastTx \in Nat /\ FilesInUse \subseteq FileName
    BY DEF Names, FilesInUse, Files
<1>2. \A f \in FileName : f[1] # lastTx + 1 /\ f[2] # lastTx + 1
    BY <1>1 DEF FileName
<1>3. /\ BatchFile(lastTx + 1)[1] = lastTx + 1
      /\ BatchFile(lastTx + 1)[2] = lastTx + 1
    BY DEF BatchFile
<1>. QED
    BY <1>1, <1>2, <1>3

-----------------------------------------------------------------------------
(* The statements                                                          *)

\* What a step may not do to the files in use.
Immutable == \A f \in FilesInUse : f \in DOMAIN objects' /\ objects'[f] = objects[f]

\* A step that leaves the objects alone writes nothing again.
LEMMA NothingWritten ==
    ASSUME Stored, UNCHANGED objects
    PROVE  Immutable
BY DEF Stored, Immutable

\* An object put under a name that is not in use replaces no file in use.
LEMMA FreshObject ==
    ASSUME Stored, NEW f, NEW rows, f \notin FilesInUse, objects' = With(objects, f, rows)
    PROVE  Immutable /\ DOMAIN objects' = DOMAIN objects \cup {f}
<1>1. /\ DOMAIN objects' = DOMAIN objects \cup {f}
      /\ \A x \in DOMAIN objects : x # f => objects'[x] = objects[x]
    <2>1. DOMAIN With(objects, f, rows) = DOMAIN objects \cup {f}
        BY DEF With
    <2>2. \A x \in DOMAIN objects : x # f => With(objects, f, rows)[x] = objects[x]
        BY DEF With
    <2>. QED
        BY <2>1, <2>2
<1>. QED
    BY <1>1 DEF Stored, Immutable

\* What is left of the queries and of the compaction thread by a statement.
LEMMA SameThreads ==
    ASSUME Shapes, UNCHANGED <<compactor, readers>>
    PROVE  Shapes' /\ \A r \in Reader : Files(r)' = Files(r)
BY DEF Shapes, Files

\* A statement that adds the file of its transaction, or none, keeps the
\* invariant.
LEMMA StatementKeepsInv ==
    ASSUME CompactionInv, lastTx' = lastTx + 1, UNCHANGED <<compactor, readers>>,
           \/ DOMAIN md' = DOMAIN md /\ UNCHANGED objects
           \/ /\ DOMAIN md' = DOMAIN md \cup {BatchFile(lastTx + 1)}
              /\ \E rows : objects' = With(objects, BatchFile(lastTx + 1), rows)
    PROVE  CompactionInv' /\ Immutable
<1>. DEFINE b == BatchFile(lastTx + 1)
<1>1. /\ b[1] = lastTx + 1 /\ b[2] = lastTx + 1
      /\ b \notin FilesInUse
      /\ \A f \in FileName : f[1] # b[1] /\ f[2] # b[2]
    BY FreshBatch DEF CompactionInv
<1>2. b \in FileName'
    <2>1. lastTx + 1 \in 1 .. lastTx'
        BY DEF CompactionInv, Names
    <2>. QED
        BY <2>1 DEF FileName, BatchFile
<1>. HIDE DEF b
<1>3. DOMAIN md \subseteq DOMAIN md' /\ DOMAIN md' \subseteq DOMAIN md \cup {b}
    BY DEF b
<1>4. Shapes' /\ \A r \in Reader : Files(r)' = Files(r)
    BY SameThreads DEF CompactionInv
<1>5. lastTx' \in Nat /\ FileName \subseteq FileName'
    BY NamesGrow DEF CompactionInv, Names
<1>6. Names'
    <2>1. DOMAIN md \subseteq FileName /\ \A r \in Reader : Files(r) \subseteq FileName
        BY DEF CompactionInv, Names
    <2>2. DOMAIN md' \subseteq FileName'
        BY <2>1, <1>2, <1>3, <1>5
    <2>3. \A r \in Reader : Files(r)' \subseteq FileName'
        BY <2>1, <1>4, <1>5
    <2>. QED
        BY <2>2, <2>3, <1>5 DEF Names
<1>7. \A f \in DOMAIN md : f[1] # b[1] /\ f[2] # b[2]
    BY <1>1 DEF CompactionInv, Names
<1>8. Distinct'
    <2>1. \A f, g \in DOMAIN md : f[1] = g[1] \/ f[2] = g[2] => f = g
        BY DEF CompactionInv, Distinct
    <2>2. \A f, g \in DOMAIN md' : f[1] = g[1] \/ f[2] = g[2] => f = g
        BY <2>1, <1>3, <1>7
    <2>. QED
        BY <2>2 DEF Distinct
<1>9. Retired'
    <2>1. SUFFICES ASSUME NEW r \in Reader, NEW f \in Files(r)
                   PROVE  f \in DOMAIN md' \/ Lost(f)'
        BY <1>4 DEF Retired
    <2>2. f[1] # b[1] /\ f[2] # b[2]
        BY <1>1 DEF CompactionInv, Names
    <2>3. f \in DOMAIN md \/ Lost(f)
        BY DEF CompactionInv, Retired
    <2>4. CASE f \in DOMAIN md
        BY <2>4, <1>3
    <2>5. CASE Lost(f)
        BY <2>5, <2>2, <1>3 DEF Lost
    <2>. QED
        BY <2>3, <2>4, <2>5
<1>10. Immutable /\ DOMAIN objects \subseteq DOMAIN objects'
       /\ (b \in DOMAIN md' => b \in DOMAIN objects')
    <2>1. CASE DOMAIN md' = DOMAIN md /\ UNCHANGED objects
        <3>1. b \notin DOMAIN md
            BY <1>1 DEF FilesInUse
        <3>. QED
            BY <2>1, <3>1, NothingWritten DEF CompactionInv
    <2>2. CASE \E rows : objects' = With(objects, BatchFile(lastTx + 1), rows)
        <3>1. PICK rows : objects' = With(objects, b, rows)
            BY <2>2 DEF b
        <3>. QED
            BY <3>1, <1>1, FreshObject DEF CompactionInv
    <2>. QED
        BY <2>1, <2>2
<1>11. Stored'
    <2>1. DOMAIN md \subseteq DOMAIN objects /\ \A r \in Reader : Files(r) \subseteq DOMAIN objects
        BY DEF CompactionInv, Stored, FilesInUse, Files
    <2>2. DOMAIN md' \subseteq DOMAIN objects'
        BY <2>1, <1>3, <1>10
    <2>3. \A r \in Reader : Files(r)' \subseteq DOMAIN objects'
        BY <2>1, <1>4, <1>10
    <2>. QED
        BY <2>2, <2>3 DEF Stored, FilesInUse, Files
<1>12. Merging'
    <2>1. SUFFICES ASSUME compactor.pc \in Merges
                   PROVE  /\ compactor.files \in Seq(DOMAIN md')
                          /\ Len(compactor.files) > 1
                          /\ Head(compactor.files) # Last(compactor.files)
                          /\ compactor.pc = "put" =>
                                 CompactedFilename(compactor.files) \in DOMAIN objects'
        BY DEF Merging, Merges, CompactedFilename
    <2>2. compactor.files \in Seq(DOMAIN md)
        BY <2>1 DEF CompactionInv, Merging
    <2>3. compactor.files \in Seq(DOMAIN md')
        BY <2>2, <1>3
    <2>. QED
        BY <2>1, <2>3, <1>10 DEF CompactionInv, Merging
<1>. QED
    BY <1>4, <1>6, <1>8, <1>9, <1>10, <1>11, <1>12 DEF CompactionInv

LEMMA InsertKeepsInv ==
    ASSUME CompactionInv, NEW n \in 1 .. MaxRows, Insert(n)
    PROVE  CompactionInv' /\ Immutable
<1>1. DOMAIN md' = DOMAIN md \cup {BatchFile(lastTx + 1)}
    BY WithMap DEF Insert, Commit, WithRows
<1>. QED
    BY <1>1, StatementKeepsInv DEF Insert, Statement, Commit

LEMMA DeleteKeepsInv ==
    ASSUME CompactionInv, NEW P, Delete(P)
    PROVE  CompactionInv' /\ Immutable
<1>1. DOMAIN md' = DOMAIN md
    BY SameFiles DEF Delete, Commit
<1>. QED
    BY <1>1, StatementKeepsInv DEF Delete, Statement, Commit

LEMMA UpdateKeepsInv ==
    ASSUME CompactionInv, NEW P, Update(P)
    PROVE  CompactionInv' /\ Immutable
<1>1. md' = WithDeleted(WithRows(md, Cardinality(P)), P)
    BY DEF Update, Commit
<1>2. DOMAIN md' = DOMAIN WithRows(md, Cardinality(P))
    BY <1>1, SameFiles
<1>3. DOMAIN md' = DOMAIN md \cup {BatchFile(lastTx + 1)}
    BY <1>2, WithMap DEF WithRows
<1>. QED
    BY <1>3, StatementKeepsInv DEF Update, Statement, Commit

LEMMA EraseKeepsInv ==
    ASSUME CompactionInv, NEW P, Erase(P)
    PROVE  CompactionInv' /\ Immutable
<1>1. DOMAIN md' = DOMAIN md
    BY SameFiles DEF Erase, Commit
<1>. QED
    BY <1>1, StatementKeepsInv DEF Erase, Statement, Commit

-----------------------------------------------------------------------------
(* The compaction thread                                                   *)

\* A step that leaves the table alone keeps what the invariant says of names,
\* when a query goes on with its snapshot, takes a new one or has none.
LEMMA SameTable ==
    ASSUME CompactionInv, UNCHANGED <<lastTx, md>>, DOMAIN objects \subseteq DOMAIN objects',
           \A r \in Reader : Files(r)' \subseteq Files(r) \cup DOMAIN md
    PROVE  Names' /\ Distinct' /\ Stored' /\ Retired'
<1>1. Names'
    <2>1. \A r \in Reader : Files(r)' \subseteq FileName
        BY DEF CompactionInv, Names
    <2>. QED
        BY <2>1 DEF CompactionInv, Names, FileName
<1>2. Distinct'
    BY DEF CompactionInv, Distinct
<1>3. Stored'
    BY DEF CompactionInv, Stored, FilesInUse, Files
<1>4. Retired'
    <2>1. \A r \in Reader : \A f \in Files(r)' : f \in DOMAIN md \/ Lost(f)
        BY DEF CompactionInv, Retired
    <2>. QED
        BY <2>1 DEF Retired, Lost
<1>. QED
    BY <1>1, <1>2, <1>3, <1>4

\* The same for the steps that leave the queries alone too.
LEMMA SameReaders ==
    ASSUME CompactionInv, UNCHANGED <<lastTx, md, readers>>,
           DOMAIN objects \subseteq DOMAIN objects'
    PROVE  /\ Names' /\ Distinct' /\ Stored' /\ Retired'
           /\ DOMAIN readers' = Reader
           /\ \A r \in Reader :
                  readers'[r] = [open |-> readers'[r].open, md |-> readers'[r].md,
                                 todo |-> readers'[r].todo, seen |-> readers'[r].seen]
<1>1. \A r \in Reader : Files(r)' \subseteq Files(r) \cup DOMAIN md
    BY DEF Files
<1>2. Names' /\ Distinct' /\ Stored' /\ Retired'
    BY <1>1, SameTable
<1>3. Shapes
    BY DEF CompactionInv
<1>. QED
    BY <1>2, <1>3 DEF Shapes

LEMMA StartCompactionKeepsInv ==
    ASSUME CompactionInv, StartCompaction
    PROVE  CompactionInv' /\ Immutable
<1>1. Immutable
    BY NothingWritten DEF CompactionInv, StartCompaction
<1>2. PICK S \in FilesToCompact(md) :
          /\ Cardinality(S) > 1
          /\ \E files \in Sorted(S) :
                 compactor' = [pc |-> "merging", md |-> md, files |-> files, content |-> <<>>]
    BY DEF StartCompaction
<1>3. PICK files \in Sorted(S) :
          compactor' = [pc |-> "merging", md |-> md, files |-> files, content |-> <<>>]
    BY <1>2
<1>4. S \in SUBSET DOMAIN md
    BY DEF FilesToCompact
<1>5. files \in Seq(DOMAIN md) /\ Len(files) > 1 /\ Head(files) # Last(files)
    BY <1>2, <1>4, SortedFiles DEF CompactionInv
<1>6. UNCHANGED <<lastTx, md, objects, readers>>
    BY DEF StartCompaction
<1>7. /\ compactor'.pc = "merging" /\ compactor'.files = files
      /\ compactor'.md = md /\ compactor'.content = <<>>
    BY <1>3
<1>8. Shapes'
    BY <1>3, <1>6, <1>7, SameReaders DEF Shapes
<1>9. Merging'
    BY <1>5, <1>6, <1>7 DEF Merging
<1>. QED
    BY <1>1, <1>6, <1>8, <1>9, SameReaders DEF CompactionInv

LEMMA MergeKeepsInv ==
    ASSUME CompactionInv, Merge
    PROVE  CompactionInv' /\ Immutable
<1>1. Immutable
    BY NothingWritten DEF CompactionInv, Merge
<1>2. UNCHANGED <<lastTx, md, objects, readers>> /\ compactor.pc = "merging"
    BY DEF Merge
<1>3. PICK pc \in {"dead", "merged"} :
          compactor' = [compactor EXCEPT !.pc = pc, !.content = MergedRows]
    BY Zenon DEF Merge
<1>4. compactor = [pc |-> compactor.pc, md |-> compactor.md,
                   files |-> compactor.files, content |-> compactor.content]
    BY DEF CompactionInv, Shapes
<1>5. compactor' = [pc |-> pc, md |-> compactor.md, files |-> compactor.files,
                    content |-> MergedRows]
    BY <1>3, <1>4
<1>6. /\ compactor'.pc = pc /\ compactor'.files = compactor.files
      /\ compactor'.md = compactor.md /\ compactor'.content = MergedRows
    BY <1>5
<1>7. Shapes'
    BY <1>2, <1>5, <1>6, SameReaders DEF Shapes
<1>8. Merging'
    BY <1>2, <1>6 DEF CompactionInv, Merging, Merges
<1>. QED
    BY <1>1, <1>2, <1>7, <1>8, SameReaders DEF CompactionInv

LEMMA PutMergedKeepsInv ==
    ASSUME CompactionInv, PutMerged
    PROVE  CompactionInv' /\ Immutable
<1>. DEFINE F == CompactedFilename(compactor.files)
<1>1. UNCHANGED <<lastTx, md, readers>> /\ compactor.pc = "merged"
    BY DEF PutMerged
<1>2. F \notin FilesInUse
    BY <1>1, FreshName DEF CompactionInv, Merges
<1>3. Immutable /\ DOMAIN objects' = DOMAIN objects \cup {F}
    BY <1>2, FreshObject DEF CompactionInv, PutMerged
<1>4. compactor = [pc |-> compactor.pc, md |-> compactor.md,
                   files |-> compactor.files, content |-> compactor.content]
    BY DEF CompactionInv, Shapes
<1>5. compactor' = [pc |-> "put", md |-> compactor.md, files |-> compactor.files,
                    content |-> compactor.content]
    BY <1>4 DEF PutMerged
<1>6. /\ compactor'.pc = "put" /\ compactor'.files = compactor.files
      /\ compactor'.md = compactor.md /\ compactor'.content = compactor.content
    BY <1>5
<1>7. Shapes'
    BY <1>1, <1>3, <1>5, <1>6, SameReaders DEF Shapes
<1>8. Merging'
    BY <1>1, <1>3, <1>6 DEF CompactionInv, Merging, Merges, CompactedFilename
<1>. QED
    BY <1>1, <1>3, <1>7, <1>8, SameReaders DEF CompactionInv

\* The exchange takes the merged files out of the table and puts the new one
\* in.  A merged file that a query still reads has lost the first half of its
\* name, or, if it was the first of them, the second.
LEMMA CompactFilesKeepsInv ==
    ASSUME CompactionInv, CompactFiles
    PROVE  CompactionInv' /\ Immutable
<1>. DEFINE a == Head(compactor.files)
            z == Last(compactor.files)
            F == CompactedFilename(compactor.files)
            T == ToSet(compactor.files)
<1>1. /\ UNCHANGED <<objects, readers>> /\ compactor.pc = "put" /\ compactor' = Idle
      /\ lastTx' = lastTx + 1
      /\ md' = WithoutFiles(With(md, F, CompactedMd), T)
    BY DEF CompactFiles, Commit
<1>2. F \notin FilesInUse /\ F \in FileName
    BY <1>1, FreshName DEF CompactionInv, Merges
<1>3. a \in T /\ z \in T /\ T \subseteq DOMAIN md /\ a # z
    BY <1>1, Ends DEF CompactionInv, Merging, Merges
<1>4. F = <<a[1], z[2]>> /\ F \in DOMAIN objects
    BY <1>1 DEF CompactionInv, Merging, Merges, CompactedFilename
<1>5. DOMAIN md' = (DOMAIN md \cup {F}) \ T
    <2>1. DOMAIN md' = DOMAIN With(md, F, CompactedMd) \ T
        BY <1>1 DEF WithoutFiles
    <2>. QED
        BY <2>1, WithMap
<1>6. Immutable
    BY <1>1, NothingWritten DEF CompactionInv
<1>. HIDE DEF a, z, F, T
<1>7. F[1] = a[1] /\ F[2] = z[2]
    BY <1>4
<1>8. lastTx' \in Nat /\ FileName \subseteq FileName'
    BY <1>1, NamesGrow DEF CompactionInv, Names
<1>9. \A r \in Reader : Files(r)' = Files(r)
    BY <1>1 DEF Files
<1>10. Names'
    <2>1. DOMAIN md \subseteq FileName /\ \A r \in Reader : Files(r) \subseteq FileName
        BY DEF CompactionInv, Names
    <2>2. DOMAIN md' \subseteq FileName'
        BY <2>1, <1>2, <1>5, <1>8
    <2>3. \A r \in Reader : Files(r)' \subseteq FileName'
        BY <2>1, <1>8, <1>9
    <2>. QED
        BY <2>2, <2>3, <1>8 DEF Names
<1>11. \A f, g \in DOMAIN md : f[1] = g[1] \/ f[2] = g[2] => f = g
    BY DEF CompactionInv, Distinct
<1>12. \A g \in DOMAIN md \ T : g[1] # F[1] /\ g[2] # F[2]
    BY <1>3, <1>7, <1>11
<1>13. Distinct'
    <2>1. \A f, g \in DOMAIN md' : f[1] = g[1] \/ f[2] = g[2] => f = g
        BY <1>5, <1>11, <1>12
    <2>. QED
        BY <2>1 DEF Distinct
<1>14. Stored'
    <2>1. DOMAIN md \subseteq DOMAIN objects /\ \A r \in Reader : Files(r) \subseteq DOMAIN objects
        BY DEF CompactionInv, Stored, FilesInUse, Files
    <2>2. DOMAIN md' \subseteq DOMAIN objects' /\ \A r \in Reader : Files(r)' \subseteq DOMAIN objects'
        BY <2>1, <1>1, <1>4, <1>5, <1>9
    <2>. QED
        BY <2>2 DEF Stored, FilesInUse, Files
<1>15. Retired'
    <2>1. SUFFICES ASSUME NEW r \in Reader, NEW f \in Files(r)
                   PROVE  f \in DOMAIN md' \/ Lost(f)'
        BY <1>9 DEF Retired
    <2>2. f \in DOMAIN md \/ Lost(f)
        BY DEF CompactionInv, Retired
    <2>3. CASE f \in DOMAIN md \ T
        BY <2>3, <1>2, <1>5 DEF FilesInUse
    <2>4. CASE f \in T /\ f # a
        <3>1. \A g \in DOMAIN md \ T : g[1] # f[1]
            BY <2>4, <1>3, <1>11
        <3>2. F[1] # f[1]
            BY <2>4, <1>3, <1>7, <1>11
        <3>. QED
            BY <3>1, <3>2, <1>5 DEF Lost
    <2>5. CASE f = a
        <3>1. \A g \in DOMAIN md \ T : g[2] # f[2]
            BY <2>5, <1>3, <1>11
        <3>2. F[2] # f[2]
            BY <2>5, <1>3, <1>7, <1>11
        <3>. QED
            BY <3>1, <3>2, <1>5 DEF Lost
    <2>6. CASE Lost(f)
        <3>1. CASE \A g \in DOMAIN md : g[1] # f[1]
            BY <3>1, <1>3, <1>5, <1>7 DEF Lost
        <3>2. CASE \A g \in DOMAIN md : g[2] # f[2]
            BY <3>2, <1>3, <1>5, <1>7 DEF Lost
        <3>. QED
            BY <2>6, <3>1, <3>2 DEF Lost
    <2>. QED
        BY <2>2, <2>3, <2>4, <2>5, <2>6
<1>16. Shapes'
    BY <1>1 DEF CompactionInv, Shapes, Idle
<1>17. Merging'
    BY <1>1 DEF Merging, Merges, Idle
<1>. QED
    BY <1>6, <1>10, <1>13, <1>14, <1>15, <1>16, <1>17 DEF CompactionInv

-----------------------------------------------------------------------------
(* The queries and a crash                                                 *)

\* A step of queries whose snapshots are the old ones, the table or nothing.
LEMMA QueryKeepsInv ==
    ASSUME CompactionInv, UNCHANGED <<lastTx, md, objects, compactor>>,
           DOMAIN readers' = Reader,
           \A q \in Reader : \E open, snapshot, todo, seen :
               /\ readers'[q] = [open |-> open, md |-> snapshot, todo |-> todo, seen |-> seen]
               /\ snapshot = readers[q].md \/ snapshot = md \/ snapshot = <<>>
    PROVE  CompactionInv' /\ Immutable
<1>1. Immutable
    BY NothingWritten DEF CompactionInv
<1>2. \A q \in Reader :
          /\ readers'[q] = [open |-> readers'[q].open, md |-> readers'[q].md,
                            todo |-> readers'[q].todo, seen |-> readers'[q].seen]
          /\ \/ readers'[q].md = readers[q].md
             \/ readers'[q].md = md
             \/ readers'[q].md = <<>>
    <2>1. SUFFICES ASSUME NEW q \in Reader
                   PROVE  /\ readers'[q] = [open |-> readers'[q].open, md |-> readers'[q].md,
                                            todo |-> readers'[q].todo, seen |-> readers'[q].seen]
                          /\ \/ readers'[q].md = readers[q].md
                             \/ readers'[q].md = md
                             \/ readers'[q].md = <<>>
        OBVIOUS
    <2>2. PICK open, snapshot, todo, seen :
              /\ readers'[q] = [open |-> open, md |-> snapshot, todo |-> todo, seen |-> seen]
              /\ snapshot = readers[q].md \/ snapshot = md \/ snapshot = <<>>
        OBVIOUS
    <2>3. /\ readers'[q].open = open /\ readers'[q].md = snapshot
          /\ readers'[q].todo = todo /\ readers'[q].seen = seen
        BY <2>2
    <2>. QED
        BY <2>2, <2>3
<1>3. DOMAIN <<>> = {}
    OBVIOUS
<1>4. \A q \in Reader : Files(q)' \subseteq Files(q) \cup DOMAIN md
    BY <1>2, <1>3 DEF Files
<1>5. Names' /\ Distinct' /\ Stored' /\ Retired'
    BY <1>4, SameTable
<1>6. Shapes'
    BY <1>2 DEF CompactionInv, Shapes
<1>7. Merging'
    BY DEF CompactionInv, Merging, CompactedFilename
<1>. QED
    BY <1>1, <1>5, <1>6, <1>7 DEF CompactionInv

LEMMA OpenKeepsInv ==
    ASSUME CompactionInv, NEW r \in Reader, Open(r)
    PROVE  CompactionInv' /\ Immutable
<1>1. readers' = [readers EXCEPT ![r] = [open |-> TRUE, md |-> md,
                                         todo |-> DOMAIN md, seen |-> {}]]
    BY DEF Open
<1>2. DOMAIN readers = Reader
    BY DEF CompactionInv, Shapes
<1>3. DOMAIN readers' = Reader /\ \A q \in Reader \ {r} : readers'[q] = readers[q]
    BY <1>1, <1>2
<1>4. readers'[r] = [open |-> TRUE, md |-> md, todo |-> DOMAIN md, seen |-> {}]
    BY <1>1, <1>2
<1>5. \A q \in Reader \ {r} :
          readers'[q] = [open |-> readers[q].open, md |-> readers[q].md,
                         todo |-> readers[q].todo, seen |-> readers[q].seen]
    BY <1>3 DEF CompactionInv, Shapes
<1>6. \A q \in Reader : \E open, snapshot, todo, seen :
          /\ readers'[q] = [open |-> open, md |-> snapshot, todo |-> todo, seen |-> seen]
          /\ snapshot = readers[q].md \/ snapshot = md \/ snapshot = <<>>
    BY <1>4, <1>5, Zenon
<1>. QED
    BY <1>3, <1>6, QueryKeepsInv DEF Open

LEMMA ScanKeepsInv ==
    ASSUME CompactionInv, NEW r \in Reader, Scan(r)
    PROVE  CompactionInv' /\ Immutable
<1>1. PICK todo, seen :
          readers' = [readers EXCEPT ![r].todo = todo, ![r].seen = @ \cup seen]
    BY DEF Scan
<1>2. /\ DOMAIN readers = Reader
      /\ \A q \in Reader :
             readers[q] = [open |-> readers[q].open, md |-> readers[q].md,
                           todo |-> readers[q].todo, seen |-> readers[q].seen]
    BY DEF CompactionInv, Shapes
<1>3. DOMAIN readers' = Reader /\ \A q \in Reader \ {r} : readers'[q] = readers[q]
    BY <1>1, <1>2
<1>4. readers'[r] = [readers[r] EXCEPT !.todo = todo, !.seen = @ \cup seen]
    BY <1>1, <1>2
<1>5. readers'[r] = [open |-> readers[r].open, md |-> readers[r].md,
                     todo |-> todo, seen |-> readers[r].seen \cup seen]
    BY <1>2, <1>4
<1>6. \A q \in Reader \ {r} :
          readers'[q] = [open |-> readers[q].open, md |-> readers[q].md,
                         todo |-> readers[q].todo, seen |-> readers[q].seen]
    BY <1>2, <1>3
<1>7. \A q \in Reader : \E open, snapshot, todo2, seen2 :
          /\ readers'[q] = [open |-> open, md |-> snapshot, todo |-> todo2, seen |-> seen2]
          /\ snapshot = readers[q].md \/ snapshot = md \/ snapshot = <<>>
    BY <1>5, <1>6, Zenon
<1>. QED
    BY <1>3, <1>7, QueryKeepsInv DEF Scan

LEMMA CloseKeepsInv ==
    ASSUME CompactionInv, NEW r \in Reader, Close(r)
    PROVE  CompactionInv' /\ Immutable
<1>1. readers' = [readers EXCEPT ![r] = NotReading]
    BY DEF Close
<1>2. DOMAIN readers = Reader
    BY DEF CompactionInv, Shapes
<1>3. DOMAIN readers' = Reader /\ \A q \in Reader \ {r} : readers'[q] = readers[q]
    BY <1>1, <1>2
<1>4. readers'[r] = [open |-> FALSE, md |-> <<>>, todo |-> {}, seen |-> {}]
    BY <1>1, <1>2 DEF NotReading
<1>5. \A q \in Reader \ {r} :
          readers'[q] = [open |-> readers[q].open, md |-> readers[q].md,
                         todo |-> readers[q].todo, seen |-> readers[q].seen]
    BY <1>3 DEF CompactionInv, Shapes
<1>6. \A q \in Reader : \E open, snapshot, todo, seen :
          /\ readers'[q] = [open |-> open, md |-> snapshot, todo |-> todo, seen |-> seen]
          /\ snapshot = readers[q].md \/ snapshot = md \/ snapshot = <<>>
    BY <1>4, <1>5, Zenon
<1>. QED
    BY <1>3, <1>6, QueryKeepsInv DEF Close

\* What a compaction that a crash cut off has put stays among the objects,
\* but no table or snapshot names it.
LEMMA CrashKeepsInv ==
    ASSUME CompactionInv, Crash
    PROVE  CompactionInv' /\ Immutable
<1>1. /\ UNCHANGED <<lastTx, md, objects>> /\ compactor' = Idle
      /\ readers' = [r \in Reader |-> NotReading]
    BY DEF Crash
<1>2. Immutable
    BY <1>1, NothingWritten DEF CompactionInv
<1>3. DOMAIN readers' = Reader
      /\ \A r \in Reader :
             readers'[r] = [open |-> FALSE, md |-> <<>>, todo |-> {}, seen |-> {}]
    BY <1>1 DEF NotReading
<1>4. \A r \in Reader : Files(r)' = {}
    BY <1>3 DEF Files
<1>5. Names' /\ Distinct' /\ Stored' /\ Retired'
    BY <1>1, <1>4, SameTable
<1>6. Shapes'
    BY <1>1, <1>3 DEF Shapes, Idle
<1>7. Merging'
    BY <1>1 DEF Merging, Merges, Idle
<1>. QED
    BY <1>2, <1>5, <1>6, <1>7 DEF CompactionInv

-----------------------------------------------------------------------------
LEMMA InitInv ==
    ASSUME Init
    PROVE  CompactionInv
<1>1. /\ lastTx = 0 /\ DOMAIN md = {} /\ compactor = Idle
      /\ readers = [r \in Reader |-> NotReading]
    BY DEF Init
<1>2. DOMAIN readers = Reader
      /\ \A r \in Reader :
             readers[r] = [open |-> FALSE, md |-> <<>>, todo |-> {}, seen |-> {}]
    BY <1>1 DEF NotReading
<1>3. \A r \in Reader : Files(r) = {}
    BY <1>2 DEF Files
<1>4. Names /\ Distinct
    BY <1>1, <1>3 DEF Names, Distinct
<1>5. Stored /\ Retired
    BY <1>1, <1>3 DEF Stored, Retired, FilesInUse, Files
<1>6. Shapes
    BY <1>1, <1>2 DEF Shapes, Idle
<1>7. Merging
    BY <1>1 DEF Merging, Merges, Idle
<1>. QED
    BY <1>4, <1>5, <1>6, <1>7 DEF CompactionInv

LEMMA StutterKeepsInv ==
    ASSUME CompactionInv, UNCHANGED vars
    PROVE  CompactionInv' /\ Immutable
<1>1. \A r \in Reader : Files(r)' \subseteq Files(r) \cup DOMAIN md
    BY DEF vars, Files
<1>2. Names' /\ Distinct' /\ Stored' /\ Retired'
    BY <1>1, SameTable DEF vars
<1>3. Shapes' /\ Merging'
    BY DEF vars, CompactionInv, Shapes, Merging, CompactedFilename
<1>. QED
    BY <1>2, <1>3, NothingWritten DEF vars, CompactionInv

LEMMA NextKeepsInv ==
    ASSUME CompactionInv, [Next]_vars
    PROVE  CompactionInv' /\ Immutable
<1>1. CASE \E n \in 1 .. MaxRows : Insert(n)
    BY <1>1, InsertKeepsInv
<1>2. CASE \E P \in Some(VisiblePlaces(md)) : Delete(P)
    BY <1>2, DeleteKeepsInv
<1>3. CASE \E P \in Some(VisiblePlaces(md)) : Update(P)
    BY <1>3, UpdateKeepsInv
<1>4. CASE \E P \in Some(Places(md)) : Erase(P)
    BY <1>4, EraseKeepsInv
<1>5. CASE Compact
    BY <1>5, StartCompactionKeepsInv, MergeKeepsInv, PutMergedKeepsInv,
       CompactFilesKeepsInv DEF Compact
<1>6. CASE \E r \in Reader : Open(r) \/ Scan(r) \/ Close(r)
    BY <1>6, OpenKeepsInv, ScanKeepsInv, CloseKeepsInv
<1>7. CASE Crash
    BY <1>7, CrashKeepsInv
<1>8. CASE UNCHANGED vars
    BY <1>8, StutterKeepsInv
<1>. QED
    BY <1>1, <1>2, <1>3, <1>4, <1>5, <1>6, <1>7, <1>8 DEF Next

-----------------------------------------------------------------------------
(* Sequences put one after another                                         *)

\* A set of natural numbers with a member has a least one.
LEMMA LeastNumber ==
    ASSUME NEW S \in SUBSET Nat, S # {}
    PROVE  \E x \in S : \A y \in S : x <= y
<1>1. IsWellFoundedOn({p \in Nat \X Nat : p[1] < p[2]}, Nat)
    BY NatLessThanWellFounded, SMT DEF OpToRel
<1>2. PICK x \in S : \A y \in S : ~(<<y, x>> \in {p \in Nat \X Nat : p[1] < p[2]})
    BY <1>1, WFMin
<1>3. ASSUME NEW y \in S PROVE x <= y
    <2>1. x \in Nat /\ y \in Nat
        OBVIOUS
    <2>2. ~(y < x)
        BY <1>2, <2>1
    <2>. QED
        BY <2>1, <2>2
<1>. QED
    BY <1>3

\* Each sequence adds its length to what the ones before it have.
LEMMA UptoGrows ==
    ASSUME NEW V, NEW seqs \in Seq(Seq(V))
    PROVE  /\ Upto(seqs, 0) = 0
           /\ \A k \in 0 .. Len(seqs) : Upto(seqs, k) \in Nat
           /\ \A k \in 1 .. Len(seqs) : Upto(seqs, k) = Upto(seqs, k - 1) + Len(seqs[k])
           /\ \A j, k \in 0 .. Len(seqs) : j <= k => Upto(seqs, j) <= Upto(seqs, k)
<1>. DEFINE Cell(j) == {j} \X DOMAIN seqs[j]
            Cells(k) == UNION {Cell(j) : j \in 1 .. k}
<1>1. \A k : Upto(seqs, k) = Cardinality(Cells(k))
    BY DEF Upto
<1>2. Len(seqs) \in Nat /\ \A j \in 1 .. Len(seqs) : seqs[j] \in Seq(V)
    OBVIOUS
<1>3. ASSUME NEW j \in 1 .. Len(seqs)
      PROVE  IsFiniteSet(Cell(j)) /\ Cardinality(Cell(j)) = Len(seqs[j])
    <2>1. Len(seqs[j]) \in Nat /\ DOMAIN seqs[j] = 1 .. Len(seqs[j])
        BY <1>2
    <2>2. IsFiniteSet(1 .. Len(seqs[j])) /\ Cardinality(1 .. Len(seqs[j])) = Len(seqs[j])
        BY <2>1, FS_Interval
    <2>3. IsFiniteSet({j}) /\ Cardinality({j}) = 1
        BY FS_Singleton
    <2>4. /\ IsFiniteSet({j} \X (1 .. Len(seqs[j])))
          /\ Cardinality({j} \X (1 .. Len(seqs[j]))) = Cardinality({j}) * Cardinality(1 .. Len(seqs[j]))
        BY <2>2, <2>3, FS_Product
    <2>. QED
        BY <2>1, <2>2, <2>3, <2>4
<1>4. ASSUME NEW k \in 0 .. Len(seqs) PROVE IsFiniteSet(Cells(k))
    <2>. DEFINE C == {Cell(j) : j \in 1 .. k}
    <2>1. [j \in 1 .. k |-> Cell(j)] \in Surjection(1 .. k, C)
        BY DEF Surjection
    <2>2. IsFiniteSet(1 .. k)
        BY FS_Interval
    <2>3. IsFiniteSet(C)
        BY <2>1, <2>2, FS_Surjection
    <2>4. 1 .. k \subseteq 1 .. Len(seqs)
        OBVIOUS
    <2>5. \A T \in C : IsFiniteSet(T)
        BY <1>3, <2>4
    <2>. QED
        BY <2>3, <2>5, FS_UNION
<1>5. Upto(seqs, 0) = 0
    <2>1. Cells(0) = {}
        OBVIOUS
    <2>. QED
        BY <1>1, <2>1, FS_EmptySet
<1>6. \A k \in 0 .. Len(seqs) : Upto(seqs, k) \in Nat
    BY <1>1, <1>4, FS_CardinalityType
<1>7. ASSUME NEW k \in 1 .. Len(seqs)
      PROVE  Upto(seqs, k) = Upto(seqs, k - 1) + Len(seqs[k])
    <2>1. k - 1 \in 0 .. Len(seqs)
        BY <1>2
    <2>2. Cells(k) = Cells(k - 1) \cup Cell(k)
        <3>1. 1 .. k = (1 .. k - 1) \cup {k}
            BY <1>2
        <3>. QED
            BY <3>1
    <2>3. Cells(k - 1) \cap Cell(k) = {}
        <3>1. \A c \in Cells(k - 1) : c[1] \in 1 .. k - 1
            OBVIOUS
        <3>2. \A c \in Cell(k) : c[1] = k
            OBVIOUS
        <3>. QED
            BY <3>1, <3>2
    <2>. HIDE DEF Cells, Cell
    <2>4. IsFiniteSet(Cells(k - 1)) /\ IsFiniteSet(Cell(k))
        BY <2>1, <1>3, <1>4
    <2>5. Cardinality(Cells(k)) = Cardinality(Cells(k - 1)) + Cardinality(Cell(k)) - Cardinality({})
        BY <2>2, <2>3, <2>4, FS_Union
    <2>6. Cardinality({}) = 0
        BY FS_EmptySet
    <2>7. Cardinality(Cells(k - 1)) \in Nat /\ Len(seqs[k]) \in Nat
        BY <1>1, <1>2, <1>6, <2>1
    <2>. QED
        BY <1>1, <1>3, <2>5, <2>6, <2>7
<1>8. ASSUME NEW j \in 0 .. Len(seqs), NEW k \in 0 .. Len(seqs), j <= k
      PROVE  Upto(seqs, j) <= Upto(seqs, k)
    <2>1. 1 .. j \subseteq 1 .. k
        BY <1>2, <1>8
    <2>2. Cells(j) \subseteq Cells(k)
        BY <2>1
    <2>3. IsFiniteSet(Cells(k))
        BY <1>4
    <2>. HIDE DEF Cells
    <2>4. Cardinality(Cells(j)) <= Cardinality(Cells(k))
        BY <2>2, <2>3, FS_Subset
    <2>. QED
        BY <1>1, <2>4
<1>. QED
    BY <1>5, <1>6, <1>7, <1>8

\* The elements of the joined sequences, each at its place after those of the
\* sequences before its own.
LEMMA JoinedElements ==
    ASSUME NEW V, NEW seqs \in Seq(Seq(V))
    PROVE  /\ Joined(seqs) \in Seq(V)
           /\ \A k \in DOMAIN seqs : \A i \in DOMAIN seqs[k] :
                  /\ Upto(seqs, k - 1) + i \in DOMAIN Joined(seqs)
                  /\ Joined(seqs)[Upto(seqs, k - 1) + i] = seqs[k][i]
           /\ \A m \in DOMAIN Joined(seqs) :
                  \E k \in DOMAIN seqs : \E i \in DOMAIN seqs[k] : m = Upto(seqs, k - 1) + i
           /\ \A k, l \in DOMAIN seqs : \A i \in DOMAIN seqs[k] : \A j \in DOMAIN seqs[l] :
                  Upto(seqs, k - 1) + i = Upto(seqs, l - 1) + j => k = l /\ i = j
<1>. DEFINE n == Len(seqs)
            At(k) == Upto(seqs, k - 1) + 1 .. Upto(seqs, k)
<1>1. /\ n \in Nat /\ DOMAIN seqs = 1 .. n
      /\ \A k \in 1 .. n : /\ seqs[k] \in Seq(V)
                           /\ Len(seqs[k]) \in Nat
                           /\ DOMAIN seqs[k] = 1 .. Len(seqs[k])
                           /\ \A i \in DOMAIN seqs[k] : seqs[k][i] \in V
    OBVIOUS
<1>2. /\ Upto(seqs, 0) = 0
      /\ \A k \in 0 .. n : Upto(seqs, k) \in Nat
      /\ \A k \in 1 .. n : Upto(seqs, k) = Upto(seqs, k - 1) + Len(seqs[k])
      /\ \A j, k \in 0 .. n : j <= k => Upto(seqs, j) <= Upto(seqs, k)
    BY UptoGrows
<1>. HIDE DEF n
<1>3. ASSUME NEW k \in 1 .. n
      PROVE  /\ k - 1 \in 0 .. n /\ k \in 0 .. n
             /\ Upto(seqs, k - 1) \in Nat /\ Upto(seqs, k) \in Nat
             /\ Upto(seqs, k) = Upto(seqs, k - 1) + Len(seqs[k])
    BY <1>1, <1>2
<1>4. ASSUME NEW k \in 1 .. n, NEW l \in 1 .. n, NEW m \in At(k), m \in At(l)
      PROVE  k = l
    <2>1. ASSUME NEW a \in 1 .. n, NEW b \in 1 .. n, m \in At(a), m \in At(b), a < b
          PROVE  FALSE
        <3>1. a <= b - 1 /\ a \in 0 .. n /\ b - 1 \in 0 .. n
            BY <1>1, <2>1
        <3>2. Upto(seqs, a) <= Upto(seqs, b - 1)
            BY <3>1, <1>2
        <3>3. m <= Upto(seqs, a) /\ m >= Upto(seqs, b - 1) + 1 /\ m \in Int
            BY <2>1, <1>3
        <3>. QED
            BY <3>1, <3>2, <3>3, <1>2
    <2>2. ~(k < l) /\ ~(l < k)
        BY <2>1, <1>4
    <2>. QED
        BY <2>2, <1>1
<1>5. ASSUME NEW m \in 1 .. Upto(seqs, n)
      PROVE  \E k \in 1 .. n : m \in At(k)
    <2>. DEFINE S == {k \in 0 .. n : m <= Upto(seqs, k)}
    <2>1. n \in S
        BY <1>1, <1>2
    <2>2. S \in SUBSET Nat
        BY <1>1
    <2>3. PICK k \in S : \A y \in S : k <= y
        BY <2>1, <2>2, LeastNumber
    <2>4. k # 0
        BY <1>2, <2>3
    <2>5. k \in 1 .. n /\ k - 1 \in 0 .. n /\ ~(k <= k - 1)
        BY <1>1, <2>3, <2>4
    <2>6. ~(m <= Upto(seqs, k - 1))
        BY <2>3, <2>5
    <2>7. m \in At(k)
        <3>1. Upto(seqs, k - 1) \in Nat /\ Upto(seqs, k) \in Nat /\ m \in Nat
            BY <2>5, <1>3, <1>2, <1>1
        <3>2. m <= Upto(seqs, k)
            BY <2>3
        <3>. QED
            BY <2>6, <3>1, <3>2
    <2>. QED
        BY <2>5, <2>7
<1>. DEFINE K(m) == CHOOSE k \in DOMAIN seqs : m \in At(k)
            E(m) == seqs[K(m)][m - Upto(seqs, K(m) - 1)]
<1>6. Joined(seqs) = [m \in 1 .. Upto(seqs, n) |-> E(m)]
    BY DEF Joined, n
<1>7. ASSUME NEW m \in 1 .. Upto(seqs, n)
      PROVE  /\ K(m) \in 1 .. n /\ m \in At(K(m))
             /\ m - Upto(seqs, K(m) - 1) \in DOMAIN seqs[K(m)]
             /\ E(m) \in V
    <2>1. K(m) \in 1 .. n /\ m \in At(K(m))
        <3>1. \E k \in DOMAIN seqs : m \in At(k)
            BY <1>1, <1>5
        <3>. HIDE DEF At
        <3>2. K(m) \in DOMAIN seqs /\ m \in At(K(m))
            BY <3>1, Zenon
        <3>. QED
            BY <3>2, <1>1
    <2>. HIDE DEF K
    <2>2. m - Upto(seqs, K(m) - 1) \in 1 .. Len(seqs[K(m)])
        <3>1. /\ Upto(seqs, K(m) - 1) \in Nat /\ Upto(seqs, K(m)) \in Nat
              /\ Upto(seqs, K(m)) = Upto(seqs, K(m) - 1) + Len(seqs[K(m)])
              /\ Len(seqs[K(m)]) \in Nat
            BY <2>1, <1>1, <1>3
        <3>. QED
            BY <2>1, <3>1
    <2>. QED
        BY <2>1, <2>2, <1>1
<1>8. Upto(seqs, n) \in Nat
    BY <1>1, <1>2
<1>9. ASSUME NEW k \in DOMAIN seqs, NEW i \in DOMAIN seqs[k]
      PROVE  /\ Upto(seqs, k - 1) + i \in 1 .. Upto(seqs, n)
             /\ Upto(seqs, k - 1) + i \in At(k)
             /\ i = (Upto(seqs, k - 1) + i) - Upto(seqs, k - 1)
    <2>1. k \in 1 .. n /\ i \in 1 .. Len(seqs[k]) /\ Len(seqs[k]) \in Nat /\ k <= n
        BY <1>1
    <2>2. /\ Upto(seqs, k - 1) \in Nat /\ Upto(seqs, k) \in Nat
          /\ Upto(seqs, k) = Upto(seqs, k - 1) + Len(seqs[k])
        BY <2>1, <1>3
    <2>3. Upto(seqs, k) <= Upto(seqs, n)
        BY <2>1, <1>1, <1>2
    <2>. QED
        BY <2>1, <2>2, <2>3, <1>8
<1>. HIDE DEF E, K, At
<1>10. DOMAIN Joined(seqs) = 1 .. Upto(seqs, n)
    BY <1>6
<1>11. Joined(seqs) \in Seq(V)
    BY <1>6, <1>7, <1>8
<1>12. ASSUME NEW k \in DOMAIN seqs, NEW i \in DOMAIN seqs[k]
       PROVE  /\ Upto(seqs, k - 1) + i \in DOMAIN Joined(seqs)
              /\ Joined(seqs)[Upto(seqs, k - 1) + i] = seqs[k][i]
    <2>. DEFINE m == Upto(seqs, k - 1) + i
    <2>1. m \in 1 .. Upto(seqs, n) /\ m \in At(k) /\ i = m - Upto(seqs, k - 1)
        BY <1>9
    <2>. HIDE DEF m
    <2>2. K(m) = k
        BY <2>1, <1>1, <1>4, <1>7
    <2>3. Joined(seqs)[m] = E(m)
        BY <2>1, <1>6
    <2>4. E(m) = seqs[k][i]
        BY <2>1, <2>2 DEF E
    <2>. QED
        BY <2>1, <2>3, <2>4, <1>10 DEF m
<1>13. ASSUME NEW m \in DOMAIN Joined(seqs)
       PROVE  \E k \in DOMAIN seqs : \E i \in DOMAIN seqs[k] : m = Upto(seqs, k - 1) + i
    <2>1. /\ m \in 1 .. Upto(seqs, n) /\ K(m) \in 1 .. n
          /\ m - Upto(seqs, K(m) - 1) \in DOMAIN seqs[K(m)]
        BY <1>7, <1>10
    <2>2. m = Upto(seqs, K(m) - 1) + (m - Upto(seqs, K(m) - 1))
        <3>1. m \in Nat /\ Upto(seqs, K(m) - 1) \in Nat
            BY <2>1, <1>3, <1>8
        <3>. QED
            BY <3>1
    <2>. QED
        BY <2>1, <2>2, <1>1
<1>14. ASSUME NEW k \in DOMAIN seqs, NEW l \in DOMAIN seqs,
              NEW i \in DOMAIN seqs[k], NEW j \in DOMAIN seqs[l],
              Upto(seqs, k - 1) + i = Upto(seqs, l - 1) + j
       PROVE  k = l /\ i = j
    <2>1. k = l
        BY <1>1, <1>4, <1>9, <1>14
    <2>. QED
        BY <2>1, <1>9, <1>14
<1>. QED
    BY <1>11, <1>12, <1>13, <1>14

-----------------------------------------------------------------------------
(* The rows in the files: the inductive invariant                          *)

\* A row is named by the transaction that wrote it and its number there.
StoredRow == {v \in Row : v[1] <= MaxTx}

Contents ==
    /\ DOMAIN objects \subseteq FileName
    /\ \A f \in DOMAIN objects : objects[f] \in Seq(StoredRow \cup {Null})

\* No row is in two places of these files, whether it is erased or not.
Unique(S) ==
    \A f, g \in S : \A i \in DOMAIN Content(f) : \A j \in DOMAIN Content(g) :
        Content(f)[i] = Content(g)[j] => Content(f)[i] = Null \/ (f = g /\ i = j)

\* Where the merge left a blank the row is known to be erased.
Filled(table) ==
    \A f \in DOMAIN table : \A i \in DOMAIN Content(f) \ table[f].erased : Content(f)[i] # Null

Good(table) == Unique(DOMAIN table) /\ Filled(table)

\* The entries of a file are about rows it has, and a row is deleted once.
Entries(f) ==
    /\ md[f] = [deleted |-> md[f].deleted, erased |-> md[f].erased, size |-> md[f].size]
    /\ md[f].deleted \subseteq [row : DOMAIN Content(f), end : 1 .. lastTx]
    /\ \A d, e \in md[f].deleted : d.row = e.row => d = e
    /\ md[f].erased \subseteq DOMAIN Content(f)
    /\ md[f].size \in 1 .. (MaxTx * MaxRows)

\* A query has seen what its snapshot says of the files it is done with.
Scans ==
    \A r \in Reader :
        /\ readers[r].todo \subseteq Files(r)
        /\ readers[r].seen = UNION {Scanned(readers[r].md, f) : f \in Files(r) \ readers[r].todo}

\* The merged rows are still those of the files, but for rows that the table
\* knows to be erased.
Merged ==
    compactor.pc \in Merges =>
        /\ \A j, k \in DOMAIN compactor.files : compactor.files[j] = compactor.files[k] => j = k
        /\ \A k \in DOMAIN compactor.files :
               /\ compactor.md[compactor.files[k]].erased \subseteq md[compactor.files[k]].erased
               /\ \A i \in Kept(compactor.files[k]) : Content(compactor.files[k])[i] # Null
        /\ compactor.pc # "merging" =>
               /\ compactor.content = MergedRows
               /\ \E k \in DOMAIN compactor.files : Kept(compactor.files[k]) # {}
        /\ compactor.pc = "put" =>
               objects[CompactedFilename(compactor.files)] = compactor.content

Threads == compactor.pc \in {"idle", "merging", "merged", "put", "dead"}

RowsInv ==
    /\ Contents
    /\ Good(md)
    /\ \A r \in Reader : Good(readers[r].md)
    /\ \A f \in DOMAIN md : Entries(f)
    /\ Scans
    /\ Merged
    /\ Threads

\* What a statement writes: the file of its transaction with n rows, if any,
\* the ends of the rows at D, and the erasure of those at E.
Written(n, D, E) ==
    /\ lastTx < MaxTx /\ lastTx' = lastTx + 1
    /\ UNCHANGED <<compactor, readers>>
    /\ D \subseteq VisiblePlaces(md) /\ E \subseteq Places(md)
    /\ \A f \in DOMAIN md :
           /\ f \in DOMAIN md'
           /\ md'[f] = [deleted |-> md[f].deleted \cup
                                    {[row |-> p[2], end |-> lastTx + 1] : p \in {q \in D : q[1] = f}},
                        erased |-> md[f].erased \cup {p[2] : p \in {q \in E : q[1] = f}},
                        size |-> md[f].size]
    /\ \/ n = 0 /\ DOMAIN md' = DOMAIN md /\ UNCHANGED objects
       \/ /\ n \in 1 .. MaxRows
          /\ DOMAIN md' = DOMAIN md \cup {BatchFile(lastTx + 1)}
          /\ md'[BatchFile(lastTx + 1)] = FileMd(n)
          /\ objects' = With(objects, BatchFile(lastTx + 1), Rows(n))

-----------------------------------------------------------------------------
(* The rows in the files: what the operators give                          *)

\* A row has the end of its entry, or none.
LEMMA EndOfRow ==
    ASSUME NEW entries, \A d, e \in entries : d.row = e.row => d = e
    PROVE  /\ \A e \in entries : SystemTimeEnd(entries, e.row) = e.end
           /\ \A i : (\A e \in entries : e.row # i) => SystemTimeEnd(entries, i) = Forever
<1>1. ASSUME NEW e \in entries PROVE SystemTimeEnd(entries, e.row) = e.end
    <2>1. (CHOOSE d \in entries : d.row = e.row) = e
        OBVIOUS
    <2>2. \E d \in entries : d.row = e.row
        OBVIOUS
    <2>. QED
        BY <2>1, <2>2 DEF SystemTimeEnd
<1>2. ASSUME NEW i, \A e \in entries : e.row # i PROVE SystemTimeEnd(entries, i) = Forever
    BY <1>2 DEF SystemTimeEnd
<1>. QED
    BY <1>1, <1>2

\* A file that is in use keeps its rows.
LEMMA ContentStays ==
    ASSUME Stored, Immutable, NEW f \in FilesInUse
    PROVE  Content(f)' = Content(f) /\ Content(f) = objects[f] /\ f \in DOMAIN objects
BY DEF Stored, Immutable, Content

\* The rows of the files of the table.
LEMMA FileRows ==
    ASSUME CompactionInv, Contents, NEW f \in FilesInUse
    PROVE  /\ Content(f) \in Seq(StoredRow \cup {Null})
           /\ Len(Content(f)) \in Nat
           /\ DOMAIN Content(f) = 1 .. Len(Content(f))
           /\ \A i \in DOMAIN Content(f) :
                  Content(f)[i] = Null \/ (Content(f)[i] \in StoredRow /\ Content(f)[i] # Null)
<1>1. Content(f) \in Seq(StoredRow \cup {Null})
    BY DEF CompactionInv, Stored, Contents, Content
<1>2. StoredRow \subseteq Nat \X Nat
    BY CompactionAssumption DEF CompactionInv, Names, StoredRow, Row
<1>3. Null \notin StoredRow
    BY <1>2, CompactionAssumption
<1>4. \A i \in DOMAIN Content(f) : Content(f)[i] \in StoredRow \cup {Null}
    BY <1>1
<1>. QED
    BY <1>1, <1>3, <1>4

\* What the snapshots of the queries say stays true: their files do not change.
LEMMA SnapshotsStay ==
    ASSUME CompactionInv, Immutable, UNCHANGED readers,
           \A r \in Reader : Good(readers[r].md), Scans
    PROVE  (\A r \in Reader : Good(readers[r].md))' /\ Scans'
<1>1. \A r \in Reader : \A f \in DOMAIN readers[r].md : Content(f)' = Content(f)
    BY ContentStays DEF CompactionInv, FilesInUse
<1>2. ASSUME NEW r \in Reader PROVE Good(readers[r].md)'
    BY <1>1 DEF Good, Unique, Filled
<1>3. ASSUME NEW r \in Reader
      PROVE  \A f \in DOMAIN readers[r].md : Scanned(readers[r].md, f)' = Scanned(readers[r].md, f)
    BY <1>1 DEF Scanned
<1>4. ASSUME NEW r \in Reader
      PROVE  /\ readers[r].todo \subseteq Files(r)
             /\ readers[r].seen =
                    UNION {Scanned(readers[r].md, f)' : f \in Files(r) \ readers[r].todo}
    BY <1>3 DEF Scans, Files
<1>5. Scans'
    BY <1>4 DEF Scans, Files
<1>. QED
    BY <1>2, <1>5

\* Nor does what is merged: the files stay in the table until they are exchanged.
LEMMA MergedFilesStay ==
    ASSUME CompactionInv, Immutable, compactor.pc \in Merges,
           compactor'.files = compactor.files, compactor'.md = compactor.md
    PROVE  /\ \A k \in DOMAIN compactor.files :
                  /\ compactor.files[k] \in DOMAIN md
                  /\ Content(compactor.files[k])' = Content(compactor.files[k])
                  /\ Kept(compactor.files[k])' = Kept(compactor.files[k])
           /\ MergedRows' = MergedRows
           /\ CompactedFilename(compactor.files)' = CompactedFilename(compactor.files)
<1>1. \A k \in DOMAIN compactor.files : compactor.files[k] \in DOMAIN md
    BY DEF CompactionInv, Merging
<1>2. \A k \in DOMAIN compactor.files : Content(compactor.files[k])' = Content(compactor.files[k])
    BY <1>1, ContentStays DEF CompactionInv, FilesInUse
<1>3. \A k \in DOMAIN compactor.files : Kept(compactor.files[k])' = Kept(compactor.files[k])
    BY <1>2 DEF Kept
<1>4. \A k \in DOMAIN compactor.files : Blanked(compactor.files[k])' = Blanked(compactor.files[k])
    BY <1>2, <1>3 DEF Blanked
<1>5. [k \in DOMAIN compactor.files |-> Blanked(compactor.files[k])]' =
      [k \in DOMAIN compactor.files |-> Blanked(compactor.files[k])]
    BY <1>4
<1>6. MergedRows' = MergedRows
    BY <1>5 DEF MergedRows
<1>7. CompactedFilename(compactor.files)' = CompactedFilename(compactor.files)
    BY DEF CompactedFilename
<1>. QED
    BY <1>1, <1>2, <1>3, <1>6, <1>7

\* Nor does the merge, while nobody but the thread takes a file out of the
\* table and erased rows stay erased.
LEMMA MergedStays ==
    ASSUME CompactionInv, Immutable, Merged, UNCHANGED compactor,
           \A f \in DOMAIN md : f \in DOMAIN md' /\ md[f].erased \subseteq md'[f].erased,
           compactor.pc = "put" => objects'[CompactedFilename(compactor.files)] =
                                   objects[CompactedFilename(compactor.files)]
    PROVE  Merged'
<1>1. SUFFICES ASSUME compactor.pc \in Merges PROVE Merged'
    BY DEF Merged, Merges
<1>2. \A k \in DOMAIN compactor.files :
          /\ compactor.files[k] \in DOMAIN md
          /\ Content(compactor.files[k])' = Content(compactor.files[k])
          /\ Kept(compactor.files[k])' = Kept(compactor.files[k])
    BY <1>1, MergedFilesStay
<1>3. /\ MergedRows' = MergedRows
      /\ CompactedFilename(compactor.files)' = CompactedFilename(compactor.files)
    BY <1>1, MergedFilesStay
<1>4. \A k \in DOMAIN compactor.files :
          compactor.md[compactor.files[k]].erased \subseteq md'[compactor.files[k]].erased
    BY <1>1, <1>2 DEF Merged
<1>5. \A k \in DOMAIN compactor.files :
          \A i \in Kept(compactor.files[k])' : Content(compactor.files[k])'[i] # Null
    BY <1>1, <1>2 DEF Merged
<1>6. compactor.pc # "merging" =>
          /\ compactor.content = MergedRows'
          /\ \E k \in DOMAIN compactor.files : Kept(compactor.files[k])' # {}
    BY <1>1, <1>2, <1>3 DEF Merged
<1>. QED
    BY <1>1, <1>3, <1>4, <1>5, <1>6 DEF Merged

-----------------------------------------------------------------------------
(* The rows in the files: the statements                                   *)

\* The file a statement adds, and those it finds.
LEMMA WrittenFiles ==
    ASSUME CompactionInv, RowsInv, Immutable, NEW n, NEW D, NEW E, Written(n, D, E),
           NEW b, b = BatchFile(lastTx + 1)
    PROVE  /\ \A f \in DOMAIN md : /\ Content(f)' = Content(f) /\ f # b
                                  /\ f \in DOMAIN md' /\ md[f].erased \subseteq md'[f].erased
           /\ n \in 0 .. MaxRows
           /\ n # 0 => /\ DOMAIN md' = DOMAIN md \cup {b}
                       /\ md'[b] = [deleted |-> {}, erased |-> {}, size |-> n]
                       /\ Content(b)' = Rows(n)
                       /\ DOMAIN Rows(n) = 1 .. n
                       /\ \A k \in 1 .. n : Rows(n)[k] = <<lastTx + 1, k>>
           /\ n = 0 => DOMAIN md' = DOMAIN md
<1>1. b \notin FilesInUse
    BY FreshBatch DEF CompactionInv
<1>2. \A f \in DOMAIN md : Content(f)' = Content(f) /\ f # b
    BY <1>1, ContentStays DEF CompactionInv, FilesInUse
<1>3. \/ n = 0 /\ DOMAIN md' = DOMAIN md /\ UNCHANGED objects
      \/ /\ n \in 1 .. MaxRows
         /\ DOMAIN md' = DOMAIN md \cup {b}
         /\ md'[b] = FileMd(n)
         /\ objects' = With(objects, b, Rows(n))
    BY DEF Written
<1>4. n \in 0 .. MaxRows
    BY <1>3, CompactionAssumption
<1>5. ASSUME n # 0
      PROVE  /\ DOMAIN md' = DOMAIN md \cup {b}
             /\ md'[b] = [deleted |-> {}, erased |-> {}, size |-> n]
             /\ Content(b)' = Rows(n)
             /\ DOMAIN Rows(n) = 1 .. n
             /\ \A k \in 1 .. n : Rows(n)[k] = <<lastTx + 1, k>>
    <2>1. With(objects, b, Rows(n))[b] = Rows(n) /\ b \in DOMAIN With(objects, b, Rows(n))
        BY DEF With
    <2>2. objects'[b] = Rows(n) /\ b \in DOMAIN objects'
        BY <2>1, <1>3, <1>5
    <2>3. Content(b)' = Rows(n)
        BY <2>2 DEF Content
    <2>. QED
        BY <2>3, <1>3, <1>5 DEF FileMd, Rows
<1>6. n = 0 => DOMAIN md' = DOMAIN md
    BY <1>3
<1>7. ASSUME NEW f \in DOMAIN md
      PROVE  f \in DOMAIN md' /\ md[f].erased \subseteq md'[f].erased
    <2>1. PICK deleted, erased :
              md'[f] = [deleted |-> deleted, erased |-> md[f].erased \cup erased,
                        size |-> md[f].size]
        BY DEF Written
    <2>2. md'[f].erased = md[f].erased \cup erased
        BY <2>1
    <2>. QED
        BY <2>2 DEF Written
<1>. QED
    BY <1>2, <1>4, <1>5, <1>6, <1>7

\* The rows that are stored stay the rows there can be.
LEMMA WrittenContents ==
    ASSUME CompactionInv, RowsInv, NEW n, NEW D, NEW E, Written(n, D, E)
    PROVE  Contents'
<1>. DEFINE b == BatchFile(lastTx + 1)
<1>1. lastTx \in Nat /\ lastTx' = lastTx + 1 /\ lastTx + 1 <= MaxTx /\ MaxTx \in Nat
      /\ MaxRows \in Nat
    BY CompactionAssumption DEF CompactionInv, Names, Written
<1>2. StoredRow \subseteq StoredRow'
    <2>1. 1 .. lastTx \subseteq 1 .. lastTx'
        BY <1>1
    <2>. QED
        BY <2>1 DEF StoredRow, Row
<1>3. \A f \in DOMAIN objects : objects[f] \in Seq(StoredRow' \cup {Null})
    BY <1>2 DEF RowsInv, Contents
<1>4. DOMAIN objects \subseteq FileName'
    BY <1>1, NamesGrow DEF RowsInv, Contents
<1>5. CASE UNCHANGED objects
    BY <1>3, <1>5, <1>4 DEF Contents
<1>6. CASE n \in 1 .. MaxRows /\ objects' = With(objects, b, Rows(n))
    <2>1. \A k \in 1 .. n : <<lastTx + 1, k>> \in StoredRow'
        BY <1>1, <1>6 DEF StoredRow, Row
    <2>2. Rows(n) \in Seq(StoredRow' \cup {Null})
        BY <2>1, <1>6 DEF Rows
    <2>3. \A f \in DOMAIN With(objects, b, Rows(n)) :
              With(objects, b, Rows(n))[f] \in Seq(StoredRow' \cup {Null})
        BY <2>2, <1>3 DEF With
    <2>4. \A f \in DOMAIN objects' : objects'[f] \in Seq(StoredRow' \cup {Null})
        BY <2>3, <1>6
    <2>5. DOMAIN objects' = DOMAIN objects \cup {b}
        <3>1. DOMAIN With(objects, b, Rows(n)) = DOMAIN objects \cup {b}
            BY DEF With
        <3>. QED
            BY <3>1, <1>6
    <2>6. b \in FileName'
        <3>1. lastTx + 1 \in 1 .. lastTx'
            BY <1>1
        <3>. QED
            BY <3>1 DEF FileName, BatchFile
    <2>. HIDE DEF b
    <2>7. DOMAIN objects' \subseteq FileName'
        BY <2>5, <2>6, <1>4
    <2>. QED
        BY <2>4, <2>7 DEF Contents
<1>. QED
    BY <1>5, <1>6 DEF Written

\* The new rows are unlike any others, and where they are none is blank.
LEMMA WrittenGood ==
    ASSUME CompactionInv, RowsInv, Immutable, NEW n, NEW D, NEW E, Written(n, D, E)
    PROVE  Good(md)'
<1>0. PICK b : b = BatchFile(lastTx + 1)
    OBVIOUS
<1>. DEFINE C(f) == Content(f)'
<1>1. /\ \A f \in DOMAIN md : C(f) = Content(f) /\ f # b /\ md[f].erased \subseteq md'[f].erased
      /\ n # 0 => /\ C(b) = Rows(n) /\ DOMAIN Rows(n) = 1 .. n
                  /\ \A k \in 1 .. n : Rows(n)[k] = <<lastTx + 1, k>>
    BY <1>0, WrittenFiles
<1>2. lastTx \in Nat /\ Null \notin Nat \X Nat
    BY CompactionAssumption DEF CompactionInv, Names
<1>3. n \in 0 .. MaxRows /\ MaxRows \in Nat
    BY <1>0, WrittenFiles, CompactionAssumption
<1>4. ASSUME NEW f \in DOMAIN md, NEW i \in DOMAIN Content(f)
      PROVE  Content(f)[i] = Null \/ (Content(f)[i] # Null /\ Content(f)[i][1] # lastTx + 1)
    <2>1. Content(f)[i] = Null \/ (Content(f)[i] \in StoredRow /\ Content(f)[i] # Null)
        BY FileRows DEF RowsInv, FilesInUse
    <2>2. \A v \in StoredRow : v[1] # lastTx + 1
        BY <1>2 DEF StoredRow, Row
    <2>. QED
        BY <2>1, <2>2
<1>5. ASSUME n # 0
      PROVE  \A k \in DOMAIN C(b) : C(b)[k] = <<lastTx + 1, k>> /\ C(b)[k] # Null
    <2>1. \A k \in 1 .. n : <<lastTx + 1, k>> # Null
        BY <1>2, <1>3
    <2>. QED
        BY <2>1, <1>1, <1>5
<1>6. DOMAIN md' \subseteq DOMAIN md \cup {b} /\ (b \in DOMAIN md' => n # 0)
    <2>1. DOMAIN md' \subseteq DOMAIN md \cup {b}
        BY <1>0, WrittenFiles
    <2>2. n = 0 => DOMAIN md' = DOMAIN md
        BY <1>0, WrittenFiles
    <2>. QED
        BY <2>1, <2>2, <1>1
<1>. HIDE DEF C
<1>7. ASSUME NEW f \in DOMAIN md', NEW g \in DOMAIN md', NEW i \in DOMAIN C(f),
             NEW j \in DOMAIN C(g), C(f)[i] = C(g)[j]
      PROVE  C(f)[i] = Null \/ (f = g /\ i = j)
    <2>1. CASE f \in DOMAIN md /\ g \in DOMAIN md
        BY <2>1, <1>1, <1>7 DEF RowsInv, Good, Unique
    <2>2. CASE f \in DOMAIN md /\ g = b
        <3>1. C(g)[j] = <<lastTx + 1, j>>
            BY <2>2, <1>5, <1>6
        <3>2. C(f)[i][1] = lastTx + 1
            BY <3>1, <1>7
        <3>. QED
            BY <3>2, <2>2, <1>1, <1>4
    <2>3. CASE f = b /\ g \in DOMAIN md
        <3>1. C(f)[i] = <<lastTx + 1, i>> /\ C(f)[i] # Null
            BY <2>3, <1>5, <1>6
        <3>2. C(g)[j][1] = lastTx + 1 /\ C(g)[j] # Null
            BY <3>1, <1>7
        <3>. QED
            BY <3>2, <2>3, <1>1, <1>4
    <2>4. CASE f = b /\ g = b
        <3>1. C(f)[i] = <<lastTx + 1, i>> /\ C(g)[j] = <<lastTx + 1, j>>
            BY <2>4, <1>5, <1>6
        <3>. QED
            BY <3>1, <2>4, <1>7
    <2>. QED
        BY <2>1, <2>2, <2>3, <2>4, <1>6
<1>8. ASSUME NEW f \in DOMAIN md', NEW i \in DOMAIN C(f) \ md'[f].erased
      PROVE  C(f)[i] # Null
    <2>1. CASE f \in DOMAIN md
        <3>1. md[f].erased \subseteq md'[f].erased
            BY <2>1, <1>1
        <3>. QED
            BY <3>1, <2>1, <1>1, <1>8 DEF RowsInv, Good, Filled
    <2>2. CASE f = b
        BY <2>2, <1>5, <1>6, <1>8
    <2>. QED
        BY <2>1, <2>2, <1>6
<1>9. Unique(DOMAIN md)'
    BY <1>7 DEF C, Unique
<1>10. Filled(md)'
    BY <1>8 DEF C, Filled
<1>. QED
    BY <1>9, <1>10 DEF Good

\* The statement can see a row only if no entry ends it.
LEMMA VisibleHasNoEntry ==
    ASSUME CompactionInv, RowsInv, NEW p \in VisiblePlaces(md)
    PROVE  /\ p[1] \in DOMAIN md /\ p[2] \in DOMAIN Content(p[1]) \ md[p[1]].erased
           /\ \A e \in md[p[1]].deleted : e.row # p[2]
<1>1. p[1] \in DOMAIN md /\ p[2] \in DOMAIN Content(p[1]) \ md[p[1]].erased
    BY DEF VisiblePlaces, Places
<1>2. SystemTimeEnd(md[p[1]].deleted, p[2]) = Forever
    BY DEF VisiblePlaces
<1>3. Entries(p[1])
    BY <1>1 DEF RowsInv
<1>4. \A e \in md[p[1]].deleted : SystemTimeEnd(md[p[1]].deleted, e.row) = e.end /\ e.end \in Nat
    <2>1. \A d, e \in md[p[1]].deleted : d.row = e.row => d = e
        BY <1>3 DEF Entries
    <2>2. \A e \in md[p[1]].deleted : e.end \in 1 .. lastTx
        BY <1>3 DEF Entries
    <2>. QED
        BY <2>1, <2>2, EndOfRow DEF CompactionInv, Names
<1>. QED
    BY <1>1, <1>2, <1>4, CompactionAssumption

\* The entries of the files stay about rows they have, one for each.
LEMMA WrittenEntries ==
    ASSUME CompactionInv, RowsInv, Immutable, NEW n, NEW D, NEW E, Written(n, D, E)
    PROVE  \A f \in DOMAIN md' : Entries(f)'
<1>0. PICK b : b = BatchFile(lastTx + 1)
    OBVIOUS
<1>1. /\ lastTx \in Nat /\ lastTx' = lastTx + 1 /\ lastTx < MaxTx
      /\ MaxTx \in Nat /\ MaxRows \in Nat \ {0}
    BY CompactionAssumption DEF CompactionInv, Names, Written
<1>2. ASSUME NEW f \in DOMAIN md
      PROVE  Entries(f)'
    <2>. DEFINE new == {[row |-> p[2], end |-> lastTx + 1] : p \in {q \in D : q[1] = f}}
                gone == {p[2] : p \in {q \in E : q[1] = f}}
    <2>1. md'[f] = [deleted |-> md[f].deleted \cup new, erased |-> md[f].erased \cup gone,
                    size |-> md[f].size]
        BY DEF Written
    <2>2. Content(f)' = Content(f)
        BY <1>0, WrittenFiles
    <2>3. \A d \in new : \E p \in D : p[1] = f /\ d = [row |-> p[2], end |-> lastTx + 1]
        OBVIOUS
    <2>4. \A d \in new : /\ d = [row |-> d.row, end |-> lastTx + 1]
                         /\ d.row \in DOMAIN Content(f)
                         /\ \A e \in md[f].deleted : e.row # d.row
        <3>1. D \subseteq VisiblePlaces(md)
            BY DEF Written
        <3>2. \A p \in D : p[1] = f => /\ p[2] \in DOMAIN Content(f)
                                       /\ \A e \in md[f].deleted : e.row # p[2]
            BY <3>1, VisibleHasNoEntry
        <3>. QED
            BY <2>3, <3>2
    <2>5. gone \subseteq DOMAIN Content(f)
        <3>1. E \subseteq Places(md)
            BY DEF Written
        <3>2. \A p \in E : p[2] \in DOMAIN Content(p[1])
            BY <3>1 DEF Places
        <3>. QED
            BY <3>2
    <2>6. Entries(f)
        BY DEF RowsInv
    <2>. HIDE DEF new, gone
    <2>7. /\ md'[f].deleted = md[f].deleted \cup new
          /\ md'[f].erased = md[f].erased \cup gone
          /\ md'[f].size = md[f].size
        BY <2>1
    <2>8. md'[f] = [deleted |-> md'[f].deleted, erased |-> md'[f].erased, size |-> md'[f].size]
        BY <2>1, <2>7
    <2>9. md'[f].deleted \subseteq [row : DOMAIN Content(f), end : 1 .. lastTx']
        <3>1. 1 .. lastTx \subseteq 1 .. lastTx' /\ lastTx + 1 \in 1 .. lastTx'
            BY <1>1
        <3>2. md[f].deleted \subseteq [row : DOMAIN Content(f), end : 1 .. lastTx']
            BY <2>6, <3>1 DEF Entries
        <3>3. new \subseteq [row : DOMAIN Content(f), end : 1 .. lastTx']
            BY <2>4, <3>1
        <3>. QED
            BY <2>7, <3>2, <3>3
    <2>10. \A d, e \in md'[f].deleted : d.row = e.row => d = e
        <3>1. \A d, e \in md[f].deleted : d.row = e.row => d = e
            BY <2>6 DEF Entries
        <3>2. \A d, e \in new : d.row = e.row => d = e
            BY <2>4
        <3>3. \A d \in new : \A e \in md[f].deleted : e.row # d.row
            BY <2>4
        <3>. QED
            BY <2>7, <3>1, <3>2, <3>3
    <2>11. md'[f].erased \subseteq DOMAIN Content(f)
        BY <2>5, <2>6, <2>7 DEF Entries
    <2>12. md'[f].size \in 1 .. (MaxTx * MaxRows)
        BY <2>6, <2>7 DEF Entries
    <2>. QED
        BY <2>2, <2>8, <2>9, <2>10, <2>11, <2>12 DEF Entries
<1>3. ASSUME b \in DOMAIN md' PROVE Entries(b)'
    <2>1. n # 0 /\ n \in 0 .. MaxRows
        <3>1. \A f \in DOMAIN md : f # b
            BY <1>0, WrittenFiles
        <3>. QED
            BY <3>1, <1>0, <1>3, WrittenFiles
    <2>2. md'[b] = [deleted |-> {}, erased |-> {}, size |-> n]
        BY <2>1, <1>0, WrittenFiles
    <2>3. md'[b].deleted = {} /\ md'[b].erased = {} /\ md'[b].size = n
        BY <2>2
    <2>4. n \in 1 .. (MaxTx * MaxRows)
        <3>1. \A t, m \in Nat : t >= 1 => t * m >= m /\ t * m \in Nat
            OBVIOUS
        <3>2. MaxTx * MaxRows >= MaxRows /\ MaxTx * MaxRows \in Nat
            BY <3>1, <1>1
        <3>. QED
            BY <3>2, <2>1, <1>1
    <2>. QED
        BY <2>2, <2>3, <2>4 DEF Entries
<1>4. DOMAIN md' \subseteq DOMAIN md \cup {b}
    BY <1>0, WrittenFiles
<1>. QED
    BY <1>2, <1>3, <1>4

LEMMA WrittenKeepsRows ==
    ASSUME CompactionInv, RowsInv, Immutable, NEW n, NEW D, NEW E, Written(n, D, E)
    PROVE  RowsInv'
<1>1. UNCHANGED <<compactor, readers>>
    BY DEF Written
<1>2. (\A r \in Reader : Good(readers[r].md))' /\ Scans'
    BY <1>1, SnapshotsStay DEF RowsInv
<1>3. \A f \in DOMAIN md : f \in DOMAIN md' /\ md[f].erased \subseteq md'[f].erased
    BY WrittenFiles
<1>4. compactor.pc = "put" => objects'[CompactedFilename(compactor.files)] =
                              objects[CompactedFilename(compactor.files)]
    <2>. DEFINE F == CompactedFilename(compactor.files)
    <2>1. SUFFICES ASSUME compactor.pc = "put" PROVE objects'[F] = objects[F]
        OBVIOUS
    <2>2. F \in DOMAIN objects /\ F \in FileName
        BY <2>1, FreshName DEF CompactionInv, Merging, Merges
    <2>3. F # BatchFile(lastTx + 1)
        BY <2>2, FreshBatch DEF CompactionInv
    <2>. HIDE DEF F
    <2>4. With(objects, BatchFile(lastTx + 1), Rows(n))[F] = objects[F]
        BY <2>2, <2>3 DEF With
    <2>. QED
        BY <2>4 DEF Written
<1>5. Merged'
    BY <1>1, <1>3, <1>4, MergedStays DEF RowsInv
<1>6. Threads'
    BY <1>1 DEF RowsInv, Threads
<1>. QED
    BY <1>2, <1>5, <1>6, WrittenContents, WrittenGood, WrittenEntries DEF RowsInv

\* Adding to the entries of a file.
LEMMA EntriesAdded ==
    ASSUME NEW t, t = [deleted |-> t.deleted, erased |-> t.erased, size |-> t.size], NEW X
    PROVE  /\ [t EXCEPT !.deleted = @ \cup X] =
                  [deleted |-> t.deleted \cup X, erased |-> t.erased, size |-> t.size]
           /\ [t EXCEPT !.erased = @ \cup X] =
                  [deleted |-> t.deleted, erased |-> t.erased \cup X, size |-> t.size]
OBVIOUS

\* What a map of files is made of.
LEMMA FileShape ==
    ASSUME RowsInv, NEW f \in DOMAIN md
    PROVE  md[f] = [deleted |-> md[f].deleted, erased |-> md[f].erased, size |-> md[f].size]
BY DEF RowsInv, Entries

LEMMA InsertWrites ==
    ASSUME CompactionInv, RowsInv, NEW n \in 1 .. MaxRows, Insert(n)
    PROVE  Written(n, {}, {})
<1>1. PICK b : b = BatchFile(lastTx + 1)
    OBVIOUS
<1>2. /\ lastTx < MaxTx /\ lastTx' = lastTx + 1 /\ UNCHANGED <<compactor, readers>>
      /\ objects' = With(objects, b, Rows(n)) /\ md' = With(md, b, FileMd(n))
    BY <1>1 DEF Insert, Statement, Commit, WithRows
<1>3. b \notin DOMAIN md
    BY <1>1, FreshBatch DEF CompactionInv, FilesInUse
<1>4. DOMAIN md' = DOMAIN md \cup {b} /\ md'[b] = FileMd(n)
      /\ \A f \in DOMAIN md : md'[f] = md[f]
    <2>1. /\ DOMAIN With(md, b, FileMd(n)) = DOMAIN md \cup {b}
          /\ With(md, b, FileMd(n))[b] = FileMd(n)
          /\ \A f \in DOMAIN md : With(md, b, FileMd(n))[f] = md[f]
        BY <1>3 DEF With
    <2>. QED
        BY <2>1, <1>2
<1>5. ASSUME NEW f \in DOMAIN md
      PROVE  md'[f] = [deleted |-> md[f].deleted \cup
                                   {[row |-> p[2], end |-> lastTx + 1] : p \in {q \in {} : q[1] = f}},
                       erased |-> md[f].erased \cup {p[2] : p \in {q \in {} : q[1] = f}},
                       size |-> md[f].size]
    <2>1. /\ {[row |-> p[2], end |-> lastTx + 1] : p \in {q \in {} : q[1] = f}} = {}
          /\ {p[2] : p \in {q \in {} : q[1] = f}} = {}
        OBVIOUS
    <2>2. md'[f] = [deleted |-> md[f].deleted \cup {}, erased |-> md[f].erased \cup {},
                    size |-> md[f].size]
        <3>1. md[f].deleted \cup {} = md[f].deleted /\ md[f].erased \cup {} = md[f].erased
            OBVIOUS
        <3>. QED
            BY <3>1, <1>4, FileShape
    <2>. QED
        BY <2>1, <2>2
<1>. QED
    BY <1>1, <1>2, <1>4, <1>5 DEF Written

LEMMA DeleteWrites ==
    ASSUME CompactionInv, RowsInv, NEW P \in Some(VisiblePlaces(md)), Delete(P)
    PROVE  Written(0, P, {})
<1>1. /\ lastTx < MaxTx /\ lastTx' = lastTx + 1 /\ UNCHANGED <<compactor, readers, objects>>
      /\ md' = WithDeleted(md, P)
    BY DEF Delete, Statement, Commit
<1>2. DOMAIN md' = DOMAIN md
    BY <1>1, SameFiles
<1>3. ASSUME NEW f \in DOMAIN md
      PROVE  md'[f] = [deleted |-> md[f].deleted \cup
                                   {[row |-> p[2], end |-> lastTx + 1] : p \in {q \in P : q[1] = f}},
                       erased |-> md[f].erased \cup {p[2] : p \in {q \in {} : q[1] = f}},
                       size |-> md[f].size]
    <2>. DEFINE new == {[row |-> p[2], end |-> lastTx + 1] : p \in {q \in P : q[1] = f}}
    <2>1. md[f].erased \cup {p[2] : p \in {q \in {} : q[1] = f}} = md[f].erased
        OBVIOUS
    <2>2. WithDeleted(md, P)[f] = [md[f] EXCEPT !.deleted = @ \cup new]
        BY DEF WithDeleted
    <2>. HIDE DEF new
    <2>3. WithDeleted(md, P)[f] = [deleted |-> md[f].deleted \cup new, erased |-> md[f].erased,
                                   size |-> md[f].size]
        BY <2>2, FileShape, EntriesAdded
    <2>. QED
        BY <2>1, <2>3, <1>1 DEF new
<1>. QED
    BY <1>1, <1>2, <1>3 DEF Written, Some

LEMMA EraseWrites ==
    ASSUME CompactionInv, RowsInv, NEW P \in Some(Places(md)), Erase(P)
    PROVE  Written(0, {}, P)
<1>1. /\ lastTx < MaxTx /\ lastTx' = lastTx + 1 /\ UNCHANGED <<compactor, readers, objects>>
      /\ md' = WithErased(md, P)
    BY DEF Erase, Statement, Commit
<1>2. DOMAIN md' = DOMAIN md
    BY <1>1, SameFiles
<1>3. ASSUME NEW f \in DOMAIN md
      PROVE  md'[f] = [deleted |-> md[f].deleted \cup
                                   {[row |-> p[2], end |-> lastTx + 1] : p \in {q \in {} : q[1] = f}},
                       erased |-> md[f].erased \cup {p[2] : p \in {q \in P : q[1] = f}},
                       size |-> md[f].size]
    <2>. DEFINE gone == {p[2] : p \in {q \in P : q[1] = f}}
    <2>1. md[f].deleted \cup {[row |-> p[2], end |-> lastTx + 1] : p \in {q \in {} : q[1] = f}} =
          md[f].deleted
        OBVIOUS
    <2>2. WithErased(md, P)[f] = [md[f] EXCEPT !.erased = @ \cup gone]
        BY DEF WithErased
    <2>. HIDE DEF gone
    <2>3. WithErased(md, P)[f] = [deleted |-> md[f].deleted, erased |-> md[f].erased \cup gone,
                                  size |-> md[f].size]
        BY <2>2, FileShape, EntriesAdded
    <2>. QED
        BY <2>1, <2>3, <1>1 DEF gone
<1>. QED
    BY <1>1, <1>2, <1>3 DEF Written, Some

LEMMA UpdateWrites ==
    ASSUME CompactionInv, RowsInv, NEW P \in Some(VisiblePlaces(md)), Update(P)
    PROVE  Written(Cardinality(P), P, {})
<1>1. PICK b, n : b = BatchFile(lastTx + 1) /\ n = Cardinality(P)
    OBVIOUS
<1>2. /\ lastTx < MaxTx /\ lastTx' = lastTx + 1 /\ UNCHANGED <<compactor, readers>>
      /\ objects' = With(objects, b, Rows(n))
      /\ md' = WithDeleted(With(md, b, FileMd(n)), P)
    BY <1>1 DEF Update, Statement, Commit, WithRows
<1>3. P \subseteq VisiblePlaces(md) /\ n \in 1 .. MaxRows
    BY <1>1 DEF Some
<1>4. b \notin DOMAIN md
    BY <1>1, FreshBatch DEF CompactionInv, FilesInUse
<1>5. \A p \in P : p[1] # b
    BY <1>3, <1>4 DEF VisiblePlaces, Places
<1>6. /\ DOMAIN With(md, b, FileMd(n)) = DOMAIN md \cup {b}
      /\ With(md, b, FileMd(n))[b] = FileMd(n)
      /\ \A f \in DOMAIN md : With(md, b, FileMd(n))[f] = md[f]
    BY <1>4 DEF With
<1>7. DOMAIN md' = DOMAIN md \cup {b}
    BY <1>2, <1>6, SameFiles
<1>8. ASSUME NEW f \in DOMAIN md
      PROVE  md'[f] = [deleted |-> md[f].deleted \cup
                                   {[row |-> p[2], end |-> lastTx + 1] : p \in {q \in P : q[1] = f}},
                       erased |-> md[f].erased \cup {p[2] : p \in {q \in {} : q[1] = f}},
                       size |-> md[f].size]
    <2>. DEFINE new == {[row |-> p[2], end |-> lastTx + 1] : p \in {q \in P : q[1] = f}}
    <2>1. md[f].erased \cup {p[2] : p \in {q \in {} : q[1] = f}} = md[f].erased
        OBVIOUS
    <2>2. md'[f] = [With(md, b, FileMd(n))[f] EXCEPT !.deleted = @ \cup new]
        BY <1>2, <1>6 DEF WithDeleted
    <2>. HIDE DEF new
    <2>3. md'[f] = [md[f] EXCEPT !.deleted = @ \cup new]
        BY <2>2, <1>6
    <2>4. md'[f] = [deleted |-> md[f].deleted \cup new, erased |-> md[f].erased,
                    size |-> md[f].size]
        BY <2>3, FileShape, EntriesAdded
    <2>. QED
        BY <2>1, <2>4 DEF new
<1>9. md'[b] = FileMd(n)
    <2>. DEFINE new == {[row |-> p[2], end |-> lastTx + 1] : p \in {q \in P : q[1] = b}}
    <2>1. md'[b] = [FileMd(n) EXCEPT !.deleted = @ \cup new]
        BY <1>2, <1>6 DEF WithDeleted
    <2>2. new = {}
        BY <1>5
    <2>. HIDE DEF new
    <2>. QED
        BY <2>1, <2>2 DEF FileMd
<1>. QED
    BY <1>1, <1>2, <1>3, <1>7, <1>8, <1>9 DEF Written

-----------------------------------------------------------------------------
(* The rows in the files: the compaction thread                            *)

\* Two of the files to merge are two files.
LEMMA SortedDistinct ==
    ASSUME Names, NEW S \in SUBSET DOMAIN md, Cardinality(S) > 1, NEW files \in Sorted(S)
    PROVE  \A j, k \in DOMAIN files : files[j] = files[k] => j = k
<1>1. files \in Seq(DOMAIN md)
    BY SortedFiles
<1>2. \A j, k \in DOMAIN files : j < k => Before(files[j], files[k])
    BY DEF Sorted
<1>3. ASSUME NEW f \in DOMAIN md PROVE ~Before(f, f)
    <2>1. PICK a \in 1 .. lastTx, b \in 1 .. lastTx : f = <<a, b>>
        BY DEF Names, FileName
    <2>. QED
        BY <2>1 DEF Before, Names
<1>4. DOMAIN files \subseteq Nat /\ \A k \in DOMAIN files : files[k] \in DOMAIN md
    BY <1>1
<1>5. ASSUME NEW j \in DOMAIN files, NEW k \in DOMAIN files, files[j] = files[k], j # k
      PROVE  FALSE
    <2>1. j < k \/ k < j
        BY <1>4, <1>5
    <2>. QED
        BY <2>1, <1>2, <1>3, <1>4, <1>5
<1>. QED
    BY <1>5

\* A step that touches neither the table nor the objects changes no row.
LEMMA TableStays ==
    ASSUME CompactionInv, RowsInv, UNCHANGED <<lastTx, md, objects>>
    PROVE  Contents' /\ Good(md)' /\ \A f \in DOMAIN md' : Entries(f)'
<1>1. \A f : Content(f)' = Content(f)
    BY DEF Content
<1>2. Contents'
    BY DEF RowsInv, Contents, StoredRow, Row, FileName
<1>3. Good(md)'
    BY <1>1 DEF RowsInv, Good, Unique, Filled
<1>4. ASSUME NEW f \in DOMAIN md PROVE Entries(f)'
    BY <1>1 DEF RowsInv, Entries
<1>. QED
    BY <1>2, <1>3, <1>4

LEMMA StartCompactionKeepsRows ==
    ASSUME CompactionInv, RowsInv, Immutable, StartCompaction
    PROVE  RowsInv'
<1>1. PICK S \in FilesToCompact(md) :
          /\ Cardinality(S) > 1
          /\ \E files \in Sorted(S) :
                 compactor' = [pc |-> "merging", md |-> md, files |-> files, content |-> <<>>]
    BY DEF StartCompaction
<1>2. PICK files \in Sorted(S) :
          compactor' = [pc |-> "merging", md |-> md, files |-> files, content |-> <<>>]
    BY <1>1
<1>3. UNCHANGED <<lastTx, md, objects, readers>>
    BY DEF StartCompaction
<1>4. S \in SUBSET DOMAIN md
    BY DEF FilesToCompact
<1>5. compactor'.pc = "merging" /\ compactor'.md = md /\ compactor'.files = files
    BY <1>2
<1>6. \A j, k \in DOMAIN files : files[j] = files[k] => j = k
    BY <1>1, <1>4, SortedDistinct DEF CompactionInv
<1>7. \A k \in DOMAIN files : files[k] \in DOMAIN md
    <2>1. files \in Seq(DOMAIN md)
        BY <1>1, <1>4, SortedFiles DEF CompactionInv
    <2>. QED
        BY <2>1
<1>8. \A k \in DOMAIN files : \A i \in Kept(files[k])' : Content(files[k])'[i] # Null
    <2>1. \A f : Kept(f)' = DOMAIN Content(f) \ md[f].erased /\ Content(f)' = Content(f)
        BY <1>3, <1>5 DEF Kept, Content
    <2>. QED
        BY <2>1, <1>7 DEF RowsInv, Good, Filled
<1>9. Merged'
    BY <1>3, <1>5, <1>6, <1>8 DEF Merged
<1>10. Threads'
    BY <1>5 DEF Threads
<1>11. (\A r \in Reader : Good(readers[r].md))' /\ Scans'
    BY <1>3, SnapshotsStay DEF RowsInv
<1>. QED
    BY <1>3, <1>9, <1>10, <1>11, TableStays DEF RowsInv

LEMMA MergeKeepsRows ==
    ASSUME CompactionInv, RowsInv, Immutable, Merge
    PROVE  RowsInv'
<1>. DEFINE pc == IF \A k \in DOMAIN compactor.files : Kept(compactor.files[k]) = {}
                  THEN "dead" ELSE "merged"
<1>1. UNCHANGED <<lastTx, md, objects, readers>> /\ compactor.pc \in Merges
    BY DEF Merge, Merges
<1>2. compactor' = [compactor EXCEPT !.pc = pc, !.content = MergedRows]
    BY DEF Merge
<1>3. pc \in {"dead", "merged"}
      /\ (pc = "merged" => \E k \in DOMAIN compactor.files : Kept(compactor.files[k]) # {})
    OBVIOUS
<1>. HIDE DEF pc
<1>4. compactor = [pc |-> compactor.pc, md |-> compactor.md,
                   files |-> compactor.files, content |-> compactor.content]
    BY DEF CompactionInv, Shapes
<1>5. compactor' = [pc |-> pc, md |-> compactor.md, files |-> compactor.files,
                    content |-> MergedRows]
    BY <1>2, <1>4
<1>6. /\ compactor'.pc = pc /\ compactor'.files = compactor.files
      /\ compactor'.md = compactor.md /\ compactor'.content = MergedRows
    BY <1>5
<1>7. /\ \A k \in DOMAIN compactor.files :
             /\ Content(compactor.files[k])' = Content(compactor.files[k])
             /\ Kept(compactor.files[k])' = Kept(compactor.files[k])
      /\ MergedRows' = MergedRows
    BY <1>1, <1>6, MergedFilesStay
<1>8. Merged'
    <2>1. \A j, k \in DOMAIN compactor.files : compactor.files[j] = compactor.files[k] => j = k
        BY <1>1 DEF RowsInv, Merged
    <2>2. \A k \in DOMAIN compactor.files :
              /\ compactor.md[compactor.files[k]].erased \subseteq md'[compactor.files[k]].erased
              /\ \A i \in Kept(compactor.files[k])' : Content(compactor.files[k])'[i] # Null
        BY <1>1, <1>7 DEF RowsInv, Merged
    <2>3. pc = "merged" => \E k \in DOMAIN compactor.files : Kept(compactor.files[k])' # {}
        BY <1>3, <1>7
    <2>4. pc # "merging" /\ pc # "put" /\ (pc \in Merges => pc = "merged")
        BY <1>3 DEF Merges
    <2>. QED
        BY <2>1, <2>2, <2>3, <2>4, <1>6, <1>7 DEF Merged, Merges
<1>9. Threads'
    BY <1>3, <1>6 DEF Threads
<1>10. (\A r \in Reader : Good(readers[r].md))' /\ Scans'
    BY <1>1, SnapshotsStay DEF RowsInv
<1>. QED
    BY <1>1, <1>8, <1>9, <1>10, TableStays DEF RowsInv

\* The rows of the merged files in the merged one.
LEMMA MergedElements ==
    ASSUME CompactionInv, RowsInv, compactor.pc \in Merges
    PROVE  /\ MergedRows \in Seq(StoredRow \cup {Null})
           /\ \A k \in DOMAIN compactor.files : \A i \in DOMAIN Content(compactor.files[k]) :
                  /\ Offset(k) + i \in DOMAIN MergedRows
                  /\ i \in Kept(compactor.files[k]) =>
                         MergedRows[Offset(k) + i] = Content(compactor.files[k])[i]
                  /\ i \notin Kept(compactor.files[k]) => MergedRows[Offset(k) + i] = Null
           /\ \A m \in DOMAIN MergedRows :
                  \E k \in DOMAIN compactor.files : \E i \in DOMAIN Content(compactor.files[k]) :
                      m = Offset(k) + i
           /\ \A k, l \in DOMAIN compactor.files :
                  \A i \in DOMAIN Content(compactor.files[k]) :
                  \A j \in DOMAIN Content(compactor.files[l]) :
                      Offset(k) + i = Offset(l) + j => k = l /\ i = j
           /\ \A k \in DOMAIN compactor.files : Offset(k) \in Nat
<1>1. PICK files : files = compactor.files
    OBVIOUS
<1>2. files \in Seq(DOMAIN md)
    BY <1>1 DEF CompactionInv, Merging
<1>3. DOMAIN files = 1 .. Len(files) /\ Len(files) \in Nat
      /\ \A k \in DOMAIN files : files[k] \in DOMAIN md
    BY <1>2
<1>. DEFINE V == StoredRow \cup {Null}
            blanked == [k \in DOMAIN files |-> Blanked(files[k])]
            contents == [k \in DOMAIN files |-> Content(files[k])]
<1>4. ASSUME NEW k \in DOMAIN files
      PROVE  /\ Blanked(files[k]) \in Seq(V)
             /\ DOMAIN Blanked(files[k]) = DOMAIN Content(files[k])
             /\ \A i \in DOMAIN Content(files[k]) :
                    /\ i \in Kept(files[k]) => Blanked(files[k])[i] = Content(files[k])[i]
                    /\ i \notin Kept(files[k]) => Blanked(files[k])[i] = Null
    <2>1. /\ Content(files[k]) \in Seq(V) /\ Len(Content(files[k])) \in Nat
          /\ DOMAIN Content(files[k]) = 1 .. Len(Content(files[k]))
        BY <1>3, FileRows DEF RowsInv, FilesInUse
    <2>2. \A i \in 1 .. Len(Content(files[k])) : Content(files[k])[i] \in V
        BY <2>1
    <2>. HIDE DEF V
    <2>3. Null \in V
        BY DEF V
    <2>4. /\ DOMAIN Blanked(files[k]) = 1 .. Len(Content(files[k]))
          /\ \A i \in DOMAIN Content(files[k]) :
                 /\ i \in Kept(files[k]) => Blanked(files[k])[i] = Content(files[k])[i]
                 /\ i \notin Kept(files[k]) => Blanked(files[k])[i] = Null
        BY <2>1 DEF Blanked
    <2>5. \A i \in 1 .. Len(Content(files[k])) : Blanked(files[k])[i] \in V
        BY <2>1, <2>2, <2>3, <2>4
    <2>6. Blanked(files[k]) = [i \in 1 .. Len(Content(files[k])) |-> Blanked(files[k])[i]]
        BY <2>1 DEF Blanked
    <2>7. Blanked(files[k]) \in Seq(V)
        BY <2>1, <2>5, <2>6
    <2>. QED
        BY <2>1, <2>4, <2>7
<1>. HIDE DEF V
<1>5. blanked \in Seq(Seq(V)) /\ DOMAIN blanked = DOMAIN files
      /\ \A k \in DOMAIN files : blanked[k] = Blanked(files[k])
    BY <1>3, <1>4
<1>6. MergedRows = Joined(blanked)
    BY <1>1 DEF MergedRows
<1>7. ASSUME NEW k \in DOMAIN files PROVE Offset(k) = Upto(blanked, k - 1)
    <2>1. \A j \in 1 .. k - 1 : j \in DOMAIN files
        BY <1>3
    <2>2. \A j \in 1 .. k - 1 : DOMAIN blanked[j] = DOMAIN contents[j]
        BY <2>1, <1>4
    <2>. HIDE DEF blanked, contents
    <2>3. UNION {{j} \X DOMAIN blanked[j] : j \in 1 .. k - 1} =
          UNION {{j} \X DOMAIN contents[j] : j \in 1 .. k - 1}
        BY <2>2
    <2>4. Upto(blanked, k - 1) = Upto(contents, k - 1)
        BY <2>3 DEF Upto
    <2>. QED
        BY <2>4, <1>1 DEF Offset, contents
<1>. HIDE DEF blanked, contents
<1>8. ASSUME NEW k \in DOMAIN files PROVE Offset(k) \in Nat
    <2>1. Len(blanked) \in Nat /\ DOMAIN blanked = 1 .. Len(blanked)
        BY <1>5
    <2>2. k - 1 \in 0 .. Len(blanked)
        BY <2>1, <1>5
    <2>. QED
        BY <2>2, <1>5, <1>7, UptoGrows
<1>9. MergedRows \in Seq(V)
    BY <1>5, <1>6, JoinedElements
<1>10. ASSUME NEW k \in DOMAIN files, NEW i \in DOMAIN Content(files[k])
       PROVE  /\ Offset(k) + i \in DOMAIN MergedRows
              /\ MergedRows[Offset(k) + i] = Blanked(files[k])[i]
    <2>1. k \in DOMAIN blanked /\ i \in DOMAIN blanked[k]
        BY <1>4, <1>5
    <2>2. /\ Upto(blanked, k - 1) + i \in DOMAIN Joined(blanked)
          /\ Joined(blanked)[Upto(blanked, k - 1) + i] = blanked[k][i]
        BY <2>1, <1>5, JoinedElements
    <2>. QED
        BY <2>2, <1>5, <1>6, <1>7
<1>11. ASSUME NEW m \in DOMAIN MergedRows
       PROVE  \E k \in DOMAIN files : \E i \in DOMAIN Content(files[k]) : m = Offset(k) + i
    <2>1. PICK k \in DOMAIN blanked :
              \E i \in DOMAIN blanked[k] : m = Upto(blanked, k - 1) + i
        BY <1>5, <1>6, JoinedElements
    <2>. QED
        BY <2>1, <1>4, <1>5, <1>7
<1>12. ASSUME NEW k \in DOMAIN files, NEW l \in DOMAIN files,
              NEW i \in DOMAIN Content(files[k]), NEW j \in DOMAIN Content(files[l]),
              Offset(k) + i = Offset(l) + j
       PROVE  k = l /\ i = j
    <2>1. k \in DOMAIN blanked /\ l \in DOMAIN blanked
          /\ i \in DOMAIN blanked[k] /\ j \in DOMAIN blanked[l]
        BY <1>4, <1>5
    <2>2. Upto(blanked, k - 1) + i = Upto(blanked, l - 1) + j
        BY <1>7, <1>12
    <2>. QED
        BY <2>1, <2>2, <1>5, JoinedElements
<1>. QED
    <2>1. MergedRows \in Seq(StoredRow \cup {Null})
        BY <1>9 DEF V
    <2>2. \A k \in DOMAIN files : \A i \in DOMAIN Content(files[k]) :
              /\ Offset(k) + i \in DOMAIN MergedRows
              /\ i \in Kept(files[k]) => MergedRows[Offset(k) + i] = Content(files[k])[i]
              /\ i \notin Kept(files[k]) => MergedRows[Offset(k) + i] = Null
        BY <1>4, <1>10
    <2>. QED
        BY <2>1, <2>2, <1>1, <1>8, <1>11, <1>12

LEMMA PutMergedKeepsRows ==
    ASSUME CompactionInv, RowsInv, Immutable, PutMerged
    PROVE  RowsInv'
<1>1. /\ UNCHANGED <<lastTx, md, readers>> /\ compactor.pc = "merged" /\ compactor.pc \in Merges
      /\ objects' = With(objects, CompactedFilename(compactor.files), compactor.content)
    BY DEF PutMerged, Merges
<1>2. compactor = [pc |-> compactor.pc, md |-> compactor.md,
                   files |-> compactor.files, content |-> compactor.content]
    BY DEF CompactionInv, Shapes
<1>3. compactor' = [pc |-> "put", md |-> compactor.md, files |-> compactor.files,
                    content |-> compactor.content]
    BY <1>2 DEF PutMerged
<1>4. /\ compactor'.pc = "put" /\ compactor'.files = compactor.files
      /\ compactor'.md = compactor.md /\ compactor'.content = compactor.content
    BY <1>3
<1>5. compactor.content = MergedRows
      /\ \E k \in DOMAIN compactor.files : Kept(compactor.files[k]) # {}
    BY <1>1 DEF RowsInv, Merged
<1>6. /\ \A k \in DOMAIN compactor.files :
             /\ Content(compactor.files[k])' = Content(compactor.files[k])
             /\ Kept(compactor.files[k])' = Kept(compactor.files[k])
      /\ MergedRows' = MergedRows
      /\ CompactedFilename(compactor.files)' = CompactedFilename(compactor.files)
    BY <1>1, <1>4, MergedFilesStay
<1>7. Contents'
    <2>1. compactor.content \in Seq(StoredRow \cup {Null})
        BY <1>1, <1>5, MergedElements
    <2>2. \A f \in DOMAIN With(objects, CompactedFilename(compactor.files), compactor.content) :
              With(objects, CompactedFilename(compactor.files), compactor.content)[f]
                  \in Seq(StoredRow \cup {Null})
        BY <2>1 DEF With, RowsInv, Contents
    <2>3. \A f \in DOMAIN objects' : objects'[f] \in Seq(StoredRow \cup {Null})
        BY <2>2, <1>1
    <2>4. StoredRow' = StoredRow
        BY <1>1 DEF StoredRow, Row
    <2>5. DOMAIN objects' \subseteq FileName'
        <3>1. CompactedFilename(compactor.files) \in FileName
            BY <1>1, FreshName DEF CompactionInv
        <3>2. DOMAIN objects' = DOMAIN objects \cup {CompactedFilename(compactor.files)}
            BY <1>1 DEF With
        <3>3. FileName' = FileName
            BY <1>1 DEF FileName
        <3>. QED
            BY <3>1, <3>2, <3>3 DEF RowsInv, Contents
    <2>. QED
        BY <2>3, <2>4, <2>5 DEF Contents
<1>8. \A f \in DOMAIN md : Content(f)' = Content(f)
    BY ContentStays DEF CompactionInv, FilesInUse
<1>9. Good(md)'
    BY <1>1, <1>8 DEF RowsInv, Good, Unique, Filled
<1>10. ASSUME NEW f \in DOMAIN md PROVE Entries(f)'
    BY <1>1, <1>8 DEF RowsInv, Entries
<1>11. objects'[CompactedFilename(compactor.files)] = compactor.content
    <2>1. With(objects, CompactedFilename(compactor.files), compactor.content)
              [CompactedFilename(compactor.files)] = compactor.content
        BY DEF With
    <2>. QED
        BY <2>1, <1>1
<1>12. Merged'
    <2>1. \A j, k \in DOMAIN compactor.files : compactor.files[j] = compactor.files[k] => j = k
        BY <1>1 DEF RowsInv, Merged
    <2>2. \A k \in DOMAIN compactor.files :
              /\ compactor.md[compactor.files[k]].erased \subseteq md'[compactor.files[k]].erased
              /\ \A i \in Kept(compactor.files[k])' : Content(compactor.files[k])'[i] # Null
        BY <1>1, <1>6 DEF RowsInv, Merged
    <2>3. \E k \in DOMAIN compactor.files : Kept(compactor.files[k])' # {}
        BY <1>5, <1>6
    <2>. QED
        BY <2>1, <2>2, <2>3, <1>4, <1>5, <1>6, <1>11 DEF Merged, CompactedFilename
<1>13. Threads'
    BY <1>4 DEF Threads
<1>14. (\A r \in Reader : Good(readers[r].md))' /\ Scans'
    BY <1>1, SnapshotsStay DEF RowsInv
<1>. QED
    BY <1>1, <1>7, <1>9, <1>10, <1>12, <1>13, <1>14 DEF RowsInv

\* A row of the merged file is a row of one place of one of the files.
LEMMA MergedOrigin ==
    ASSUME CompactionInv, RowsInv, compactor.pc \in Merges,
           NEW m \in DOMAIN MergedRows, MergedRows[m] # Null
    PROVE  \E k \in DOMAIN compactor.files : \E i \in DOMAIN Content(compactor.files[k]) :
               /\ compactor.files[k] \in DOMAIN md
               /\ m = Offset(k) + i
               /\ MergedRows[m] = Content(compactor.files[k])[i]
<1>1. PICK k \in DOMAIN compactor.files :
          \E i \in DOMAIN Content(compactor.files[k]) : m = Offset(k) + i
    BY MergedElements
<1>2. PICK i \in DOMAIN Content(compactor.files[k]) : m = Offset(k) + i
    BY <1>1
<1>3. MergedRows[m] = Content(compactor.files[k])[i]
    BY <1>2, MergedElements
<1>4. compactor.files[k] \in DOMAIN md
    BY DEF CompactionInv, Merging
<1>. QED
    BY <1>2, <1>3, <1>4

LEMMA MergedUnique ==
    ASSUME CompactionInv, RowsInv, compactor.pc \in Merges,
           NEW m \in DOMAIN MergedRows, NEW l \in DOMAIN MergedRows,
           MergedRows[m] = MergedRows[l], MergedRows[m] # Null
    PROVE  m = l
<1>1. PICK k \in DOMAIN compactor.files :
          \E i \in DOMAIN Content(compactor.files[k]) :
              /\ compactor.files[k] \in DOMAIN md
              /\ m = Offset(k) + i
              /\ MergedRows[m] = Content(compactor.files[k])[i]
    BY MergedOrigin
<1>2. PICK i \in DOMAIN Content(compactor.files[k]) :
          m = Offset(k) + i /\ MergedRows[m] = Content(compactor.files[k])[i]
    BY <1>1
<1>3. PICK n \in DOMAIN compactor.files :
          \E j \in DOMAIN Content(compactor.files[n]) :
              /\ compactor.files[n] \in DOMAIN md
              /\ l = Offset(n) + j
              /\ MergedRows[l] = Content(compactor.files[n])[j]
    BY MergedOrigin
<1>4. PICK j \in DOMAIN Content(compactor.files[n]) :
          l = Offset(n) + j /\ MergedRows[l] = Content(compactor.files[n])[j]
    BY <1>3
<1>5. Content(compactor.files[k])[i] = Content(compactor.files[n])[j]
      /\ Content(compactor.files[k])[i] # Null
    BY <1>2, <1>4
<1>6. compactor.files[k] = compactor.files[n] /\ i = j
    BY <1>1, <1>3, <1>5 DEF RowsInv, Good, Unique
<1>7. k = n
    BY <1>6 DEF RowsInv, Merged
<1>. QED
    BY <1>2, <1>4, <1>6, <1>7

\* There are some rows to merge, and no more than there are rows at all.
LEMMA MergedSize ==
    ASSUME CompactionInv, RowsInv, compactor.pc = "put"
    PROVE  Cardinality({m \in DOMAIN compactor.content : compactor.content[m] # Null})
               \in 1 .. (MaxTx * MaxRows)
<1>. DEFINE N == {m \in DOMAIN MergedRows : MergedRows[m] # Null}
            R == (1 .. MaxTx) \X (1 .. MaxRows)
<1>1. compactor.content = MergedRows /\ compactor.pc \in Merges
      /\ \E k \in DOMAIN compactor.files : Kept(compactor.files[k]) # {}
    BY DEF RowsInv, Merged, Merges
<1>2. StoredRow \subseteq R
    BY CompactionAssumption DEF CompactionInv, Names, StoredRow, Row
<1>3. \A m \in N : MergedRows[m] \in R
    <2>1. MergedRows \in Seq(StoredRow \cup {Null})
        BY <1>1, MergedElements
    <2>2. \A m \in DOMAIN MergedRows : MergedRows[m] \in StoredRow \cup {Null}
        BY <2>1
    <2>. QED
        BY <2>2, <1>2
<1>4. \A m, l \in N : MergedRows[m] = MergedRows[l] => m = l
    BY <1>1, MergedUnique
<1>5. N # {}
    <2>1. PICK k \in DOMAIN compactor.files : Kept(compactor.files[k]) # {}
        BY <1>1
    <2>2. PICK i : i \in Kept(compactor.files[k])
        BY <2>1
    <2>3. i \in DOMAIN Content(compactor.files[k]) /\ Content(compactor.files[k])[i] # Null
        BY <2>2, <1>1 DEF Kept, RowsInv, Merged
    <2>4. /\ Offset(k) + i \in DOMAIN MergedRows
          /\ MergedRows[Offset(k) + i] = Content(compactor.files[k])[i]
        BY <2>2, <2>3, <1>1, MergedElements
    <2>. QED
        BY <2>3, <2>4
<1>6. IsFiniteSet(R) /\ Cardinality(R) = MaxTx * MaxRows
    <2>1. /\ IsFiniteSet(1 .. MaxTx) /\ Cardinality(1 .. MaxTx) = MaxTx
          /\ IsFiniteSet(1 .. MaxRows) /\ Cardinality(1 .. MaxRows) = MaxRows
        BY CompactionAssumption, FS_Interval
    <2>2. /\ IsFiniteSet(R)
          /\ Cardinality(R) = Cardinality(1 .. MaxTx) * Cardinality(1 .. MaxRows)
        <3>1. PICK S, T : S = 1 .. MaxTx /\ T = 1 .. MaxRows
            OBVIOUS
        <3>2. IsFiniteSet(S) /\ IsFiniteSet(T)
            BY <2>1, <3>1
        <3>3. IsFiniteSet(S \X T) /\ Cardinality(S \X T) = Cardinality(S) * Cardinality(T)
            BY <3>2, FS_Product
        <3>. QED
            BY <3>1, <3>3
    <2>. HIDE DEF R
    <2>. QED
        BY <2>1, <2>2
<1>. HIDE DEF N, R
<1>7. [m \in N |-> MergedRows[m]] \in Injection(N, R)
    BY <1>3, <1>4 DEF Injection, IsInjective
<1>8. IsFiniteSet(N) /\ Cardinality(N) <= Cardinality(R)
    BY <1>6, <1>7, FS_Injection
<1>9. Cardinality(N) \in Nat /\ Cardinality(N) # 0
    BY <1>5, <1>8, FS_CardinalityType, FS_EmptySet
<1>10. MaxTx * MaxRows \in Nat
    BY CompactionAssumption
<1>11. Cardinality(N) \in 1 .. (MaxTx * MaxRows)
    BY <1>6, <1>8, <1>9, <1>10
<1>. QED
    BY <1>1, <1>11 DEF N

\* What the exchange does to the table.
LEMMA Exchanged ==
    ASSUME CompactionInv, RowsInv, CompactFiles,
           NEW F, F = CompactedFilename(compactor.files)
    PROVE  /\ compactor.pc = "put" /\ compactor.pc \in Merges
           /\ compactor' = Idle /\ UNCHANGED <<objects, readers>>
           /\ lastTx \in Nat /\ lastTx' = lastTx + 1
           /\ F \notin DOMAIN md
           /\ \A k \in DOMAIN compactor.files : compactor.files[k] \in DOMAIN md
           /\ \A f : f \in DOMAIN md' <=>
                         \/ f = F
                         \/ f \in DOMAIN md /\ \A k \in DOMAIN compactor.files : f # compactor.files[k]
           /\ \A f \in DOMAIN md :
                  (\A k \in DOMAIN compactor.files : f # compactor.files[k]) => md'[f] = md[f]
           /\ md'[F] = CompactedMd
           /\ Content(F) = MergedRows
           /\ \A f : Content(f)' = Content(f)
<1>. DEFINE T == ToSet(compactor.files)
<1>1. /\ compactor.pc = "put" /\ compactor.pc \in Merges
      /\ compactor' = Idle /\ UNCHANGED <<objects, readers>> /\ lastTx' = lastTx + 1
      /\ md' = WithoutFiles(With(md, F, CompactedMd), T)
    BY DEF CompactFiles, Commit, Merges
<1>2. F \notin DOMAIN md
    BY <1>1, FreshName DEF CompactionInv, FilesInUse
<1>3. \A k \in DOMAIN compactor.files : compactor.files[k] \in DOMAIN md
    BY <1>1 DEF CompactionInv, Merging
<1>4. \A f : f \in T <=> \E k \in DOMAIN compactor.files : f = compactor.files[k]
    BY DEF ToSet
<1>. HIDE DEF T
<1>5. F \notin T
    BY <1>2, <1>3, <1>4
<1>6. /\ DOMAIN With(md, F, CompactedMd) = DOMAIN md \cup {F}
      /\ \A f \in DOMAIN md : With(md, F, CompactedMd)[f] = md[f]
      /\ With(md, F, CompactedMd)[F] = CompactedMd
    BY <1>2 DEF With
<1>7. /\ DOMAIN md' = (DOMAIN md \cup {F}) \ T
      /\ \A f \in DOMAIN md \ T : md'[f] = md[f]
      /\ md'[F] = CompactedMd
    BY <1>1, <1>5, <1>6 DEF WithoutFiles
<1>8. \A f : Content(f)' = Content(f)
    BY <1>1 DEF Content
<1>9. Content(F) = MergedRows
    <2>1. F \in DOMAIN objects
        BY <1>1 DEF CompactionInv, Merging
    <2>2. objects[F] = compactor.content /\ compactor.content = MergedRows
        BY <1>1 DEF RowsInv, Merged
    <2>. QED
        BY <2>1, <2>2 DEF Content
<1>10. \A f : f \in DOMAIN md' <=>
                  \/ f = F
                  \/ f \in DOMAIN md /\ \A k \in DOMAIN compactor.files : f # compactor.files[k]
    BY <1>4, <1>5, <1>7
<1>11. \A f \in DOMAIN md :
           (\A k \in DOMAIN compactor.files : f # compactor.files[k]) => md'[f] = md[f]
    BY <1>4, <1>7
<1>12. lastTx \in Nat
    BY DEF CompactionInv, Names
<1>. QED
    BY <1>1, <1>2, <1>3, <1>7, <1>8, <1>9, <1>10, <1>11, <1>12

\* The entries of the files are carried over with the places of their rows.
LEMMA Carried ==
    ASSUME CompactionInv, RowsInv, compactor.pc \in Merges
    PROVE  /\ \A d \in CarriedDeleted :
                  \E k \in DOMAIN compactor.files : \E e \in md[compactor.files[k]].deleted :
                      d = [row |-> Offset(k) + e.row, end |-> e.end]
           /\ \A k \in DOMAIN compactor.files : \A e \in md[compactor.files[k]].deleted :
                  /\ [row |-> Offset(k) + e.row, end |-> e.end] \in CarriedDeleted
                  /\ e.row \in DOMAIN Content(compactor.files[k]) /\ e.end \in 1 .. lastTx
           /\ \A k \in DOMAIN compactor.files : \A d, e \in md[compactor.files[k]].deleted :
                  d.row = e.row => d = e
           /\ \A m \in CarriedErased :
                  \E k \in DOMAIN compactor.files : \E i \in md[compactor.files[k]].erased :
                      m = Offset(k) + i
           /\ \A k \in DOMAIN compactor.files : \A i \in md[compactor.files[k]].erased :
                  /\ Offset(k) + i \in CarriedErased
                  /\ i \in DOMAIN Content(compactor.files[k])
<1>1. \A k \in DOMAIN compactor.files : compactor.files[k] \in DOMAIN md
    BY DEF CompactionInv, Merging
<1>2. ASSUME NEW k \in DOMAIN compactor.files
      PROVE  /\ \A e \in md[compactor.files[k]].deleted :
                    /\ e = [row |-> e.row, end |-> e.end]
                    /\ e.row \in DOMAIN Content(compactor.files[k]) /\ e.end \in 1 .. lastTx
             /\ \A d, e \in md[compactor.files[k]].deleted : d.row = e.row => d = e
             /\ md[compactor.files[k]].erased \subseteq DOMAIN Content(compactor.files[k])
    <2>1. Entries(compactor.files[k])
        BY <1>1 DEF RowsInv
    <2>2. md[compactor.files[k]].deleted \subseteq
              [row : DOMAIN Content(compactor.files[k]), end : 1 .. lastTx]
        BY <2>1 DEF Entries
    <2>. QED
        BY <2>1, <2>2 DEF Entries
<1>. DEFINE Moved(k, e) == [e EXCEPT !.row = Offset(k) + @]
<1>3. CarriedDeleted =
          UNION {{Moved(k, e) : e \in md[compactor.files[k]].deleted} : k \in DOMAIN compactor.files}
    BY DEF CarriedDeleted
<1>4. ASSUME NEW k \in DOMAIN compactor.files, NEW e \in md[compactor.files[k]].deleted
      PROVE  Moved(k, e) = [row |-> Offset(k) + e.row, end |-> e.end]
    <2>1. e = [row |-> e.row, end |-> e.end]
        BY <1>2
    <2>. QED
        BY <2>1
<1>. HIDE DEF Moved
<1>5. ASSUME NEW d \in CarriedDeleted
      PROVE  \E k \in DOMAIN compactor.files : \E e \in md[compactor.files[k]].deleted :
                 d = [row |-> Offset(k) + e.row, end |-> e.end]
    BY <1>3, <1>4
<1>6. ASSUME NEW k \in DOMAIN compactor.files, NEW e \in md[compactor.files[k]].deleted
      PROVE  [row |-> Offset(k) + e.row, end |-> e.end] \in CarriedDeleted
    BY <1>3, <1>4
<1>7. \A m \in CarriedErased :
          \E k \in DOMAIN compactor.files : \E i \in md[compactor.files[k]].erased :
              m = Offset(k) + i
    BY DEF CarriedErased
<1>8. \A k \in DOMAIN compactor.files : \A i \in md[compactor.files[k]].erased :
          Offset(k) + i \in CarriedErased
    BY DEF CarriedErased
<1>. QED
    BY <1>2, <1>5, <1>6, <1>7, <1>8

\* Each row of a merged file has its place in the new one, and there the
\* entries of the old one, those that were made during the merge included.
LEMMA ExchangedRows ==
    ASSUME CompactionInv, RowsInv, CompactFiles,
           NEW F, F = CompactedFilename(compactor.files),
           NEW k \in DOMAIN compactor.files, NEW i \in DOMAIN Content(compactor.files[k])
    PROVE  /\ Offset(k) + i \in DOMAIN Content(F)
           /\ i \notin md[compactor.files[k]].erased =>
                  Content(F)[Offset(k) + i] = Content(compactor.files[k])[i]
           /\ Offset(k) + i \in md'[F].erased <=> i \in md[compactor.files[k]].erased
           /\ SystemTimeEnd(md'[F].deleted, Offset(k) + i) =
                  SystemTimeEnd(md[compactor.files[k]].deleted, i)
<1>1. /\ compactor.pc \in Merges /\ md'[F] = CompactedMd /\ Content(F) = MergedRows
      /\ lastTx \in Nat
    BY Exchanged
<1>2. md'[F].erased = CarriedErased /\ md'[F].deleted = CarriedDeleted
    BY <1>1 DEF CompactedMd
<1>3. Offset(k) + i \in DOMAIN Content(F)
    BY <1>1, MergedElements
<1>4. ASSUME i \notin md[compactor.files[k]].erased
      PROVE  Content(F)[Offset(k) + i] = Content(compactor.files[k])[i]
    <2>1. i \in Kept(compactor.files[k])
        BY <1>1, <1>4 DEF Kept, RowsInv, Merged
    <2>. QED
        BY <2>1, <1>1, MergedElements
<1>5. \A l \in DOMAIN compactor.files : \A j \in DOMAIN Content(compactor.files[l]) :
          Offset(l) + j = Offset(k) + i => l = k /\ j = i
    BY <1>1, MergedElements
<1>6. Offset(k) + i \in CarriedErased <=> i \in md[compactor.files[k]].erased
    <2>1. ASSUME Offset(k) + i \in CarriedErased PROVE i \in md[compactor.files[k]].erased
        <3>1. PICK l \in DOMAIN compactor.files :
                  \E j \in md[compactor.files[l]].erased : Offset(k) + i = Offset(l) + j
            BY <1>1, <2>1, Carried
        <3>2. PICK j \in md[compactor.files[l]].erased : Offset(k) + i = Offset(l) + j
            BY <3>1
        <3>3. j \in DOMAIN Content(compactor.files[l])
            BY <1>1, Carried
        <3>. QED
            BY <3>2, <3>3, <1>5
    <2>2. i \in md[compactor.files[k]].erased => Offset(k) + i \in CarriedErased
        BY <1>1, Carried
    <2>. QED
        BY <2>1, <2>2
<1>. DEFINE old == md[compactor.files[k]].deleted
<1>7. \A d, e \in old : d.row = e.row => d = e
    BY <1>1, Carried
<1>8. \A d \in CarriedDeleted :
          d.row = Offset(k) + i => \E e \in old : e.row = i /\ d = [row |-> Offset(k) + i, end |-> e.end]
    <2>1. SUFFICES ASSUME NEW d \in CarriedDeleted, d.row = Offset(k) + i
                   PROVE  \E e \in old : e.row = i /\ d = [row |-> Offset(k) + i, end |-> e.end]
        OBVIOUS
    <2>2. PICK l \in DOMAIN compactor.files :
              \E e \in md[compactor.files[l]].deleted :
                  d = [row |-> Offset(l) + e.row, end |-> e.end]
        BY <1>1, Carried
    <2>3. PICK e \in md[compactor.files[l]].deleted :
              d = [row |-> Offset(l) + e.row, end |-> e.end]
        BY <2>2
    <2>4. e.row \in DOMAIN Content(compactor.files[l])
        BY <1>1, Carried
    <2>5. d.row = Offset(l) + e.row
        BY <2>3
    <2>6. l = k /\ e.row = i
        BY <2>1, <2>4, <2>5, <1>5
    <2>. QED
        BY <2>3, <2>6
<1>9. \A e \in old : e.row = i => [row |-> Offset(k) + i, end |-> e.end] \in CarriedDeleted
    BY <1>1, Carried
<1>. HIDE DEF old
<1>10. SystemTimeEnd(CarriedDeleted, Offset(k) + i) = SystemTimeEnd(old, i)
    <2>1. CASE \E e \in old : e.row = i
        <3>1. PICK e \in old : e.row = i
            BY <2>1
        <3>2. SystemTimeEnd(old, i) = e.end
            BY <3>1, <1>7, EndOfRow
        <3>. DEFINE d == [row |-> Offset(k) + i, end |-> e.end]
        <3>3. d \in CarriedDeleted /\ d.row = Offset(k) + i /\ d.end = e.end
            BY <3>1, <1>9
        <3>. HIDE DEF d
        <3>4. \A c \in CarriedDeleted : c.row = Offset(k) + i => c = d
            <4>1. \A c \in CarriedDeleted :
                      c.row = Offset(k) + i => c = [row |-> Offset(k) + i, end |-> e.end]
                BY <3>1, <1>7, <1>8
            <4>. QED
                BY <4>1 DEF d
        <3>5. (CHOOSE c \in CarriedDeleted : c.row = Offset(k) + i) = d
            BY <3>3, <3>4
        <3>6. SystemTimeEnd(CarriedDeleted, Offset(k) + i) = d.end
            BY <3>3, <3>5 DEF SystemTimeEnd
        <3>. QED
            BY <3>2, <3>3, <3>6
    <2>2. CASE \A e \in old : e.row # i
        <3>1. \A d \in CarriedDeleted : d.row # Offset(k) + i
            BY <2>2, <1>8
        <3>2. SystemTimeEnd(CarriedDeleted, Offset(k) + i) = Forever
            BY <3>1 DEF SystemTimeEnd
        <3>3. SystemTimeEnd(old, i) = Forever
            BY <2>2 DEF SystemTimeEnd
        <3>. QED
            BY <3>2, <3>3
    <2>. QED
        BY <2>1, <2>2
<1>. QED
    BY <1>2, <1>3, <1>4, <1>6, <1>10 DEF old

\* No row of the new file is blank unless it is erased, nor elsewhere too.
LEMMA ExchangedGood ==
    ASSUME CompactionInv, RowsInv, CompactFiles
    PROVE  Good(md)'
<1>1. PICK F : F = CompactedFilename(compactor.files)
    OBVIOUS
<1>2. /\ compactor.pc \in Merges
      /\ F \notin DOMAIN md
      /\ \A k \in DOMAIN compactor.files : compactor.files[k] \in DOMAIN md
      /\ \A f : f \in DOMAIN md' <=>
                    \/ f = F
                    \/ f \in DOMAIN md /\ \A k \in DOMAIN compactor.files : f # compactor.files[k]
      /\ \A f \in DOMAIN md :
             (\A k \in DOMAIN compactor.files : f # compactor.files[k]) => md'[f] = md[f]
      /\ Content(F) = MergedRows
      /\ \A f : Content(f)' = Content(f)
    BY <1>1, Exchanged
<1>3. \A f, g \in DOMAIN md : \A i \in DOMAIN Content(f) : \A j \in DOMAIN Content(g) :
          Content(f)[i] = Content(g)[j] => Content(f)[i] = Null \/ (f = g /\ i = j)
    BY DEF RowsInv, Good, Unique
<1>4. ASSUME NEW m \in DOMAIN Content(F), Content(F)[m] # Null
      PROVE  \E k \in DOMAIN compactor.files : \E i \in DOMAIN Content(compactor.files[k]) :
                 Content(F)[m] = Content(compactor.files[k])[i]
    BY <1>2, <1>4, MergedOrigin
<1>5. ASSUME NEW m \in DOMAIN Content(F), NEW l \in DOMAIN Content(F),
             Content(F)[m] = Content(F)[l], Content(F)[m] # Null
      PROVE  m = l
    BY <1>2, <1>5, MergedUnique
<1>6. ASSUME NEW m \in DOMAIN Content(F), Content(F)[m] # Null,
             NEW g \in DOMAIN md' \ {F}, NEW j \in DOMAIN Content(g)
      PROVE  Content(F)[m] # Content(g)[j]
    <2>1. PICK k \in DOMAIN compactor.files :
              \E i \in DOMAIN Content(compactor.files[k]) :
                  Content(F)[m] = Content(compactor.files[k])[i]
        BY <1>4, <1>6
    <2>2. g \in DOMAIN md /\ g # compactor.files[k]
        BY <1>2, <1>6
    <2>. QED
        BY <2>1, <2>2, <1>2, <1>3, <1>6
<1>7. ASSUME NEW f \in DOMAIN md', NEW g \in DOMAIN md',
             NEW i \in DOMAIN Content(f), NEW j \in DOMAIN Content(g),
             Content(f)[i] = Content(g)[j]
      PROVE  Content(f)[i] = Null \/ (f = g /\ i = j)
    <2>1. CASE f = F /\ g = F
        BY <2>1, <1>5, <1>7
    <2>2. CASE f = F /\ g # F
        BY <2>2, <1>6, <1>7
    <2>3. CASE f # F /\ g = F
        BY <2>3, <1>6, <1>7
    <2>4. CASE f # F /\ g # F
        BY <2>4, <1>2, <1>3, <1>7
    <2>. QED
        BY <2>1, <2>2, <2>3, <2>4
<1>8. ASSUME NEW f \in DOMAIN md', NEW m \in DOMAIN Content(f) \ md'[f].erased
      PROVE  Content(f)[m] # Null
    <2>1. CASE f = F
        <3>1. PICK k \in DOMAIN compactor.files :
                  \E i \in DOMAIN Content(compactor.files[k]) : m = Offset(k) + i
            BY <2>1, <1>2, <1>8, MergedElements
        <3>2. PICK i \in DOMAIN Content(compactor.files[k]) : m = Offset(k) + i
            BY <3>1
        <3>3. i \notin md[compactor.files[k]].erased
            BY <2>1, <3>2, <1>1, <1>8, ExchangedRows
        <3>4. Content(F)[m] = Content(compactor.files[k])[i]
            BY <3>2, <3>3, <1>1, ExchangedRows
        <3>. QED
            BY <2>1, <3>3, <3>4, <1>2 DEF RowsInv, Good, Filled
    <2>2. CASE f # F
        BY <2>2, <1>2, <1>8 DEF RowsInv, Good, Filled
    <2>. QED
        BY <2>1, <2>2
<1>9. Unique(DOMAIN md)'
    BY <1>2, <1>7 DEF Unique
<1>10. Filled(md)'
    BY <1>2, <1>8 DEF Filled
<1>. QED
    BY <1>9, <1>10 DEF Good

LEMMA ExchangedEntries ==
    ASSUME CompactionInv, RowsInv, CompactFiles
    PROVE  \A f \in DOMAIN md' : Entries(f)'
<1>1. PICK F : F = CompactedFilename(compactor.files)
    OBVIOUS
<1>2. /\ compactor.pc = "put" /\ compactor.pc \in Merges
      /\ lastTx \in Nat /\ lastTx' = lastTx + 1
      /\ \A f : f \in DOMAIN md' <=>
                    \/ f = F
                    \/ f \in DOMAIN md /\ \A k \in DOMAIN compactor.files : f # compactor.files[k]
      /\ \A f \in DOMAIN md :
             (\A k \in DOMAIN compactor.files : f # compactor.files[k]) => md'[f] = md[f]
      /\ md'[F] = CompactedMd
      /\ Content(F) = MergedRows
      /\ \A f : Content(f)' = Content(f)
    BY <1>1, Exchanged
<1>3. 1 .. lastTx \subseteq 1 .. lastTx'
    BY <1>2
<1>4. ASSUME NEW f \in DOMAIN md, md'[f] = md[f] PROVE Entries(f)'
    <2>1. Entries(f)
        BY DEF RowsInv
    <2>2. md[f].deleted \subseteq [row : DOMAIN Content(f), end : 1 .. lastTx']
        BY <2>1, <1>3 DEF Entries
    <2>. QED
        BY <2>1, <2>2, <1>2, <1>4 DEF Entries
<1>5. Entries(F)'
    <2>1. md'[F] = [deleted |-> CarriedDeleted, erased |-> CarriedErased,
                    size |-> Cardinality({m \in DOMAIN compactor.content :
                                              compactor.content[m] # Null})]
        BY <1>2 DEF CompactedMd
    <2>2. /\ md'[F].deleted = CarriedDeleted /\ md'[F].erased = CarriedErased
          /\ md'[F].size \in 1 .. (MaxTx * MaxRows)
        BY <2>1, <1>2, MergedSize
    <2>3. md'[F] = [deleted |-> md'[F].deleted, erased |-> md'[F].erased, size |-> md'[F].size]
        BY <2>1
    <2>4. \A k \in DOMAIN compactor.files : \A i \in DOMAIN Content(compactor.files[k]) :
              Offset(k) + i \in DOMAIN Content(F)
        BY <1>2, MergedElements
    <2>5. CarriedDeleted \subseteq [row : DOMAIN Content(F), end : 1 .. lastTx']
        <3>1. SUFFICES ASSUME NEW d \in CarriedDeleted
                       PROVE  d \in [row : DOMAIN Content(F), end : 1 .. lastTx']
            OBVIOUS
        <3>2. PICK k \in DOMAIN compactor.files :
                  \E e \in md[compactor.files[k]].deleted :
                      d = [row |-> Offset(k) + e.row, end |-> e.end]
            BY <1>2, Carried
        <3>3. PICK e \in md[compactor.files[k]].deleted :
                  d = [row |-> Offset(k) + e.row, end |-> e.end]
            BY <3>2
        <3>4. e.row \in DOMAIN Content(compactor.files[k]) /\ e.end \in 1 .. lastTx
            BY <1>2, Carried
        <3>. QED
            BY <3>3, <3>4, <2>4, <1>3
    <2>6. ASSUME NEW c \in CarriedDeleted, NEW d \in CarriedDeleted, c.row = d.row
          PROVE  c = d
        <3>1. PICK k \in DOMAIN compactor.files :
                  \E e \in md[compactor.files[k]].deleted :
                      c = [row |-> Offset(k) + e.row, end |-> e.end]
            BY <1>2, Carried
        <3>2. PICK e \in md[compactor.files[k]].deleted :
                  c = [row |-> Offset(k) + e.row, end |-> e.end]
            BY <3>1
        <3>3. PICK l \in DOMAIN compactor.files :
                  \E b \in md[compactor.files[l]].deleted :
                      d = [row |-> Offset(l) + b.row, end |-> b.end]
            BY <1>2, Carried
        <3>4. PICK b \in md[compactor.files[l]].deleted :
                  d = [row |-> Offset(l) + b.row, end |-> b.end]
            BY <3>3
        <3>5. /\ e.row \in DOMAIN Content(compactor.files[k])
              /\ b.row \in DOMAIN Content(compactor.files[l])
            BY <1>2, Carried
        <3>6. c.row = Offset(k) + e.row /\ d.row = Offset(l) + b.row
            BY <3>2, <3>4
        <3>7. Offset(k) + e.row = Offset(l) + b.row
            BY <3>6, <2>6
        <3>8. k = l /\ e.row = b.row
            BY <3>5, <3>7, <1>2, MergedElements
        <3>9. e = b
            BY <3>8, <1>2, Carried
        <3>. QED
            BY <3>2, <3>4, <3>8, <3>9
    <2>7. CarriedErased \subseteq DOMAIN Content(F)
        <3>1. \A m \in CarriedErased :
                  \E k \in DOMAIN compactor.files : \E i \in md[compactor.files[k]].erased :
                      m = Offset(k) + i
            BY <1>2, Carried
        <3>2. \A k \in DOMAIN compactor.files :
                  md[compactor.files[k]].erased \subseteq DOMAIN Content(compactor.files[k])
            BY <1>2, Carried
        <3>. QED
            BY <3>1, <3>2, <2>4
    <2>. QED
        BY <2>2, <2>3, <2>5, <2>6, <2>7, <1>2 DEF Entries
<1>6. \A f \in DOMAIN md' : f = F \/ (f \in DOMAIN md /\ md'[f] = md[f])
    BY <1>2
<1>. QED
    BY <1>4, <1>5, <1>6

LEMMA CompactFilesKeepsRows ==
    ASSUME CompactionInv, RowsInv, Immutable, CompactFiles
    PROVE  RowsInv'
<1>1. /\ compactor' = Idle /\ UNCHANGED <<objects, readers>>
      /\ lastTx \in Nat /\ lastTx' = lastTx + 1
    BY Exchanged
<1>2. Contents'
    <2>1. 1 .. lastTx \subseteq 1 .. lastTx'
        BY <1>1
    <2>2. StoredRow \subseteq StoredRow'
        BY <2>1 DEF StoredRow, Row
    <2>3. FileName \subseteq FileName'
        BY <1>1, NamesGrow
    <2>. QED
        BY <2>2, <2>3, <1>1 DEF RowsInv, Contents
<1>3. (\A r \in Reader : Good(readers[r].md))' /\ Scans'
    BY <1>1, SnapshotsStay DEF RowsInv
<1>4. Merged' /\ Threads'
    BY <1>1 DEF Merged, Threads, Idle, Merges
<1>. QED
    BY <1>2, <1>3, <1>4, ExchangedGood, ExchangedEntries DEF RowsInv

-----------------------------------------------------------------------------
(* The rows in the files: the queries and a crash                          *)

\* A step of queries, each of which has a snapshot with rows to be read and
\* has seen the part it is done with.
LEMMA QueryKeepsRows ==
    ASSUME CompactionInv, RowsInv, UNCHANGED <<lastTx, md, objects>>, Merged', Threads',
           \A q \in Reader :
               \E snapshot, todo :
                   /\ readers'[q].md = snapshot /\ readers'[q].todo = todo
                   /\ Good(snapshot) /\ todo \subseteq DOMAIN snapshot
                   /\ readers'[q].seen = UNION {Scanned(snapshot, f) : f \in DOMAIN snapshot \ todo}
    PROVE  RowsInv'
<1>1. \A f : Content(f)' = Content(f)
    BY DEF Content
<1>2. ASSUME NEW q \in Reader
      PROVE  /\ Good(readers[q].md)'
             /\ readers'[q].todo \subseteq Files(q)'
             /\ readers'[q].seen =
                    UNION {Scanned(readers[q].md, f)' : f \in Files(q)' \ readers'[q].todo}
    <2>1. PICK snapshot, todo :
              /\ readers'[q].md = snapshot /\ readers'[q].todo = todo
              /\ Good(snapshot) /\ todo \subseteq DOMAIN snapshot
              /\ readers'[q].seen = UNION {Scanned(snapshot, f) : f \in DOMAIN snapshot \ todo}
        OBVIOUS
    <2>2. Good(readers[q].md)'
        BY <1>1, <2>1 DEF Good, Unique, Filled
    <2>3. \A f \in DOMAIN snapshot : Scanned(readers[q].md, f)' = Scanned(snapshot, f)
        BY <1>1, <2>1 DEF Scanned
    <2>4. Files(q)' = DOMAIN snapshot
        BY <2>1 DEF Files
    <2>. QED
        BY <2>1, <2>2, <2>3, <2>4
<1>3. Scans'
    BY <1>2 DEF Scans
<1>4. (\A r \in Reader : Good(readers[r].md))'
    BY <1>2
<1>. QED
    BY <1>3, <1>4, TableStays DEF RowsInv

\* A query that is left alone has what it had.
LEMMA SameQuery ==
    ASSUME RowsInv, NEW q \in Reader, readers'[q] = readers[q]
    PROVE  \E snapshot, todo :
               /\ readers'[q].md = snapshot /\ readers'[q].todo = todo
               /\ Good(snapshot) /\ todo \subseteq DOMAIN snapshot
               /\ readers'[q].seen = UNION {Scanned(snapshot, f) : f \in DOMAIN snapshot \ todo}
BY DEF RowsInv, Scans, Files

\* A query that does not read has an empty snapshot.
LEMMA NoQuery ==
    ASSUME NEW q, readers'[q] = NotReading
    PROVE  \E snapshot, todo :
               /\ readers'[q].md = snapshot /\ readers'[q].todo = todo
               /\ Good(snapshot) /\ todo \subseteq DOMAIN snapshot
               /\ readers'[q].seen = UNION {Scanned(snapshot, f) : f \in DOMAIN snapshot \ todo}
<1>1. readers'[q].md = <<>> /\ readers'[q].todo = {} /\ readers'[q].seen = {}
    BY DEF NotReading
<1>2. DOMAIN <<>> = {}
    OBVIOUS
<1>3. Good(<<>>)
    BY <1>2 DEF Good, Unique, Filled
<1>4. UNION {Scanned(<<>>, f) : f \in DOMAIN <<>> \ {}} = {}
    BY <1>2
<1>5. {} \subseteq DOMAIN <<>>
    OBVIOUS
<1>. QED
    BY <1>1, <1>3, <1>4, <1>5

\* The merge does not notice the queries.
LEMMA MergeUndisturbed ==
    ASSUME CompactionInv, RowsInv, UNCHANGED <<lastTx, md, objects, compactor>>
    PROVE  Merged' /\ Threads'
<1>1. Merged'
    BY NothingWritten, MergedStays DEF CompactionInv, RowsInv
<1>2. Threads'
    BY DEF RowsInv, Threads
<1>. QED
    BY <1>1, <1>2

LEMMA OpenKeepsRows ==
    ASSUME CompactionInv, RowsInv, NEW r \in Reader, Open(r)
    PROVE  RowsInv'
<1>1. UNCHANGED <<lastTx, md, objects, compactor>>
      /\ readers' = [readers EXCEPT ![r] = [open |-> TRUE, md |-> md,
                                            todo |-> DOMAIN md, seen |-> {}]]
    BY DEF Open
<1>2. DOMAIN readers = Reader
    BY DEF CompactionInv, Shapes
<1>3. readers'[r] = [open |-> TRUE, md |-> md, todo |-> DOMAIN md, seen |-> {}]
      /\ \A q \in Reader \ {r} : readers'[q] = readers[q]
    BY <1>1, <1>2
<1>4. \E snapshot, todo :
          /\ readers'[r].md = snapshot /\ readers'[r].todo = todo
          /\ Good(snapshot) /\ todo \subseteq DOMAIN snapshot
          /\ readers'[r].seen = UNION {Scanned(snapshot, f) : f \in DOMAIN snapshot \ todo}
    <2>1. readers'[r].md = md /\ readers'[r].todo = DOMAIN md /\ readers'[r].seen = {}
        BY <1>3
    <2>2. UNION {Scanned(md, f) : f \in DOMAIN md \ DOMAIN md} = {}
        OBVIOUS
    <2>3. Good(md) /\ DOMAIN md \subseteq DOMAIN md
        BY DEF RowsInv
    <2>. QED
        BY <2>1, <2>2, <2>3
<1>5. ASSUME NEW q \in Reader
      PROVE  \E snapshot, todo :
                 /\ readers'[q].md = snapshot /\ readers'[q].todo = todo
                 /\ Good(snapshot) /\ todo \subseteq DOMAIN snapshot
                 /\ readers'[q].seen = UNION {Scanned(snapshot, f) : f \in DOMAIN snapshot \ todo}
    <2>1. CASE q = r
        BY <2>1, <1>4
    <2>2. CASE q # r
        BY <2>2, <1>3, SameQuery
    <2>. QED
        BY <2>1, <2>2
<1>. QED
    BY <1>1, <1>5, MergeUndisturbed, QueryKeepsRows

LEMMA ScanKeepsRows ==
    ASSUME CompactionInv, RowsInv, NEW r \in Reader, Scan(r)
    PROVE  RowsInv'
<1>1. UNCHANGED <<lastTx, md, objects, compactor>>
    BY DEF Scan
<1>2. PICK f \in readers[r].todo :
          readers' = [readers EXCEPT ![r].todo = @ \ {f},
                                     ![r].seen = @ \cup Scanned(readers[r].md, f)]
    BY DEF Scan
<1>3. DOMAIN readers = Reader
      /\ readers[r] = [open |-> readers[r].open, md |-> readers[r].md,
                       todo |-> readers[r].todo, seen |-> readers[r].seen]
    BY DEF CompactionInv, Shapes
<1>4. \A q \in Reader \ {r} : readers'[q] = readers[q]
    BY <1>2, <1>3
<1>5. readers'[r] = [readers[r] EXCEPT !.todo = @ \ {f}, !.seen = @ \cup Scanned(readers[r].md, f)]
    BY <1>2, <1>3
<1>6. readers'[r] = [open |-> readers[r].open, md |-> readers[r].md,
                     todo |-> readers[r].todo \ {f},
                     seen |-> readers[r].seen \cup Scanned(readers[r].md, f)]
    BY <1>3, <1>5
<1>7. PICK snapshot : snapshot = readers[r].md
    OBVIOUS
<1>8. \E snap, todo :
          /\ readers'[r].md = snap /\ readers'[r].todo = todo
          /\ Good(snap) /\ todo \subseteq DOMAIN snap
          /\ readers'[r].seen = UNION {Scanned(snap, g) : g \in DOMAIN snap \ todo}
    <2>1. Good(snapshot) /\ readers[r].todo \subseteq DOMAIN snapshot
          /\ readers[r].seen = UNION {Scanned(snapshot, g) : g \in DOMAIN snapshot \ readers[r].todo}
        BY <1>7 DEF RowsInv, Scans, Files
    <2>2. DOMAIN snapshot \ (readers[r].todo \ {f}) = (DOMAIN snapshot \ readers[r].todo) \cup {f}
        BY <2>1
    <2>3. UNION {Scanned(snapshot, g) : g \in DOMAIN snapshot \ (readers[r].todo \ {f})} =
          readers[r].seen \cup Scanned(snapshot, f)
        BY <2>1, <2>2
    <2>4. /\ readers'[r].md = snapshot /\ readers'[r].todo = readers[r].todo \ {f}
          /\ readers'[r].seen = readers[r].seen \cup Scanned(snapshot, f)
        BY <1>6, <1>7
    <2>. QED
        BY <2>1, <2>3, <2>4
<1>9. ASSUME NEW q \in Reader
      PROVE  \E snap, todo :
                 /\ readers'[q].md = snap /\ readers'[q].todo = todo
                 /\ Good(snap) /\ todo \subseteq DOMAIN snap
                 /\ readers'[q].seen = UNION {Scanned(snap, g) : g \in DOMAIN snap \ todo}
    <2>1. CASE q = r
        BY <2>1, <1>8
    <2>2. CASE q # r
        BY <2>2, <1>4, SameQuery
    <2>. QED
        BY <2>1, <2>2
<1>. QED
    BY <1>1, <1>9, MergeUndisturbed, QueryKeepsRows

LEMMA CloseKeepsRows ==
    ASSUME CompactionInv, RowsInv, NEW r \in Reader, Close(r)
    PROVE  RowsInv'
<1>1. UNCHANGED <<lastTx, md, objects, compactor>>
      /\ readers' = [readers EXCEPT ![r] = NotReading]
    BY DEF Close
<1>2. DOMAIN readers = Reader
    BY DEF CompactionInv, Shapes
<1>3. readers'[r] = NotReading /\ \A q \in Reader \ {r} : readers'[q] = readers[q]
    BY <1>1, <1>2
<1>4. ASSUME NEW q \in Reader
      PROVE  \E snapshot, todo :
                 /\ readers'[q].md = snapshot /\ readers'[q].todo = todo
                 /\ Good(snapshot) /\ todo \subseteq DOMAIN snapshot
                 /\ readers'[q].seen = UNION {Scanned(snapshot, f) : f \in DOMAIN snapshot \ todo}
    <2>1. CASE q = r
        BY <2>1, <1>3, NoQuery
    <2>2. CASE q # r
        BY <2>2, <1>3, SameQuery
    <2>. QED
        BY <2>1, <2>2
<1>. QED
    BY <1>1, <1>4, MergeUndisturbed, QueryKeepsRows

LEMMA CrashKeepsRows ==
    ASSUME CompactionInv, RowsInv, Crash
    PROVE  RowsInv'
<1>1. UNCHANGED <<lastTx, md, objects>> /\ compactor' = Idle
      /\ \A q \in Reader : readers'[q] = NotReading
    BY DEF Crash
<1>2. Merged' /\ Threads'
    BY <1>1 DEF Merged, Threads, Idle, Merges
<1>. QED
    BY <1>1, <1>2, NoQuery, QueryKeepsRows

-----------------------------------------------------------------------------
LEMMA InitRows ==
    ASSUME Init
    PROVE  RowsInv
<1>1. /\ DOMAIN md = {} /\ DOMAIN objects = {} /\ compactor.pc = "idle"
      /\ \A r \in Reader : /\ DOMAIN readers[r].md = {} /\ readers[r].todo = {}
                           /\ readers[r].seen = {}
    BY DEF Init, Idle, NotReading
<1>2. Contents /\ Good(md) /\ (\A f \in DOMAIN md : Entries(f))
    BY <1>1 DEF Contents, Good, Unique, Filled
<1>3. \A r \in Reader : Good(readers[r].md)
    BY <1>1 DEF Good, Unique, Filled
<1>4. Scans
    BY <1>1 DEF Scans, Files
<1>5. Merged /\ Threads
    BY <1>1 DEF Merged, Threads, Merges
<1>. QED
    BY <1>2, <1>3, <1>4, <1>5 DEF RowsInv

LEMMA StutterKeepsRows ==
    ASSUME CompactionInv, RowsInv, UNCHANGED vars
    PROVE  RowsInv'
<1>1. UNCHANGED <<lastTx, md, objects, compactor>> /\ \A q \in Reader : readers'[q] = readers[q]
    BY DEF vars
<1>. QED
    BY <1>1, MergeUndisturbed, SameQuery, QueryKeepsRows

LEMMA NextKeepsRows ==
    ASSUME CompactionInv, RowsInv, [Next]_vars
    PROVE  RowsInv'
<1>0. Immutable
    BY NextKeepsInv
<1>1. CASE \E n \in 1 .. MaxRows : Insert(n)
    BY <1>0, <1>1, InsertWrites, WrittenKeepsRows
<1>2. CASE \E P \in Some(VisiblePlaces(md)) : Delete(P)
    BY <1>0, <1>2, DeleteWrites, WrittenKeepsRows
<1>3. CASE \E P \in Some(VisiblePlaces(md)) : Update(P)
    BY <1>0, <1>3, UpdateWrites, WrittenKeepsRows
<1>4. CASE \E P \in Some(Places(md)) : Erase(P)
    BY <1>0, <1>4, EraseWrites, WrittenKeepsRows
<1>5. CASE Compact
    BY <1>0, <1>5, StartCompactionKeepsRows, MergeKeepsRows, PutMergedKeepsRows,
       CompactFilesKeepsRows DEF Compact
<1>6. CASE \E r \in Reader : Open(r) \/ Scan(r) \/ Close(r)
    BY <1>6, OpenKeepsRows, ScanKeepsRows, CloseKeepsRows
<1>7. CASE Crash
    BY <1>7, CrashKeepsRows
<1>8. CASE UNCHANGED vars
    BY <1>8, StutterKeepsRows
<1>. QED
    BY <1>1, <1>2, <1>3, <1>4, <1>5, <1>6, <1>7, <1>8 DEF Next

-----------------------------------------------------------------------------
(* What follows of one state                                               *)

LEMMA Typed ==
    ASSUME CompactionInv, RowsInv
    PROVE  TypeOK
<1>1. lastTx \in Nat /\ DOMAIN md \subseteq FileName /\ DOMAIN objects \subseteq FileName
    BY DEF CompactionInv, Names, RowsInv, Contents
<1>2. ASSUME NEW f \in DOMAIN md
      PROVE  /\ md[f].deleted \subseteq Entry
             /\ md[f].erased \subseteq Nat
             /\ md[f].size \in 1 .. (MaxTx * MaxRows)
    <2>1. /\ md[f].deleted \subseteq [row : DOMAIN Content(f), end : 1 .. lastTx]
          /\ md[f].erased \subseteq DOMAIN Content(f)
          /\ md[f].size \in 1 .. (MaxTx * MaxRows)
        BY DEF RowsInv, Entries
    <2>2. DOMAIN Content(f) \subseteq Nat
        <3>1. f \in FilesInUse
            BY DEF FilesInUse
        <3>2. DOMAIN Content(f) = 1 .. Len(Content(f)) /\ Len(Content(f)) \in Nat
            BY <3>1, FileRows DEF RowsInv
        <3>. QED
            BY <3>2
    <2>. QED
        BY <2>1, <2>2 DEF Entry
<1>3. ASSUME NEW f \in DOMAIN objects PROVE objects[f] \in Seq(Row \cup {Null})
    <2>1. StoredRow \subseteq Row
        BY DEF StoredRow
    <2>2. StoredRow \cup {Null} \subseteq Row \cup {Null}
        BY <2>1
    <2>3. objects[f] \in Seq(StoredRow \cup {Null})
        BY DEF RowsInv, Contents
    <2>. QED
        BY <2>2, <2>3
<1>4. compactor.pc \in {"idle", "merging", "merged", "put", "dead"}
    BY DEF RowsInv, Threads
<1>5. \A r \in Reader : readers[r].todo \subseteq DOMAIN readers[r].md
    BY DEF RowsInv, Scans, Files
<1>. QED
    BY <1>1, <1>2, <1>3, <1>4, <1>5 DEF TypeOK

\* The rows of a table, file by file.
LEMMA RowsInFiles ==
    ASSUME NEW table
    PROVE  \A x : x \in RowsOf(table) <=>
                      \E f \in DOMAIN table : \E i \in DOMAIN Content(f) \ table[f].erased :
                          x = [row |-> Content(f)[i], end |-> SystemTimeEnd(table[f].deleted, i)]
<1>1. \A p : p \in Places(table) <=>
                 \E f \in DOMAIN table : \E i \in DOMAIN Content(f) \ table[f].erased : p = <<f, i>>
    BY DEF Places
<1>. DEFINE At(p) == [row |-> Content(p[1])[p[2]], end |-> SystemTimeEnd(table[p[1]].deleted, p[2])]
<1>2. \A x : x \in RowsOf(table) <=> \E p : p \in Places(table) /\ x = At(p)
    BY DEF RowsOf
<1>3. \A f, i : At(<<f, i>>) = [row |-> Content(f)[i], end |-> SystemTimeEnd(table[f].deleted, i)]
    OBVIOUS
<1>. HIDE DEF At
<1>4. ASSUME NEW x, x \in RowsOf(table)
      PROVE  \E f \in DOMAIN table : \E i \in DOMAIN Content(f) \ table[f].erased :
                 x = [row |-> Content(f)[i], end |-> SystemTimeEnd(table[f].deleted, i)]
    <2>1. PICK p : p \in Places(table) /\ x = At(p)
        BY <1>2, <1>4
    <2>2. PICK f \in DOMAIN table : \E i \in DOMAIN Content(f) \ table[f].erased : p = <<f, i>>
        BY <1>1, <2>1
    <2>3. PICK i \in DOMAIN Content(f) \ table[f].erased : p = <<f, i>>
        BY <2>2
    <2>4. x = At(<<f, i>>)
        BY <2>1, <2>3
    <2>. QED
        BY <1>3, <2>4
<1>5. ASSUME NEW x, NEW f \in DOMAIN table, NEW i \in DOMAIN Content(f) \ table[f].erased,
             x = [row |-> Content(f)[i], end |-> SystemTimeEnd(table[f].deleted, i)]
      PROVE  x \in RowsOf(table)
    <2>1. <<f, i>> \in Places(table)
        BY <1>1
    <2>2. x = At(<<f, i>>)
        BY <1>3, <1>5
    <2>. QED
        BY <1>2, <2>1, <2>2
<1>. QED
    BY <1>4, <1>5

\* After a step, too.
LEMMA RowsInNewFiles ==
    \A x : x \in RowsOf(md)' <=>
               \E f \in DOMAIN md' : \E i \in DOMAIN Content(f)' \ md'[f].erased :
                   x = [row |-> Content(f)'[i], end |-> SystemTimeEnd(md'[f].deleted, i)]
<1>1. \A p : p \in Places(md)' <=>
                 \E f \in DOMAIN md' : \E i \in DOMAIN Content(f)' \ md'[f].erased : p = <<f, i>>
    BY DEF Places
<1>. DEFINE At(p) == [row |-> Content(p[1])'[p[2]], end |-> SystemTimeEnd(md'[p[1]].deleted, p[2])]
<1>2. \A x : x \in RowsOf(md)' <=> \E p : p \in Places(md)' /\ x = At(p)
    BY DEF RowsOf
<1>3. \A f, i : At(<<f, i>>) = [row |-> Content(f)'[i], end |-> SystemTimeEnd(md'[f].deleted, i)]
    OBVIOUS
<1>. HIDE DEF At
<1>4. ASSUME NEW x, x \in RowsOf(md)'
      PROVE  \E f \in DOMAIN md' : \E i \in DOMAIN Content(f)' \ md'[f].erased :
                 x = [row |-> Content(f)'[i], end |-> SystemTimeEnd(md'[f].deleted, i)]
    <2>1. PICK p : p \in Places(md)' /\ x = At(p)
        BY <1>2, <1>4
    <2>2. PICK f \in DOMAIN md' : \E i \in DOMAIN Content(f)' \ md'[f].erased : p = <<f, i>>
        BY <1>1, <2>1
    <2>3. PICK i \in DOMAIN Content(f)' \ md'[f].erased : p = <<f, i>>
        BY <2>2
    <2>4. x = At(<<f, i>>)
        BY <2>1, <2>3
    <2>. QED
        BY <1>3, <2>4
<1>5. ASSUME NEW x, NEW f \in DOMAIN md', NEW i \in DOMAIN Content(f)' \ md'[f].erased,
             x = [row |-> Content(f)'[i], end |-> SystemTimeEnd(md'[f].deleted, i)]
      PROVE  x \in RowsOf(md)'
    <2>1. <<f, i>> \in Places(md)'
        BY <1>1
    <2>2. x = At(<<f, i>>)
        BY <1>3, <1>5
    <2>. QED
        BY <1>2, <2>1, <2>2
<1>. QED
    BY <1>4, <1>5

LEMMA SnapshotRead ==
    ASSUME RowsInv, NEW r \in Reader, readers[r].todo = {}
    PROVE  /\ \A s, t \in readers[r].seen : s.row = t.row => s = t
           /\ {[row |-> s.row, end |-> s.end] : s \in readers[r].seen} = RowsOf(readers[r].md)
<1>1. PICK table : table = readers[r].md
    OBVIOUS
<1>2. /\ readers[r].seen = UNION {Scanned(table, f) : f \in DOMAIN table}
      /\ Good(table)
    BY <1>1 DEF RowsInv, Scans, Files
<1>. DEFINE At(f, i) == [place |-> <<f, i>>, row |-> Content(f)[i],
                         end |-> SystemTimeEnd(table[f].deleted, i)]
<1>3. /\ \A s \in readers[r].seen :
             \E f \in DOMAIN table : \E i \in DOMAIN Content(f) \ table[f].erased : s = At(f, i)
      /\ \A f \in DOMAIN table : \A i \in DOMAIN Content(f) \ table[f].erased :
             At(f, i) \in readers[r].seen
    BY <1>2 DEF Scanned
<1>4. \A f, i : At(f, i).row = Content(f)[i] /\ At(f, i).end = SystemTimeEnd(table[f].deleted, i)
    OBVIOUS
<1>. HIDE DEF At
<1>5. ASSUME NEW s \in readers[r].seen, NEW t \in readers[r].seen, s.row = t.row
      PROVE  s = t
    <2>1. PICK f \in DOMAIN table : \E i \in DOMAIN Content(f) \ table[f].erased : s = At(f, i)
        BY <1>3
    <2>2. PICK i \in DOMAIN Content(f) \ table[f].erased : s = At(f, i)
        BY <2>1
    <2>3. PICK g \in DOMAIN table : \E j \in DOMAIN Content(g) \ table[g].erased : t = At(g, j)
        BY <1>3
    <2>4. PICK j \in DOMAIN Content(g) \ table[g].erased : t = At(g, j)
        BY <2>3
    <2>5. Content(f)[i] = Content(g)[j]
        BY <2>2, <2>4, <1>4, <1>5
    <2>6. f = g /\ i = j
        BY <2>5, <1>2 DEF Good, Unique, Filled
    <2>. QED
        BY <2>2, <2>4, <2>6
<1>6. \A x : x \in RowsOf(table) <=>
                 \E f \in DOMAIN table : \E i \in DOMAIN Content(f) \ table[f].erased :
                     x = [row |-> Content(f)[i], end |-> SystemTimeEnd(table[f].deleted, i)]
    BY RowsInFiles
<1>7. \A x : x \in {[row |-> s.row, end |-> s.end] : s \in readers[r].seen} <=>
                 \E f \in DOMAIN table : \E i \in DOMAIN Content(f) \ table[f].erased :
                     x = [row |-> Content(f)[i], end |-> SystemTimeEnd(table[f].deleted, i)]
    <2>1. ASSUME NEW s \in readers[r].seen
          PROVE  \E f \in DOMAIN table : \E i \in DOMAIN Content(f) \ table[f].erased :
                     [row |-> s.row, end |-> s.end] =
                         [row |-> Content(f)[i], end |-> SystemTimeEnd(table[f].deleted, i)]
        BY <1>3, <1>4
    <2>2. ASSUME NEW f \in DOMAIN table, NEW i \in DOMAIN Content(f) \ table[f].erased
          PROVE  \E s \in readers[r].seen :
                     [row |-> Content(f)[i], end |-> SystemTimeEnd(table[f].deleted, i)] =
                         [row |-> s.row, end |-> s.end]
        BY <1>3, <1>4
    <2>3. ASSUME NEW x, x \in {[row |-> s.row, end |-> s.end] : s \in readers[r].seen}
          PROVE  \E f \in DOMAIN table : \E i \in DOMAIN Content(f) \ table[f].erased :
                     x = [row |-> Content(f)[i], end |-> SystemTimeEnd(table[f].deleted, i)]
        <3>1. PICK s \in readers[r].seen : x = [row |-> s.row, end |-> s.end]
            BY <2>3
        <3>. QED
            BY <3>1, <2>1
    <2>4. ASSUME NEW x, NEW f \in DOMAIN table, NEW i \in DOMAIN Content(f) \ table[f].erased,
                 x = [row |-> Content(f)[i], end |-> SystemTimeEnd(table[f].deleted, i)]
          PROVE  x \in {[row |-> s.row, end |-> s.end] : s \in readers[r].seen}
        BY <2>2, <2>4
    <2>. QED
        BY <2>3, <2>4
<1>8. {[row |-> s.row, end |-> s.end] : s \in readers[r].seen} = RowsOf(table)
    BY <1>6, <1>7
<1>. QED
    BY <1>1, <1>5, <1>8

-----------------------------------------------------------------------------
(* The steps of the table                                                  *)

\* A row with its end, as it is at a place.
RowAt(p) == [row |-> Content(p[1])[p[2]], end |-> SystemTimeEnd(md[p[1]].deleted, p[2])]

RowsAt(P) == {RowAt(p) : p \in P}

LEMMA RowsOfTable == RowsOf(md) = RowsAt(Places(md))
BY DEF RowsOf, RowsAt, RowAt

\* Each place has a row of its own, and there are finitely many.
LEMMA RowsDiffer ==
    ASSUME RowsInv
    PROVE  \A p, q \in Places(md) : Content(p[1])[p[2]] = Content(q[1])[q[2]] => p = q
<1>1. \A p \in Places(md) : /\ p[1] \in DOMAIN md
                            /\ p[2] \in DOMAIN Content(p[1]) \ md[p[1]].erased
                            /\ p = <<p[1], p[2]>>
    BY DEF Places
<1>2. ASSUME NEW p \in Places(md), NEW q \in Places(md),
             Content(p[1])[p[2]] = Content(q[1])[q[2]]
      PROVE  p = q
    <2>1. p[1] = q[1] /\ p[2] = q[2]
        BY <1>1, <1>2 DEF RowsInv, Good, Unique, Filled
    <2>. QED
        BY <1>1, <2>1
<1>. QED
    BY <1>2

LEMMA RowsAtDiffer ==
    ASSUME RowsInv
    PROVE  \A p, q \in Places(md) : RowAt(p) = RowAt(q) => p = q
<1>1. ASSUME NEW p \in Places(md), NEW q \in Places(md), RowAt(p) = RowAt(q)
      PROVE  Content(p[1])[p[2]] = Content(q[1])[q[2]]
    <2>1. RowAt(p).row = Content(p[1])[p[2]]
        BY DEF RowAt
    <2>2. RowAt(q).row = Content(q[1])[q[2]]
        BY DEF RowAt
    <2>. QED
        BY <1>1, <2>1, <2>2
<1>. QED
    BY <1>1, RowsDiffer

LEMMA PlacesFinite ==
    ASSUME CompactionInv, RowsInv
    PROVE  IsFiniteSet(Places(md))
<1>. DEFINE R == (1 .. MaxTx) \X (1 .. MaxRows)
            fn == [p \in Places(md) |-> Content(p[1])[p[2]]]
<1>1. ASSUME NEW p \in Places(md) PROVE Content(p[1])[p[2]] \in R
    <2>1. p[1] \in DOMAIN md /\ p[2] \in DOMAIN Content(p[1]) \ md[p[1]].erased
        BY DEF Places
    <2>2. Content(p[1])[p[2]] \in StoredRow
        BY <2>1, FileRows DEF RowsInv, Good, Filled, FilesInUse
    <2>. QED
        BY <2>2, CompactionAssumption DEF CompactionInv, Names, StoredRow, Row
<1>2. IsFiniteSet(R)
    <2>1. 1 \in Int /\ MaxTx \in Int /\ MaxRows \in Int
        BY CompactionAssumption
    <2>2. IsFiniteSet(1 .. MaxTx)
        BY <2>1, FS_Interval
    <2>3. IsFiniteSet(1 .. MaxRows)
        BY <2>1, FS_Interval
    <2>. QED
        BY <2>2, <2>3, FS_Product
<1>3. \A p, q \in Places(md) : Content(p[1])[p[2]] = Content(q[1])[q[2]] => p = q
    BY RowsDiffer
<1>. HIDE DEF R
<1>4. fn \in Injection(Places(md), R)
    BY <1>1, <1>3 DEF Injection, IsInjective
<1>. QED
    BY <1>2, <1>4, FS_Injection

\* The rows at some places are as many as the places.
LEMMA SomeRows ==
    ASSUME CompactionInv, RowsInv, NEW P \in Some(Places(md))
    PROVE  /\ RowsAt(P) \subseteq RowsOf(md)
           /\ Cardinality(RowsAt(P)) = Cardinality(P)
           /\ Cardinality(P) \in 1 .. MaxRows
<1>1. P \subseteq Places(md) /\ Cardinality(P) \in 1 .. MaxRows
    BY DEF Some
<1>2. RowsAt(P) \subseteq RowsOf(md)
    BY <1>1, RowsOfTable DEF RowsAt
<1>3. IsFiniteSet(P)
    BY <1>1, PlacesFinite, FS_Subset
<1>4. \A p, q \in P : RowAt(p) = RowAt(q) => p = q
    BY <1>1, RowsAtDiffer
<1>5. [p \in P |-> RowAt(p)] \in Bijection(P, RowsAt(P))
    BY <1>4 DEF Bijection, Injection, IsInjective, Surjection, RowsAt
<1>6. ExistsBijection(P, RowsAt(P))
    BY <1>5 DEF ExistsBijection
<1>7. Cardinality(RowsAt(P)) = Cardinality(P)
    BY <1>3, <1>6, FS_Bijection
<1>. QED
    BY <1>1, <1>2, <1>7

\* What a statement does to the rows of the table.
LEMMA WrittenRows ==
    ASSUME CompactionInv, RowsInv, Immutable, NEW n, NEW D, NEW E, Written(n, D, E),
           D = {} \/ E = {}
    PROVE  RowsOf(md)' = ((RowsOf(md) \ RowsAt(D \cup E)) \cup
                          {[row |-> v.row, end |-> lastTx + 1] : v \in RowsAt(D)}) \cup
                         {[row |-> <<lastTx + 1, k>>, end |-> Forever] : k \in 1 .. n}
<1>0. PICK b : b = BatchFile(lastTx + 1)
    OBVIOUS
<1>1. /\ D \subseteq VisiblePlaces(md) /\ E \subseteq Places(md) /\ D \subseteq Places(md)
    BY DEF Written, VisiblePlaces
<1>2. \A p \in Places(md) : /\ p[1] \in DOMAIN md
                            /\ p[2] \in DOMAIN Content(p[1]) \ md[p[1]].erased
                            /\ p = <<p[1], p[2]>>
    BY DEF Places
<1>. DEFINE NewRow(p) == [row |-> Content(p[1])'[p[2]],
                          end |-> SystemTimeEnd(md'[p[1]].deleted, p[2])]
<1>3. ASSUME NEW f \in DOMAIN md, NEW i \in DOMAIN Content(f)
      PROVE  /\ Content(f)' = Content(f) /\ f \in DOMAIN md' /\ f # b
             /\ i \in md'[f].erased <=> i \in md[f].erased \/ <<f, i>> \in E
             /\ <<f, i>> \in D => NewRow(<<f, i>>) = [row |-> RowAt(<<f, i>>).row, end |-> lastTx + 1]
             /\ <<f, i>> \notin D => NewRow(<<f, i>>) = RowAt(<<f, i>>)
    <2>. DEFINE new == {[row |-> p[2], end |-> lastTx + 1] : p \in {q \in D : q[1] = f}}
                gone == {p[2] : p \in {q \in E : q[1] = f}}
    <2>1. md'[f] = [deleted |-> md[f].deleted \cup new, erased |-> md[f].erased \cup gone,
                    size |-> md[f].size]
        BY DEF Written
    <2>2. Content(f)' = Content(f) /\ f \in DOMAIN md' /\ f # b
        BY <1>0, WrittenFiles
    <2>3. \A x : x \in gone <=> <<f, x>> \in E
        BY <1>1, <1>2
    <2>4. \A d : d \in new <=> \E x : <<f, x>> \in D /\ d = [row |-> x, end |-> lastTx + 1]
        BY <1>1, <1>2
    <2>. HIDE DEF new, gone
    <2>5. md'[f].deleted = md[f].deleted \cup new /\ md'[f].erased = md[f].erased \cup gone
        BY <2>1
    <2>6. NewRow(<<f, i>>) = [row |-> Content(f)[i],
                              end |-> SystemTimeEnd(md[f].deleted \cup new, i)]
        BY <2>2, <2>5
    <2>7. RowAt(<<f, i>>) = [row |-> Content(f)[i], end |-> SystemTimeEnd(md[f].deleted, i)]
        BY DEF RowAt
    <2>8. ASSUME <<f, i>> \in D
          PROVE  SystemTimeEnd(md[f].deleted \cup new, i) = lastTx + 1
        <3>1. \A e \in md[f].deleted : e.row # i
            <4>1. <<f, i>> \in VisiblePlaces(md)
                BY <1>1, <2>8
            <4>2. PICK p \in VisiblePlaces(md) : p = <<f, i>>
                BY <4>1
            <4>3. \A e \in md[p[1]].deleted : e.row # p[2]
                BY VisibleHasNoEntry
            <4>. QED
                BY <4>2, <4>3
        <3>. DEFINE d == [row |-> i, end |-> lastTx + 1]
        <3>2. d \in new /\ d.row = i /\ d.end = lastTx + 1
            BY <2>4, <2>8
        <3>3. \A c \in new : c.row = i => c = d
            <4>1. ASSUME NEW c \in new, c.row = i PROVE c = d
                <5>1. PICK x : c = [row |-> x, end |-> lastTx + 1]
                    BY <2>4
                <5>2. x = i
                    BY <5>1, <4>1
                <5>. QED
                    BY <5>1, <5>2
            <4>. QED
                BY <4>1
        <3>. HIDE DEF d
        <3>4. \A c \in md[f].deleted \cup new : c.row = i => c = d
            BY <3>1, <3>3
        <3>5. (CHOOSE c \in md[f].deleted \cup new : c.row = i) = d
            BY <3>2, <3>4
        <3>. QED
            BY <3>2, <3>5 DEF SystemTimeEnd
    <2>9. ASSUME <<f, i>> \notin D
          PROVE  SystemTimeEnd(md[f].deleted \cup new, i) = SystemTimeEnd(md[f].deleted, i)
        <3>1. \A c \in new : c.row # i
            <4>1. ASSUME NEW c \in new PROVE c.row # i
                <5>1. PICK x : <<f, x>> \in D /\ c = [row |-> x, end |-> lastTx + 1]
                    BY <2>4
                <5>2. c.row = x
                    BY <5>1
                <5>. QED
                    BY <5>1, <5>2, <2>9
            <4>. QED
                BY <4>1
        <3>2. CASE \E e \in md[f].deleted : e.row = i
            <4>1. \A d, e \in md[f].deleted : d.row = e.row => d = e
                BY DEF RowsInv, Entries
            <4>2. PICK e \in md[f].deleted : e.row = i
                BY <3>2
            <4>3. \A c \in md[f].deleted \cup new : c.row = i => c = e
                BY <3>1, <4>1, <4>2
            <4>4. (CHOOSE c \in md[f].deleted \cup new : c.row = i) = e
                BY <4>2, <4>3
            <4>5. SystemTimeEnd(md[f].deleted, i) = e.end
                BY <4>1, <4>2, EndOfRow
            <4>. QED
                BY <4>2, <4>4, <4>5 DEF SystemTimeEnd
        <3>3. CASE \A e \in md[f].deleted : e.row # i
            BY <3>1, <3>3 DEF SystemTimeEnd
        <3>. QED
            BY <3>2, <3>3
    <2>. HIDE DEF NewRow
    <2>. QED
        BY <2>2, <2>3, <2>5, <2>6, <2>7, <2>8, <2>9
<1>4. ASSUME n # 0
      PROVE  /\ b \in DOMAIN md' /\ DOMAIN Content(b)' = 1 .. n /\ md'[b].erased = {}
             /\ \A k \in 1 .. n : NewRow(<<b, k>>) = [row |-> <<lastTx + 1, k>>, end |-> Forever]
    <2>1. /\ md'[b] = [deleted |-> {}, erased |-> {}, size |-> n]
          /\ Content(b)' = Rows(n)
          /\ DOMAIN Rows(n) = 1 .. n
          /\ \A k \in 1 .. n : Rows(n)[k] = <<lastTx + 1, k>>
        BY <1>0, <1>4, WrittenFiles
    <2>2. b \in DOMAIN md'
        BY <1>0, <1>4 DEF Written
    <2>3. md'[b].deleted = {} /\ md'[b].erased = {}
        BY <2>1
    <2>4. \A i : SystemTimeEnd({}, i) = Forever
        BY DEF SystemTimeEnd
    <2>. QED
        BY <2>1, <2>2, <2>3, <2>4
<1>5. DOMAIN md' \subseteq DOMAIN md \cup {b} /\ (b \in DOMAIN md' => n # 0) /\ n \in Nat
    <2>1. DOMAIN md' \subseteq DOMAIN md \cup {b}
        BY <1>0, WrittenFiles
    <2>2. n = 0 => DOMAIN md' = DOMAIN md
        BY <1>0, WrittenFiles
    <2>3. b \notin DOMAIN md
        BY <1>0, WrittenFiles
    <2>4. n \in Nat
        <3>1. n \in 0 .. MaxRows
            BY <1>0, WrittenFiles
        <3>. QED
            BY <3>1, CompactionAssumption
    <2>. QED
        BY <2>1, <2>2, <2>3, <2>4
<1>6. \A x : x \in RowsOf(md)' <=>
                 \E f \in DOMAIN md' : \E i \in DOMAIN Content(f)' \ md'[f].erased :
                     x = NewRow(<<f, i>>)
    BY RowsInNewFiles
<1>. HIDE DEF NewRow
<1>7. \A p, q \in Places(md) : RowAt(p) = RowAt(q) => p = q
    BY RowsAtDiffer
<1>. DEFINE Old == RowsOf(md) \ RowsAt(D \cup E)
            Ended == {[row |-> v.row, end |-> lastTx + 1] : v \in RowsAt(D)}
            Added == {[row |-> <<lastTx + 1, k>>, end |-> Forever] : k \in 1 .. n}
<1>8. ASSUME NEW x \in RowsOf(md)' PROVE x \in (Old \cup Ended) \cup Added
    <2>1. PICK f \in DOMAIN md' :
              \E i \in DOMAIN Content(f)' \ md'[f].erased : x = NewRow(<<f, i>>)
        BY <1>6
    <2>2. PICK i \in DOMAIN Content(f)' \ md'[f].erased : x = NewRow(<<f, i>>)
        BY <2>1
    <2>3. CASE f = b
        BY <2>2, <2>3, <1>4, <1>5
    <2>4. CASE f \in DOMAIN md
        <3>1. i \in DOMAIN Content(f) \ md[f].erased /\ <<f, i>> \notin E
            <4>1. Content(f)' = Content(f)
                BY <2>4, <1>0, WrittenFiles
            <4>. QED
                BY <4>1, <2>2, <2>4, <1>3
        <3>2. <<f, i>> \in Places(md)
            BY <3>1, <2>4 DEF Places
        <3>3. CASE <<f, i>> \in D
            <4>1. x = [row |-> RowAt(<<f, i>>).row, end |-> lastTx + 1]
                BY <3>1, <3>3, <2>2, <2>4, <1>3
            <4>2. RowAt(<<f, i>>) \in RowsAt(D)
                BY <3>3 DEF RowsAt
            <4>. QED
                BY <4>1, <4>2
        <3>4. CASE <<f, i>> \notin D
            <4>1. x = RowAt(<<f, i>>)
                BY <3>1, <3>4, <2>2, <2>4, <1>3
            <4>2. x \in RowsOf(md)
                BY <4>1, <3>2, RowsOfTable DEF RowsAt
            <4>3. x \notin RowsAt(D \cup E)
                BY <4>1, <3>1, <3>2, <3>4, <1>1, <1>7 DEF RowsAt
            <4>. QED
                BY <4>2, <4>3
        <3>. QED
            BY <3>3, <3>4
    <2>. QED
        BY <2>3, <2>4, <1>5
<1>9. ASSUME NEW x \in Old PROVE x \in RowsOf(md)'
    <2>1. PICK p \in Places(md) : x = RowAt(p)
        BY RowsOfTable DEF RowsAt
    <2>2. p \notin D /\ p \notin E
        BY <2>1 DEF RowsAt
    <2>3. PICK f, i : f = p[1] /\ i = p[2]
        OBVIOUS
    <2>4. f \in DOMAIN md /\ i \in DOMAIN Content(f) \ md[f].erased /\ p = <<f, i>>
        BY <2>3, <1>2
    <2>5. Content(f)' = Content(f) /\ f \in DOMAIN md' /\ i \notin md'[f].erased
          /\ NewRow(<<f, i>>) = RowAt(<<f, i>>)
        BY <2>2, <2>4, <1>3
    <2>. QED
        BY <2>1, <2>4, <2>5, <1>6
<1>10. ASSUME NEW x \in Ended PROVE x \in RowsOf(md)'
    <2>1. PICK p \in D : x = [row |-> RowAt(p).row, end |-> lastTx + 1]
        BY DEF RowsAt
    <2>2. PICK f, i : f = p[1] /\ i = p[2]
        OBVIOUS
    <2>3. f \in DOMAIN md /\ i \in DOMAIN Content(f) \ md[f].erased /\ p = <<f, i>>
        BY <2>2, <1>1, <1>2
    <2>4. p \notin E
        BY <2>1
    <2>5. Content(f)' = Content(f) /\ f \in DOMAIN md' /\ i \notin md'[f].erased
          /\ NewRow(<<f, i>>) = [row |-> RowAt(<<f, i>>).row, end |-> lastTx + 1]
        BY <2>1, <2>3, <2>4, <1>3
    <2>. QED
        BY <2>1, <2>3, <2>5, <1>6
<1>11. ASSUME NEW x \in Added PROVE x \in RowsOf(md)'
    <2>1. PICK k \in 1 .. n : x = [row |-> <<lastTx + 1, k>>, end |-> Forever]
        OBVIOUS
    <2>2. n # 0
        BY <2>1, <1>5
    <2>. QED
        BY <2>1, <2>2, <1>4, <1>6
<1>. QED
    BY <1>8, <1>9, <1>10, <1>11

-----------------------------------------------------------------------------
(* Refinement                                                              *)

\* The exchange of the merged files for the new one changes no row.
LEMMA ExchangedTable ==
    ASSUME CompactionInv, RowsInv, CompactFiles
    PROVE  RowsOf(md)' = RowsOf(md)
<1>1. PICK F : F = CompactedFilename(compactor.files)
    OBVIOUS
<1>2. /\ compactor.pc \in Merges
      /\ \A k \in DOMAIN compactor.files : compactor.files[k] \in DOMAIN md
      /\ \A f : f \in DOMAIN md' <=>
                    \/ f = F
                    \/ f \in DOMAIN md /\ \A k \in DOMAIN compactor.files : f # compactor.files[k]
      /\ \A f \in DOMAIN md :
             (\A k \in DOMAIN compactor.files : f # compactor.files[k]) => md'[f] = md[f]
      /\ Content(F) = MergedRows
      /\ \A f : Content(f)' = Content(f)
    BY <1>1, Exchanged
<1>3. ASSUME NEW k \in DOMAIN compactor.files,
             NEW i \in DOMAIN Content(compactor.files[k]) \ md[compactor.files[k]].erased
      PROVE  /\ Offset(k) + i \in DOMAIN Content(F)' \ md'[F].erased
             /\ Content(F)'[Offset(k) + i] = Content(compactor.files[k])[i]
             /\ SystemTimeEnd(md'[F].deleted, Offset(k) + i) =
                    SystemTimeEnd(md[compactor.files[k]].deleted, i)
    BY <1>1, <1>2, ExchangedRows
<1>4. ASSUME NEW x, x \in RowsOf(md) PROVE x \in RowsOf(md)'
    <2>1. PICK f \in DOMAIN md :
              \E i \in DOMAIN Content(f) \ md[f].erased :
                  x = [row |-> Content(f)[i], end |-> SystemTimeEnd(md[f].deleted, i)]
        BY <1>4, RowsInFiles
    <2>2. PICK i \in DOMAIN Content(f) \ md[f].erased :
              x = [row |-> Content(f)[i], end |-> SystemTimeEnd(md[f].deleted, i)]
        BY <2>1
    <2>3. CASE \E k \in DOMAIN compactor.files : f = compactor.files[k]
        <3>1. PICK k \in DOMAIN compactor.files : f = compactor.files[k]
            BY <2>3
        <3>2. /\ Offset(k) + i \in DOMAIN Content(F)' \ md'[F].erased
              /\ x = [row |-> Content(F)'[Offset(k) + i],
                      end |-> SystemTimeEnd(md'[F].deleted, Offset(k) + i)]
            BY <2>2, <3>1, <1>3
        <3>3. F \in DOMAIN md'
            BY <1>2
        <3>. QED
            BY <3>2, <3>3, RowsInNewFiles
    <2>4. CASE \A k \in DOMAIN compactor.files : f # compactor.files[k]
        <3>1. f \in DOMAIN md' /\ md'[f] = md[f] /\ Content(f)' = Content(f)
            BY <2>4, <1>2
        <3>. QED
            BY <2>2, <3>1, RowsInNewFiles
    <2>. QED
        BY <2>3, <2>4
<1>5. ASSUME NEW x, x \in RowsOf(md)' PROVE x \in RowsOf(md)
    <2>1. PICK f \in DOMAIN md' :
              \E m \in DOMAIN Content(f)' \ md'[f].erased :
                  x = [row |-> Content(f)'[m], end |-> SystemTimeEnd(md'[f].deleted, m)]
        BY <1>5, RowsInNewFiles
    <2>2. PICK m \in DOMAIN Content(f)' \ md'[f].erased :
              x = [row |-> Content(f)'[m], end |-> SystemTimeEnd(md'[f].deleted, m)]
        BY <2>1
    <2>3. CASE f = F
        <3>1. PICK k \in DOMAIN compactor.files :
                  \E i \in DOMAIN Content(compactor.files[k]) : m = Offset(k) + i
            BY <2>2, <2>3, <1>2, MergedElements
        <3>2. PICK i \in DOMAIN Content(compactor.files[k]) : m = Offset(k) + i
            BY <3>1
        <3>3. i \notin md[compactor.files[k]].erased
            BY <2>2, <2>3, <3>2, <1>1, ExchangedRows
        <3>4. x = [row |-> Content(compactor.files[k])[i],
                   end |-> SystemTimeEnd(md[compactor.files[k]].deleted, i)]
            BY <2>2, <2>3, <3>2, <3>3, <1>3
        <3>5. compactor.files[k] \in DOMAIN md
            BY <1>2
        <3>. QED
            BY <3>3, <3>4, <3>5, RowsInFiles
    <2>4. CASE f # F
        <3>1. f \in DOMAIN md /\ md'[f] = md[f] /\ Content(f)' = Content(f)
            BY <2>4, <1>2
        <3>. QED
            BY <2>2, <3>1, RowsInFiles
    <2>. QED
        BY <2>3, <2>4
<1>. QED
    BY <1>4, <1>5

\* Nor does a step that leaves the meta data.
LEMMA SameRows ==
    ASSUME CompactionInv, Immutable, UNCHANGED md
    PROVE  RowsOf(md)' = RowsOf(md)
<1>1. \A f \in DOMAIN md : Content(f)' = Content(f)
    BY ContentStays DEF CompactionInv, FilesInUse
<1>2. \A x : x \in RowsOf(md)' <=> x \in RowsOf(md)
    BY <1>1, RowsInFiles, RowsInNewFiles
<1>. QED
    BY <1>2

\* The table counts its rows as the files do.
LEMMA SameCardinality == \A S : Table!Cardinality(S) = Cardinality(S)
BY DEF Table!Cardinality, Cardinality

\* Visible rows are current ones.
LEMMA CurrentRows ==
    ASSUME CompactionInv, RowsInv, NEW P \in Some(VisiblePlaces(md))
    PROVE  /\ RowsAt(P) \in Table!Some(Table!Current)
           /\ Cardinality(RowsAt(P)) = Cardinality(P)
<1>1. P \subseteq VisiblePlaces(md) /\ P \in Some(Places(md))
    BY DEF Some, VisiblePlaces
<1>2. /\ RowsAt(P) \subseteq RowsOf(md)
      /\ Cardinality(RowsAt(P)) = Cardinality(P)
      /\ Cardinality(P) \in 1 .. MaxRows
    BY <1>1, SomeRows
<1>3. ASSUME NEW p \in P PROVE RowAt(p).end = Forever
    BY <1>1 DEF VisiblePlaces, RowAt
<1>4. RowsAt(P) \subseteq Table!Current
    BY <1>2, <1>3 DEF RowsAt, Table!Current
<1>. QED
    BY <1>2, <1>4, SameCardinality DEF Table!Some

\* A statement that inserts only, ends only, ends and inserts, or erases.
LEMMA InsertedRows ==
    ASSUME CompactionInv, RowsInv, Immutable, NEW n \in 1 .. MaxRows, Insert(n)
    PROVE  lastTx' = lastTx + 1 /\ Table!TableInsert
<1>1. Written(n, {}, {})
    BY InsertWrites
<1>2. RowsOf(md)' = ((RowsOf(md) \ RowsAt({} \cup {})) \cup
                     {[row |-> v.row, end |-> lastTx + 1] : v \in RowsAt({})}) \cup
                    {[row |-> <<lastTx + 1, k>>, end |-> Forever] : k \in 1 .. n}
    BY <1>1, WrittenRows
<1>3. RowsAt({} \cup {}) = {} /\ {[row |-> v.row, end |-> lastTx + 1] : v \in RowsAt({})} = {}
    BY DEF RowsAt
<1>4. RowsOf(md)' = RowsOf(md) \cup Table!New(n)
    BY <1>2, <1>3 DEF Table!New
<1>. QED
    BY <1>1, <1>4 DEF Written, Table!TableInsert

LEMMA DeletedRows ==
    ASSUME CompactionInv, RowsInv, Immutable, NEW P \in Some(VisiblePlaces(md)), Delete(P)
    PROVE  lastTx' = lastTx + 1 /\ Table!TableDelete
<1>1. Written(0, P, {})
    BY DeleteWrites
<1>2. RowsOf(md)' = ((RowsOf(md) \ RowsAt(P \cup {})) \cup
                     {[row |-> v.row, end |-> lastTx + 1] : v \in RowsAt(P)}) \cup
                    {[row |-> <<lastTx + 1, k>>, end |-> Forever] : k \in 1 .. 0}
    BY <1>1, WrittenRows
<1>3. RowsAt(P \cup {}) = RowsAt(P)
      /\ {[row |-> <<lastTx + 1, k>>, end |-> Forever] : k \in 1 .. 0} = {}
    BY DEF RowsAt
<1>4. RowsOf(md)' = (RowsOf(md) \ RowsAt(P)) \cup Table!Ended(RowsAt(P))
    BY <1>2, <1>3 DEF Table!Ended
<1>5. RowsAt(P) \in Table!Some(Table!Current)
    BY CurrentRows
<1>. QED
    BY <1>1, <1>4, <1>5 DEF Written, Table!TableDelete

LEMMA UpdatedRows ==
    ASSUME CompactionInv, RowsInv, Immutable, NEW P \in Some(VisiblePlaces(md)), Update(P)
    PROVE  lastTx' = lastTx + 1 /\ Table!TableUpdate
<1>. DEFINE n == Cardinality(P)
<1>1. Written(n, P, {})
    BY UpdateWrites
<1>2. RowsAt(P) \in Table!Some(Table!Current) /\ Cardinality(RowsAt(P)) = n
    BY CurrentRows
<1>. HIDE DEF n
<1>3. RowsOf(md)' = ((RowsOf(md) \ RowsAt(P \cup {})) \cup
                     {[row |-> v.row, end |-> lastTx + 1] : v \in RowsAt(P)}) \cup
                    {[row |-> <<lastTx + 1, k>>, end |-> Forever] : k \in 1 .. n}
    BY <1>1, WrittenRows
<1>4. RowsAt(P \cup {}) = RowsAt(P)
    BY DEF RowsAt
<1>5. RowsOf(md)' = (RowsOf(md) \ RowsAt(P)) \cup Table!Ended(RowsAt(P))
                        \cup Table!New(Cardinality(RowsAt(P)))
    BY <1>2, <1>3, <1>4 DEF Table!Ended, Table!New
<1>. QED
    BY <1>1, <1>2, <1>5, SameCardinality DEF Written, Table!TableUpdate

LEMMA ErasedRows ==
    ASSUME CompactionInv, RowsInv, Immutable, NEW P \in Some(Places(md)), Erase(P)
    PROVE  lastTx' = lastTx + 1 /\ Table!TableErase
<1>1. Written(0, {}, P)
    BY EraseWrites
<1>2. RowsOf(md)' = ((RowsOf(md) \ RowsAt({} \cup P)) \cup
                     {[row |-> v.row, end |-> lastTx + 1] : v \in RowsAt({})}) \cup
                    {[row |-> <<lastTx + 1, k>>, end |-> Forever] : k \in 1 .. 0}
    BY <1>1, WrittenRows
<1>3. /\ RowsAt({} \cup P) = RowsAt(P)
      /\ {[row |-> v.row, end |-> lastTx + 1] : v \in RowsAt({})} = {}
      /\ {[row |-> <<lastTx + 1, k>>, end |-> Forever] : k \in 1 .. 0} = {}
    BY DEF RowsAt
<1>4. RowsOf(md)' = RowsOf(md) \ RowsAt(P)
    BY <1>2, <1>3
<1>5. RowsAt(P) \in Table!Some(RowsOf(md))
    BY SomeRows, SameCardinality DEF Table!Some
<1>. QED
    BY <1>1, <1>4, <1>5 DEF Written, Table!TableErase

\* A step of the files is a step of the table, or none.
LEMMA StepRefines ==
    ASSUME CompactionInv, RowsInv, [Next]_vars
    PROVE  [Table!TableNext]_(Table!tableVars)
<1>0. Immutable
    BY NextKeepsInv
<1>1. CASE \E n \in 1 .. MaxRows : Insert(n)
    BY <1>0, <1>1, InsertedRows DEF Table!TableNext
<1>2. CASE \E P \in Some(VisiblePlaces(md)) : Delete(P)
    BY <1>0, <1>2, DeletedRows DEF Table!TableNext
<1>3. CASE \E P \in Some(VisiblePlaces(md)) : Update(P)
    BY <1>0, <1>3, UpdatedRows DEF Table!TableNext
<1>4. CASE \E P \in Some(Places(md)) : Erase(P)
    BY <1>0, <1>4, ErasedRows DEF Table!TableNext
<1>5. CASE CompactFiles
    <2>1. lastTx' = lastTx + 1
        BY <1>5 DEF CompactFiles, Commit
    <2>. QED
        BY <2>1, <1>5, ExchangedTable DEF Table!TableNext, Table!TableReorganise
<1>6. CASE UNCHANGED <<lastTx, md>>
    BY <1>0, <1>6, SameRows DEF Table!tableVars
<1>7. CASE StartCompaction \/ Merge \/ PutMerged
    BY <1>6, <1>7 DEF StartCompaction, Merge, PutMerged
<1>8. CASE \E r \in Reader : Open(r) \/ Scan(r) \/ Close(r)
    BY <1>6, <1>8 DEF Open, Scan, Close
<1>9. CASE Crash
    BY <1>6, <1>9 DEF Crash
<1>10. CASE UNCHANGED vars
    BY <1>6, <1>10 DEF vars
<1>. QED
    BY <1>1, <1>2, <1>3, <1>4, <1>5, <1>7, <1>8, <1>9, <1>10 DEF Next, Compact

-----------------------------------------------------------------------------
(* Theorems                                                                *)

LEMMA Inductive == Spec => [](CompactionInv /\ RowsInv)
<1>1. Init => CompactionInv /\ RowsInv
    BY InitInv, InitRows
<1>2. CompactionInv /\ RowsInv /\ [Next]_vars => (CompactionInv /\ RowsInv)'
    BY NextKeepsInv, NextKeepsRows
<1>. QED
    BY <1>1, <1>2, PTL DEF Spec

\* A file that the table or the snapshot of a query names is never written
\* again, whatever is merged, however often the process crashes, and whether
\* a compaction that was cut off is taken up with the same files or others.
THEOREM Unwritten == Spec => FilesInUseAreImmutable
<1>1. Init => CompactionInv
    BY InitInv
<1>2. CompactionInv /\ [Next]_vars => CompactionInv'
    BY NextKeepsInv
<1>3. CompactionInv /\ [Next]_vars
      => [\A f \in FilesInUse : f \in DOMAIN objects' /\ objects'[f] = objects[f]]_vars
    BY NextKeepsInv DEF Immutable
<1>. QED
    BY <1>1, <1>2, <1>3, PTL DEF Spec, FilesInUseAreImmutable

\* Every part of the state stays what it should be: the files of the table and
\* those that are stored have names of transactions, stored rows were written
\* by a transaction, entries are about rows and transactions there are, no
\* file is empty, and a query reads only files of its snapshot.
THEOREM TypeCorrect == Spec => []TypeOK
<1>1. CompactionInv /\ RowsInv => TypeOK
    BY Typed
<1>. QED
    BY <1>1, Inductive, PTL

\* A query that has read its files has seen each row of its snapshot once,
\* with the end it had, whatever was deleted, erased, merged or exchanged
\* while it read.
THEOREM SnapshotsAreRead == Spec => []QueriesReadTheirSnapshot
<1>1. RowsInv => QueriesReadTheirSnapshot
    BY SnapshotRead DEF QueriesReadTheirSnapshot
<1>. QED
    BY <1>1, Inductive, PTL

\* The table in its files, with the thread that merges them outside the lock
\* and exchanges them later, implements the table that has no files: each
\* statement changes the rows as it should, and the exchange changes none.
THEOREM Preserved == Spec => TableIsPreserved
<1>1. Init => Table!TableInit
    <2>1. ASSUME Init PROVE RowsOf(md) = {}
        <3>1. DOMAIN md = {}
            BY <2>1 DEF Init
        <3>. QED
            BY <3>1, RowsInFiles
    <2>. QED
        BY <2>1 DEF Init, Table!TableInit
<1>2. CompactionInv /\ RowsInv /\ [Next]_vars => [Table!TableNext]_(Table!tableVars)
    BY StepRefines
<1>. QED
    BY <1>1, <1>2, Inductive, PTL DEF Spec, TableIsPreserved, Table!TableSpec
=============================================================================
