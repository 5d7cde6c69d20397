--------------------------- MODULE VersionedTable ---------------------------
(***************************************************************************)
(* What a table promises to those who write and read it: rows with the     *)
(* system time at which they ended, whatever files they are kept in.  A    *)
(* deleted row keeps its place in the history, an erased one is gone, and  *)
(* a transaction that only reorganises files changes no row.               *)
(***************************************************************************)
EXTENDS Naturals, FiniteSets

CONSTANTS MaxRows,  \* bound: rows one statement inserts or touches
          Forever   \* the system time end of a row that was not deleted

VARIABLES now,   \* number of the last transaction
          rows   \* the rows that were not erased, with their system time ends

tableVars == <<now, rows>>

Current == {v \in rows : v.end = Forever}

Some(R) == {S \in SUBSET R : Cardinality(S) \in 1 .. MaxRows}

New(n) == {[row |-> <<now + 1, k>>, end |-> Forever] : k \in 1 .. n}

Ended(R) == {[row |-> v.row, end |-> now + 1] : v \in R}

TableInit == now = 0 /\ rows = {}

TableInsert == \E n \in 1 .. MaxRows : rows' = rows \cup New(n)

TableDelete == \E R \in Some(Current) : rows' = (rows \ R) \cup Ended(R)

TableUpdate == \E R \in Some(Current) :
                   rows' = (rows \ R) \cup Ended(R) \cup New(Cardinality(R))

TableErase == \E R \in Some(rows) : rows' = rows \ R

TableReorganise == UNCHANGED rows

TableNext ==
    /\ now' = now + 1
    /\ TableInsert \/ TableDelete \/ TableUpdate \/ TableErase \/ TableReorganise

TableSpec == TableInit /\ [][TableNext]_tableVars
=============================================================================
