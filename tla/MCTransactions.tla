--------------------------- MODULE MCTransactions ---------------------------
(***************************************************************************)
(* Instances of Transactions for TLC.                                      *)
(***************************************************************************)
EXTENDS TransactionsProps, TLC

\* A query, a write, a write that is saved, one that goes on after saving, and
\* the uses of a savepoint.
MCSavepointScripts == {<<"read">>, <<"write">>, <<"write", "save">>,
                       <<"write", "save", "write">>, <<"rollback to", "write">>,
                       <<"release">>, <<"begin">>}

MCPlainScripts == {<<"read">>, <<"write">>, <<"write", "fail">>, <<"rollback">>}

\* The messages of an interactive transaction.
MCWsScripts == {<<"read">>, <<"write">>, <<"write", "fail">>, <<"begin">>,
                <<"commit">>, <<"rollback">>}

Symmetry == Permutations(Http) \cup Permutations(Ws)
=============================================================================
