------------------------- MODULE TransactionsProps -------------------------
(***************************************************************************)
(* What Transactions must guarantee.                                       *)
(***************************************************************************)
EXTENDS Transactions

States == [base : Nat, own : Seq(Client \X Nat)]
Entries == [by : Client \cup {Compactor}, n : Nat, base : Nat]
Runs == [pc : {"idle", "sent", "exec", "save", "wait", "locked", "commit", "answer"},
         n : Nat, start : Nat, post : BOOLEAN, script : Seq(Statement), i : Nat \ {0},
         md : States, original : States, interactive : BOOLEAN,
         savepointp : BOOLEAN, retry : BOOLEAN,
         status : {"none", "ok", "created", "bad request", "error", "conflict"}]
Txs == [open : BOOLEAN, md : States, original : States]

\* Every variable stays within the values the code can give it.
TypeOK ==
    /\ log \in Seq(Entries)
    /\ lock \in Client \cup {Compactor, Nobody}
    /\ savepoint \in States \cup {Nobody}
    /\ run \in [Client -> Runs]
    /\ tx \in [Client -> Txs]
    /\ compaction \in States

----------------------------------------------------------------------------
CommittedBy(c) == {k \in DOMAIN log : log[k].by = c /\ log[k].n = run[c].n}

\* Transactions are committed one after the other, each made from the very
\* state it replaces: no commit is lost under a concurrent one, whether the
\* request was optimistic, was run again or was an interactive transaction.
CommitsAreSerial ==
    [][log' # log => /\ Len(log') = Len(log) + 1
                     /\ SubSeq(log', 1, Len(log)) = log
                     /\ log'[Len(log')].base = Len(log)]_log

\* What a client is told is true: "created" means that its request is in the
\* log exactly once, any other answer that it is not there at all, also after
\* it was run twice; and a GET has never written.
AnswersAreTrue ==
    \A c \in Client : run[c].pc = "answer" =>
        /\ Cardinality(CommittedBy(c)) = IF run[c].status = "created" THEN 1 ELSE 0
        /\ run[c].status = "created" => run[c].post

\* No answer is older than its request: outside transactions and savepoints a
\* request sees every commit that was made before it was sent.
AnswersAreFresh ==
    \A c \in Client :
        run[c].pc = "answer" /\ run[c].status \in {"ok", "created"}
            /\ ~run[c].interactive /\ ~run[c].savepointp => run[c].md.base >= run[c].start

\* Inside a transaction a connection sees the state of its BEGIN and its own
\* writes, whatever others commit meanwhile; statements that failed half way
\* left their writes there.
TransactionsAreIsolated ==
    \A c \in Ws : tx[c].open =>
        /\ tx[c].md.base = tx[c].original.base /\ tx[c].original.own = <<>>
        /\ \A k \in DOMAIN tx[c].md.own : tx[c].md.own[k][1] = c

\* What is done on a branch of a savepoint is never committed: an HTTP request
\* commits its own writes and nobody else's.
BranchesAreNotCommitted ==
    \A c \in Http : run[c].pc = "answer" /\ run[c].status = "created" =>
        \A k \in DOMAIN run[c].md.own : run[c].md.own[k] = <<c, run[c].n>>

\* A request is answered, however many others compete for the lock.
RequestsAreAnswered == \A c \in Client : run[c].pc = "sent" ~> run[c].pc = "idle"

\* A request that meets a conflict is run again as if for the first time: it
\* is never refused because of a savepoint that its own first run entered.
ConflictsAreRetried ==
    \A c \in Http :
        run[c].pc = "answer" /\ run[c].retry /\ run[c].status = "error" /\ savepoint # Nobody
            => <<c, run[c].n>> \notin {savepoint.own[k] : k \in DOMAIN savepoint.own}
=============================================================================
