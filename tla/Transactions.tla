---------------------------- MODULE Transactions ----------------------------
(***************************************************************************)
(* How requests become transactions: the HTTP handler endb-query, the      *)
(* WebSocket handler endb-on-ws-message and the commit of the compaction   *)
(* thread, all over one database state guarded by dbms-write-lock.         *)
(*                                                                         *)
(* Abstractions.  Database states (fset maps compared with eq) are told    *)
(* apart by the number of commits they are built on and by the writes made *)
(* since; a request is a sequence of statements of which only what they do *)
(* to the state and to the savepoint table is kept; there is one savepoint *)
(* name.  A statement runs atomically, except for the one whose two        *)
(* look-ups of the savepoint table can be separated.                       *)
(***************************************************************************)
EXTENDS Naturals, Sequences, FiniteSets

CONSTANTS Http,            \* HTTP clients, one request at a time each
          Ws,              \* WebSocket connections
          HttpScripts,     \* what an HTTP request may ask for
          WsScripts,       \* what a WebSocket message may ask for
          MaxRequests,     \* bound: requests per client
          MaxCompactions,  \* bound: commits of the compaction thread
          Compactor,       \* the compaction thread
          Nobody           \* holder of a free lock, content of an empty entry

Client == Http \cup Ws
Statement == {"read", "write", "fail", "save", "rollback to", "release",
              "begin", "commit", "rollback"}

ASSUME ClientAssumption ==
    Http \cap Ws = {} /\ Compactor \notin Client /\ Nobody \notin Client \cup {Compactor}
ASSUME ScriptAssumption ==
    HttpScripts \cup WsScripts \subseteq Seq(Statement) \ {<<>>}
ASSUME RequestAssumption == MaxRequests \in Nat /\ MaxCompactions \in Nat

VARIABLES log,        \* committed transactions, the last of them made dbms-db
          lock,       \* holder of dbms-write-lock
          savepoint,  \* entry of the savepoint table: a state, or Nobody
          run,        \* the handler of each client's current request
          tx,         \* db and original-md of each db-connection
          compaction  \* state the write-db of the compaction thread is made from

vars == <<log, lock, savepoint, run, tx, compaction>>

\* The state dbms-db holds.
MCurrent == [base |-> Len(log) - 1, own |-> <<>>]
Current == [base |-> Len(log), own |-> <<>>]

Initial == [base |-> 0, own |-> <<>>]
NoTx == [open |-> FALSE, md |-> Initial, original |-> Initial]

\* No request is being handled; n were sent so far.
Idle(n) == [pc |-> "idle", n |-> n, start |-> 0, post |-> FALSE, script |-> <<>>, i |-> 1,
            md |-> Initial, original |-> Initial, interactive |-> FALSE,
            savepointp |-> FALSE, retry |-> FALSE, status |-> "none"]

\* with-lock-held is left.
MReleased(c) == lock
Released(c) == IF lock = c THEN Nobody ELSE lock

----------------------------------------------------------------------------
Init ==
    /\ log = <<>> /\ lock = Nobody /\ savepoint = Nobody
    /\ run = [c \in Client |-> Idle(0)]
    /\ tx = [c \in Client |-> NoTx]
    /\ compaction = Initial

\* A client sends a request: GET or POST over HTTP, a message over WebSocket.
Send(c) ==
    /\ run[c].pc = "idle" /\ run[c].n < MaxRequests
    /\ \E script \in (IF c \in Http THEN HttpScripts ELSE WsScripts), post \in BOOLEAN :
         /\ c \in Ws => post
         /\ run' = [run EXCEPT ![c].pc = "sent", ![c].n = @ + 1, ![c].start = Len(log),
                               ![c].post = post, ![c].script = script]
    /\ UNCHANGED <<log, lock, savepoint, tx>>

\* begin-write-tx, or the write-db of the connection's open transaction.
MWriteDbStale(c) == tx[c]
MWriteDbMoving(c) == [open |-> tx[c].open, md |-> Current, original |-> Current]
WriteDb(c) ==
    IF tx[c].open THEN tx[c] ELSE [open |-> FALSE, md |-> Current, original |-> Current]

BeginWriteTx(c) ==
    /\ run[c].pc = "sent"
    /\ run' = [run EXCEPT ![c].pc = "exec", ![c].interactive = tx[c].open,
                          ![c].md = WriteDb(c).md, ![c].original = WriteDb(c).original]
    /\ UNCHANGED <<log, lock, savepoint, tx>>

----------------------------------------------------------------------------
(* execute-sql, statement by statement.                                    *)

Done(c) == run[c].i > Len(run[c].script)
Executing(c, statement) ==
    run[c].pc = "exec" /\ ~Done(c) /\ run[c].script[run[c].i] = statement

\* The handler has its answer; the client may be slow to take it.
Answer(c, status) == run' = [run EXCEPT ![c].pc = "answer", ![c].status = status]

\* An sql-runtime-error is answered after leaving with-lock-held.
Error(c) == Answer(c, "error") /\ lock' = Released(c) /\ UNCHANGED <<log, savepoint>>

Read(c) ==
    /\ Executing(c, "read")
    /\ run' = [run EXCEPT ![c].i = @ + 1]
    /\ UNCHANGED <<log, lock, savepoint, tx>>

\* A statement that changes the metadata of the write-db, which in an open
\* transaction is the connection's.
Write(c) ==
    /\ Executing(c, "write")
    /\ LET md == [run[c].md EXCEPT !.own = Append(@, <<c, run[c].n>>)]
       IN  /\ run' = [run EXCEPT ![c].i = @ + 1, ![c].md = md]
           /\ tx' = IF run[c].interactive THEN [tx EXCEPT ![c].md = md] ELSE tx
    /\ UNCHANGED <<log, lock, savepoint>>

Fail(c) == Executing(c, "fail") /\ Error(c) /\ UNCHANGED tx

\* Savepoints are disabled over WebSocket.
Saved(c) == IF c \in Http THEN savepoint ELSE Nobody

\* tx-begin with a savepoint: refused if there is one of that name ...
FindSavepoint(c) ==
    /\ Executing(c, "save")
    /\ IF c \in Ws \/ savepoint # Nobody
       THEN Error(c)
       ELSE run' = [run EXCEPT ![c].pc = "save"] /\ UNCHANGED <<log, lock, savepoint>>
    /\ UNCHANGED tx

\* ... and entered into the table after a copy was made.
PutSavepoint(c) ==
    /\ run[c].pc = "save"
    /\ savepoint' = run[c].md
    /\ run' = [run EXCEPT ![c].pc = "exec", ![c].i = @ + 1]
    /\ UNCHANGED <<log, lock, tx>>

\* tx-rollback to a savepoint: the write-db continues from the saved state.
MRollbackTo(c) ==
    /\ Executing(c, "rollback to")
    /\ savepoint # Nobody
    /\ run' = [run EXCEPT ![c].i = @ + 1, ![c].md = savepoint]
    /\ UNCHANGED <<log, lock, savepoint, tx>>

RollbackTo(c) ==
    /\ Executing(c, "rollback to")
    /\ IF Saved(c) = Nobody
       THEN Error(c)
       ELSE /\ run' = [run EXCEPT ![c].i = @ + 1, ![c].md = savepoint,
                                  ![c].savepointp = TRUE]
            /\ UNCHANGED <<log, lock, savepoint>>
    /\ UNCHANGED tx

\* tx-commit with a savepoint.
Release(c) ==
    /\ Executing(c, "release")
    /\ IF Saved(c) = Nobody
       THEN Error(c)
       ELSE /\ savepoint' = Nobody
            /\ run' = [run EXCEPT ![c].i = @ + 1]
            /\ UNCHANGED <<log, lock>>
    /\ UNCHANGED tx

\* The timer of a savepoint.
Expire ==
    /\ savepoint # Nobody
    /\ savepoint' = Nobody
    /\ UNCHANGED <<log, lock, run, tx>>

\* BEGIN, COMMIT and ROLLBACK are messages of their own: among the statements
\* of one request they are errors.
Alone(c) == Len(run[c].script) = 1

\* BEGIN: refused over HTTP and inside a transaction, else the connection keeps
\* write-db.
BeginTx(c) ==
    /\ Executing(c, "begin")
    /\ IF Alone(c) /\ c \in Ws /\ ~run[c].interactive
       THEN /\ tx' = [tx EXCEPT ![c] = [open |-> TRUE, md |-> run[c].md,
                                        original |-> run[c].original]]
            /\ Answer(c, "ok")
            /\ UNCHANGED <<log, lock, savepoint>>
       ELSE Error(c) /\ UNCHANGED tx

\* COMMIT: the connection forgets the transaction, which goes to commit-tx.
CommitTx(c) ==
    /\ Executing(c, "commit")
    /\ IF Alone(c) /\ run[c].interactive
       THEN /\ tx' = [tx EXCEPT ![c] = NoTx]
            /\ run' = [run EXCEPT ![c].pc = "wait"]
            /\ UNCHANGED <<log, lock, savepoint>>
       ELSE Error(c) /\ UNCHANGED tx

\* ROLLBACK: the connection forgets the transaction; a GET may not ask for it.
RollbackTx(c) ==
    /\ Executing(c, "rollback")
    /\ IF Alone(c)
       THEN /\ tx' = [tx EXCEPT ![c] = NoTx]
            /\ Answer(c, IF run[c].post THEN "ok" ELSE "bad request")
            /\ UNCHANGED <<log, lock, savepoint>>
       ELSE Error(c) /\ UNCHANGED tx

----------------------------------------------------------------------------
(* What follows execute-sql.                                               *)

Unchanged(c) ==
    \/ run[c].md = run[c].original
    \/ c \in Http /\ savepoint = run[c].md

\* Nothing to commit, or a branch of a savepoint, or a transaction goes on.
Finish(c) ==
    /\ run[c].pc = "exec" /\ Done(c) /\ ~run[c].retry
    /\ Unchanged(c) \/ run[c].interactive \/ (run[c].post /\ run[c].savepointp)
    /\ Answer(c, "ok")
    /\ UNCHANGED <<log, lock, savepoint, tx>>

\* A GET may not write.
RefuseGet(c) ==
    /\ run[c].pc = "exec" /\ Done(c) /\ ~run[c].retry
    /\ ~Unchanged(c) /\ ~run[c].post
    /\ Answer(c, "bad request")
    /\ UNCHANGED <<log, lock, savepoint, tx>>

\* The write-db is to be committed.
MGetCommits(c) == ~run[c].savepointp
MBranchCommits(c) == run[c].post
MayCommit(c) == run[c].post /\ ~run[c].savepointp

ToCommit(c) ==
    /\ run[c].pc = "exec" /\ Done(c) /\ ~run[c].retry
    /\ ~Unchanged(c) /\ ~run[c].interactive /\ MayCommit(c)
    /\ run' = [run EXCEPT ![c].pc = "wait"]
    /\ UNCHANGED <<log, lock, savepoint, tx>>

Lock(c) ==
    /\ run[c].pc = "wait" /\ lock = Nobody
    /\ lock' = c
    /\ run' = [run EXCEPT ![c].pc = "locked"]
    /\ UNCHANGED <<log, savepoint, tx>>

\* Is the state the write-db was made from still the current one?
MUpToDate(c) == run[c].interactive \/ run[c].original = Current
UpToDate(c) == run[c].original = Current

Verify(c) ==
    /\ run[c].pc = "locked" /\ UpToDate(c)
    /\ run' = [run EXCEPT ![c].pc = "commit"]
    /\ UNCHANGED <<log, lock, savepoint, tx>>

\* commit-write-tx, which takes it that nobody else commits.
Commit(c) ==
    /\ run[c].pc = "commit"
    /\ IF run[c].md = Current
       THEN Answer(c, "ok") /\ UNCHANGED log
       ELSE /\ Answer(c, "created")
            /\ log' = Append(log, [by |-> c, n |-> run[c].n, base |-> run[c].md.base])
    /\ UNCHANGED <<lock, savepoint, tx>>

\* %execute-constraints signals an error.
ViolateConstraint(c) ==
    /\ run[c].pc = "commit" /\ run[c].md # Current
    /\ Error(c)
    /\ UNCHANGED tx

\* Somebody committed since the transaction began.
Conflict(c) ==
    /\ run[c].pc = "locked" /\ ~UpToDate(c) /\ run[c].interactive
    /\ Answer(c, "conflict")
    /\ UNCHANGED <<log, lock, savepoint, tx>>

\* Somebody committed since the request began: it runs again, under the lock.
Retry(c) ==
    /\ run[c].pc = "locked" /\ ~UpToDate(c) /\ ~run[c].interactive
    /\ run' = [run EXCEPT ![c].pc = "exec", ![c].i = 1, ![c].retry = TRUE,
                          ![c].md = Current, ![c].original = Current,
                          ![c].savepointp = FALSE]
    /\ UNCHANGED <<log, lock, savepoint, tx>>

FinishRetry(c) ==
    /\ run[c].pc = "exec" /\ Done(c) /\ run[c].retry
    /\ run' = [run EXCEPT ![c].pc = "commit"]
    /\ UNCHANGED <<log, lock, savepoint, tx>>

\* The client takes the answer; only then is a lock still held released.
Receive(c) ==
    /\ run[c].pc = "answer"
    /\ run' = [run EXCEPT ![c] = Idle(run[c].n)]
    /\ lock' = Released(c)
    /\ UNCHANGED <<log, savepoint, tx>>

\* The client is gone: sql-abort-query-error ends the handler.
HangUp(c) ==
    /\ run[c].pc = "answer"
    /\ run' = [run EXCEPT ![c] = Idle(run[c].n)]
    /\ lock' = Released(c)
    /\ tx' = [tx EXCEPT ![c] = NoTx]
    /\ UNCHANGED <<log, savepoint>>

----------------------------------------------------------------------------
(* The commit function given to the compaction thread.                     *)

Compactions == Cardinality({k \in DOMAIN log : log[k].by = Compactor})

CompactorLock ==
    /\ lock = Nobody /\ Compactions < MaxCompactions
    /\ lock' = Compactor
    /\ compaction' = Current
    /\ UNCHANGED <<log, savepoint, run, tx>>

CompactorCommit ==
    /\ lock = Compactor
    /\ log' = Append(log, [by |-> Compactor, n |-> Compactions + 1,
                           base |-> compaction.base])
    /\ lock' = Nobody
    /\ compaction' = Initial
    /\ UNCHANGED <<savepoint, run, tx>>

Execute(c) ==
    \/ Read(c) \/ Write(c) \/ Fail(c)
    \/ FindSavepoint(c) \/ PutSavepoint(c) \/ RollbackTo(c) \/ Release(c)
    \/ BeginTx(c) \/ CommitTx(c) \/ RollbackTx(c)

Handle(c) ==
    \/ BeginWriteTx(c) \/ Execute(c)
    \/ Finish(c) \/ RefuseGet(c) \/ ToCommit(c) \/ Lock(c)
    \/ Verify(c) \/ Commit(c) \/ ViolateConstraint(c)
    \/ Conflict(c) \/ Retry(c) \/ FinishRetry(c)

Next ==
    \/ /\ \/ \E c \in Client : Send(c) \/ Handle(c) \/ Receive(c) \/ HangUp(c)
          \/ Expire
       /\ UNCHANGED compaction
    \/ CompactorLock \/ CompactorCommit

Spec == Init /\ [][Next]_vars

\* Every handler has its thread, and clients take their answers or go away.
FairSpec ==
    /\ Spec
    /\ \A c \in Client : /\ WF_vars(Handle(c) /\ UNCHANGED compaction)
                       /\ WF_vars((Receive(c) \/ HangUp(c)) /\ UNCHANGED compaction)
    /\ WF_vars(CompactorCommit)
=============================================================================
