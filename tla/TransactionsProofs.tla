------------------------- MODULE TransactionsProofs -------------------------
(***************************************************************************)
(* Proofs about Transactions, for any clients, scripts and bounds.         *)
(***************************************************************************)
EXTENDS TransactionsProps, FiniteSetTheorems, TLAPS

----------------------------------------------------------------------------
(* Types.                                                                  *)

LEMMA ScriptType ==
    ASSUME NEW script \in HttpScripts \cup WsScripts PROVE script \in Seq(Statement)
BY ScriptAssumption

LEMMA InitialType ==
    /\ Initial \in States
    /\ NoTx \in Txs
    /\ \A n \in Nat : Idle(n) \in Runs
<1>1. Initial \in States
  BY DEF Initial, States
<1>2. NoTx \in Txs
  BY <1>1 DEF NoTx, Txs
<1>3. ASSUME NEW n \in Nat PROVE Idle(n) \in Runs
  <2>1. <<>> \in Seq(Statement)
    OBVIOUS
  <2> QED
    BY <1>1, <2>1 DEF Idle, Runs
<1> QED
  BY <1>1, <1>2, <1>3

LEMMA CurrentType == ASSUME TypeOK PROVE Current \in States /\ Len(log) \in Nat
BY DEF TypeOK, Current, States, Entries

LEMMA ReleasedType ==
    ASSUME TypeOK, NEW c PROVE Released(c) \in Client \cup {Compactor, Nobody}
BY DEF TypeOK, Released

\* What is known of the fields of a handler.
LEMMA RunFields ==
    ASSUME NEW r \in Runs
    PROVE  /\ r.n \in Nat /\ r.i \in Nat \ {0} /\ r.start \in Nat
           /\ r.md \in States /\ r.original \in States /\ r.script \in Seq(Statement)
           /\ r.post \in BOOLEAN /\ r.interactive \in BOOLEAN
           /\ r.savepointp \in BOOLEAN /\ r.retry \in BOOLEAN
BY DEF Runs

LEMMA StateFields ==
    ASSUME NEW s \in States PROVE s.base \in Nat /\ s.own \in Seq(Client \X Nat)
BY DEF States

LEMMA TxFields ==
    ASSUME NEW t \in Txs
    PROVE  t.open \in BOOLEAN /\ t.md \in States /\ t.original \in States
BY DEF Txs

LEMMA Typed ==
    ASSUME TypeOK, NEW c \in Client
    PROVE  run \in [Client -> Runs] /\ run[c] \in Runs /\ tx[c] \in Txs
BY DEF TypeOK

----------------------------------------------------------------------------
(* What each action does to the handler it belongs to.                     *)

\* The handler of c goes on as r.
Step(c, r) == r \in Runs /\ run' = [run EXCEPT ![c] = r]

\* The statement signals an error.
Fails(c) == Error(c) /\ UNCHANGED tx

LEMMA StepEffect ==
    ASSUME TypeOK, NEW c \in Client, NEW r, Step(c, r)
    PROVE  /\ run' \in [Client -> Runs] /\ run'[c] = r /\ r \in Runs
           /\ \A d \in Client \ {c} : run'[d] = run[d]
BY Typed DEF Step

LEMMA AnswerStep ==
    ASSUME TypeOK, NEW c \in Client, NEW status, Answer(c, status),
           status \in {"ok", "created", "bad request", "error", "conflict"}
    PROVE  Step(c, [run[c] EXCEPT !.pc = "answer", !.status = status])
<1>1. run' = [run EXCEPT ![c] = [run[c] EXCEPT !.pc = "answer", !.status = status]]
  BY Typed DEF Answer
<1> QED
  BY <1>1, Typed DEF Runs, Step

LEMMA SendStep ==
    ASSUME TypeOK, NEW c \in Client, Send(c)
    PROVE  \E script \in Seq(Statement), post \in BOOLEAN :
              Step(c, [run[c] EXCEPT !.pc = "sent", !.n = run[c].n + 1, !.start = Len(log),
                                     !.post = post, !.script = script])
<1>1. PICK script \in HttpScripts \cup WsScripts, post \in BOOLEAN :
        run' = [run EXCEPT ![c].pc = "sent", ![c].n = @ + 1, ![c].start = Len(log),
                           ![c].post = post, ![c].script = script]
  BY Zenon DEF Send
<1> DEFINE r == [run[c] EXCEPT !.pc = "sent", !.n = run[c].n + 1, !.start = Len(log),
                               !.post = post, !.script = script]
<1>2. run' = [run EXCEPT ![c] = r]
  BY <1>1, Typed
<1>3. run[c].n + 1 \in Nat /\ Len(log) \in Nat /\ script \in Seq(Statement)
  BY Typed, RunFields, CurrentType, ScriptType
<1>4. r \in Runs
  BY <1>3, Typed DEF Runs
<1> QED
  BY <1>2, <1>3, <1>4 DEF Step

LEMMA BeginWriteTxStep ==
    ASSUME TypeOK, NEW c \in Client, BeginWriteTx(c)
    PROVE  /\ WriteDb(c) \in Txs
           /\ Step(c, [run[c] EXCEPT !.pc = "exec", !.interactive = tx[c].open,
                                     !.md = WriteDb(c).md, !.original = WriteDb(c).original])
<1>1. WriteDb(c) \in Txs
  BY CurrentType, Typed DEF WriteDb, Txs
<1>2. tx[c].open \in BOOLEAN /\ WriteDb(c).md \in States /\ WriteDb(c).original \in States
  BY <1>1, Typed, TxFields
<1>3. run' = [run EXCEPT ![c] =
                [run[c] EXCEPT !.pc = "exec", !.interactive = tx[c].open,
                               !.md = WriteDb(c).md, !.original = WriteDb(c).original]]
  BY Typed DEF BeginWriteTx
<1> QED
  BY <1>1, <1>2, <1>3, Typed DEF Step, Runs

LEMMA ReadStep ==
    ASSUME TypeOK, NEW c \in Client, Read(c)
    PROVE  Step(c, [run[c] EXCEPT !.i = run[c].i + 1])
<1>1. run' = [run EXCEPT ![c] = [run[c] EXCEPT !.i = run[c].i + 1]]
  BY Typed DEF Read
<1>2. run[c].i + 1 \in Nat \ {0}
  BY Typed, RunFields
<1> QED
  BY <1>1, <1>2, Typed DEF Step, Runs

\* The write-db of c after one more write.
Written(c) == [run[c].md EXCEPT !.own = Append(@, <<c, run[c].n>>)]

LEMMA WrittenType ==
    ASSUME TypeOK, NEW c \in Client
    PROVE  /\ Written(c) \in States /\ Written(c).base = run[c].md.base
           /\ Written(c).own = Append(run[c].md.own, <<c, run[c].n>>)
<1>1. run[c].md \in States /\ run[c].n \in Nat
  BY Typed, RunFields
<1>2. run[c].md.own \in Seq(Client \X Nat)
  BY <1>1, StateFields
<1>3. Append(run[c].md.own, <<c, run[c].n>>) \in Seq(Client \X Nat)
  BY <1>1, <1>2
<1> QED
  BY <1>1, <1>3 DEF Written, States

LEMMA WriteStep ==
    ASSUME TypeOK, NEW c \in Client, Write(c)
    PROVE  /\ Step(c, [run[c] EXCEPT !.i = run[c].i + 1, !.md = Written(c)])
           /\ tx' = IF run[c].interactive THEN [tx EXCEPT ![c].md = Written(c)] ELSE tx
<1>1. /\ run' = [run EXCEPT ![c].i = @ + 1, ![c].md = Written(c)]
      /\ tx' = IF run[c].interactive THEN [tx EXCEPT ![c].md = Written(c)] ELSE tx
  BY Zenon DEF Write, Written
<1>2. run' = [run EXCEPT ![c] = [run[c] EXCEPT !.i = run[c].i + 1, !.md = Written(c)]]
  BY <1>1, Typed
<1>3. run[c].i + 1 \in Nat \ {0}
  BY Typed, RunFields
<1> QED
  <2>1. [run[c] EXCEPT !.i = run[c].i + 1, !.md = Written(c)] \in Runs
    BY <1>3, Typed, WrittenType DEF Runs
  <2> QED
    BY <1>1, <1>2, <2>1 DEF Step

LEMMA FindSavepointStep ==
    ASSUME TypeOK, NEW c \in Client, FindSavepoint(c), ~Fails(c)
    PROVE  Step(c, [run[c] EXCEPT !.pc = "save"])
<1>1. run' = [run EXCEPT ![c] = [run[c] EXCEPT !.pc = "save"]]
  BY Typed DEF FindSavepoint, Fails
<1> QED
  BY <1>1, Typed DEF Step, Runs

LEMMA PutSavepointStep ==
    ASSUME TypeOK, NEW c \in Client, PutSavepoint(c)
    PROVE  Step(c, [run[c] EXCEPT !.pc = "exec", !.i = run[c].i + 1])
<1>1. run' = [run EXCEPT ![c] = [run[c] EXCEPT !.pc = "exec", !.i = run[c].i + 1]]
  BY Typed DEF PutSavepoint
<1>2. run[c].i + 1 \in Nat \ {0}
  BY Typed, RunFields
<1> QED
  BY <1>1, <1>2, Typed DEF Step, Runs

LEMMA RollbackToStep ==
    ASSUME TypeOK, NEW c \in Client, RollbackTo(c), ~Fails(c)
    PROVE  /\ c \in Http
           /\ Step(c, [run[c] EXCEPT !.i = run[c].i + 1, !.md = savepoint, !.savepointp = TRUE])
<1>1. c \in Http /\ savepoint \in States
  BY Zenon DEF RollbackTo, Saved, TypeOK, Fails
<1>2. run' = [run EXCEPT ![c] = [run[c] EXCEPT !.i = run[c].i + 1, !.md = savepoint,
                                               !.savepointp = TRUE]]
  BY Typed DEF RollbackTo, Fails
<1>3. run[c].i + 1 \in Nat \ {0}
  BY Typed, RunFields
<1> QED
  BY <1>1, <1>2, <1>3, Typed DEF Step, Runs

LEMMA ReleaseStep ==
    ASSUME TypeOK, NEW c \in Client, Release(c), ~Fails(c)
    PROVE  Step(c, [run[c] EXCEPT !.i = run[c].i + 1])
<1>1. run' = [run EXCEPT ![c] = [run[c] EXCEPT !.i = run[c].i + 1]]
  BY Typed DEF Release, Fails
<1>2. run[c].i + 1 \in Nat \ {0}
  BY Typed, RunFields
<1> QED
  BY <1>1, <1>2, Typed DEF Step, Runs

LEMMA CommitTxStep ==
    ASSUME TypeOK, NEW c \in Client, CommitTx(c), ~Fails(c)
    PROVE  Step(c, [run[c] EXCEPT !.pc = "wait"])
<1>1. run' = [run EXCEPT ![c] = [run[c] EXCEPT !.pc = "wait"]]
  BY Typed DEF CommitTx, Fails
<1> QED
  BY <1>1, Typed DEF Step, Runs

LEMMA ToCommitStep ==
    ASSUME TypeOK, NEW c \in Client, ToCommit(c)
    PROVE  Step(c, [run[c] EXCEPT !.pc = "wait"])
<1>1. run' = [run EXCEPT ![c] = [run[c] EXCEPT !.pc = "wait"]]
  BY Typed DEF ToCommit
<1> QED
  BY <1>1, Typed DEF Step, Runs

LEMMA LockStep ==
    ASSUME TypeOK, NEW c \in Client, Lock(c)
    PROVE  Step(c, [run[c] EXCEPT !.pc = "locked"])
<1>1. run' = [run EXCEPT ![c] = [run[c] EXCEPT !.pc = "locked"]]
  BY Typed DEF Lock
<1> QED
  BY <1>1, Typed DEF Step, Runs

LEMMA VerifyStep ==
    ASSUME TypeOK, NEW c \in Client, Verify(c)
    PROVE  Step(c, [run[c] EXCEPT !.pc = "commit"])
<1>1. run' = [run EXCEPT ![c] = [run[c] EXCEPT !.pc = "commit"]]
  BY Typed DEF Verify
<1> QED
  BY <1>1, Typed DEF Step, Runs

LEMMA FinishRetryStep ==
    ASSUME TypeOK, NEW c \in Client, FinishRetry(c)
    PROVE  Step(c, [run[c] EXCEPT !.pc = "commit"])
<1>1. run' = [run EXCEPT ![c] = [run[c] EXCEPT !.pc = "commit"]]
  BY Typed DEF FinishRetry
<1> QED
  BY <1>1, Typed DEF Step, Runs

LEMMA RetryStep ==
    ASSUME TypeOK, NEW c \in Client, Retry(c)
    PROVE  Step(c, [run[c] EXCEPT !.pc = "exec", !.i = 1, !.retry = TRUE, !.md = Current,
                                  !.original = Current, !.savepointp = FALSE])
<1>1. run' = [run EXCEPT ![c] = [run[c] EXCEPT !.pc = "exec", !.i = 1, !.retry = TRUE,
                                               !.md = Current, !.original = Current,
                                               !.savepointp = FALSE]]
  BY Typed DEF Retry
<1>2. 1 \in Nat \ {0} /\ Current \in States
  BY CurrentType
<1> QED
  BY <1>1, <1>2, Typed DEF Step, Runs

LEMMA IdleStep ==
    ASSUME TypeOK, NEW c \in Client, Receive(c) \/ HangUp(c)
    PROVE  Step(c, Idle(run[c].n))
<1>1. run[c].n \in Nat
  BY Typed, RunFields
<1> QED
  BY <1>1, InitialType DEF Step, Receive, HangUp

----------------------------------------------------------------------------
(* Each action keeps the types.                                            *)

LEMMA ErrorType ==
    ASSUME TypeOK, NEW c \in Client, Error(c), UNCHANGED <<tx, compaction>> PROVE TypeOK'
<1>1. Step(c, [run[c] EXCEPT !.pc = "answer", !.status = "error"])
  BY AnswerStep DEF Error
<1>2. run' \in [Client -> Runs]
  BY <1>1, StepEffect
<1> QED
  BY <1>2, ReleasedType DEF TypeOK, Error

LEMMA ExecuteType ==
    ASSUME TypeOK, NEW c \in Client, Execute(c), UNCHANGED compaction PROVE TypeOK'
<1>1. CASE Fails(c)
  BY <1>1, ErrorType DEF Fails
<1>2. CASE Read(c)
  <2>1. run' \in [Client -> Runs]
    BY <1>2, ReadStep, StepEffect
  <2> QED
    BY <1>2, <2>1 DEF TypeOK, Read
<1>3. CASE Write(c)
  <2>1. run' \in [Client -> Runs]
    BY <1>3, WriteStep, StepEffect
  <2>2. tx' \in [Client -> Txs]
    <3>1. [tx[c] EXCEPT !.md = Written(c)] \in Txs
      BY Typed, WrittenType DEF Txs
    <3>2. [tx EXCEPT ![c].md = Written(c)] = [tx EXCEPT ![c] = [tx[c] EXCEPT !.md = Written(c)]]
      BY DEF TypeOK
    <3>3. [tx EXCEPT ![c].md = Written(c)] \in [Client -> Txs]
      BY <3>1, <3>2 DEF TypeOK
    <3> QED
      BY <1>3, <3>3, WriteStep DEF TypeOK
  <2> QED
    BY <1>3, <2>1, <2>2 DEF TypeOK, Write
<1>4. CASE FindSavepoint(c) /\ ~Fails(c)
  <2>1. run' \in [Client -> Runs]
    BY <1>4, FindSavepointStep, StepEffect
  <2> QED
    BY <1>4, <2>1 DEF TypeOK, FindSavepoint, Fails
<1>5. CASE PutSavepoint(c)
  <2>1. run' \in [Client -> Runs] /\ run[c].md \in States
    BY <1>5, PutSavepointStep, StepEffect, Typed, RunFields
  <2> QED
    BY <1>5, <2>1 DEF TypeOK, PutSavepoint
<1>6. CASE RollbackTo(c) /\ ~Fails(c)
  <2>1. run' \in [Client -> Runs]
    BY <1>6, RollbackToStep, StepEffect
  <2> QED
    BY <1>6, <2>1 DEF TypeOK, RollbackTo, Fails
<1>7. CASE Release(c) /\ ~Fails(c)
  <2>1. run' \in [Client -> Runs]
    BY <1>7, ReleaseStep, StepEffect
  <2> QED
    BY <1>7, <2>1 DEF TypeOK, Release, Fails
<1>8. CASE BeginTx(c) /\ ~Fails(c)
  <2>1. run' \in [Client -> Runs]
    BY <1>8, AnswerStep, StepEffect DEF BeginTx, Fails
  <2>2. run[c].md \in States /\ run[c].original \in States
    BY Typed, RunFields
  <2>3. tx' \in [Client -> Txs]
    <3>1. [open |-> TRUE, md |-> run[c].md, original |-> run[c].original] \in Txs
      BY <2>2 DEF Txs
    <3>2. tx' = [tx EXCEPT ![c] = [open |-> TRUE, md |-> run[c].md,
                                   original |-> run[c].original]]
      BY <1>8, Zenon DEF BeginTx, Fails
    <3> QED
      BY <3>1, <3>2 DEF TypeOK
  <2> QED
    BY <1>8, <2>1, <2>3 DEF TypeOK, BeginTx, Fails
<1>9. CASE CommitTx(c) /\ ~Fails(c)
  <2>1. run' \in [Client -> Runs]
    BY <1>9, CommitTxStep, StepEffect
  <2> QED
    BY <1>9, <2>1, InitialType DEF TypeOK, CommitTx, Fails
<1>10. CASE RollbackTx(c) /\ ~Fails(c)
  <2>1. run' \in [Client -> Runs]
    BY <1>10, AnswerStep, StepEffect DEF RollbackTx, Fails
  <2> QED
    BY <1>10, <2>1, InitialType DEF TypeOK, RollbackTx, Fails
<1>11. CASE Fail(c)
  BY <1>1, <1>11 DEF Fail, Fails
<1> QED
  BY <1>1, <1>2, <1>3, <1>4, <1>5, <1>6, <1>7, <1>8, <1>9, <1>10, <1>11 DEF Execute

LEMMA HandleType ==
    ASSUME TypeOK, NEW c \in Client, Handle(c), UNCHANGED compaction PROVE TypeOK'
<1>1. CASE BeginWriteTx(c)
  <2>1. run' \in [Client -> Runs]
    BY <1>1, BeginWriteTxStep, StepEffect
  <2> QED
    BY <1>1, <2>1 DEF TypeOK, BeginWriteTx
<1>2. CASE Finish(c) \/ RefuseGet(c) \/ Conflict(c)
  <2>1. run' \in [Client -> Runs]
    BY <1>2, AnswerStep, StepEffect DEF Finish, RefuseGet, Conflict
  <2> QED
    BY <1>2, <2>1 DEF TypeOK, Finish, RefuseGet, Conflict
<1>3. CASE ToCommit(c) \/ Lock(c) \/ Verify(c) \/ FinishRetry(c) \/ Retry(c)
  <2>1. run' \in [Client -> Runs]
    BY <1>3, ToCommitStep, LockStep, VerifyStep, FinishRetryStep, RetryStep, StepEffect
  <2> QED
    BY <1>3, <2>1 DEF TypeOK, ToCommit, Lock, Verify, FinishRetry, Retry
<1>4. CASE ViolateConstraint(c)
  BY <1>4, ErrorType DEF ViolateConstraint
<1>5. CASE Commit(c)
  <2>1. run' \in [Client -> Runs]
    BY <1>5, AnswerStep, StepEffect DEF Commit
  <2>2. run[c].n \in Nat /\ run[c].md.base \in Nat
    BY Typed, RunFields, StateFields
  <2>3. [by |-> c, n |-> run[c].n, base |-> run[c].md.base] \in Entries
    BY <2>2 DEF Entries
  <2>4. log' \in Seq(Entries)
    BY <1>5, <2>3 DEF TypeOK, Commit
  <2> QED
    BY <1>5, <2>1, <2>4 DEF TypeOK, Commit
<1> QED
  BY <1>1, <1>2, <1>3, <1>4, <1>5, ExecuteType DEF Handle

LEMMA ClientType ==
    ASSUME TypeOK, NEW c \in Client, UNCHANGED compaction, Send(c) \/ Receive(c) \/ HangUp(c)
    PROVE  TypeOK'
<1>1. run' \in [Client -> Runs]
  BY SendStep, IdleStep, StepEffect
<1> QED
  BY <1>1, InitialType, ReleasedType DEF TypeOK, Send, Receive, HangUp

LEMMA CompactionsType ==
    ASSUME log \in Seq(Entries) PROVE Compactions \in Nat
<1> DEFINE S == {k \in 1..Len(log) : log[k].by = Compactor}
<1>1. IsFiniteSet(S)
  BY FS_Interval, FS_Subset
<1>2. Cardinality(S) \in Nat
  BY <1>1, FS_CardinalityType
<1>3. S = {k \in DOMAIN log : log[k].by = Compactor}
  OBVIOUS
<1> QED
  BY <1>2, <1>3 DEF Compactions

LEMMA CompactorType ==
    ASSUME TypeOK, CompactorLock \/ CompactorCommit PROVE TypeOK'
<1>1. CASE CompactorLock
  BY <1>1, CurrentType DEF TypeOK, CompactorLock
<1>2. CASE CompactorCommit
  <2>1. Compactions + 1 \in Nat
    BY CompactionsType DEF TypeOK
  <2> QED
    BY <1>2, <2>1, InitialType DEF TypeOK, CompactorCommit, Entries, States
<1> QED
  BY <1>1, <1>2

\* Every variable of Transactions keeps its type, whatever clients ask for.
THEOREM TypeCorrect == Spec => []TypeOK
<1>1. Init => TypeOK
  BY InitialType DEF Init, TypeOK
<1>2. TypeOK /\ [Next]_vars => TypeOK'
  <2> SUFFICES ASSUME TypeOK, [Next]_vars PROVE TypeOK'
    OBVIOUS
  <2>1. CASE UNCHANGED vars
    BY <2>1 DEF TypeOK, vars
  <2>2. CASE Expire /\ UNCHANGED compaction
    BY <2>2 DEF TypeOK, Expire
  <2> QED
    BY <2>1, <2>2, ClientType, HandleType, CompactorType DEF Next
<1> QED
  BY <1>1, <1>2, PTL DEF Spec

----------------------------------------------------------------------------
(* The inductive invariant: who holds the lock, and what a write-db is made *)
(* from.                                                                   *)

\* c works under the lock.
Locking(r) == r.pc \in {"locked", "commit"} \/ (r.retry /\ r.pc \in {"exec", "save"})

Working(r) == r.pc \in {"exec", "save"}

\* No statement of the request rolls back to a savepoint.
Unbranched(r) == \A k \in DOMAIN r.script : r.script[k] # "rollback to"

\* The write-db holds the writes of the client alone, over HTTP those of this
\* request, on top of the state it was made from.
Own(c, r, state) ==
    /\ state.base = r.original.base /\ r.original.own = <<>>
    /\ \A k \in DOMAIN state.own :
          state.own[k][1] = c /\ (c \in Http => state.own[k][2] = r.n)

\* What holds of a handler whatever the others do.
RunOK(c, r) ==
    /\ r.savepointp => c \in Http
    /\ r.interactive => c \in Ws
    /\ r.pc \in {"idle", "sent"} => r.i = 1 /\ ~r.retry
    /\ Working(r) /\ ~r.savepointp =>
          Own(c, r, r.md) /\ \A k \in 1..(r.i - 1) : r.script[k] # "rollback to"
    /\ r.pc = "save" => r.script[r.i] = "save"
    /\ Working(r) /\ r.retry => ~r.savepointp /\ Unbranched(r) /\ ~r.interactive
    /\ r.pc \in {"wait", "locked", "commit"} => Own(c, r, r.md)
    /\ r.pc \in {"wait", "locked"} => r.interactive \/ Unbranched(r)
    /\ r.pc = "answer" /\ r.status = "created" => Own(c, r, r.md)

\* An open transaction belongs to a WebSocket connection.
TxOK(c, t) ==
    t.open =>
        /\ c \in Ws /\ t.md.base = t.original.base /\ t.original.own = <<>>
        /\ \A k \in DOMAIN t.md.own : t.md.own[k][1] = c

\* The handler of a message in a transaction works on that transaction.
LinkOK(c) == Working(run[c]) /\ run[c].interactive => tx[c].original = run[c].original

\* Under the lock the write-db is made from the current state.
LockOK(c) ==
    /\ Locking(run[c]) => lock = c
    /\ run[c].pc = "commit" \/ (run[c].retry /\ Working(run[c]))
          => run[c].original.base = Len(log)

CompactorOK == lock = Compactor => compaction.base = Len(log)

IInv ==
    /\ TypeOK
    /\ \A c \in Client : RunOK(c, run[c]) /\ TxOK(c, tx[c]) /\ LinkOK(c) /\ LockOK(c)
    /\ CompactorOK

\* What is left to show of an action of c: its own part of the invariant, and
\* that it leaves the parts of the others alone.
Keeps(c) == RunOK(c, run'[c]) /\ TxOK(c, tx'[c]) /\ LinkOK(c)' /\ LockOK(c)'
Frame(c) ==
    /\ \A d \in Client \ {c} : run'[d] = run[d] /\ tx'[d] = tx[d]
    /\ log' = log \/ lock = c
    /\ lock' \in {lock, Released(c)} \/ (lock = Nobody /\ lock' = c)

LEMMA Frames ==
    ASSUME IInv, NEW c \in Client, TypeOK', Keeps(c), Frame(c), UNCHANGED compaction
    PROVE  IInv'
<1>1. ASSUME NEW d \in Client \ {c}
      PROVE  RunOK(d, run'[d]) /\ TxOK(d, tx'[d]) /\ LinkOK(d)' /\ LockOK(d)'
  <2>1. RunOK(d, run[d]) /\ TxOK(d, tx[d]) /\ LinkOK(d) /\ LockOK(d)
    BY DEF IInv
  <2>2. run'[d] = run[d] /\ tx'[d] = tx[d]
    BY DEF Frame
  <2>3. lock = d => log' = log /\ lock' = d
    BY ClientAssumption DEF Frame, Released
  <2>4. LinkOK(d)'
    BY <2>1, <2>2 DEF LinkOK
  <2>5. LockOK(d)'
    BY <2>1, <2>2, <2>3 DEF LockOK, Locking, Working
  <2> QED
    BY <2>1, <2>2, <2>4, <2>5
<1>2. CompactorOK'
  <2>1. lock' = Compactor => lock = Compactor /\ log' = log
    BY ClientAssumption DEF Frame, Released
  <2> QED
    BY <2>1 DEF CompactorOK, IInv
<1> QED
  BY <1>1, <1>2 DEF IInv, Keeps

\* An answer other than "created" obliges to nothing.
LEMMA AnswerInv ==
    ASSUME IInv, NEW c \in Client, NEW status, Answer(c, status),
           status \in {"ok", "bad request", "error", "conflict"}, TxOK(c, tx'[c])
    PROVE  Keeps(c) /\ \A d \in Client \ {c} : run'[d] = run[d]
<1> DEFINE r == [run[c] EXCEPT !.pc = "answer", !.status = status]
<1>1. Step(c, r)
  BY AnswerStep DEF IInv
<1>2. run'[c] = r /\ \A d \in Client \ {c} : run'[d] = run[d]
  BY <1>1, StepEffect DEF IInv
<1>3. RunOK(c, run[c]) /\ run[c] \in Runs
  BY Typed DEF IInv
<1>4. /\ r.pc = "answer" /\ r.status = status
      /\ r.savepointp = run[c].savepointp /\ r.interactive = run[c].interactive
  BY <1>3 DEF Runs
<1> HIDE DEF r
<1>5. RunOK(c, r)
  BY <1>3, <1>4 DEF RunOK, Working
<1>6. LinkOK(c)' /\ LockOK(c)'
  BY <1>2, <1>4 DEF LinkOK, LockOK, Locking, Working
<1> QED
  BY <1>2, <1>5, <1>6 DEF Keeps

LEMMA FailsInv ==
    ASSUME IInv, NEW c \in Client, Fails(c) PROVE Keeps(c) /\ Frame(c)
<1>1. TxOK(c, tx'[c])
  BY DEF IInv, Fails
<1> QED
  BY <1>1, AnswerInv DEF Fails, Error, Frame

\* The handler of c goes on as r, its transaction as it was or as stated.
LEMMA StepInv ==
    ASSUME IInv, NEW c \in Client, NEW r, Step(c, r), RunOK(c, r), TxOK(c, tx'[c]),
           Working(r) /\ r.interactive => tx'[c].original = r.original,
           Locking(r) => lock' = c,
           r.pc = "commit" \/ (r.retry /\ Working(r)) => r.original.base = Len(log')
    PROVE  Keeps(c) /\ \A d \in Client \ {c} : run'[d] = run[d]
<1>1. run'[c] = r /\ \A d \in Client \ {c} : run'[d] = run[d]
  BY StepEffect DEF IInv
<1> QED
  BY <1>1 DEF Keeps, LinkOK, LockOK

LEMMA Known ==
    ASSUME IInv, NEW c \in Client
    PROVE  /\ TypeOK /\ run[c] \in Runs /\ RunOK(c, run[c]) /\ TxOK(c, tx[c])
           /\ LinkOK(c) /\ LockOK(c)
BY Typed DEF IInv

LEMMA SendInv ==
    ASSUME IInv, NEW c \in Client, Send(c) PROVE Keeps(c) /\ Frame(c)
<1>1. PICK script \in Seq(Statement), post \in BOOLEAN :
        Step(c, [run[c] EXCEPT !.pc = "sent", !.n = run[c].n + 1, !.start = Len(log),
                               !.post = post, !.script = script])
  BY SendStep, Known
<1> DEFINE r == [run[c] EXCEPT !.pc = "sent", !.n = run[c].n + 1, !.start = Len(log),
                               !.post = post, !.script = script]
<1>2. /\ r.pc = "sent" /\ r.i = run[c].i /\ r.retry = run[c].retry
      /\ r.savepointp = run[c].savepointp /\ r.interactive = run[c].interactive
  BY Known DEF Runs
<1>3. Step(c, r) /\ run[c].pc = "idle" /\ UNCHANGED <<log, lock, savepoint, tx>>
  BY <1>1 DEF Send
<1> HIDE DEF r
<1>4. RunOK(c, r)
  BY <1>2, <1>3, Known DEF RunOK, Working
<1>5. Keeps(c) /\ \A d \in Client \ {c} : run'[d] = run[d]
  <2>1. ~Working(r) /\ ~Locking(r) /\ r.pc # "commit"
    BY <1>2 DEF Working, Locking
  <2> QED
    BY <1>3, <1>4, <2>1, StepInv, Known
<1> QED
  BY <1>3, <1>5 DEF Frame

LEMMA BeginWriteTxInv ==
    ASSUME IInv, NEW c \in Client, BeginWriteTx(c) PROVE Keeps(c) /\ Frame(c)
<1> DEFINE r == [run[c] EXCEPT !.pc = "exec", !.interactive = tx[c].open,
                               !.md = WriteDb(c).md, !.original = WriteDb(c).original]
<1>1. /\ r.pc = "exec" /\ r.interactive = tx[c].open /\ r.md = WriteDb(c).md
      /\ r.original = WriteDb(c).original /\ r.i = run[c].i /\ r.retry = run[c].retry
      /\ r.savepointp = run[c].savepointp /\ r.n = run[c].n
  BY Known DEF Runs
<1>2. /\ Step(c, r) /\ run[c].pc = "sent" /\ UNCHANGED <<log, lock, savepoint, tx>>
      /\ run[c].i = 1 /\ ~run[c].retry
  BY BeginWriteTxStep, Known DEF BeginWriteTx, RunOK
<1> HIDE DEF r
<1>3. tx[c].open => c \in Ws /\ c \notin Http
  BY Known, ClientAssumption DEF TxOK
<1>4. Own(c, r, r.md) /\ (r.interactive => tx[c].original = r.original)
  <2>1. CASE tx[c].open
    <3>1. r.md = tx[c].md /\ r.original = tx[c].original
      BY <1>1, <2>1 DEF WriteDb
    <3> QED
      BY <1>3, <2>1, <3>1, Known DEF Own, TxOK
  <2>2. CASE ~tx[c].open
    <3>1. r.md = Current /\ r.original = Current
      BY <1>1, <2>2 DEF WriteDb
    <3> QED
      BY <1>1, <2>2, <3>1 DEF Own, Current
  <2> QED
    BY <2>1, <2>2
<1>5. RunOK(c, r)
  <2>1. 1..(r.i - 1) = {}
    BY <1>1, <1>2
  <2> QED
    BY <1>1, <1>2, <1>3, <1>4, <2>1, Known DEF RunOK, Working
<1>6. ~Locking(r) /\ r.pc # "commit" /\ ~r.retry
  BY <1>1, <1>2 DEF Locking
<1>7. Keeps(c) /\ \A d \in Client \ {c} : run'[d] = run[d]
  BY <1>2, <1>4, <1>5, <1>6, StepInv, Known
<1> QED
  BY <1>2, <1>7 DEF Frame

LEMMA Before ==
    ASSUME NEW i \in Nat, NEW j, j = i + 1, NEW k \in 1..(j - 1)
    PROVE  k \in 1..(i - 1) \/ k = i
OBVIOUS

\* The handler goes on with the next statement, having q before.
Advances(q, r) ==
    /\ r.pc = "exec" /\ r.i = q.i + 1 /\ r.n = q.n /\ r.script = q.script
    /\ r.original = q.original /\ r.interactive = q.interactive
    /\ r.savepointp = q.savepointp /\ r.retry = q.retry

\* A statement other than a rollback to a savepoint is done.
LEMMA AdvanceInv ==
    ASSUME IInv, NEW c \in Client, NEW r, Step(c, r), Advances(run[c], r),
           Working(run[c]), run[c].script[run[c].i] # "rollback to",
           ~run[c].savepointp => Own(c, run[c], r.md),
           UNCHANGED <<log, lock>>, TxOK(c, tx'[c]), tx'[c].original = tx[c].original,
           \A d \in Client \ {c} : tx'[d] = tx[d]
    PROVE  Keeps(c) /\ Frame(c)
<1>1. RunOK(c, run[c]) /\ LinkOK(c) /\ LockOK(c) /\ run[c].i \in Nat
  BY Known, RunFields
<1>2. RunOK(c, r)
  <2>1. ~r.savepointp => Own(c, r, r.md)
    BY DEF Own, Advances
  <2>2. ASSUME ~r.savepointp, NEW k \in 1..(r.i - 1) PROVE r.script[k] # "rollback to"
    <3>1. run[c].i \in Nat /\ r.i = run[c].i + 1
      BY <1>1 DEF Advances
    <3>2. k \in 1..(run[c].i - 1) \/ k = run[c].i
      BY <3>1, Before
    <3> QED
      BY <1>1, <2>2, <3>2 DEF RunOK, Advances
  <2>3. r.retry => Unbranched(r)
    BY <1>1 DEF RunOK, Unbranched, Advances
  <2> QED
    BY <1>1, <2>1, <2>2, <2>3 DEF RunOK, Working, Advances
<1>3. /\ r.interactive => tx'[c].original = r.original
      /\ Locking(r) => lock' = c
      /\ r.retry => r.original.base = Len(log')
  BY <1>1 DEF LinkOK, LockOK, Locking, Working, Advances
<1>4. Keeps(c) /\ \A d \in Client \ {c} : run'[d] = run[d]
  BY <1>2, <1>3, StepInv DEF Advances
<1> QED
  BY <1>4 DEF Frame

LEMMA Advancing ==
    ASSUME NEW q \in Runs, NEW md
    PROVE  /\ Advances(q, [q EXCEPT !.pc = "exec", !.i = q.i + 1, !.md = md])
           /\ [q EXCEPT !.pc = "exec", !.i = q.i + 1, !.md = md].md = md
BY DEF Advances, Runs

LEMMA StatementInv ==
    ASSUME IInv, NEW c \in Client, Read(c) \/ (Release(c) /\ ~Fails(c)) \/ PutSavepoint(c)
    PROVE  Keeps(c) /\ Frame(c)
<1> DEFINE r == [run[c] EXCEPT !.pc = "exec", !.i = run[c].i + 1, !.md = run[c].md]
<1>1. Step(c, r)
  <2>1. CASE Read(c) \/ (Release(c) /\ ~Fails(c))
    <3>1. Step(c, [run[c] EXCEPT !.i = run[c].i + 1]) /\ run[c].pc = "exec"
      BY <2>1, ReadStep, ReleaseStep, Known DEF Read, Release, Executing
    <3>2. r = [run[c] EXCEPT !.i = run[c].i + 1]
      BY <3>1, Known DEF Runs
    <3> QED
      BY <3>1, <3>2
  <2>2. CASE PutSavepoint(c)
    <3>1. Step(c, [run[c] EXCEPT !.pc = "exec", !.i = run[c].i + 1])
      BY <2>2, PutSavepointStep, Known
    <3>2. r = [run[c] EXCEPT !.pc = "exec", !.i = run[c].i + 1]
      BY Known DEF Runs
    <3> QED
      BY <3>1, <3>2
  <2> QED
    BY <2>1, <2>2
<1>2. Advances(run[c], r) /\ r.md = run[c].md
  BY Advancing, Known
<1> HIDE DEF r
<1>3. Working(run[c]) /\ run[c].script[run[c].i] # "rollback to"
  BY Known DEF Read, Release, PutSavepoint, Executing, Working, RunOK
<1>4. ~run[c].savepointp => Own(c, run[c], r.md)
  BY <1>2, <1>3, Known DEF RunOK
<1>5. UNCHANGED <<log, lock, tx>>
  BY DEF Read, Release, PutSavepoint, Fails
<1> QED
  BY <1>1, <1>2, <1>3, <1>4, <1>5, AdvanceInv, Known

LEMMA WriteInv ==
    ASSUME IInv, NEW c \in Client, Write(c) PROVE Keeps(c) /\ Frame(c)
<1>1. /\ Written(c) \in States /\ Written(c).base = run[c].md.base
      /\ Written(c).own = Append(run[c].md.own, <<c, run[c].n>>)
  BY WrittenType, Known
<1>2. /\ Step(c, [run[c] EXCEPT !.i = run[c].i + 1, !.md = Written(c)])
      /\ tx' = IF run[c].interactive THEN [tx EXCEPT ![c].md = Written(c)] ELSE tx
      /\ run[c].pc = "exec"
  BY WriteStep, Known DEF Write, Executing
<1> DEFINE r == [run[c] EXCEPT !.pc = "exec", !.i = run[c].i + 1, !.md = Written(c)]
<1>3. Step(c, r) /\ Advances(run[c], r) /\ r.md = Written(c)
  <2>1. r = [run[c] EXCEPT !.i = run[c].i + 1, !.md = Written(c)]
    BY <1>2, Known DEF Runs
  <2> QED
    BY <1>2, <2>1, Advancing, Known
<1> HIDE DEF r
<1>4. Working(run[c]) /\ run[c].script[run[c].i] # "rollback to" /\ UNCHANGED <<log, lock>>
  BY DEF Write, Executing, Working
<1>5. run[c].md.own \in Seq(Client \X Nat) /\ run[c].n \in Nat
  BY Known, RunFields, StateFields
<1>6. \A k \in DOMAIN Written(c).own :
         \/ k \in DOMAIN run[c].md.own /\ Written(c).own[k] = run[c].md.own[k]
         \/ Written(c).own[k] = <<c, run[c].n>>
  <2> DEFINE own == run[c].md.own
             entry == <<c, run[c].n>>
  <2>1. own \in Seq(Client \X Nat) /\ entry \in Client \X Nat
    BY <1>5
  <2> HIDE DEF own, entry
  <2>2. \A k \in DOMAIN Append(own, entry) :
           (k \in DOMAIN own /\ Append(own, entry)[k] = own[k]) \/ Append(own, entry)[k] = entry
    BY <2>1
  <2> QED
    BY <1>1, <2>2 DEF own, entry
<1>7. ~run[c].savepointp => Own(c, run[c], Written(c))
  <2>1. ~run[c].savepointp => Own(c, run[c], run[c].md)
    BY <1>4, Known DEF RunOK
  <2> QED
    BY <1>1, <1>6, <2>1 DEF Own
<1>8. TxOK(c, tx'[c]) /\ tx'[c].original = tx[c].original
  <2>1. CASE run[c].interactive
    <3>1. tx'[c] = [tx[c] EXCEPT !.md = Written(c)] /\ tx[c] \in Txs
      BY <1>2, <2>1, Known DEF TypeOK
    <3>2. /\ tx'[c].md = Written(c) /\ tx'[c].original = tx[c].original
          /\ tx'[c].open = tx[c].open
      BY <3>1 DEF Txs
    <3>3. tx[c].original = run[c].original /\ ~run[c].savepointp /\ c \in Ws
      BY <1>4, <2>1, Known, ClientAssumption DEF LinkOK, RunOK
    <3> QED
      BY <1>7, <3>2, <3>3 DEF TxOK, Own
  <2>2. CASE ~run[c].interactive
    BY <1>2, <2>2, Known
  <2> QED
    BY <2>1, <2>2
<1>9. \A d \in Client \ {c} : tx'[d] = tx[d]
  BY <1>2, Known DEF TypeOK
<1> QED
  BY <1>1, <1>3, <1>4, <1>7, <1>8, <1>9, AdvanceInv

LEMMA FindSavepointInv ==
    ASSUME IInv, NEW c \in Client, FindSavepoint(c), ~Fails(c) PROVE Keeps(c) /\ Frame(c)
<1> DEFINE r == [run[c] EXCEPT !.pc = "save"]
<1>1. /\ r.pc = "save" /\ r.i = run[c].i /\ r.md = run[c].md /\ r.n = run[c].n
      /\ r.original = run[c].original /\ r.script = run[c].script
      /\ r.interactive = run[c].interactive /\ r.savepointp = run[c].savepointp
      /\ r.retry = run[c].retry
  BY Known DEF Runs
<1>2. /\ Step(c, r) /\ run[c].pc = "exec" /\ run[c].script[run[c].i] = "save"
      /\ UNCHANGED <<log, lock, tx>>
  BY FindSavepointStep, Known DEF FindSavepoint, Executing, Fails
<1> HIDE DEF r
<1>3. RunOK(c, run[c]) /\ LinkOK(c) /\ LockOK(c) /\ TxOK(c, tx[c])
  BY Known
<1>4. RunOK(c, r)
  BY <1>1, <1>2, <1>3 DEF RunOK, Working, Own, Unbranched
<1>5. /\ r.interactive => tx'[c].original = r.original
      /\ Locking(r) => lock' = c
      /\ r.retry => r.original.base = Len(log')
  BY <1>1, <1>2, <1>3 DEF LinkOK, LockOK, Locking, Working
<1>6. Keeps(c) /\ \A d \in Client \ {c} : run'[d] = run[d]
  BY <1>1, <1>2, <1>3, <1>4, <1>5, StepInv
<1> QED
  BY <1>2, <1>6 DEF Frame

LEMMA RollbackToInv ==
    ASSUME IInv, NEW c \in Client, RollbackTo(c), ~Fails(c) PROVE Keeps(c) /\ Frame(c)
<1> DEFINE r == [run[c] EXCEPT !.i = run[c].i + 1, !.md = savepoint, !.savepointp = TRUE]
<1>1. /\ r.pc = run[c].pc /\ r.interactive = run[c].interactive /\ r.savepointp = TRUE
      /\ r.retry = run[c].retry
  BY Known DEF Runs
<1>2. /\ Step(c, r) /\ run[c].pc = "exec" /\ run[c].script[run[c].i] = "rollback to"
      /\ c \in Http /\ ~Done(c) /\ UNCHANGED <<log, lock, tx>>
  BY RollbackToStep, Known DEF RollbackTo, Executing, Fails
<1> HIDE DEF r
<1>3. ~run[c].retry /\ ~run[c].interactive
  <2>1. run[c].i \in Nat \ {0} /\ run[c].script \in Seq(Statement)
    BY Known, RunFields
  <2>2. run[c].retry => Unbranched(run[c])
    BY <1>2, Known DEF RunOK, Working
  <2>3. run[c].i \in DOMAIN run[c].script
    <3>1. ~(run[c].i > Len(run[c].script)) /\ run[c].i \in Nat \ {0}
      BY <1>2, <2>1 DEF Done
    <3> QED
      BY <2>1, <3>1
  <2> QED
    BY <1>2, <2>2, <2>3, Known, ClientAssumption DEF Unbranched, RunOK
<1>4. RunOK(c, r)
  BY <1>1, <1>2, <1>3 DEF RunOK
<1>5. ~r.interactive /\ ~Locking(r) /\ ~r.retry /\ r.pc = "exec"
  BY <1>1, <1>2, <1>3 DEF Locking
<1>6. Keeps(c) /\ \A d \in Client \ {c} : run'[d] = run[d]
  BY <1>1, <1>2, <1>4, <1>5, StepInv, Known
<1> QED
  BY <1>2, <1>6 DEF Frame

LEMMA BeginTxInv ==
    ASSUME IInv, NEW c \in Client, BeginTx(c), ~Fails(c) PROVE Keeps(c) /\ Frame(c)
<1>1. /\ c \in Ws /\ run[c].pc = "exec" /\ Answer(c, "ok") /\ UNCHANGED <<log, lock>>
      /\ tx' = [tx EXCEPT ![c] = [open |-> TRUE, md |-> run[c].md,
                                  original |-> run[c].original]]
  BY Zenon DEF BeginTx, Executing, Fails
<1>2. Own(c, run[c], run[c].md)
  BY <1>1, Known, ClientAssumption DEF RunOK, Working
<1>3. /\ tx'[c] = [open |-> TRUE, md |-> run[c].md, original |-> run[c].original]
      /\ \A d \in Client \ {c} : tx'[d] = tx[d]
  BY <1>1, Known DEF TypeOK
<1>4. TxOK(c, tx'[c])
  BY <1>1, <1>2, <1>3 DEF TxOK, Own
<1> QED
  BY <1>1, <1>3, <1>4, AnswerInv DEF Frame

LEMMA RollbackTxInv ==
    ASSUME IInv, NEW c \in Client, RollbackTx(c), ~Fails(c) PROVE Keeps(c) /\ Frame(c)
<1>1. /\ \E status \in {"ok", "bad request"} : Answer(c, status)
      /\ tx' = [tx EXCEPT ![c] = NoTx] /\ UNCHANGED <<log, lock>>
  BY DEF RollbackTx, Fails
<1>2. TxOK(c, tx'[c]) /\ \A d \in Client \ {c} : tx'[d] = tx[d]
  BY <1>1, Known DEF TypeOK, TxOK, NoTx
<1> QED
  BY <1>1, <1>2, AnswerInv DEF Frame

LEMMA RefusalInv ==
    ASSUME IInv, NEW c \in Client, Finish(c) \/ RefuseGet(c) \/ Conflict(c)
    PROVE  Keeps(c) /\ Frame(c)
<1>1. /\ \E status \in {"ok", "bad request", "conflict"} : Answer(c, status)
      /\ UNCHANGED <<log, lock, tx>>
  BY DEF Finish, RefuseGet, Conflict
<1> QED
  BY <1>1, AnswerInv, Known DEF Frame

LEMMA ViolateConstraintInv ==
    ASSUME IInv, NEW c \in Client, ViolateConstraint(c) PROVE Keeps(c) /\ Frame(c)
BY FailsInv DEF ViolateConstraint, Fails

\* What is the same in a handler that only moves on, having q before.
Moves(q, r) ==
    /\ r.i = q.i /\ r.n = q.n /\ r.md = q.md /\ r.original = q.original
    /\ r.script = q.script /\ r.interactive = q.interactive
    /\ r.savepointp = q.savepointp /\ r.retry = q.retry

LEMMA Moving ==
    ASSUME NEW q \in Runs, NEW pc
    PROVE  Moves(q, [q EXCEPT !.pc = pc]) /\ [q EXCEPT !.pc = pc].pc = pc
BY DEF Moves, Runs

\* A commit is prepared, or its lock taken, or its write-db found up to date.
LEMMA MoveInv ==
    ASSUME IInv, NEW c \in Client, NEW r, Step(c, r), Moves(run[c], r),
           r.pc \in {"wait", "locked", "commit"}, Own(c, run[c], run[c].md),
           r.pc # "commit" => run[c].interactive \/ Unbranched(run[c]),
           r.pc # "wait" => lock' = c,
           r.pc = "commit" => r.original.base = Len(log),
           UNCHANGED <<log, tx>>, lock' = lock \/ (lock = Nobody /\ lock' = c)
    PROVE  Keeps(c) /\ Frame(c)
<1>1. Own(c, r, r.md)
  BY DEF Own, Moves
<1>2. r.pc # "commit" => r.interactive \/ Unbranched(r)
  BY DEF Unbranched, Moves
<1>3. RunOK(c, r)
  BY <1>1, <1>2, Known DEF RunOK, Working, Moves
<1>4. ~Working(r) /\ (Locking(r) => lock' = c)
  BY DEF Working, Locking
<1>5. Keeps(c) /\ \A d \in Client \ {c} : run'[d] = run[d]
  BY <1>3, <1>4, StepInv, Known
<1> QED
  BY <1>5 DEF Frame

\* After the last statement none of them was a rollback to a savepoint, unless
\* one is noted.
LEMMA DoneUnbranched ==
    ASSUME IInv, NEW c \in Client, run[c].pc = "exec", Done(c), ~run[c].savepointp
    PROVE  Own(c, run[c], run[c].md) /\ Unbranched(run[c])
<1>1. /\ Own(c, run[c], run[c].md)
      /\ \A k \in 1..(run[c].i - 1) : run[c].script[k] # "rollback to"
  BY Known DEF RunOK, Working
<1>2. run[c].i \in Nat /\ run[c].script \in Seq(Statement) /\ run[c].i > Len(run[c].script)
  BY Known, RunFields DEF Done
<1>3. DOMAIN run[c].script \subseteq 1..(run[c].i - 1)
  BY <1>2
<1> QED
  BY <1>1, <1>3 DEF Unbranched

LEMMA ToWaitInv ==
    ASSUME IInv, NEW c \in Client, ToCommit(c) \/ (CommitTx(c) /\ ~Fails(c))
    PROVE  Keeps(c) /\ Frame(c)
<1> DEFINE r == [run[c] EXCEPT !.pc = "wait"]
<1>1. Step(c, r) /\ Moves(run[c], r) /\ r.pc = "wait"
  BY ToCommitStep, CommitTxStep, Moving, Known
<1> HIDE DEF r
<1>2. UNCHANGED <<log, lock>> /\ run[c].pc = "exec"
  BY DEF ToCommit, CommitTx, Executing, Fails
<1>3. CASE ToCommit(c)
  <2>1. Done(c) /\ ~run[c].savepointp /\ UNCHANGED tx
    BY <1>3 DEF ToCommit, MayCommit
  <2> QED
    BY <1>1, <1>2, <2>1, DoneUnbranched, MoveInv
<1>4. CASE CommitTx(c) /\ ~Fails(c)
  <2>1. run[c].interactive /\ tx' = [tx EXCEPT ![c] = NoTx]
    BY <1>4 DEF CommitTx, Fails
  <2>2. Own(c, run[c], run[c].md)
    BY <1>2, <2>1, Known, ClientAssumption DEF RunOK, Working
  <2>3. RunOK(c, r)
    <3>1. Own(c, r, r.md)
      BY <1>1, <2>2 DEF Own, Moves
    <3> QED
      BY <1>1, <2>1, <3>1, Known DEF RunOK, Working, Moves
  <2>4. TxOK(c, tx'[c]) /\ \A d \in Client \ {c} : tx'[d] = tx[d]
    BY <2>1, Known DEF TypeOK, TxOK, NoTx
  <2>5. ~Working(r) /\ ~Locking(r) /\ r.pc # "commit"
    BY <1>1 DEF Working, Locking
  <2>6. Keeps(c) /\ \A d \in Client \ {c} : run'[d] = run[d]
    BY <1>1, <2>3, <2>4, <2>5, StepInv
  <2> QED
    BY <1>2, <2>4, <2>6 DEF Frame
<1> QED
  BY <1>3, <1>4

LEMMA LockInv ==
    ASSUME IInv, NEW c \in Client, Lock(c) PROVE Keeps(c) /\ Frame(c)
<1> DEFINE r == [run[c] EXCEPT !.pc = "locked"]
<1>1. Step(c, r) /\ Moves(run[c], r) /\ r.pc = "locked"
  BY LockStep, Moving, Known
<1> HIDE DEF r
<1>2. run[c].pc = "wait" /\ lock = Nobody /\ lock' = c /\ UNCHANGED <<log, tx>>
  BY DEF Lock
<1>3. Own(c, run[c], run[c].md) /\ (run[c].interactive \/ Unbranched(run[c]))
  BY <1>2, Known DEF RunOK
<1> QED
  BY <1>1, <1>2, <1>3, MoveInv

LEMMA ToCommitWriteTxInv ==
    ASSUME IInv, NEW c \in Client, Verify(c) \/ FinishRetry(c) PROVE Keeps(c) /\ Frame(c)
<1> DEFINE r == [run[c] EXCEPT !.pc = "commit"]
<1>1. Step(c, r) /\ Moves(run[c], r) /\ r.pc = "commit"
  BY VerifyStep, FinishRetryStep, Moving, Known
<1> HIDE DEF r
<1>2. UNCHANGED <<log, lock, tx>>
  BY DEF Verify, FinishRetry
<1>3. lock = c /\ run[c].original.base = Len(log) /\ Own(c, run[c], run[c].md)
  <2>1. CASE Verify(c)
    <3>1. run[c].pc = "locked" /\ run[c].original = Current
      BY <2>1 DEF Verify, UpToDate
    <3>2. run[c].original.base = Len(log)
      BY <3>1 DEF Current
    <3> QED
      BY <3>1, <3>2, Known DEF RunOK, LockOK, Locking
  <2>2. CASE FinishRetry(c)
    <3>1. run[c].pc = "exec" /\ run[c].retry
      BY <2>2 DEF FinishRetry
    <3> QED
      BY <3>1, Known DEF RunOK, LockOK, Locking, Working
  <2> QED
    BY <2>1, <2>2
<1>4. r.original = run[c].original
  BY <1>1 DEF Moves
<1> QED
  BY <1>1, <1>2, <1>3, <1>4, MoveInv

LEMMA CommitInv ==
    ASSUME IInv, NEW c \in Client, Commit(c) PROVE Keeps(c) /\ Frame(c)
<1>1. run[c].pc = "commit" /\ UNCHANGED <<lock, tx>>
  BY DEF Commit
<1>2. lock = c /\ Own(c, run[c], run[c].md)
  BY <1>1, Known DEF RunOK, LockOK, Locking
<1>3. CASE Answer(c, "ok")
  BY <1>1, <1>2, <1>3, AnswerInv, Known DEF Frame
<1>4. CASE Answer(c, "created")
  <2> DEFINE r == [run[c] EXCEPT !.pc = "answer", !.status = "created"]
  <2>1. /\ Step(c, r) /\ r.pc = "answer"
        /\ Moves(run[c], r)
    BY <1>4, AnswerStep, Known DEF Moves, Runs
  <2> HIDE DEF r
  <2>2. Own(c, r, r.md)
    BY <1>2, <2>1 DEF Own, Moves
  <2>3. RunOK(c, r)
    BY <2>1, <2>2, Known DEF RunOK, Working, Moves
  <2>4. ~Working(r) /\ ~Locking(r) /\ r.pc # "commit"
    BY <2>1 DEF Working, Locking
  <2>5. Keeps(c) /\ \A d \in Client \ {c} : run'[d] = run[d]
    BY <1>1, <2>1, <2>3, <2>4, StepInv, Known
  <2> QED
    BY <1>1, <1>2, <2>5 DEF Frame
<1> QED
  BY <1>3, <1>4 DEF Commit

LEMMA RetryInv ==
    ASSUME IInv, NEW c \in Client, Retry(c) PROVE Keeps(c) /\ Frame(c)
<1> DEFINE r == [run[c] EXCEPT !.pc = "exec", !.i = 1, !.retry = TRUE, !.md = Current,
                               !.original = Current, !.savepointp = FALSE]
<1>1. /\ r.pc = "exec" /\ r.i = 1 /\ r.retry = TRUE /\ r.md = Current
      /\ r.original = Current /\ r.savepointp = FALSE /\ r.script = run[c].script
      /\ r.interactive = run[c].interactive
  BY Known DEF Runs
<1>2. /\ Step(c, r) /\ run[c].pc = "locked" /\ ~run[c].interactive
      /\ UNCHANGED <<log, lock, tx>>
  BY RetryStep, Known DEF Retry
<1> HIDE DEF r
<1>3. Unbranched(r)
  BY <1>1, <1>2, Known DEF RunOK, Unbranched
<1>4. Own(c, r, r.md)
  BY <1>1 DEF Own, Current
<1>5. RunOK(c, r)
  <2>1. 1..(r.i - 1) = {}
    BY <1>1
  <2> QED
    BY <1>1, <1>2, <1>3, <1>4, <2>1 DEF RunOK, Working
<1>6. lock' = c /\ r.original.base = Len(log') /\ ~r.interactive
  BY <1>1, <1>2, Known DEF LockOK, Locking, Current
<1>7. Keeps(c) /\ \A d \in Client \ {c} : run'[d] = run[d]
  BY <1>2, <1>5, <1>6, StepInv, Known
<1> QED
  BY <1>2, <1>7 DEF Frame

LEMMA IdleInv ==
    ASSUME IInv, NEW c \in Client, Receive(c) \/ HangUp(c) PROVE Keeps(c) /\ Frame(c)
<1> DEFINE r == Idle(run[c].n)
<1>1. /\ Step(c, r) /\ r.pc = "idle" /\ r.i = 1 /\ r.retry = FALSE
      /\ r.savepointp = FALSE /\ r.interactive = FALSE
  BY IdleStep, Known DEF Idle
<1> HIDE DEF r
<1>2. /\ TxOK(c, tx'[c]) /\ \A d \in Client \ {c} : tx'[d] = tx[d]
      /\ log' = log /\ lock' = Released(c)
  BY Known DEF Receive, HangUp, TypeOK, TxOK, NoTx
<1>3. RunOK(c, r)
  BY <1>1 DEF RunOK, Working
<1>4. ~Working(r) /\ ~Locking(r) /\ r.pc # "commit"
  BY <1>1 DEF Working, Locking
<1>5. Keeps(c) /\ \A d \in Client \ {c} : run'[d] = run[d]
  BY <1>1, <1>2, <1>3, <1>4, StepInv
<1> QED
  BY <1>2, <1>5 DEF Frame

LEMMA HandleInv ==
    ASSUME IInv, NEW c \in Client, Handle(c) PROVE Keeps(c) /\ Frame(c)
<1>1. ASSUME Execute(c) PROVE Keeps(c) /\ Frame(c)
  BY <1>1, FailsInv, StatementInv, WriteInv, FindSavepointInv, RollbackToInv, BeginTxInv,
     RollbackTxInv, ToWaitInv
     DEF Execute, Fail, Fails
<1> QED
  BY <1>1, BeginWriteTxInv, RefusalInv, ToWaitInv, LockInv, ToCommitWriteTxInv, CommitInv,
     ViolateConstraintInv, RetryInv
     DEF Handle

\* IInv is inductive.
LEMMA Inductive == IInv /\ [Next]_vars => IInv'
<1> SUFFICES ASSUME IInv, [Next]_vars PROVE IInv'
  OBVIOUS
<1>1. CASE UNCHANGED vars
  BY <1>1 DEF IInv, TypeOK, LinkOK, LockOK, CompactorOK, vars
<1>2. ASSUME NEW c \in Client, UNCHANGED compaction,
             Send(c) \/ Handle(c) \/ Receive(c) \/ HangUp(c)
      PROVE  IInv'
  <2>1. TypeOK'
    BY <1>2, ClientType, HandleType DEF IInv
  <2>2. Keeps(c) /\ Frame(c)
    BY <1>2, SendInv, HandleInv, IdleInv
  <2> QED
    BY <1>2, <2>1, <2>2, Frames
<1>3. CASE Expire /\ UNCHANGED compaction
  <2>1. UNCHANGED <<log, lock, run, tx, compaction>>
    BY <1>3 DEF Expire
  <2>2. TypeOK'
    BY <1>3 DEF IInv, TypeOK, Expire
  <2> QED
    BY <2>1, <2>2 DEF IInv, LinkOK, LockOK, CompactorOK
<1>4. CASE CompactorLock \/ CompactorCommit
  <2>1. TypeOK'
    BY <1>4, CompactorType DEF IInv
  <2>2. UNCHANGED <<run, tx>>
    BY <1>4 DEF CompactorLock, CompactorCommit
  <2>3. \A c \in Client : lock # c
    BY <1>4, ClientAssumption DEF CompactorLock, CompactorCommit
  <2>4. \A c \in Client : ~Locking(run[c]) /\ LockOK(c)'
    <3> SUFFICES ASSUME NEW c \in Client PROVE ~Locking(run[c]) /\ LockOK(c)'
      OBVIOUS
    <3>1. ~Locking(run[c])
      BY <2>3, Known DEF LockOK
    <3> QED
      BY <2>2, <3>1 DEF LockOK, Locking, Working
  <2>5. CompactorOK'
    <3>1. CASE CompactorLock
      BY <3>1 DEF CompactorLock, CompactorOK, Current
    <3>2. CASE CompactorCommit
      BY <3>2, ClientAssumption DEF CompactorCommit, CompactorOK
    <3> QED
      BY <1>4, <3>1, <3>2
  <2> QED
    BY <2>1, <2>2, <2>4, <2>5 DEF IInv, LinkOK
<1> QED
  BY <1>1, <1>2, <1>3, <1>4 DEF Next

LEMMA InvariantHolds == Spec => []IInv
<1>1. Init => IInv
  <2> SUFFICES ASSUME Init PROVE IInv
    OBVIOUS
  <2>1. TypeOK
    BY InitialType DEF Init, TypeOK
  <2>2. ASSUME NEW c \in Client
        PROVE  RunOK(c, run[c]) /\ TxOK(c, tx[c]) /\ LinkOK(c) /\ LockOK(c)
    <3>1. run[c] = Idle(0) /\ tx[c] = NoTx
      BY DEF Init
    <3>2. /\ run[c].pc = "idle" /\ run[c].i = 1 /\ run[c].retry = FALSE
          /\ run[c].savepointp = FALSE /\ run[c].interactive = FALSE /\ tx[c].open = FALSE
      BY <3>1 DEF Idle, NoTx
    <3> QED
      BY <3>2 DEF RunOK, TxOK, LinkOK, LockOK, Locking, Working
  <2>3. CompactorOK
    BY ClientAssumption DEF Init, CompactorOK
  <2> QED
    BY <2>1, <2>2, <2>3 DEF IInv
<1> QED
  BY <1>1, Inductive, PTL DEF Spec

----------------------------------------------------------------------------
(* What follows from it.                                                   *)

\* Commits are serial for any number of clients, whatever they ask for: no
\* commit of an HTTP request, of a WebSocket message or transaction or of
\* compaction is lost under another one.
THEOREM Serial == Spec => CommitsAreSerial
<1> DEFINE Serially == /\ Len(log') = Len(log) + 1
                       /\ SubSeq(log', 1, Len(log)) = log
                       /\ log'[Len(log')].base = Len(log)
<1>1. IInv /\ [Next]_vars => [log' # log => Serially]_log
  <2> SUFFICES ASSUME IInv, [Next]_vars, log' # log PROVE Serially
    OBVIOUS
  <2>1. ASSUME NEW entry, entry \in Entries, entry.base = Len(log), log' = Append(log, entry)
        PROVE  Serially
    <3>1. log \in Seq(Entries)
      BY DEF IInv, TypeOK
    <3>2. Len(log') = Len(log) + 1 /\ log'[Len(log) + 1] = entry
      BY <2>1, <3>1
    <3>3. SubSeq(log', 1, Len(log)) = log
      BY <2>1, <3>1
    <3> QED
      BY <2>1, <3>2, <3>3
  <2>2. ASSUME NEW c \in Client, Commit(c) PROVE Serially
    <3> DEFINE entry == [by |-> c, n |-> run[c].n, base |-> run[c].md.base]
    <3>1. run[c].pc = "commit" /\ log' = Append(log, entry)
      BY <2>2 DEF Commit
    <3>2. run[c].md.base = Len(log)
      BY <3>1, Known DEF RunOK, LockOK, Own
    <3>3. run[c].n \in Nat /\ run[c].md.base \in Nat
      BY Known, RunFields, StateFields
    <3>4. entry \in Entries /\ entry.base = Len(log)
      BY <3>2, <3>3 DEF Entries
    <3> HIDE DEF entry
    <3> QED
      BY <2>1, <3>1, <3>4
  <2>3. ASSUME CompactorCommit PROVE Serially
    <3> DEFINE entry == [by |-> Compactor, n |-> Compactions + 1, base |-> compaction.base]
    <3>1. log' = Append(log, entry) /\ compaction.base = Len(log)
      BY <2>3 DEF CompactorCommit, CompactorOK, IInv
    <3>2. Compactions + 1 \in Nat /\ compaction.base \in Nat
      BY CompactionsType, StateFields DEF IInv, TypeOK
    <3>3. entry \in Entries /\ entry.base = Len(log)
      BY <3>1, <3>2 DEF Entries
    <3> HIDE DEF entry
    <3> QED
      BY <2>1, <3>1, <3>3
  <2>4. \/ \E c \in Client : Commit(c)
        \/ CompactorCommit
    BY DEF Next, vars, Send, Handle, Receive, HangUp, Expire, CompactorLock, Execute,
           BeginWriteTx, Finish, RefuseGet, ToCommit, Lock, Verify, ViolateConstraint,
           Conflict, Retry, FinishRetry, Read, Write, Fail, FindSavepoint, PutSavepoint,
           RollbackTo, Release, BeginTx, CommitTx, RollbackTx, Error
  <2> QED
    BY <2>2, <2>3, <2>4
<1> QED
  BY <1>1, InvariantHolds, PTL DEF Spec, CommitsAreSerial

\* An open transaction keeps the state of its BEGIN and its own writes.
THEOREM Isolated == Spec => []TransactionsAreIsolated
<1>1. IInv => TransactionsAreIsolated
  BY DEF IInv, TxOK, TransactionsAreIsolated, Client
<1> QED
  BY <1>1, InvariantHolds, PTL

\* What an HTTP request did on a branch of a savepoint it never commits.
THEOREM Branches == Spec => []BranchesAreNotCommitted
<1>1. IInv => BranchesAreNotCommitted
  <2> SUFFICES ASSUME IInv, NEW c \in Http, run[c].pc = "answer", run[c].status = "created",
                      NEW k \in DOMAIN run[c].md.own
               PROVE  run[c].md.own[k] = <<c, run[c].n>>
    BY DEF BranchesAreNotCommitted
  <2>1. c \in Client
    BY DEF Client
  <2>2. run[c].md.own[k][1] = c /\ run[c].md.own[k][2] = run[c].n
    BY <2>1, Known DEF RunOK, Own
  <2>3. run[c].md.own \in Seq(Client \X Nat)
    BY <2>1, Known, RunFields, StateFields
  <2>4. run[c].md.own[k] \in Client \X Nat
    BY <2>3
  <2> QED
    BY <2>2, <2>4
<1> QED
  BY <1>1, InvariantHolds, PTL

=============================================================================
