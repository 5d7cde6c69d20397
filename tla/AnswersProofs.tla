--------------------------- MODULE AnswersProofs ----------------------------
(***************************************************************************)
(* Proofs about the answers of Transactions: what a client is told is what *)
(* was committed, and no older than its request.  They rest on the          *)
(* invariant of TransactionsProofs and add what connects a handler with    *)
(* the log.                                                                *)
(***************************************************************************)
EXTENDS TransactionsProofs

----------------------------------------------------------------------------
(* The inductive invariant                                                 *)

Created(r) == r.pc = "answer" /\ r.status = "created"

\* A request that may be committed is not a GET: not over WebSocket, where
\* there is none, not on its way to the commit, and not when it is run again.
PostOK(c, r) ==
    (c \in Ws \/ r.pc \in {"wait", "locked", "commit"} \/ (r.retry /\ Working(r)) \/ Created(r))
        => r.post

\* A handler reads a state that is no older than its request, but for the
\* states that transactions and savepoints keep.
Fresh(r) == ~r.interactive /\ ~r.savepointp => r.md.base >= r.start

RequestOK(c, r) ==
    r.pc # "idle" => /\ r.start <= Len(log)
                     /\ PostOK(c, r)
                     /\ r.pc # "sent" => Fresh(r)

\* The log has no request of c that was not sent yet, and the present one only
\* when c is told that it was created, and then once.
LoggedOK(c) ==
    /\ \A k \in DOMAIN log : log[k].by = c => log[k].n <= run[c].n
    /\ run[c].pc # "idle" /\ ~Created(run[c]) => CommittedBy(c) = {}
    /\ Created(run[c]) => \E k \in DOMAIN log : CommittedBy(c) = {k}

AInv == IInv /\ \A c \in Client : RequestOK(c, run[c]) /\ LoggedOK(c)

----------------------------------------------------------------------------
(* What a step of a handler does to its request and to the log             *)

Same(q, r) == r.n = q.n /\ r.start = q.start /\ r.post = q.post

Handled(c, r) ==
    /\ Step(c, r) /\ Same(run[c], r)
    /\ r.pc \notin {"idle", "sent"} /\ run[c].pc \notin {"idle", "answer"}
    /\ PostOK(c, r) /\ Fresh(r)
    /\ \/ log' = log /\ ~Created(r)
       \/ log' = Append(log, [by |-> c, n |-> r.n, base |-> r.md.base]) /\ Created(r)

LEMMA KnownRequest ==
    ASSUME AInv, NEW c \in Client
    PROVE  /\ RequestOK(c, run[c]) /\ LoggedOK(c) /\ IInv
           /\ TypeOK /\ run[c] \in Runs /\ RunOK(c, run[c]) /\ LockOK(c)
BY Known DEF AInv

\* An answer other than "created".
LEMMA AnswerHandled ==
    ASSUME AInv, NEW c \in Client, NEW status, Answer(c, status), UNCHANGED log,
           status \in {"ok", "bad request", "error", "conflict"},
           run[c].pc \notin {"idle", "sent", "answer"}
    PROVE  \E r : Handled(c, r)
<1> DEFINE r == [run[c] EXCEPT !.pc = "answer", !.status = status]
<1>1. Step(c, r)
  BY AnswerStep, KnownRequest
<1>2. /\ Same(run[c], r) /\ r.pc = "answer" /\ r.status = status /\ r.md = run[c].md
      /\ r.interactive = run[c].interactive /\ r.savepointp = run[c].savepointp
  BY KnownRequest DEF Runs, Same
<1> HIDE DEF r
<1>3. PostOK(c, r) /\ Fresh(r) /\ ~Created(r)
  BY <1>2, KnownRequest DEF PostOK, Fresh, RequestOK, Created, Working, Same
<1> QED
  BY <1>1, <1>2, <1>3 DEF Handled

LEMMA FailsHandled ==
    ASSUME AInv, NEW c \in Client, Fails(c), run[c].pc \notin {"idle", "sent", "answer"}
    PROVE  \E r : Handled(c, r)
BY AnswerHandled DEF Fails, Error

\* A handler that goes on without a commit and without an older state.
LEMMA GoesOn ==
    ASSUME AInv, NEW c \in Client, NEW r, Step(c, r), Same(run[c], r), UNCHANGED log,
           run[c].pc \notin {"idle", "sent", "answer"},
           r.pc \notin {"idle", "sent", "answer"},
           r.interactive = run[c].interactive,
           r.savepointp = run[c].savepointp, r.md.base = run[c].md.base,
           r.retry = run[c].retry,
           Working(run[c]) \/ run[c].pc \in {"wait", "locked", "commit"},
           r.pc \in {"wait", "locked", "commit"} => run[c].post
    PROVE  Handled(c, r)
<1>1. PostOK(c, run[c]) /\ Fresh(run[c])
  BY KnownRequest DEF RequestOK
<1>2. PostOK(c, r)
  BY <1>1 DEF PostOK, Same, Created, Working
<1>3. Fresh(r) /\ ~Created(r)
  BY <1>1 DEF Fresh, Same, Created
<1> QED
  BY <1>2, <1>3 DEF Handled

LEMMA BeginWriteTxHandled ==
    ASSUME AInv, NEW c \in Client, BeginWriteTx(c) PROVE \E r : Handled(c, r)
<1> DEFINE r == [run[c] EXCEPT !.pc = "exec", !.interactive = tx[c].open,
                               !.md = WriteDb(c).md, !.original = WriteDb(c).original]
<1>1. Step(c, r) /\ run[c].pc = "sent" /\ UNCHANGED log
  BY BeginWriteTxStep, KnownRequest DEF BeginWriteTx
<1>2. /\ Same(run[c], r) /\ r.pc = "exec" /\ r.md = WriteDb(c).md
      /\ r.interactive = tx[c].open /\ r.retry = run[c].retry
  BY KnownRequest DEF Runs, Same
<1> HIDE DEF r
<1>3. ~r.interactive => r.md.base = Len(log)
  BY <1>2 DEF WriteDb, Current
<1>4. run[c].start <= Len(log) /\ Len(log) \in Nat /\ run[c].start \in Nat /\ ~run[c].retry
  BY <1>1, KnownRequest, CurrentType, RunFields DEF RequestOK, RunOK
<1>5. PostOK(c, r) /\ Fresh(r) /\ ~Created(r)
  BY <1>1, <1>2, <1>3, <1>4, KnownRequest DEF PostOK, Fresh, RequestOK, Created, Same
<1> QED
  BY <1>1, <1>2, <1>5 DEF Handled

\* The statements that leave the write-db as new as it was.
LEMMA StatementHandled ==
    ASSUME AInv, NEW c \in Client,
           \/ Read(c) \/ Write(c) \/ PutSavepoint(c)
           \/ (FindSavepoint(c) \/ Release(c)) /\ ~Fails(c)
    PROVE  \E r : Handled(c, r)
<1> USE KnownRequest
<1>1. /\ run[c].pc \in {"exec", "save"} /\ UNCHANGED log
  BY DEF Read, Write, PutSavepoint, FindSavepoint, Release, Executing, Fails
<1>2. CASE Read(c) \/ (Release(c) /\ ~Fails(c))
  <2> DEFINE r == [run[c] EXCEPT !.i = run[c].i + 1]
  <2>1. Step(c, r) /\ run[c].pc = "exec"
    BY <1>2, ReadStep, ReleaseStep DEF Read, Release, Executing
  <2>2. /\ Same(run[c], r) /\ r.pc = run[c].pc /\ r.md = run[c].md /\ r.retry = run[c].retry
        /\ r.interactive = run[c].interactive /\ r.savepointp = run[c].savepointp
    BY DEF Runs, Same
  <2> HIDE DEF r
  <2> QED
    BY <1>1, <2>1, <2>2, GoesOn DEF Working
<1>3. CASE Write(c)
  <2> DEFINE r == [run[c] EXCEPT !.i = run[c].i + 1, !.md = Written(c)]
  <2>1. Step(c, r) /\ run[c].pc = "exec" /\ Written(c).base = run[c].md.base
    BY <1>3, WriteStep, WrittenType DEF Write, Executing
  <2>2. /\ Same(run[c], r) /\ r.pc = run[c].pc /\ r.md = Written(c) /\ r.retry = run[c].retry
        /\ r.interactive = run[c].interactive /\ r.savepointp = run[c].savepointp
    BY DEF Runs, Same
  <2> HIDE DEF r
  <2> QED
    BY <1>1, <2>1, <2>2, GoesOn DEF Working
<1>4. CASE PutSavepoint(c)
  <2> DEFINE r == [run[c] EXCEPT !.pc = "exec", !.i = run[c].i + 1]
  <2>1. Step(c, r)
    BY <1>4, PutSavepointStep
  <2>2. /\ Same(run[c], r) /\ r.pc = "exec" /\ r.md = run[c].md /\ r.retry = run[c].retry
        /\ r.interactive = run[c].interactive /\ r.savepointp = run[c].savepointp
    BY DEF Runs, Same
  <2> HIDE DEF r
  <2> QED
    BY <1>1, <2>1, <2>2, GoesOn DEF Working
<1>5. CASE FindSavepoint(c) /\ ~Fails(c)
  <2> DEFINE r == [run[c] EXCEPT !.pc = "save"]
  <2>1. Step(c, r)
    BY <1>5, FindSavepointStep
  <2>2. /\ Same(run[c], r) /\ r.pc = "save" /\ r.md = run[c].md /\ r.retry = run[c].retry
        /\ r.interactive = run[c].interactive /\ r.savepointp = run[c].savepointp
    BY DEF Runs, Same
  <2> HIDE DEF r
  <2> QED
    BY <1>1, <2>1, <2>2, GoesOn DEF Working
<1> QED
  BY <1>2, <1>3, <1>4, <1>5

\* What continues from a savepoint is noted as older than the request may be.
LEMMA RollbackToHandled ==
    ASSUME AInv, NEW c \in Client, RollbackTo(c), ~Fails(c) PROVE \E r : Handled(c, r)
<1> DEFINE r == [run[c] EXCEPT !.i = run[c].i + 1, !.md = savepoint, !.savepointp = TRUE]
<1>1. Step(c, r) /\ run[c].pc = "exec" /\ UNCHANGED log
  BY RollbackToStep, KnownRequest DEF RollbackTo, Executing, Fails
<1>2. Same(run[c], r) /\ r.pc = run[c].pc /\ r.savepointp = TRUE /\ r.retry = run[c].retry
  BY KnownRequest DEF Runs, Same
<1> HIDE DEF r
<1>3. PostOK(c, r) /\ Fresh(r) /\ ~Created(r)
  BY <1>1, <1>2, KnownRequest DEF PostOK, Fresh, RequestOK, Created, Same, Working
<1> QED
  BY <1>1, <1>2, <1>3 DEF Handled

\* On the way to the commit: only a request that is no GET comes there.
LEMMA MoveHandled ==
    ASSUME AInv, NEW c \in Client,
           \/ ToCommit(c) \/ (CommitTx(c) /\ ~Fails(c)) \/ Lock(c) \/ Verify(c) \/ FinishRetry(c)
    PROVE  \E r : Handled(c, r)
<1> USE KnownRequest
<1>1. PICK pc \in {"wait", "locked", "commit"} : Step(c, [run[c] EXCEPT !.pc = pc])
  BY ToCommitStep, CommitTxStep, LockStep, VerifyStep, FinishRetryStep
<1> DEFINE r == [run[c] EXCEPT !.pc = pc]
<1>2. /\ Same(run[c], r) /\ r.pc = pc /\ r.md = run[c].md /\ r.retry = run[c].retry
      /\ r.interactive = run[c].interactive /\ r.savepointp = run[c].savepointp
  BY DEF Runs, Same
<1>3. Step(c, r)
  BY <1>1
<1> HIDE DEF r
<1>4. run[c].post /\ (Working(run[c]) \/ run[c].pc \in {"wait", "locked", "commit"})
  <2>1. CASE ToCommit(c)
    BY <2>1 DEF ToCommit, MayCommit, Working
  <2>2. CASE CommitTx(c) /\ ~Fails(c)
    BY <2>2 DEF CommitTx, Fails, Executing, RunOK, RequestOK, PostOK, Working
  <2>3. CASE Lock(c) \/ Verify(c) \/ FinishRetry(c)
    BY <2>3 DEF Lock, Verify, FinishRetry, RequestOK, PostOK, Working
  <2> QED
    BY <2>1, <2>2, <2>3
<1>5. UNCHANGED log
  BY DEF ToCommit, CommitTx, Fails, Lock, Verify, FinishRetry
<1> QED
  BY <1>1, <1>2, <1>3, <1>4, <1>5, GoesOn DEF Working

\* Running again starts from the current state.
LEMMA RetryHandled ==
    ASSUME AInv, NEW c \in Client, Retry(c) PROVE \E r : Handled(c, r)
<1> DEFINE r == [run[c] EXCEPT !.pc = "exec", !.i = 1, !.retry = TRUE, !.md = Current,
                               !.original = Current, !.savepointp = FALSE]
<1>1. Step(c, r) /\ run[c].pc = "locked" /\ UNCHANGED log
  BY RetryStep, KnownRequest DEF Retry
<1>2. Same(run[c], r) /\ r.pc = "exec" /\ r.md = Current
  BY KnownRequest DEF Runs, Same
<1> HIDE DEF r
<1>3. r.md.base = Len(log) /\ run[c].start <= Len(log) /\ run[c].post
  BY <1>1, <1>2, KnownRequest DEF Current, RequestOK, PostOK
<1>4. PostOK(c, r) /\ Fresh(r) /\ ~Created(r)
  BY <1>2, <1>3, KnownRequest, CurrentType, RunFields DEF PostOK, Fresh, Created, Same
<1> QED
  BY <1>1, <1>2, <1>4 DEF Handled

\* The one step that enters a request in the log is the one that says so.
LEMMA CommitHandled ==
    ASSUME AInv, NEW c \in Client, Commit(c) PROVE \E r : Handled(c, r)
<1>1. run[c].pc = "commit"
  BY DEF Commit
<1>2. CASE run[c].md = Current
  BY <1>1, <1>2, AnswerHandled DEF Commit
<1>3. CASE run[c].md # Current
  <2> DEFINE r == [run[c] EXCEPT !.pc = "answer", !.status = "created"]
  <2>1. /\ Answer(c, "created")
        /\ log' = Append(log, [by |-> c, n |-> run[c].n, base |-> run[c].md.base])
    BY <1>3 DEF Commit
  <2>2. Step(c, r)
    BY <2>1, AnswerStep, KnownRequest
  <2>3. /\ Same(run[c], r) /\ r.pc = "answer" /\ r.status = "created" /\ r.md = run[c].md
        /\ r.interactive = run[c].interactive /\ r.savepointp = run[c].savepointp
    BY KnownRequest DEF Runs, Same
  <2> HIDE DEF r
  <2>4. PostOK(c, r) /\ Fresh(r) /\ Created(r)
    BY <1>1, <2>3, KnownRequest DEF PostOK, Fresh, RequestOK, Created, Same
  <2> QED
    BY <1>1, <2>1, <2>2, <2>3, <2>4 DEF Handled, Same
<1> QED
  BY <1>2, <1>3

LEMMA HandleHandled ==
    ASSUME AInv, NEW c \in Client, Handle(c) PROVE \E r : Handled(c, r)
<1>1. CASE Execute(c)
  <2>1. run[c].pc \in {"exec", "save"}
    BY <1>1 DEF Execute, Read, Write, Fail, FindSavepoint, PutSavepoint, RollbackTo, Release,
                BeginTx, CommitTx, RollbackTx, Executing
  <2>2. CASE Fails(c)
    BY <2>1, <2>2, FailsHandled
  <2>3. CASE (BeginTx(c) \/ RollbackTx(c)) /\ ~Fails(c)
    <3>1. UNCHANGED log /\ \E status \in {"ok", "bad request"} : Answer(c, status)
      BY <2>3 DEF BeginTx, RollbackTx, Fails
    <3> QED
      BY <2>1, <3>1, AnswerHandled
  <2> QED
    BY <1>1, <2>2, <2>3, StatementHandled, RollbackToHandled, MoveHandled
    DEF Execute, Fail, Fails
<1>2. CASE Finish(c) \/ RefuseGet(c) \/ Conflict(c) \/ ViolateConstraint(c)
  <2>1. /\ UNCHANGED log /\ run[c].pc \notin {"idle", "sent", "answer"}
        /\ \E status \in {"ok", "bad request", "conflict", "error"} : Answer(c, status)
    BY <1>2 DEF Finish, RefuseGet, Conflict, ViolateConstraint, Error
  <2> QED
    BY <2>1, AnswerHandled
<1> QED
  BY <1>1, <1>2, BeginWriteTxHandled, MoveHandled, RetryHandled, CommitHandled DEF Handle

----------------------------------------------------------------------------
(* The steps                                                               *)

LEMMA Longer ==
    ASSUME log \in Seq(Entries), NEW e \in Entries, log' = Append(log, e)
    PROVE  /\ Len(log) \in Nat /\ Len(log') = Len(log) + 1
           /\ DOMAIN log' = DOMAIN log \cup {Len(log) + 1} /\ Len(log) + 1 \notin DOMAIN log
           /\ \A k \in DOMAIN log : log'[k] = log[k]
           /\ log'[Len(log) + 1] = e
OBVIOUS

\* A client whose handler does not move keeps its part, whoever commits.
LEMMA OthersKeep ==
    ASSUME AInv, NEW d \in Client, run'[d] = run[d],
           log' = log \/ \E e \in Entries : e.by # d /\ log' = Append(log, e)
    PROVE  RequestOK(d, run[d])' /\ LoggedOK(d)'
<1> USE KnownRequest
<1>1. CASE log' = log
  BY <1>1 DEF RequestOK, LoggedOK, CommittedBy
<1>2. ASSUME NEW e \in Entries, e.by # d, log' = Append(log, e)
      PROVE  RequestOK(d, run[d])' /\ LoggedOK(d)'
  <2>1. /\ Len(log) \in Nat /\ Len(log') = Len(log) + 1
        /\ DOMAIN log' = DOMAIN log \cup {Len(log) + 1} /\ Len(log) + 1 \notin DOMAIN log
        /\ \A k \in DOMAIN log : log'[k] = log[k]
        /\ log'[Len(log) + 1] = e
    BY <1>2, Longer DEF TypeOK
  <2>2. CommittedBy(d)' = CommittedBy(d)
    BY <1>2, <2>1 DEF CommittedBy
  <2>3. LoggedOK(d)'
    BY <1>2, <2>1, <2>2 DEF LoggedOK
  <2>4. RequestOK(d, run[d])'
    BY <2>1, RunFields DEF RequestOK
  <2> QED
    BY <2>3, <2>4
<1> QED
  BY <1>1, <1>2

LEMMA HandledKeeps ==
    ASSUME AInv, NEW c \in Client, NEW r, Handled(c, r)
    PROVE  \A d \in Client : RequestOK(d, run[d])' /\ LoggedOK(d)'
<1> USE KnownRequest DEF Handled
<1>1. run'[c] = r /\ r \in Runs /\ \A d \in Client \ {c} : run'[d] = run[d]
  BY StepEffect
<1> DEFINE e == [by |-> c, n |-> r.n, base |-> r.md.base]
<1>2. e \in Entries /\ e.by = c /\ e.n = r.n /\ r.n \in Nat /\ r.n = run[c].n
      /\ r.start \in Nat /\ r.start = run[c].start
  BY <1>1, RunFields, StateFields DEF Entries, Same
<1>3. \A d \in Client \ {c} : RequestOK(d, run[d])' /\ LoggedOK(d)'
  BY <1>1, <1>2, OthersKeep
<1>4. CommittedBy(c) = {} /\ (\A k \in DOMAIN log : log[k].by = c => log[k].n <= r.n)
      /\ r.start <= Len(log)
  BY <1>2 DEF LoggedOK, RequestOK, Created
<1> HIDE DEF e
<1>5. CASE log' = log /\ ~Created(r)
  <2>1. CommittedBy(c)' = {}
    BY <1>1, <1>2, <1>4, <1>5 DEF CommittedBy
  <2>2. LoggedOK(c)'
    BY <1>1, <1>2, <1>4, <1>5, <2>1 DEF LoggedOK
  <2>3. RequestOK(c, run[c])'
    BY <1>1, <1>4, <1>5 DEF RequestOK
  <2> QED
    BY <1>3, <2>2, <2>3
<1>6. CASE log' = Append(log, e) /\ Created(r)
  <2>1. /\ Len(log) \in Nat /\ Len(log') = Len(log) + 1
        /\ DOMAIN log' = DOMAIN log \cup {Len(log) + 1} /\ Len(log) + 1 \notin DOMAIN log
        /\ \A k \in DOMAIN log : log'[k] = log[k]
        /\ log'[Len(log) + 1] = e
    BY <1>2, <1>6, Longer DEF TypeOK
  <2>2. CommittedBy(c)' = {Len(log) + 1}
    BY <1>1, <1>2, <1>4, <2>1 DEF CommittedBy
  <2>3. LoggedOK(c)'
    BY <1>1, <1>2, <1>4, <1>6, <2>1, <2>2 DEF LoggedOK
  <2>4. RequestOK(c, run[c])'
    BY <1>1, <1>2, <1>4, <2>1 DEF RequestOK
  <2> QED
    BY <1>3, <2>3, <2>4
<1> QED
  BY <1>5, <1>6 DEF e

\* The next request has a number that the log has not seen.
LEMMA SendKeeps ==
    ASSUME AInv, NEW c \in Client, Send(c)
    PROVE  \A d \in Client : RequestOK(d, run[d])' /\ LoggedOK(d)'
<1> USE KnownRequest
<1>1. /\ run[c].pc = "idle" /\ UNCHANGED log
      /\ \E script \in (IF c \in Http THEN HttpScripts ELSE WsScripts), post \in BOOLEAN :
           /\ c \in Ws => post
           /\ run' = [run EXCEPT ![c].pc = "sent", ![c].n = @ + 1, ![c].start = Len(log),
                                 ![c].post = post, ![c].script = script]
  BY Zenon DEF Send
<1>2. PICK script \in (IF c \in Http THEN HttpScripts ELSE WsScripts), post \in BOOLEAN :
           /\ c \in Ws => post
           /\ run' = [run EXCEPT ![c].pc = "sent", ![c].n = @ + 1, ![c].start = Len(log),
                                 ![c].post = post, ![c].script = script]
  BY <1>1, Zenon
<1> DEFINE r == [run[c] EXCEPT !.pc = "sent", !.n = run[c].n + 1, !.start = Len(log),
                               !.post = post, !.script = script]
<1>3. run' = [run EXCEPT ![c] = r]
  BY <1>2, Known
<1>4. /\ r.pc = "sent" /\ r.n = run[c].n + 1 /\ r.start = Len(log) /\ r.post = post
      /\ r.retry = run[c].retry
  BY DEF Runs
<1> HIDE DEF r
<1>5. run'[c] = r /\ \A d \in Client \ {c} : run'[d] = run[d]
  BY <1>3 DEF TypeOK
<1>6. /\ run[c].n \in Nat /\ Len(log) \in Nat /\ ~run[c].retry
      /\ \A k \in DOMAIN log : log[k].n \in Nat
  <2>1. log \in Seq(Entries)
    BY DEF TypeOK
  <2>2. \A k \in DOMAIN log : log[k] \in Entries
    BY <2>1
  <2> QED
    BY <1>1, <2>2, RunFields, CurrentType DEF RunOK, Entries
<1>7. RequestOK(c, run[c])'
  BY <1>1, <1>2, <1>4, <1>5, <1>6 DEF RequestOK, PostOK, Created
<1>8. LoggedOK(c)'
  <2>1. \A k \in DOMAIN log : log[k].by = c => log[k].n <= run[c].n
    BY DEF LoggedOK
  <2>2. CommittedBy(c)' = {}
    BY <1>1, <1>4, <1>5, <1>6, <2>1 DEF CommittedBy
  <2> QED
    BY <1>1, <1>4, <1>5, <1>6, <2>1, <2>2 DEF LoggedOK, Created
<1> QED
  BY <1>1, <1>5, <1>7, <1>8, OthersKeep

LEMMA IdleKeeps ==
    ASSUME AInv, NEW c \in Client, Receive(c) \/ HangUp(c)
    PROVE  \A d \in Client : RequestOK(d, run[d])' /\ LoggedOK(d)'
<1> USE KnownRequest
<1>1. Step(c, Idle(run[c].n)) /\ UNCHANGED log
  BY IdleStep DEF Receive, HangUp
<1>2. run'[c] = Idle(run[c].n) /\ \A d \in Client \ {c} : run'[d] = run[d]
  BY <1>1, StepEffect
<1>3. run'[c].pc = "idle" /\ run'[c].n = run[c].n
  BY <1>2 DEF Idle
<1>4. RequestOK(c, run[c])' /\ LoggedOK(c)'
  BY <1>1, <1>3 DEF RequestOK, LoggedOK, Created
<1> QED
  BY <1>1, <1>2, <1>4, OthersKeep

LEMMA CompactorKeeps ==
    ASSUME AInv, CompactorLock \/ CompactorCommit
    PROVE  \A d \in Client : RequestOK(d, run[d])' /\ LoggedOK(d)'
<1> SUFFICES ASSUME NEW d \in Client PROVE RequestOK(d, run[d])' /\ LoggedOK(d)'
  OBVIOUS
<1>1. CASE CompactorLock
  BY <1>1, OthersKeep DEF CompactorLock
<1>2. CASE CompactorCommit
  <2> DEFINE e == [by |-> Compactor, n |-> Compactions + 1, base |-> compaction.base]
  <2>1. Compactions + 1 \in Nat /\ compaction.base \in Nat
    BY CompactionsType, StateFields DEF AInv, IInv, TypeOK
  <2>2. e \in Entries /\ e.by # d
    BY <2>1, ClientAssumption DEF Entries
  <2>3. log' = Append(log, e) /\ UNCHANGED run
    BY <1>2 DEF CompactorCommit
  <2> HIDE DEF e
  <2> QED
    BY <2>2, <2>3, OthersKeep
<1> QED
  BY <1>1, <1>2

LEMMA AnswersInvariant == Spec => []AInv
<1>1. Init /\ IInv => AInv
  <2> SUFFICES ASSUME Init, IInv, NEW c \in Client
               PROVE  RequestOK(c, run[c]) /\ LoggedOK(c)
    BY DEF AInv
  <2>1. run[c].pc = "idle" /\ DOMAIN log = {}
    BY DEF Init, Idle
  <2> QED
    BY <2>1 DEF RequestOK, LoggedOK, Created
<1>2. AInv /\ IInv' /\ [Next]_vars => AInv'
  <2> SUFFICES ASSUME AInv, IInv', [Next]_vars, NEW d \in Client
               PROVE  RequestOK(d, run[d])' /\ LoggedOK(d)'
    BY DEF AInv
  <2>1. CASE UNCHANGED vars
    BY <2>1, OthersKeep DEF vars
  <2>2. CASE Expire
    BY <2>2, OthersKeep DEF Expire
  <2>3. ASSUME NEW c \in Client, Handle(c) PROVE RequestOK(d, run[d])' /\ LoggedOK(d)'
    BY <2>3, HandleHandled, HandledKeeps
  <2> QED
    BY <2>1, <2>2, <2>3, SendKeeps, IdleKeeps, CompactorKeeps DEF Next
<1> QED
  BY <1>1, <1>2, InvariantHolds, PTL DEF Spec

----------------------------------------------------------------------------
(* The theorems                                                            *)

\* A client that is told "created" finds its request in the log exactly once,
\* and any other answer means that it is not there, for any number of clients,
\* conflicts and compactions; and no GET is ever committed.
THEOREM TrueAnswers == Spec => []AnswersAreTrue
<1>1. AInv => AnswersAreTrue
  <2> SUFFICES ASSUME AInv, NEW c \in Client, run[c].pc = "answer"
               PROVE  /\ Cardinality(CommittedBy(c)) =
                             IF run[c].status = "created" THEN 1 ELSE 0
                      /\ run[c].status = "created" => run[c].post
    BY DEF AnswersAreTrue
  <2>1. RequestOK(c, run[c]) /\ LoggedOK(c)
    BY KnownRequest
  <2>2. CASE run[c].status = "created"
    <3>1. PICK k \in DOMAIN log : CommittedBy(c) = {k}
      BY <2>1, <2>2 DEF LoggedOK, Created
    <3>2. Cardinality(CommittedBy(c)) = 1
      BY <3>1, FS_Singleton
    <3> QED
      BY <2>1, <2>2, <3>2 DEF RequestOK, PostOK, Created
  <2>3. CASE run[c].status # "created"
    <3>1. CommittedBy(c) = {}
      BY <2>1, <2>3 DEF LoggedOK, Created
    <3> QED
      BY <2>3, <3>1, FS_EmptySet
  <2> QED
    BY <2>2, <2>3
<1> QED
  BY <1>1, AnswersInvariant, PTL

\* Outside transactions and savepoints an answer is made from a state that has
\* every commit that was made before its request was sent.
THEOREM FreshAnswers == Spec => []AnswersAreFresh
<1>1. AInv => AnswersAreFresh
  BY KnownRequest DEF AnswersAreFresh, RequestOK, Fresh
<1> QED
  BY <1>1, AnswersInvariant, PTL
=============================================================================
