------------------------------- MODULE Server -------------------------------
(***************************************************************************)
(* The HTTP server while it serves: a tokio runtime with a fixed number of  *)
(* worker threads (endb_server), the border to Lisp (endb_lib,              *)
(* lib/server.lisp) and the Lisp handlers endb-query and                    *)
(* endb-on-ws-message as far as they answer (http.lisp).                    *)
(*                                                                         *)
(* A query runs in a thread of its own.  It answers through a one-shot      *)
(* channel for the head and a channel of capacity one for the chunks of the *)
(* body; hyper takes both in an asynchronous task, which needs a worker.    *)
(* A WebSocket's messages are handled inside its asynchronous task: while   *)
(* Lisp runs, also while it waits for dbms-write-lock, a worker is occupied.*)
(*                                                                         *)
(* What the database does is left to Transactions: here a write commits,   *)
(* violates a constraint or fails.                                         *)
(***************************************************************************)
EXTENDS Naturals, FiniteSets

CONSTANTS Queries,      \* HTTP requests
          Routes,       \* what Service!Call makes of the requests
          Sockets,      \* WebSocket connections
          RemoteAddr,   \* the address each of them comes from
          Workers,      \* worker threads of the runtime
          Chunks,       \* chunks of an answer with rows
          MaxMessages,  \* bound on the messages of a WebSocket
          RowsEncode,   \* FALSE: a row may turn out not to be representable
          Nobody

ASSUME WorkersAssumption == Workers \in Nat \ {0} /\ Chunks \in Nat /\ MaxMessages \in Nat
ASSUME RowsAssumption == RowsEncode \in BOOLEAN
ASSUME NobodyAssumption == Nobody \notin Queries \cup Sockets /\ Queries \cap Sockets = {}

Addresses == {RemoteAddr[s] : s \in Sockets}

VARIABLES
    routed,     \* per query, what call makes of its request
    client,     \* per query, what its client has of the answer
    future,     \* per query, hyper's task: awaiting the head, taking the body
    handler,    \* per query, endb-query in its blocking thread
    oneshot,    \* per query, the channel of the head: the code in it
    channel,    \* per query, chunks in the channel of the body
    socket,     \* per WebSocket, serve_websocket and its handler
    peer,       \* per WebSocket, its client
    inbox,      \* per WebSocket, messages not yet read
    messages,   \* per WebSocket, messages sent so far
    connections,\* dbms-connections: per address, whose db-connection is stored
    lock,       \* who holds dbms-write-lock
    committed,  \* the queries and sockets that have committed
    ended       \* whether the process still runs

queryVars == <<routed, client, future, handler, oneshot, channel>>
socketVars == <<socket, peer, inbox, messages, connections>>
vars == <<queryVars, socketVars, lock, committed, ended>>

----------------------------------------------------------------------------
Idle == [pc |-> "none", code |-> "none", left |-> 0, nested |-> FALSE, boxes |-> 0]

Init ==
    /\ routed = [q \in Queries |-> Nobody]
    /\ client = [q \in Queries |-> [state |-> "none", code |-> "none", chunks |-> 0]]
    /\ future = [q \in Queries |-> "none"]
    /\ handler = [q \in Queries |-> Idle]
    /\ oneshot = [q \in Queries |-> "empty"]
    /\ channel = [q \in Queries |-> 0]
    /\ socket = [s \in Sockets |-> "none"]
    /\ peer = [s \in Sockets |-> "none"]
    /\ inbox = [s \in Sockets |-> 0]
    /\ messages = [s \in Sockets |-> 0]
    /\ connections = [a \in Addresses |-> Nobody]
    /\ lock = Nobody
    /\ committed = {}
    /\ ended = "no"

\* serve_websocket calls on_ws_message without block_in_place: the worker
\* that polls the task runs the handler.  Only on_websocket_send lets another
\* thread take over the worker's core.
Busy == {s \in Sockets : socket[s] \in {"run", "lock", "locked"}}

FreeWorker == Cardinality(Busy) < Workers

----------------------------------------------------------------------------
(* A query on the asynchronous side.                                       *)

Ask(q) ==
    /\ client[q].state = "none"
    /\ client' = [client EXCEPT ![q].state = "waiting"]
    /\ \E r \in Routes : routed' = [routed EXCEPT ![q] = r]
    /\ UNCHANGED <<future, handler, oneshot, channel, socketVars, lock, committed, ended>>

\* EndbService::call: an answer of its own, no answer at all, or a query that
\* is handed to a blocking thread.
Serve(q) ==
    /\ FreeWorker
    /\ client[q].state \in {"waiting", "gone"} /\ future[q] = "none"
    /\ IF routed[q].kind = "query"
       THEN /\ future' = [future EXCEPT ![q] = "awaiting"]
            /\ handler' = [handler EXCEPT ![q].pc = "run"]
            /\ UNCHANGED client
       ELSE /\ future' = [future EXCEPT ![q] = "over"]
            /\ client' = [client EXCEPT ![q].state =
                            CASE @ = "gone" -> @
                              [] @ # "gone" /\ routed[q].kind = "status" -> "complete"
                              [] OTHER -> "failed"]
            /\ UNCHANGED handler
    /\ UNCHANGED <<routed, oneshot, channel, socketVars, lock, committed, ended>>

\* rx.await returns the response; hyper sends the head and polls the body.
TakeHead(q) ==
    /\ FreeWorker
    /\ future[q] = "awaiting" /\ oneshot[q] # "empty" /\ client[q].state = "waiting"
    /\ future' = [future EXCEPT ![q] = "body"]
    /\ oneshot' = [oneshot EXCEPT ![q] = "taken"]
    /\ client' = [client EXCEPT ![q].state = "head", ![q].code = oneshot[q]]
    /\ UNCHANGED <<routed, handler, channel, socketVars, lock, committed, ended>>

TakeChunk(q) ==
    /\ FreeWorker
    /\ future[q] = "body" /\ channel[q] > 0 /\ client[q].state = "head"
    /\ channel' = [channel EXCEPT ![q] = @ - 1]
    /\ client' = [client EXCEPT ![q].chunks = @ + 1]
    /\ UNCHANGED <<routed, future, handler, oneshot, socketVars, lock, committed, ended>>

\* The sender is gone and the channel is empty: the body ends.
EndBody(q) ==
    /\ FreeWorker
    /\ future[q] = "body" /\ channel[q] = 0 /\ client[q].state = "head"
    /\ handler[q].pc = "over"
    /\ future' = [future EXCEPT ![q] = "over"]
    /\ client' = [client EXCEPT ![q].state = "complete"]
    /\ UNCHANGED <<routed, handler, oneshot, channel, socketVars, lock, committed, ended>>

\* A client goes away; hyper drops the future, and with it the receivers.
HangUp(q) ==
    /\ client[q].state \in {"waiting", "head"}
    /\ client' = [client EXCEPT ![q].state = "gone"]
    /\ UNCHANGED <<routed, future, handler, oneshot, channel, socketVars, lock, committed, ended>>

NoticeHangUp(q) ==
    /\ FreeWorker
    /\ client[q].state = "gone" /\ future[q] \in {"awaiting", "body"}
    /\ future' = [future EXCEPT ![q] = "over"]
    /\ UNCHANGED <<routed, client, handler, oneshot, channel, socketVars, lock, committed, ended>>

----------------------------------------------------------------------------
(* A query on the Lisp side.                                               *)

\* What the handler is about to answer.
Answering(q, code, left, nested) ==
    [handler[q] EXCEPT !.pc = "init", !.code = code, !.left = left, !.nested = nested]

\* endb-query up to the first call of on-response-init or with-lock-held.  A
\* panic while the arguments are converted aborts the process, as the release
\* profile asks, after the panic hook.
Execute(q) ==
    /\ handler[q].pc = "run"
    /\ \/ /\ handler' = [handler EXCEPT ![q].pc = "over"]
          /\ ended' = "exit"
       \/ /\ \/ handler' = [handler EXCEPT ![q] = Answering(q, "200", Chunks, FALSE)]
             \/ handler' = [handler EXCEPT ![q] = Answering(q, "400", 1, FALSE)]
             \/ handler' = [handler EXCEPT ![q] = Answering(q, "500", 1, TRUE)]
             \/ IF routed[q].method = "POST"
                THEN handler' = [handler EXCEPT ![q].pc = "lock"]
                ELSE handler' = [handler EXCEPT ![q] = Answering(q, "400", 0, FALSE)]
          /\ UNCHANGED ended
    /\ UNCHANGED <<routed, client, future, oneshot, channel, socketVars, lock, committed>>

Acquire(q) ==
    /\ handler[q].pc = "lock" /\ lock = Nobody
    /\ lock' = q
    /\ handler' = [handler EXCEPT ![q].pc = "locked"]
    /\ UNCHANGED <<routed, client, future, oneshot, channel, socketVars, committed, ended>>

\* commit-write-tx succeeds, or a constraint fails: handler-case unwinds and
\* releases the lock before it answers.  On any other error the function of
\* handler-bind answers first, below the frame that holds the lock.
Commit(q) ==
    /\ handler[q].pc = "locked"
    /\ \/ /\ committed' = committed \cup {q}
          /\ handler' = [handler EXCEPT ![q] = Answering(q, "201", Chunks, FALSE)]
          /\ UNCHANGED lock
       \/ /\ lock' = Nobody
          /\ handler' = [handler EXCEPT ![q] = Answering(q, "400", 1, FALSE)]
          /\ UNCHANGED committed
       \/ /\ handler' = [handler EXCEPT ![q] = Answering(q, "500", 1, TRUE)]
          /\ UNCHANGED <<lock, committed>>
    /\ UNCHANGED <<routed, client, future, oneshot, channel, socketVars, ended>>

\* Mutant: the lock is taken without with-lock-held.
MReleased(x) == lock

Released(x) == IF lock = x THEN Nobody ELSE lock

\* The end of endb-query: the closure returns and drops its sender.
Finish(q) ==
    /\ handler' = [handler EXCEPT ![q].pc = "over", ![q].left = 0]
    /\ lock' = Released(q)
    /\ UNCHANGED ended

\* An error that leaves a callback has no handler left in its thread: in an
\* image built with --non-interactive SBCL ends the process.
Escape(x) ==
    /\ ended' = "exit"
    /\ lock' = Released(x)

\* on_abort set abortp: sql-abort-query-error is signalled.  It is also an
\* error; the clause for it comes first and returns from endb-query.  Within
\* a function of handler-bind neither clause is in force.
Abort(q) == IF handler[q].nested
            THEN /\ Escape(q)
                 /\ handler' = [handler EXCEPT ![q].pc = "over"]
            ELSE Finish(q)

\* on_response_init_callback takes response and tx out of their boxes; a
\* second call for the same query would take them from freed memory.
RespondInit(q) ==
    /\ handler[q].pc = "init" /\ handler[q].boxes = 0
    /\ IF future[q] = "over"
       THEN /\ Abort(q)
            /\ UNCHANGED oneshot
       ELSE /\ oneshot' = [oneshot EXCEPT ![q] = handler[q].code]
            /\ IF handler[q].left = 0
               THEN Finish(q)
               ELSE /\ handler' = [handler EXCEPT ![q].pc = "send", ![q].boxes = 1]
                    /\ UNCHANGED <<lock, ended>>
    /\ UNCHANGED <<routed, client, future, channel, socketVars, committed>>

UseAfterFree(q) ==
    /\ handler[q].pc = "init" /\ handler[q].boxes = 1
    /\ ended' = "undefined"
    /\ handler' = [handler EXCEPT ![q].boxes = 2]
    /\ UNCHANGED <<routed, client, future, oneshot, channel, socketVars, lock, committed>>

\* Mutant: try_send, for which a full channel is an error too.
MGone(q) == future[q] = "over" \/ channel[q] > 0

\* feed fails once the receiver has been dropped.
Gone(q) == future[q] = "over"

\* Mutant: chunks are sent without waiting for room.
MHasRoom(q) == TRUE

\* A channel of capacity 0 has a slot for its one sender.
HasRoom(q) == channel[q] = 0

\* Handle::block_on(sender.feed(..)): waits while the channel is full.
RespondSend(q) ==
    /\ handler[q].pc = "send"
    /\ \/ /\ Gone(q)
          /\ Abort(q)
          /\ UNCHANGED channel
       \/ /\ ~Gone(q) /\ HasRoom(q)
          /\ channel' = [channel EXCEPT ![q] = @ + 1]
          /\ IF handler[q].left = 1
             THEN Finish(q)
             ELSE /\ handler' = [handler EXCEPT ![q].left = @ - 1]
                  /\ UNCHANGED <<lock, ended>>
    /\ UNCHANGED <<routed, client, future, oneshot, socketVars, committed>>

\* %stream-response signals an error for a row it cannot write, after
\* on-response-init: the function of handler-bind calls on-response-init again.
FailRow(q) ==
    /\ ~RowsEncode
    /\ handler[q].pc = "send" /\ handler[q].code \in {"200", "201"}
    /\ handler' = [handler EXCEPT ![q] = Answering(q, "500", 1, TRUE)]
    /\ UNCHANGED <<routed, client, future, oneshot, channel, socketVars, lock, committed, ended>>

----------------------------------------------------------------------------
(* A WebSocket.                                                            *)

\* An address is used again only after its connection was reset; the task of
\* the old WebSocket may not have noticed yet.
Connect(s) ==
    /\ FreeWorker
    /\ peer[s] = "none"
    /\ \A r \in Sockets : r # s /\ RemoteAddr[r] = RemoteAddr[s] =>
            \/ peer[r] = "none" \/ socket[r] = "ended"
            \/ peer[r] = "reset" /\ socket[r] # "upgrading"
    /\ peer' = [peer EXCEPT ![s] = "open"]
    /\ socket' = [socket EXCEPT ![s] = "upgrading"]
    /\ UNCHANGED <<queryVars, inbox, messages, connections, lock, committed, ended>>

OnInit(s) ==
    /\ FreeWorker
    /\ socket[s] = "upgrading"
    /\ socket' = [socket EXCEPT ![s] = "open"]
    /\ connections' = [connections EXCEPT ![RemoteAddr[s]] = s]
    /\ UNCHANGED <<queryVars, peer, inbox, messages, lock, committed, ended>>

SendMessage(s) ==
    /\ peer[s] = "open" /\ socket[s] # "upgrading" /\ messages[s] < MaxMessages
    /\ inbox' = [inbox EXCEPT ![s] = @ + 1]
    /\ messages' = [messages EXCEPT ![s] = @ + 1]
    /\ UNCHANGED <<queryVars, socket, peer, connections, lock, committed, ended>>

\* A client closes its WebSocket, or its connection breaks.
Close(s) ==
    /\ peer[s] = "open"
    /\ \E how \in {"closed", "reset"} : peer' = [peer EXCEPT ![s] = how]
    /\ UNCHANGED <<queryVars, socket, inbox, messages, connections, lock, committed, ended>>

OnMessage(s) ==
    /\ FreeWorker
    /\ socket[s] = "open" /\ inbox[s] > 0
    /\ inbox' = [inbox EXCEPT ![s] = @ - 1]
    /\ socket' = [socket EXCEPT ![s] = "run"]
    /\ UNCHANGED <<queryVars, peer, messages, connections, lock, committed, ended>>

\* endb-on-ws-message up to its answer or commit-tx; without a db-connection
\* there is nothing to run the message on and it is answered with an error.
RunMessage(s) ==
    /\ socket[s] = "run"
    /\ \E next \in {"reply", "nested reply"}
                    \cup (IF connections[RemoteAddr[s]] = Nobody THEN {} ELSE {"lock"}) :
            socket' = [socket EXCEPT ![s] = next]
    /\ UNCHANGED <<queryVars, peer, inbox, messages, connections, lock, committed, ended>>

AcquireForMessage(s) ==
    /\ socket[s] = "lock" /\ lock = Nobody
    /\ lock' = s
    /\ socket' = [socket EXCEPT ![s] = "locked"]
    /\ UNCHANGED <<queryVars, peer, inbox, messages, connections, committed, ended>>

\* commit-tx answers inside with-lock-held, also from handler-bind.
CommitMessage(s) ==
    /\ socket[s] = "locked"
    /\ \/ /\ committed' = committed \cup {s}
          /\ socket' = [socket EXCEPT ![s] = "reply"]
       \/ /\ socket' = [socket EXCEPT ![s] = "nested reply"]
          /\ UNCHANGED committed
    /\ UNCHANGED <<queryVars, peer, inbox, messages, connections, lock, ended>>

\* on_websocket_send: the answer fits into the buffer of the connection, or
\* the connection is broken and the abort ends the handler or leaves it.
Reply(s) ==
    /\ socket[s] \in {"reply", "nested reply"}
    /\ socket' = [socket EXCEPT ![s] = "open"]
    /\ IF peer[s] = "reset" /\ socket[s] = "nested reply"
       THEN Escape(s)
       ELSE /\ lock' = Released(s)
            /\ UNCHANGED ended
    /\ UNCHANGED <<queryVars, peer, inbox, messages, connections, committed>>

Removed(s) == [connections EXCEPT ![RemoteAddr[s]] = Nobody]

\* next() returns None after a close frame: on_ws_close removes whatever is
\* entered under the address.
StreamEnds(s) ==
    /\ FreeWorker
    /\ socket[s] = "open" /\ peer[s] = "closed" /\ inbox[s] = 0
    /\ socket' = [socket EXCEPT ![s] = "ended"]
    /\ connections' = Removed(s)
    /\ UNCHANGED <<queryVars, peer, inbox, messages, lock, committed, ended>>

\* Mutant: on_ws_close is called on every way out.
MKept(s) == [connections EXCEPT ![RemoteAddr[s]] = Nobody]

Kept(s) == connections

\* "message?" and "websocket.await?" return before on_ws_close.
StreamFails(s) ==
    /\ FreeWorker
    /\ \/ socket[s] = "open" /\ peer[s] = "reset"
       \/ socket[s] = "upgrading" /\ peer[s] # "open"
    /\ socket' = [socket EXCEPT ![s] = "ended"]
    /\ connections' = Kept(s)
    /\ UNCHANGED <<queryVars, peer, inbox, messages, lock, committed, ended>>

----------------------------------------------------------------------------
HandlerOf(q) == Execute(q) \/ Acquire(q) \/ Commit(q) \/ RespondInit(q) \/ RespondSend(q)
                    \/ UseAfterFree(q) \/ FailRow(q)

FutureOf(q) == Serve(q) \/ TakeHead(q) \/ TakeChunk(q) \/ EndBody(q)
                    \/ NoticeHangUp(q)

TaskOf(s) == OnInit(s) \/ OnMessage(s) \/ RunMessage(s) \/ AcquireForMessage(s)
                    \/ CommitMessage(s) \/ Reply(s) \/ StreamEnds(s) \/ StreamFails(s)

Next ==
    /\ ended = "no"
    /\ \/ \E q \in Queries : Ask(q) \/ HangUp(q) \/ FutureOf(q) \/ HandlerOf(q)
       \/ \E s \in Sockets : Connect(s) \/ SendMessage(s) \/ Close(s) \/ TaskOf(s)

Spec == Init /\ [][Next]_vars

\* Threads and tasks run when they can; clients need not do anything.  That
\* clients take what hyper sends them is part of FutureOf.
FairSpec ==
    /\ Spec
    /\ \A q \in Queries : WF_vars(ended = "no" /\ HandlerOf(q)) /\ WF_vars(ended = "no" /\ FutureOf(q))
    /\ \A s \in Sockets : WF_vars(ended = "no" /\ TaskOf(s))

=============================================================================
