---------------------------- MODULE ServerProps ----------------------------
(***************************************************************************)
(* Properties of Server.                                                   *)
(***************************************************************************)
EXTENDS Server

Codes == {"none", "200", "201", "400", "500"}

ClientState == [state : {"none", "waiting", "head", "complete", "failed", "gone"},
                code : Codes, chunks : 0 .. Chunks + 1]

HandlerState == [pc : {"none", "run", "lock", "locked", "init", "send", "over"},
                 code : Codes, left : 0 .. Chunks + 1, nested : BOOLEAN, boxes : 0 .. 2]

TypeOK ==
    /\ routed \in [Queries -> Routes \cup {Nobody}]
    /\ client \in [Queries -> ClientState]
    /\ future \in [Queries -> {"none", "awaiting", "body", "over"}]
    /\ handler \in [Queries -> HandlerState]
    /\ oneshot \in [Queries -> (Codes \ {"none"}) \cup {"empty", "taken"}]
    /\ channel \in [Queries -> 0 .. 1]
    /\ socket \in [Sockets -> {"none", "upgrading", "open", "run", "lock", "locked",
                               "reply", "nested reply", "ended"}]
    /\ peer \in [Sockets -> {"none", "open", "closed", "reset"}]
    /\ inbox \in [Sockets -> 0 .. MaxMessages] /\ messages \in [Sockets -> 0 .. MaxMessages]
    /\ connections \in [Addresses -> Sockets \cup {Nobody}]
    /\ lock \in Queries \cup Sockets \cup {Nobody}
    /\ committed \subseteq Queries \cup Sockets
    /\ ended \in {"no", "exit", "undefined"}

Size(code) == CASE code \in {"200", "201"} -> {Chunks}
                [] code = "400" -> {0, 1}
                [] OTHER -> {1}

\* A client whose answer came to its end has all of it, and one that was told
\* of a commit was told the truth; a GET commits nothing.  That a client went
\* away, or that the channel was full, never shortens the answer of another.
AnswersAreWhole ==
    \A q \in Queries :
        /\ client[q].state = "complete" /\ routed[q].kind = "query" =>
                client[q].chunks \in Size(client[q].code)
        /\ client[q].code = "201" => q \in committed
        /\ q \in committed => routed[q].kind = "query" /\ routed[q].method = "POST"

\* The response and the sender of a query are boxes that the first call of
\* on-response-init takes; no path through endb-query's handlers calls it
\* again and reads freed memory.
BoxesAreTakenOnce == ended # "undefined"

\* As long as its client is there, a served WebSocket finds its db-connection,
\* with the transaction it may hold, under its address, also when the address
\* was used before and its last task ends late.  An entry outlives its WebSocket
\* only if its connection broke: after a closing handshake nothing is left in
\* dbms-connections.
ConnectionsMatchSockets ==
    \A s \in Sockets :
        /\ peer[s] = "open" /\ socket[s] \notin {"none", "upgrading"} =>
                connections[RemoteAddr[s]] = s
        /\ connections[RemoteAddr[s]] = s /\ socket[s] = "ended" => peer[s] = "reset"

Done(q) == client[q].state \in {"complete", "failed", "gone"} \/ ended # "no"

\* Every worker runs a message that waits for the lock, and the query that
\* holds it waits for a worker to take the chunk it has sent.
Starved ==
    /\ ~FreeWorker
    /\ \A s \in Busy : socket[s] = "lock"
    /\ \E q \in Queries : lock = q /\ handler[q].pc = "send" /\ channel[q] > 0

\* Whatever the number of workers, queries end or the server has come to the
\* one standstill its threads can reach: workers that wait for a lock whose
\* holder waits for a worker.  Messages that want to commit get the lock, whoever
\* holds it: again and again none is left waiting.
RequestsEndUnlessStarved ==
    /\ \A q \in Queries : client[q].state = "waiting" ~> Done(q) \/ Starved
    /\ []<>((\A s \in Sockets : socket[s] # "lock") \/ ended # "no" \/ Starved)

=============================================================================
