---------------------------- MODULE ServiceProps ----------------------------
(***************************************************************************)
(* What Service may make of a request, for every request that a client of   *)
(* Server may ask: the formulas are about Call alone and are evaluated for  *)
(* all of Requests before a client connects.                                *)
(***************************************************************************)
EXTENDS Server, Service

CONSTANT Requests   \* the requests clients send

\* What Server tells apart of an outcome.
Route(outcome) == IF outcome.kind = "query"
                  THEN [kind |-> "query", method |-> outcome.method]
                  ELSE [kind |-> outcome.kind]

\* The routes of Server are those Service gives.
ASSUME RoutesAssumption ==
    Routes = {Route(Call(req)) : req \in {req \in Requests : req.upgrade = "none"}}

Asking == \A q \in Queries : routed[q] = Nobody /\ \A s \in Sockets : peer[s] = "none"

----------------------------------------------------------------------------
ContentTypes == {"application/json", "application/ld+json", "application/x-ndjson",
                 "application/vnd.apache.arrow.file", "text/csv"}

WritableMedia ==
    \A req \in Requests : LET outcome == Call(req)
                          IN  outcome.kind = "query" => /\ outcome.method \in {"GET", "POST"}
                                                        /\ outcome.media \in ContentTypes

AuthorizedRequests ==
    Username # None /\ Password # None =>
        \A req \in Requests :
            LET kind == Call(req).kind
                header == IF kind = "websocket" THEN req.protocol ELSE req.authorization
            IN  kind \in {"query", "websocket"} =>
                    header # None /\ header.credential = <<Username, Password>>

\* With a user name and a password on the command line nobody reaches the
\* database, by query or by WebSocket, who does not present both, in whichever
\* header this kind of request can carry.
OnlyAuthorized == Asking => AuthorizedRequests

\* The parts of a request that reach sql_response, in their order.
Given(req) ==
    LET body == req.body.parts
        malformed == {i \in DOMAIN body : body[i].state = "malformed"}
        taken == {i \in DOMAIN body : \A j \in malformed : i < j}
    IN  IF req.method = "GET" THEN req.query
        ELSE CASE req.type = "sql" -> Append(req.query, Part("q", req.body.text, "text"))
               [] req.type = "multipart" ->
                     req.query \o SelectSeq([i \in 1 .. Len(body) |->
                                               IF i \in taken THEN body[i] ELSE Part(None, "", "text")],
                                            LAMBDA p : p.name # None /\ p.state = "text")
               [] OTHER -> req.query \o body

LastValues ==
    \A req \in {req \in Requests : Call(req).kind = "query"} :
        LET given == Given(req)
            outcome == Call(req)
        IN  \A name \in {"q", "p", "m"} :
                LET at == {i \in DOMAIN given : given[i].name = name}
                IN  IF at = {} THEN outcome[name] = [q |-> None, p |-> "[]", m |-> "false"][name]
                    ELSE \E i \in at : (\A j \in at : j <= i) /\ outcome[name] = given[i].value

\* The value of a parameter is the one given last, the body after the URL,
\* and its default only when it was given nowhere.
LastParameterWins == Asking => LastValues

CompleteRequestsAnswered ==
    \A req \in Requests : Call(req) = Dropped =>
        \/ req.upgrade = "without key"
        \/ /\ req.method = "POST" /\ req.path = "/sql" /\ ~req.body.arrives
           /\ req.type \in {"json", "ld+json", "sql", "form", "multipart"}

\* A client that is let in hears something, whatever it sent, unless its body
\* or its handshake was incomplete: errors are statuses, not lost connections.
\* And a query is asked for in a format that %stream-response can write: with
\* any other it writes nothing at all, and the answer would be empty.
ClientsAreAnswered == Asking => WritableMedia /\ CompleteRequestsAnswered

=============================================================================
