---------------------------- MODULE ServerProofs ----------------------------
(***************************************************************************)
(* Proofs about Server, for any number of queries, WebSockets, addresses   *)
(* and workers and answers of any length, also when rows cannot be written. *)
(***************************************************************************)
EXTENDS ServerProps, ServiceProps, TLAPS

----------------------------------------------------------------------------
(* The inductive invariant: queries                                        *)

\* Where the client, hyper's task and the handler of a query are together.
StagesMatch(q) ==
    /\ client[q].state = "none" => future[q] = "none"
    /\ future[q] = "none" => handler[q].pc = "none" /\ client[q].state \in {"none", "waiting", "gone"}
    /\ future[q] = "awaiting" => client[q].state \in {"waiting", "gone"}
    /\ future[q] = "body" => client[q].state \in {"head", "gone"}
    /\ future[q] = "over" => client[q].state \in {"complete", "failed", "gone"}
    /\ handler[q].pc # "none" \/ future[q] \in {"awaiting", "body"} => routed[q].kind = "query"

\* Only a POST comes to the lock, and nobody is told of a commit before it.
CommitsAreTold(q) ==
    /\ handler[q].pc \in {"lock", "locked"} => routed[q].method = "POST"
    /\ q \in committed => /\ handler[q].pc # "none"
                          /\ routed[q].kind = "query" /\ routed[q].method = "POST"
    /\ "201" \in {handler[q].code, oneshot[q], client[q].code} => q \in committed

\* The code of the answer that was begun.
Code(q) == IF oneshot[q] = "taken" THEN client[q].code ELSE oneshot[q]

\* What the client has and what is on its way to it.
Sent(q) == client[q].chunks + channel[q]

Unanswered(q) == oneshot[q] = "empty" /\ Sent(q) = 0

\* No chunk is lost between the handler and the client: what was sent and what
\* the handler has left make up the answer it began.
NothingIsLost(q) ==
    /\ handler[q].pc \in {"none", "run", "lock", "locked"} =>
           Unanswered(q) /\ handler[q].boxes = 0
    /\ handler[q].pc = "init" /\ handler[q].boxes = 0 =>
           /\ Unanswered(q) /\ handler[q].code # "none"
           /\ handler[q].left \in Size(handler[q].code)
    /\ handler[q].pc = "send" =>
           /\ oneshot[q] # "empty" /\ handler[q].left > 0 /\ handler[q].boxes = 1
           /\ Sent(q) + handler[q].left \in Size(Code(q))
    /\ handler[q].pc = "over" /\ future[q] # "over" /\ ended = "no" =>
           oneshot[q] # "empty" /\ Sent(q) \in Size(Code(q))
    /\ future[q] = "awaiting" => oneshot[q] # "taken" /\ client[q].chunks = 0
    /\ future[q] = "body" => oneshot[q] = "taken"
    /\ Sent(q) <= Chunks + 1
    /\ client[q].state = "complete" /\ routed[q].kind = "query" =>
           client[q].chunks \in Size(client[q].code)

QueryOK(q) == StagesMatch(q) /\ CommitsAreTold(q) /\ NothingIsLost(q)

----------------------------------------------------------------------------
(* The inductive invariant: WebSockets                                     *)

\* Of the WebSockets of an address the one that has it: another one may begin
\* only when its task has ended, or its connection was reset and it was served.
Live(s) ==
    /\ peer[s] # "none" /\ socket[s] # "ended"
    /\ ~(peer[s] = "reset" /\ socket[s] # "upgrading")

SocketOK(s) ==
    /\ peer[s] = "none" <=> socket[s] = "none"
    /\ socket[s] = "ended" => peer[s] # "open"
    /\ connections[RemoteAddr[s]] = s => socket[s] \notin {"none", "upgrading"}
    /\ inbox[s] <= messages[s]
    /\ \A r \in Sockets : r # s /\ RemoteAddr[r] = RemoteAddr[s] => ~(Live(r) /\ Live(s))

IInv ==
    /\ TypeOK
    /\ \A q \in Queries : QueryOK(q)
    /\ \A s \in Sockets : SocketOK(s)
    /\ ConnectionsMatchSockets

----------------------------------------------------------------------------
(* Frames                                                                  *)

LEMMA Fields ==
    ASSUME TypeOK, NEW q \in Queries
    PROVE  /\ client[q] \in ClientState /\ handler[q] \in HandlerState
           /\ client[q].state \in {"none", "waiting", "head", "complete", "failed", "gone"}
           /\ client[q].code \in Codes /\ client[q].chunks \in Nat
           /\ handler[q].pc \in {"none", "run", "lock", "locked", "init", "send", "over"}
           /\ handler[q].code \in Codes /\ handler[q].left \in 0 .. Chunks + 1
           /\ handler[q].nested \in BOOLEAN /\ handler[q].boxes \in 0 .. 2
           /\ oneshot[q] \in (Codes \ {"none"}) \cup {"empty", "taken"}
           /\ future[q] \in {"none", "awaiting", "body", "over"}
           /\ channel[q] \in 0 .. 1 /\ Chunks \in Nat
           /\ routed[q] \in Routes \cup {Nobody}
<1>1. client[q] \in ClientState /\ handler[q] \in HandlerState
  BY DEF TypeOK
<1>2. /\ oneshot[q] \in (Codes \ {"none"}) \cup {"empty", "taken"}
      /\ future[q] \in {"none", "awaiting", "body", "over"}
      /\ channel[q] \in 0 .. 1 /\ Chunks \in Nat
      /\ routed[q] \in Routes \cup {Nobody}
  BY WorkersAssumption DEF TypeOK
<1>3. /\ client[q].state \in {"none", "waiting", "head", "complete", "failed", "gone"}
      /\ client[q].code \in Codes /\ client[q].chunks \in Nat
  BY <1>1, <1>2 DEF ClientState
<1>4. /\ handler[q].pc \in {"none", "run", "lock", "locked", "init", "send", "over"}
      /\ handler[q].code \in Codes /\ handler[q].left \in 0 .. Chunks + 1
      /\ handler[q].nested \in BOOLEAN /\ handler[q].boxes \in 0 .. 2
  BY <1>1 DEF HandlerState
<1> QED
  BY <1>1, <1>2, <1>3, <1>4

\* A step changes the entries of the query q only.
OnlyQuery(q) ==
    /\ routed' = [routed EXCEPT ![q] = routed'[q]] /\ client' = [client EXCEPT ![q] = client'[q]]
    /\ future' = [future EXCEPT ![q] = future'[q]] /\ handler' = [handler EXCEPT ![q] = handler'[q]]
    /\ oneshot' = [oneshot EXCEPT ![q] = oneshot'[q]]
    /\ channel' = [channel EXCEPT ![q] = channel'[q]]
    /\ UNCHANGED socketVars

LEMMA QueryFrame ==
    ASSUME IInv, ended = "no", NEW q \in Queries, OnlyQuery(q),
           routed'[q] \in Routes \cup {Nobody}, client'[q] \in ClientState,
           future'[q] \in {"none", "awaiting", "body", "over"}, handler'[q] \in HandlerState,
           oneshot'[q] \in (Codes \ {"none"}) \cup {"empty", "taken"}, channel'[q] \in 0 .. 1,
           lock' \in Queries \cup Sockets \cup {Nobody}, ended' \in {"no", "exit", "undefined"},
           committed' \in {committed, committed \cup {q}},
           StagesMatch(q)', CommitsAreTold(q)', NothingIsLost(q)'
    PROVE  IInv'
<1> USE DEF IInv, OnlyQuery
<1>1. TypeOK'
  BY DEF TypeOK, socketVars
<1>2. ASSUME NEW p \in Queries, p # q PROVE QueryOK(p)'
  <2>1. /\ routed'[p] = routed[p] /\ client'[p] = client[p] /\ future'[p] = future[p]
        /\ handler'[p] = handler[p] /\ oneshot'[p] = oneshot[p] /\ channel'[p] = channel[p]
        /\ p \in committed' <=> p \in committed
    BY <1>2 DEF TypeOK
  <2> QED
    BY <2>1 DEF QueryOK, StagesMatch, CommitsAreTold, NothingIsLost, Unanswered, Sent, Code
<1>3. (\A s \in Sockets : SocketOK(s)') /\ ConnectionsMatchSockets'
  BY DEF socketVars, SocketOK, Live, ConnectionsMatchSockets
<1> QED
  BY <1>1, <1>2, <1>3 DEF QueryOK

\* Only what a step of a query gives a new value is left to be said.
LEMMA Unchanged ==
    ASSUME TypeOK, NEW q \in Queries
    PROVE  /\ UNCHANGED routed => routed' = [routed EXCEPT ![q] = routed'[q]]
           /\ UNCHANGED client => client' = [client EXCEPT ![q] = client'[q]]
           /\ UNCHANGED future => future' = [future EXCEPT ![q] = future'[q]]
           /\ UNCHANGED handler => handler' = [handler EXCEPT ![q] = handler'[q]]
           /\ UNCHANGED oneshot => oneshot' = [oneshot EXCEPT ![q] = oneshot'[q]]
           /\ UNCHANGED channel => channel' = [channel EXCEPT ![q] = channel'[q]]
BY DEF TypeOK

LEMMA SizeType == ASSUME NEW code PROVE Size(code) \subseteq 0 .. Chunks + 1
BY WorkersAssumption DEF Size

----------------------------------------------------------------------------
(* The asynchronous side of a query                                        *)

LEMMA AskStep == ASSUME IInv, ended = "no", NEW q \in Queries, Ask(q) PROVE IInv'
<1> DEFINE c == [client[q] EXCEPT !.state = "waiting"]
<1>1. QueryOK(q) /\ TypeOK /\ client[q].state = "none"
  BY DEF IInv, Ask
<1>2. /\ c \in ClientState /\ c.state = "waiting"
      /\ c.code = client[q].code /\ c.chunks = client[q].chunks
  BY <1>1, Fields DEF ClientState
<1>3. PICK r \in Routes : routed' = [routed EXCEPT ![q] = r]
  BY DEF Ask
<1>4. client' = [client EXCEPT ![q] = c]
  BY DEF Ask
<1>5. UNCHANGED <<future, handler, oneshot, channel, socketVars, lock, committed, ended>>
  BY DEF Ask
<1> HIDE DEF c
<1>6. client'[q] = c /\ routed'[q] = r
  BY <1>1, <1>3, <1>4 DEF TypeOK
<1>7. StagesMatch(q)' /\ CommitsAreTold(q)'
  BY <1>1, <1>2, <1>5, <1>6 DEF QueryOK, StagesMatch, CommitsAreTold
<1>8. NothingIsLost(q)'
  BY <1>1, <1>2, <1>5, <1>6, Fields DEF QueryOK, StagesMatch, NothingIsLost, Unanswered, Sent, Code
<1>9. OnlyQuery(q)
  BY <1>1, <1>3, <1>4, <1>5, <1>6, Unchanged DEF OnlyQuery
<1> QED
  BY <1>1, <1>2, <1>5, <1>6, <1>7, <1>8, <1>9, QueryFrame, Fields DEF TypeOK

LEMMA TakeHeadStep == ASSUME IInv, ended = "no", NEW q \in Queries, TakeHead(q) PROVE IInv'
<1> DEFINE c == [client[q] EXCEPT !.state = "head", !.code = oneshot[q]]
<1>1. /\ future[q] = "awaiting" /\ oneshot[q] \in Codes \ {"none"} /\ client[q].chunks = 0
      /\ QueryOK(q) /\ TypeOK /\ oneshot[q] \notin {"taken", "empty"}
  BY Fields DEF IInv, QueryOK, NothingIsLost, TakeHead
<1>2. c \in ClientState /\ c.state = "head" /\ c.code = oneshot[q] /\ c.chunks = client[q].chunks
  BY <1>1, Fields DEF ClientState
<1>3. /\ client' = [client EXCEPT ![q] = c] /\ future' = [future EXCEPT ![q] = "body"]
      /\ oneshot' = [oneshot EXCEPT ![q] = "taken"]
      /\ UNCHANGED <<routed, handler, channel, socketVars, lock, committed, ended>>
  BY DEF TakeHead
<1> HIDE DEF c
<1>4. client'[q] = c /\ future'[q] = "body" /\ oneshot'[q] = "taken"
  BY <1>1, <1>3 DEF TypeOK
<1>5. StagesMatch(q)' /\ CommitsAreTold(q)'
  BY <1>1, <1>2, <1>3, <1>4 DEF QueryOK, StagesMatch, CommitsAreTold
<1>6. Sent(q)' = Sent(q) /\ Code(q)' = Code(q)
  BY <1>1, <1>2, <1>3, <1>4 DEF Sent, Code
<1>7. NothingIsLost(q)'
  BY <1>1, <1>2, <1>3, <1>4, <1>6, Fields DEF QueryOK, NothingIsLost, Unanswered
<1>8. OnlyQuery(q)
  BY <1>1, <1>3, <1>4, Unchanged DEF OnlyQuery
<1> QED
  BY <1>1, <1>2, <1>3, <1>4, <1>5, <1>7, <1>8, QueryFrame, Fields DEF TypeOK

LEMMA ServeStep == ASSUME IInv, ended = "no", NEW q \in Queries, Serve(q) PROVE IInv'
<1>1. /\ QueryOK(q) /\ TypeOK /\ future[q] = "none" /\ handler[q].pc = "none"
      /\ UNCHANGED <<routed, oneshot, channel, socketVars, lock, committed, ended>>
  BY DEF IInv, Serve, QueryOK, StagesMatch
<1>2. CASE routed[q].kind = "query"
  <2> DEFINE h == [handler[q] EXCEPT !.pc = "run"]
  <2>1. /\ h \in HandlerState /\ h.pc = "run" /\ h.code = handler[q].code
        /\ h.left = handler[q].left /\ h.boxes = handler[q].boxes
    BY <1>1, Fields DEF HandlerState
  <2>2. /\ future' = [future EXCEPT ![q] = "awaiting"] /\ handler' = [handler EXCEPT ![q] = h]
        /\ client[q].state \in {"waiting", "gone"} /\ UNCHANGED client
    BY <1>2 DEF Serve
  <2> HIDE DEF h
  <2>3. handler'[q] = h /\ future'[q] = "awaiting"
    BY <1>1, <2>2 DEF TypeOK
  <2>4. StagesMatch(q)' /\ CommitsAreTold(q)'
    BY <1>1, <1>2, <2>1, <2>2, <2>3 DEF QueryOK, StagesMatch, CommitsAreTold
  <2>5. NothingIsLost(q)'
    BY <1>1, <2>1, <2>2, <2>3, Fields DEF QueryOK, NothingIsLost, Unanswered, Sent
  <2>6. OnlyQuery(q)
    BY <1>1, <2>2, <2>3, Unchanged DEF OnlyQuery
  <2> QED
    BY <1>1, <2>1, <2>2, <2>3, <2>4, <2>5, <2>6, QueryFrame, Fields DEF TypeOK
<1>3. CASE routed[q].kind # "query"
  <2>1. PICK st \in {"complete", "failed", "gone"} :
            client' = [client EXCEPT ![q] = [client[q] EXCEPT !.state = st]]
    <3>1. client' = [client EXCEPT ![q] = [client[q] EXCEPT !.state =
                            CASE client[q].state = "gone" -> client[q].state
                              [] client[q].state # "gone" /\ routed[q].kind = "status" -> "complete"
                              [] OTHER -> "failed"]]
      BY <1>3 DEF Serve
    <3> QED
      BY <3>1
  <2> DEFINE c == [client[q] EXCEPT !.state = st]
  <2>2. c \in ClientState /\ c.state = st /\ c.code = client[q].code /\ c.chunks = client[q].chunks
    BY <1>1, Fields DEF ClientState
  <2>3. /\ future' = [future EXCEPT ![q] = "over"] /\ client' = [client EXCEPT ![q] = c]
        /\ UNCHANGED handler
    BY <1>3, <2>1 DEF Serve
  <2> HIDE DEF c
  <2>4. client'[q] = c /\ future'[q] = "over"
    BY <1>1, <2>3 DEF TypeOK
  <2>5. StagesMatch(q)' /\ CommitsAreTold(q)'
    BY <1>1, <2>2, <2>3, <2>4 DEF QueryOK, StagesMatch, CommitsAreTold
  <2>6. NothingIsLost(q)'
    BY <1>1, <1>3, <2>2, <2>3, <2>4, Fields DEF QueryOK, NothingIsLost, Unanswered, Sent
  <2>7. OnlyQuery(q)
    BY <1>1, <2>3, <2>4, Unchanged DEF OnlyQuery
  <2> QED
    BY <1>1, <2>2, <2>3, <2>4, <2>5, <2>6, <2>7, QueryFrame, Fields DEF TypeOK
<1> QED
  BY <1>2, <1>3

LEMMA TakeChunkStep == ASSUME IInv, ended = "no", NEW q \in Queries, TakeChunk(q) PROVE IInv'
<1> DEFINE c == [client[q] EXCEPT !.chunks = client[q].chunks + 1]
<1>1. /\ QueryOK(q) /\ TypeOK /\ future[q] = "body" /\ channel[q] = 1 /\ client[q].state = "head"
      /\ oneshot[q] = "taken" /\ client[q].chunks + 1 \in 0 .. Chunks + 1
      /\ UNCHANGED <<routed, future, handler, oneshot, socketVars, lock, committed, ended>>
  <2>1. /\ QueryOK(q) /\ TypeOK /\ future[q] = "body" /\ channel[q] > 0 /\ client[q].state = "head"
        /\ UNCHANGED <<routed, future, handler, oneshot, socketVars, lock, committed, ended>>
    BY DEF IInv, TakeChunk
  <2> QED
    BY <2>1, Fields DEF QueryOK, NothingIsLost, Sent
<1>2. /\ c \in ClientState /\ c.state = "head" /\ c.code = client[q].code
      /\ c.chunks = client[q].chunks + 1
  BY <1>1, Fields DEF ClientState
<1>3. client' = [client EXCEPT ![q] = c] /\ channel' = [channel EXCEPT ![q] = channel[q] - 1]
  BY DEF TakeChunk
<1> HIDE DEF c
<1>4. client'[q] = c /\ channel'[q] = 0
  <2>1. client'[q] = c /\ channel'[q] = channel[q] - 1
    BY <1>1, <1>3 DEF TypeOK
  <2> QED
    BY <1>1, <2>1
<1>5. StagesMatch(q)' /\ CommitsAreTold(q)'
  BY <1>1, <1>2, <1>4 DEF QueryOK, StagesMatch, CommitsAreTold
<1>6. Sent(q)' = Sent(q) /\ Code(q)' = Code(q)
  BY <1>1, <1>2, <1>4, Fields DEF Sent, Code
<1>7. NothingIsLost(q)'
  BY <1>1, <1>2, <1>4, <1>6, Fields DEF QueryOK, NothingIsLost, Unanswered
<1>8. OnlyQuery(q)
  BY <1>1, <1>3, <1>4, Unchanged DEF OnlyQuery
<1> QED
  <2>1. channel'[q] \in 0 .. 1
    BY <1>4
  <2>2. lock' \in Queries \cup Sockets \cup {Nobody} /\ ended' \in {"no", "exit", "undefined"}
    BY <1>1 DEF TypeOK
  <2> QED
    BY <1>1, <1>2, <1>4, <1>5, <1>7, <1>8, <2>1, <2>2, QueryFrame, Fields

LEMMA EndBodyStep == ASSUME IInv, ended = "no", NEW q \in Queries, EndBody(q) PROVE IInv'
<1> DEFINE c == [client[q] EXCEPT !.state = "complete"]
<1>1. /\ QueryOK(q) /\ TypeOK /\ future[q] = "body" /\ channel[q] = 0 /\ client[q].state = "head"
      /\ handler[q].pc = "over"
      /\ UNCHANGED <<routed, handler, oneshot, channel, socketVars, lock, committed, ended>>
  BY DEF IInv, EndBody
<1>2. /\ c \in ClientState /\ c.state = "complete" /\ c.code = client[q].code
      /\ c.chunks = client[q].chunks
  BY <1>1, Fields DEF ClientState
<1>3. client' = [client EXCEPT ![q] = c] /\ future' = [future EXCEPT ![q] = "over"]
  BY DEF EndBody
<1> HIDE DEF c
<1>4. client'[q] = c /\ future'[q] = "over"
  BY <1>1, <1>3 DEF TypeOK
<1>5. StagesMatch(q)' /\ CommitsAreTold(q)'
  BY <1>1, <1>2, <1>4 DEF QueryOK, StagesMatch, CommitsAreTold
<1>6. client[q].chunks \in Size(client[q].code)
  BY <1>1, Fields DEF QueryOK, NothingIsLost, Sent, Code
<1>7. NothingIsLost(q)'
  BY <1>1, <1>2, <1>4, <1>6, Fields DEF QueryOK, NothingIsLost, Sent
<1>8. OnlyQuery(q)
  BY <1>1, <1>3, <1>4, Unchanged DEF OnlyQuery
<1> QED
  BY <1>1, <1>2, <1>4, <1>5, <1>7, <1>8, QueryFrame, Fields DEF TypeOK

LEMMA HangUpStep == ASSUME IInv, ended = "no", NEW q \in Queries, HangUp(q) PROVE IInv'
<1> DEFINE c == [client[q] EXCEPT !.state = "gone"]
<1>1. /\ QueryOK(q) /\ TypeOK /\ client[q].state \in {"waiting", "head"}
      /\ UNCHANGED <<routed, future, handler, oneshot, channel, socketVars, lock, committed, ended>>
  BY DEF IInv, HangUp
<1>2. c \in ClientState /\ c.state = "gone" /\ c.code = client[q].code /\ c.chunks = client[q].chunks
  BY <1>1, Fields DEF ClientState
<1>3. client' = [client EXCEPT ![q] = c]
  BY DEF HangUp
<1> HIDE DEF c
<1>4. client'[q] = c
  BY <1>1, <1>3 DEF TypeOK
<1>5. StagesMatch(q)' /\ CommitsAreTold(q)'
  BY <1>1, <1>2, <1>4 DEF QueryOK, StagesMatch, CommitsAreTold
<1>6. NothingIsLost(q)'
  BY <1>1, <1>2, <1>4 DEF QueryOK, NothingIsLost, Unanswered, Sent, Code
<1>7. OnlyQuery(q)
  BY <1>1, <1>3, <1>4, Unchanged DEF OnlyQuery
<1> QED
  BY <1>1, <1>2, <1>4, <1>5, <1>6, <1>7, QueryFrame, Fields DEF TypeOK

LEMMA NoticeHangUpStep ==
    ASSUME IInv, ended = "no", NEW q \in Queries, NoticeHangUp(q) PROVE IInv'
<1>1. /\ QueryOK(q) /\ TypeOK /\ client[q].state = "gone" /\ future[q] \in {"awaiting", "body"}
      /\ future' = [future EXCEPT ![q] = "over"]
      /\ UNCHANGED <<routed, client, handler, oneshot, channel, socketVars, lock, committed, ended>>
  BY DEF IInv, NoticeHangUp
<1>2. future'[q] = "over"
  BY <1>1 DEF TypeOK
<1>3. StagesMatch(q)' /\ CommitsAreTold(q)' /\ NothingIsLost(q)'
  BY <1>1, <1>2
  DEF QueryOK, StagesMatch, CommitsAreTold, NothingIsLost, Unanswered, Sent, Code
<1>4. OnlyQuery(q)
  BY <1>1, <1>2, Unchanged DEF OnlyQuery
<1> QED
  BY <1>1, <1>2, <1>3, <1>4, QueryFrame, Fields DEF TypeOK

----------------------------------------------------------------------------
(* The Lisp side of a query                                                *)

LEMMA ReleasedType ==
    ASSUME TypeOK, NEW x PROVE Released(x) \in Queries \cup Sockets \cup {Nobody}
BY DEF TypeOK, Released

\* The handler has an answer and has not begun one before.
LEMMA AnswerStep ==
    ASSUME IInv, ended = "no", NEW q \in Queries, handler[q].pc \in {"run", "locked"},
           NEW code \in Codes \ {"none"}, NEW left \in Size(code), NEW nested \in BOOLEAN,
           handler' = [handler EXCEPT ![q] = Answering(q, code, left, nested)],
           UNCHANGED <<routed, client, future, oneshot, channel, socketVars, ended>>,
           lock' \in Queries \cup Sockets \cup {Nobody}, committed' \in {committed, committed \cup {q}},
           q \in committed' => q \in committed \/ routed[q].method = "POST",
           code = "201" => q \in committed'
    PROVE  IInv'
<1> DEFINE h == Answering(q, code, left, nested)
<1>1. TypeOK /\ QueryOK(q)
  BY DEF IInv
<1>2. left \in 0 .. Chunks + 1
  BY SizeType
<1>3. /\ h \in HandlerState /\ h.pc = "init" /\ h.code = code /\ h.left = left
      /\ h.boxes = handler[q].boxes
  BY <1>1, <1>2, Fields DEF Answering, HandlerState
<1> HIDE DEF h
<1>4. handler'[q] = h
  BY <1>1 DEF TypeOK, h
<1>5. StagesMatch(q)'
  BY <1>1, <1>3, <1>4 DEF QueryOK, StagesMatch
<1>6. CommitsAreTold(q)'
  BY <1>1, <1>3, <1>4 DEF QueryOK, StagesMatch, CommitsAreTold
<1>7. NothingIsLost(q)'
  BY <1>1, <1>3, <1>4 DEF QueryOK, NothingIsLost, Unanswered, Sent, Code
<1>8. OnlyQuery(q)
  BY <1>1, <1>4, Unchanged DEF OnlyQuery, h
<1> QED
  BY <1>1, <1>3, <1>4, <1>5, <1>6, <1>7, <1>8, QueryFrame, Fields DEF TypeOK

\* The handler goes on without an answer, or ends the process.
LEMMA MoveStep ==
    ASSUME IInv, ended = "no", NEW q \in Queries,
           NEW pc \in {"lock", "locked", "over"}, pc = "over" => ended' = "exit",
           handler[q].pc \in {"run", "lock"}, pc # "over" => routed[q].method = "POST",
           handler' = [handler EXCEPT ![q].pc = pc],
           UNCHANGED <<routed, client, future, oneshot, channel, socketVars, committed>>,
           lock' \in {lock, q}, ended' \in {"no", "exit"}
    PROVE  IInv'
<1> DEFINE h == [handler[q] EXCEPT !.pc = pc]
<1>1. TypeOK /\ QueryOK(q)
  BY DEF IInv
<1>2. /\ h \in HandlerState /\ h.pc = pc /\ h.code = handler[q].code /\ h.left = handler[q].left
      /\ h.boxes = handler[q].boxes
  BY <1>1, Fields DEF HandlerState
<1>3. handler' = [handler EXCEPT ![q] = h]
  OBVIOUS
<1> HIDE DEF h
<1>4. handler'[q] = h
  BY <1>1, <1>3 DEF TypeOK
<1>5. StagesMatch(q)' /\ CommitsAreTold(q)'
  BY <1>1, <1>2, <1>4 DEF QueryOK, StagesMatch, CommitsAreTold
<1>6. NothingIsLost(q)'
  BY <1>1, <1>2, <1>4 DEF QueryOK, NothingIsLost, Unanswered, Sent, Code
<1>7. OnlyQuery(q)
  BY <1>1, <1>3, <1>4, Unchanged DEF OnlyQuery
<1> QED
  BY <1>1, <1>2, <1>4, <1>5, <1>6, <1>7, QueryFrame, Fields DEF TypeOK

LEMMA ExecuteStep == ASSUME IInv, ended = "no", NEW q \in Queries, Execute(q) PROVE IInv'
<1>1. /\ handler[q].pc = "run"
      /\ UNCHANGED <<routed, client, future, oneshot, channel, socketVars, lock, committed>>
  BY DEF Execute
<1>2. /\ Chunks \in Size("200") /\ 0 \in Size("400") /\ 1 \in Size("400") /\ 1 \in Size("500")
      /\ {"200", "400", "500"} \subseteq Codes \ {"none"}
      /\ lock \in Queries \cup Sockets \cup {Nobody} /\ committed' = committed
  BY <1>1 DEF Size, Codes, IInv, TypeOK
<1>3. CASE handler' = [handler EXCEPT ![q].pc = "over"] /\ ended' = "exit"
  BY <1>1, <1>3, MoveStep
<1>4. CASE handler' = [handler EXCEPT ![q].pc = "lock"] /\ routed[q].method = "POST" /\ UNCHANGED ended
  BY <1>1, <1>4, MoveStep
<1>5. CASE handler' = [handler EXCEPT ![q] = Answering(q, "200", Chunks, FALSE)] /\ UNCHANGED ended
  BY <1>1, <1>2, <1>5, AnswerStep
<1>6. CASE handler' = [handler EXCEPT ![q] = Answering(q, "400", 1, FALSE)] /\ UNCHANGED ended
  BY <1>1, <1>2, <1>6, AnswerStep
<1>7. CASE handler' = [handler EXCEPT ![q] = Answering(q, "500", 1, TRUE)] /\ UNCHANGED ended
  BY <1>1, <1>2, <1>7, AnswerStep
<1>8. CASE handler' = [handler EXCEPT ![q] = Answering(q, "400", 0, FALSE)] /\ UNCHANGED ended
  BY <1>1, <1>2, <1>8, AnswerStep
<1> QED
  BY <1>3, <1>4, <1>5, <1>6, <1>7, <1>8 DEF Execute

LEMMA AcquireStep == ASSUME IInv, ended = "no", NEW q \in Queries, Acquire(q) PROVE IInv'
<1>1. handler[q].pc = "lock" /\ routed[q].method = "POST"
  BY DEF Acquire, IInv, QueryOK, CommitsAreTold
<1>2. /\ lock' = q /\ handler' = [handler EXCEPT ![q].pc = "locked"]
      /\ UNCHANGED <<routed, client, future, oneshot, channel, socketVars, committed, ended>>
  BY DEF Acquire
<1> QED
  BY <1>1, <1>2, MoveStep

LEMMA CommitStep == ASSUME IInv, ended = "no", NEW q \in Queries, Commit(q) PROVE IInv'
<1>1. /\ handler[q].pc = "locked" /\ routed[q].method = "POST"
      /\ UNCHANGED <<routed, client, future, oneshot, channel, socketVars, ended>>
  BY DEF Commit, IInv, QueryOK, CommitsAreTold
<1>2. /\ Chunks \in Size("201") /\ 1 \in Size("400") /\ 1 \in Size("500")
      /\ {"201", "400", "500"} \subseteq Codes \ {"none"}
      /\ lock \in Queries \cup Sockets \cup {Nobody}
  BY DEF Size, Codes, IInv, TypeOK
<1>3. CASE /\ handler' = [handler EXCEPT ![q] = Answering(q, "201", Chunks, FALSE)]
           /\ committed' = committed \cup {q} /\ UNCHANGED lock
  BY <1>1, <1>2, <1>3, AnswerStep
<1>4. CASE /\ handler' = [handler EXCEPT ![q] = Answering(q, "400", 1, FALSE)]
           /\ lock' = Nobody /\ UNCHANGED committed
  BY <1>1, <1>2, <1>4, AnswerStep
<1>5. CASE /\ handler' = [handler EXCEPT ![q] = Answering(q, "500", 1, TRUE)]
           /\ UNCHANGED <<lock, committed>>
  BY <1>1, <1>2, <1>5, AnswerStep
<1> QED
  BY <1>3, <1>4, <1>5 DEF Commit

\* What Finish makes of the handler.
Finished(q) == [handler[q] EXCEPT !.pc = "over", !.left = 0]

LEMMA FinishedHandler ==
    ASSUME TypeOK, NEW q \in Queries
    PROVE  Finished(q) \in HandlerState /\ Finished(q).pc = "over" /\ Finished(q).code = handler[q].code
<1>1. handler[q] \in HandlerState /\ 0 \in 0 .. Chunks + 1 /\ 0 \in 0 .. 2
  BY Fields
<1>2. \A l \in 0 .. Chunks + 1 :
        LET h == [handler[q] EXCEPT !.pc = "over", !.left = l]
        IN  h \in HandlerState /\ h.pc = "over" /\ h.code = handler[q].code
  BY <1>1 DEF HandlerState
<1> QED
  BY <1>1, <1>2, Zenon DEF Finished

LEMMA SendingHandler ==
    ASSUME TypeOK, NEW q \in Queries
    PROVE  LET h == [handler[q] EXCEPT !.pc = "send", !.boxes = 1]
           IN  /\ h \in HandlerState /\ h.pc = "send" /\ h.code = handler[q].code
               /\ h.left = handler[q].left /\ h.boxes = 1
<1>1. handler[q] \in HandlerState /\ 0 \in 0 .. Chunks + 1 /\ 1 \in 0 .. 2
  BY Fields
<1>2. \A b \in 0 .. 2 :
        LET h == [handler[q] EXCEPT !.pc = "send", !.boxes = b]
        IN  /\ h \in HandlerState /\ h.pc = "send" /\ h.code = handler[q].code
            /\ h.left = handler[q].left /\ h.boxes = b
  BY <1>1 DEF HandlerState
<1> QED
  BY <1>1, <1>2, Zenon

\* The receivers are dropped: the handler ends, or the process.
LEMMA AbortStep ==
    ASSUME IInv, ended = "no", NEW q \in Queries, handler[q].pc \in {"init", "send"},
           future[q] = "over", Abort(q),
           UNCHANGED <<routed, client, future, oneshot, channel, socketVars, committed>>
    PROVE  IInv'
<1>1. TypeOK /\ QueryOK(q) /\ lock' = Released(q) /\ ended' \in {"no", "exit"}
  BY DEF IInv, Abort, Escape, Finish
<1>2. PICK h \in HandlerState : /\ handler' = [handler EXCEPT ![q] = h]
                                /\ h.pc = "over" /\ h.code = handler[q].code
  <2>1. CASE handler[q].nested
    <3> DEFINE h == [handler[q] EXCEPT !.pc = "over"]
    <3>1. h \in HandlerState /\ h.pc = "over" /\ h.code = handler[q].code
      BY <1>1, Fields DEF HandlerState
    <3>2. handler' = [handler EXCEPT ![q] = h]
      BY <2>1 DEF Abort
    <3> QED
      BY <3>1, <3>2
  <2>2. CASE ~handler[q].nested
    <3>1. handler' = [handler EXCEPT ![q] = Finished(q)]
      BY <2>2 DEF Abort, Finish, Finished
    <3> QED
      BY <1>1, <3>1, FinishedHandler
  <2> QED
    BY <2>1, <2>2
<1>3. handler'[q] = h
  BY <1>1, <1>2 DEF TypeOK
<1>4. StagesMatch(q)' /\ CommitsAreTold(q)'
  BY <1>1, <1>2, <1>3 DEF QueryOK, StagesMatch, CommitsAreTold
<1>5. NothingIsLost(q)'
  BY <1>1, <1>2, <1>3 DEF QueryOK, NothingIsLost, Unanswered, Sent, Code
<1>6. OnlyQuery(q)
  BY <1>1, <1>2, <1>3, Unchanged DEF OnlyQuery
<1> QED
  BY <1>1, <1>2, <1>3, <1>4, <1>5, <1>6, QueryFrame, Fields, ReleasedType DEF TypeOK

LEMMA RespondInitStep == ASSUME IInv, ended = "no", NEW q \in Queries, RespondInit(q) PROVE IInv'
<1>1. /\ TypeOK /\ QueryOK(q) /\ handler[q].pc = "init" /\ handler[q].boxes = 0
      /\ UNCHANGED <<routed, client, future, channel, socketVars, committed>>
  BY DEF IInv, RespondInit
<1>2. CASE future[q] = "over"
  BY <1>1, <1>2, AbortStep DEF RespondInit
<1>3. CASE future[q] # "over"
  <2>1. /\ handler[q].left \in Size(handler[q].code) /\ handler[q].code \in Codes \ {"none"}
        /\ Sent(q) = 0 /\ oneshot[q] = "empty" /\ future[q] = "awaiting"
    BY <1>1, <1>3, Fields DEF QueryOK, StagesMatch, NothingIsLost, Unanswered
  <2>2. oneshot' = [oneshot EXCEPT ![q] = handler[q].code]
    BY <1>3 DEF RespondInit
  <2>3. oneshot'[q] = handler[q].code
    BY <1>1, <2>2 DEF TypeOK
  <2>4. PICK h \in HandlerState :
            /\ handler' = [handler EXCEPT ![q] = h] /\ h.code = handler[q].code
            /\ \/ handler[q].left = 0 /\ h.pc = "over"
               \/ handler[q].left > 0 /\ h.pc = "send" /\ h.left = handler[q].left /\ h.boxes = 1
    <3>1. CASE handler[q].left = 0
      <4>1. handler' = [handler EXCEPT ![q] = Finished(q)]
        BY <1>3, <3>1 DEF RespondInit, Finish, Finished
      <4> QED
        BY <1>1, <3>1, <4>1, FinishedHandler
    <3>2. CASE handler[q].left # 0
      <4> DEFINE h == [handler[q] EXCEPT !.pc = "send", !.boxes = 1]
      <4>1. /\ h \in HandlerState /\ h.pc = "send" /\ h.code = handler[q].code
            /\ h.left = handler[q].left /\ h.boxes = 1
        BY <1>1, SendingHandler
      <4>2. handler' = [handler EXCEPT ![q] = h]
        BY <1>3, <3>2 DEF RespondInit
      <4>3. handler[q].left > 0
        BY <1>1, <3>2, Fields
      <4> QED
        BY <4>1, <4>2, <4>3
    <3> QED
      BY <3>1, <3>2
  <2>5. lock' \in {lock, Released(q)} /\ ended' = ended
    BY <1>3 DEF RespondInit, Finish
  <2>6. handler'[q] = h
    BY <1>1, <2>4 DEF TypeOK
  <2>7. StagesMatch(q)' /\ CommitsAreTold(q)'
    BY <1>1, <2>3, <2>4, <2>6 DEF QueryOK, StagesMatch, CommitsAreTold
  <2>8. Sent(q)' = 0 /\ Code(q)' = handler[q].code /\ handler[q].code \notin {"empty", "taken"}
    BY <1>1, <2>1, <2>3 DEF Sent, Code, Codes
  <2>9. NothingIsLost(q)'
    <3>1. CASE handler[q].left = 0 /\ h.pc = "over"
      BY <1>1, <2>1, <2>3, <2>6, <2>8, <3>1 DEF QueryOK, StagesMatch, NothingIsLost
    <3>2. CASE handler[q].left > 0 /\ h.pc = "send" /\ h.left = handler[q].left /\ h.boxes = 1
      BY <1>1, <2>1, <2>3, <2>6, <2>8, <3>2, Fields DEF QueryOK, StagesMatch, NothingIsLost
    <3> QED
      BY <2>4, <3>1, <3>2
  <2>10. OnlyQuery(q)
    BY <1>1, <2>2, <2>3, <2>4, <2>6, Unchanged DEF OnlyQuery
  <2>11. lock' \in Queries \cup Sockets \cup {Nobody}
    BY <1>1, <2>5, ReleasedType DEF TypeOK
  <2> QED
    BY <1>1, <2>1, <2>3, <2>4, <2>5, <2>6, <2>7, <2>9, <2>10, <2>11, QueryFrame, Fields
<1> QED
  BY <1>2, <1>3

LEMMA RespondSendStep == ASSUME IInv, ended = "no", NEW q \in Queries, RespondSend(q) PROVE IInv'
<1>1. /\ TypeOK /\ QueryOK(q) /\ handler[q].pc = "send"
      /\ UNCHANGED <<routed, client, future, oneshot, socketVars, committed>>
  BY DEF IInv, RespondSend
<1>2. CASE Gone(q) /\ Abort(q) /\ UNCHANGED channel
  BY <1>1, <1>2, AbortStep DEF Gone
<1>3. ASSUME ~Gone(q), HasRoom(q), channel' = [channel EXCEPT ![q] = channel[q] + 1],
             IF handler[q].left = 1
             THEN Finish(q)
             ELSE /\ handler' = [handler EXCEPT ![q].left = handler[q].left - 1]
                  /\ UNCHANGED <<lock, ended>>
      PROVE  IInv'
  <2>1. /\ future[q] \in {"awaiting", "body"} /\ channel[q] = 0 /\ oneshot[q] # "empty"
        /\ handler[q].left > 0 /\ handler[q].boxes = 1
        /\ Sent(q) + handler[q].left \in Size(Code(q))
    BY <1>1, <1>3, Fields DEF QueryOK, StagesMatch, NothingIsLost, Gone, HasRoom
  <2>2. channel'[q] = 1
    <3>1. channel'[q] = channel[q] + 1
      BY <1>1, <1>3 DEF TypeOK
    <3> QED
      BY <2>1, <3>1
  <2>3. PICK h \in HandlerState :
            /\ handler' = [handler EXCEPT ![q] = h] /\ h.code = handler[q].code
            /\ \/ handler[q].left = 1 /\ h.pc = "over"
               \/ /\ handler[q].left > 1 /\ h.pc = "send" /\ h.left = handler[q].left - 1
                  /\ h.boxes = 1
    <3>1. CASE handler[q].left = 1
      <4>1. handler' = [handler EXCEPT ![q] = Finished(q)]
        BY <1>3, <3>1 DEF Finish, Finished
      <4> QED
        BY <1>1, <3>1, <4>1, FinishedHandler
    <3>2. CASE handler[q].left # 1
      <4> DEFINE h == [handler[q] EXCEPT !.left = handler[q].left - 1]
      <4>1. handler[q].left > 1 /\ handler[q].left - 1 \in 0 .. Chunks + 1
        BY <1>1, <2>1, <3>2, Fields
      <4>2. /\ h \in HandlerState /\ h.pc = "send" /\ h.code = handler[q].code
            /\ h.left = handler[q].left - 1 /\ h.boxes = 1
        BY <1>1, <2>1, <4>1, Fields DEF HandlerState
      <4>3. handler' = [handler EXCEPT ![q] = h]
        BY <1>3, <3>2
      <4> QED
        BY <4>1, <4>2, <4>3
    <3> QED
      BY <3>1, <3>2
  <2>4. lock' \in {lock, Released(q)} /\ ended' = ended
    BY <1>3 DEF Finish
  <2>5. handler'[q] = h
    BY <1>1, <2>3 DEF TypeOK
  <2>6. StagesMatch(q)' /\ CommitsAreTold(q)'
    BY <1>1, <2>3, <2>5 DEF QueryOK, StagesMatch, CommitsAreTold
  <2>7. Sent(q) \in Nat /\ Sent(q)' = Sent(q) + 1 /\ Code(q)' = Code(q)
    BY <1>1, <2>1, <2>2, Fields DEF Sent, Code
  <2>8. Sent(q) + 1 <= Chunks + 1
    BY <1>1, <2>1, <2>7, SizeType, Fields
  <2>9. NothingIsLost(q)'
    <3>1. CASE handler[q].left = 1 /\ h.pc = "over"
      BY <1>1, <2>1, <2>5, <2>7, <2>8, <3>1 DEF QueryOK, StagesMatch, NothingIsLost
    <3>2. CASE handler[q].left > 1 /\ h.pc = "send" /\ h.left = handler[q].left - 1 /\ h.boxes = 1
      <4>1. Sent(q)' + h.left = Sent(q) + handler[q].left
        BY <1>1, <2>7, <3>2, Fields
      <4>2. h.left > 0
        BY <1>1, <3>2, Fields
      <4> QED
        BY <1>1, <2>1, <2>5, <2>7, <2>8, <3>2, <4>1, <4>2
        DEF QueryOK, StagesMatch, NothingIsLost
    <3> QED
      BY <2>3, <3>1, <3>2
  <2>10. OnlyQuery(q)
    BY <1>1, <1>3, <2>1, <2>2, <2>3, <2>5, Unchanged DEF OnlyQuery
  <2>11. channel'[q] \in 0 .. 1
    BY <2>2
  <2>12. lock' \in Queries \cup Sockets \cup {Nobody}
    BY <1>1, <2>4, ReleasedType DEF TypeOK
  <2> QED
    BY <1>1, <2>3, <2>4, <2>5, <2>6, <2>9, <2>10, <2>11, <2>12,
       QueryFrame, Fields
<1> QED
  BY <1>2, <1>3 DEF RespondSend

LEMMA RepeatStep ==
    ASSUME IInv, ended = "no", NEW q \in Queries, UseAfterFree(q) \/ FailRow(q) PROVE IInv'
<1>1. /\ TypeOK /\ QueryOK(q) /\ handler[q].boxes = 1 /\ handler[q].pc \in {"init", "send"}
      /\ UNCHANGED <<routed, client, future, oneshot, channel, socketVars, lock, committed>>
      /\ ended' \in {"no", "undefined"}
  BY DEF IInv, UseAfterFree, FailRow, QueryOK, NothingIsLost
<1>2. PICK h \in HandlerState :
          /\ handler' = [handler EXCEPT ![q] = h] /\ h.pc = "init" /\ h.boxes # 0
          /\ h.code \in {handler[q].code, "500"}
  <2>1. CASE UseAfterFree(q)
    <3> DEFINE h == [handler[q] EXCEPT !.boxes = 2]
    <3>1. h \in HandlerState /\ h.pc = handler[q].pc /\ h.boxes # 0 /\ h.code = handler[q].code
      BY <1>1, Fields DEF HandlerState
    <3>2. handler' = [handler EXCEPT ![q] = h] /\ handler[q].pc = "init"
      BY <2>1 DEF UseAfterFree
    <3> QED
      BY <3>1, <3>2
  <2>2. CASE FailRow(q)
    <3> DEFINE h == Answering(q, "500", 1, TRUE)
    <3>1. 1 \in 0 .. Chunks + 1 /\ handler[q] \in HandlerState
      BY <1>1, Fields
    <3>2. \A l \in 0 .. Chunks + 1 :
            LET g == Answering(q, "500", l, TRUE)
            IN  g \in HandlerState /\ g.pc = "init" /\ g.boxes = handler[q].boxes /\ g.code = "500"
      BY <3>1 DEF HandlerState, Answering, Codes
    <3>3. h \in HandlerState /\ h.pc = "init" /\ h.boxes = handler[q].boxes /\ h.code = "500"
      BY <3>1, <3>2, Zenon
    <3>4. handler' = [handler EXCEPT ![q] = h]
      BY <2>2 DEF FailRow
    <3>5. handler[q].boxes # 0
      BY <1>1
    <3> HIDE DEF h
    <3>6. h.boxes # 0 /\ h.code \in {handler[q].code, "500"} /\ h \in HandlerState
      BY <3>3, <3>5
    <3> QED
      BY <3>3, <3>4, <3>6
  <2> QED
    BY <2>1, <2>2
<1>3. handler'[q] = h
  BY <1>1, <1>2 DEF TypeOK
<1>4. StagesMatch(q)' /\ CommitsAreTold(q)'
  BY <1>1, <1>2, <1>3 DEF QueryOK, StagesMatch, CommitsAreTold
<1>5. NothingIsLost(q)'
  BY <1>1, <1>2, <1>3 DEF QueryOK, NothingIsLost, Unanswered, Sent, Code
<1>6. OnlyQuery(q)
  BY <1>1, <1>2, <1>3, Unchanged DEF OnlyQuery
<1> QED
  BY <1>1, <1>2, <1>3, <1>4, <1>5, <1>6, QueryFrame, Fields DEF TypeOK

----------------------------------------------------------------------------
(* WebSockets                                                              *)

Stages == {"none", "upgrading", "open", "run", "lock", "locked", "reply", "nested reply", "ended"}

\* A step of a WebSocket is left with what it does to the WebSockets.
LEMMA SocketFrame ==
    ASSUME IInv, ended = "no", NEW s \in Sockets, UNCHANGED queryVars,
           socket' \in [Sockets -> Stages],
           peer' \in [Sockets -> {"none", "open", "closed", "reset"}],
           inbox' \in [Sockets -> 0 .. MaxMessages], messages' \in [Sockets -> 0 .. MaxMessages],
           connections' \in [Addresses -> Sockets \cup {Nobody}],
           lock' \in Queries \cup Sockets \cup {Nobody}, ended' \in {"no", "exit", "undefined"},
           committed' \in {committed, committed \cup {s}},
           \A r \in Sockets : SocketOK(r)', ConnectionsMatchSockets'
    PROVE  IInv'
<1>1. TypeOK'
  BY DEF IInv, TypeOK, queryVars, Stages
<1>2. ASSUME NEW q \in Queries PROVE QueryOK(q)'
  <2>1. q \in committed' <=> q \in committed
    BY NobodyAssumption
  <2> QED
    BY <2>1 DEF IInv, queryVars, QueryOK, StagesMatch, CommitsAreTold, NothingIsLost,
                Unanswered, Sent, Code
<1> QED
  BY <1>1, <1>2 DEF IInv

LEMMA SocketTypes ==
    ASSUME IInv, NEW s \in Sockets
    PROVE  /\ socket \in [Sockets -> Stages]
           /\ peer \in [Sockets -> {"none", "open", "closed", "reset"}]
           /\ inbox \in [Sockets -> 0 .. MaxMessages] /\ messages \in [Sockets -> 0 .. MaxMessages]
           /\ connections \in [Addresses -> Sockets \cup {Nobody}]
           /\ lock \in Queries \cup Sockets \cup {Nobody} /\ ended \in {"no", "exit", "undefined"}
           /\ socket[s] \in Stages /\ inbox[s] \in Nat /\ messages[s] \in Nat
           /\ MaxMessages \in Nat /\ RemoteAddr[s] \in Addresses /\ s # Nobody
<1>1. /\ socket \in [Sockets -> Stages]
      /\ peer \in [Sockets -> {"none", "open", "closed", "reset"}]
      /\ inbox \in [Sockets -> 0 .. MaxMessages] /\ messages \in [Sockets -> 0 .. MaxMessages]
      /\ connections \in [Addresses -> Sockets \cup {Nobody}]
      /\ lock \in Queries \cup Sockets \cup {Nobody} /\ ended \in {"no", "exit", "undefined"}
  BY DEF IInv, TypeOK, Stages
<1>2. MaxMessages \in Nat /\ RemoteAddr[s] \in Addresses /\ s # Nobody
  BY WorkersAssumption, NobodyAssumption DEF Addresses
<1>3. inbox[s] \in 0 .. MaxMessages /\ messages[s] \in 0 .. MaxMessages
  BY <1>1
<1> QED
  BY <1>1, <1>2, <1>3

\* Messages come and go while the WebSocket is served and its client stays.
LEMMA ServedStep ==
    ASSUME IInv, ended = "no", NEW s \in Sockets, NEW x \in Stages \ {"none", "upgrading", "ended"},
           socket[s] \notin {"none", "upgrading", "ended"}, socket' = [socket EXCEPT ![s] = x],
           inbox' \in [Sockets -> 0 .. MaxMessages], \A r \in Sockets : inbox'[r] <= messages[r],
           UNCHANGED <<queryVars, peer, messages, connections>>,
           lock' \in Queries \cup Sockets \cup {Nobody}, ended' \in {"no", "exit", "undefined"},
           committed' \in {committed, committed \cup {s}}
    PROVE  IInv'
<1>1. socket' \in [Sockets -> Stages] /\ \A r \in Sockets : socket'[r] = IF r = s THEN x ELSE socket[r]
  BY SocketTypes
<1>2. ASSUME NEW r \in Sockets PROVE SocketOK(r)'
  BY <1>1 DEF IInv, SocketOK, Live
<1>3. ConnectionsMatchSockets'
  BY <1>1 DEF IInv, ConnectionsMatchSockets
<1> QED
  BY <1>1, <1>2, <1>3, SocketFrame, SocketTypes

LEMMA InboxFits == ASSUME IInv PROVE \A r \in Sockets : inbox[r] <= messages[r]
BY DEF IInv, SocketOK

LEMMA ConnectStep == ASSUME IInv, ended = "no", NEW s \in Sockets, Connect(s) PROVE IInv'
<1>1. /\ peer' = [peer EXCEPT ![s] = "open"] /\ socket' = [socket EXCEPT ![s] = "upgrading"]
      /\ UNCHANGED <<queryVars, inbox, messages, connections, lock, committed, ended>>
      /\ peer[s] = "none"
  BY DEF Connect
<1>2. /\ socket' \in [Sockets -> Stages]
      /\ \A r \in Sockets : socket'[r] = IF r = s THEN "upgrading" ELSE socket[r]
      /\ peer' \in [Sockets -> {"none", "open", "closed", "reset"}]
      /\ \A r \in Sockets : peer'[r] = IF r = s THEN "open" ELSE peer[r]
  BY <1>1, SocketTypes DEF Stages
<1>3. \A r \in Sockets : r # s /\ RemoteAddr[r] = RemoteAddr[s] => ~Live(r)
  BY DEF Connect, Live
<1>4. ASSUME NEW r \in Sockets PROVE SocketOK(r)'
  BY <1>1, <1>2, <1>3 DEF IInv, SocketOK, Live
<1>5. ConnectionsMatchSockets'
  BY <1>1, <1>2 DEF IInv, ConnectionsMatchSockets, SocketOK
<1> QED
  BY <1>1, <1>2, <1>4, <1>5, SocketFrame, SocketTypes

LEMMA OnInitStep == ASSUME IInv, ended = "no", NEW s \in Sockets, OnInit(s) PROVE IInv'
<1>1. /\ socket' = [socket EXCEPT ![s] = "open"] /\ socket[s] = "upgrading"
      /\ connections' = [connections EXCEPT ![RemoteAddr[s]] = s]
      /\ UNCHANGED <<queryVars, peer, inbox, messages, lock, committed, ended>>
  BY DEF OnInit
<1>2. /\ socket' \in [Sockets -> Stages]
      /\ \A r \in Sockets : socket'[r] = IF r = s THEN "open" ELSE socket[r]
      /\ connections' \in [Addresses -> Sockets \cup {Nobody}]
      /\ \A r \in Sockets : connections'[RemoteAddr[r]] = IF RemoteAddr[r] = RemoteAddr[s] THEN s
                                                          ELSE connections[RemoteAddr[r]]
  BY <1>1, SocketTypes DEF Stages
<1>3. ASSUME NEW r \in Sockets PROVE SocketOK(r)'
  BY <1>1, <1>2 DEF IInv, SocketOK, Live
<1>4. \A r \in Sockets : r # s /\ RemoteAddr[r] = RemoteAddr[s] /\ peer[r] = "open" =>
          socket[r] \in {"none", "upgrading"}
  BY <1>1 DEF IInv, SocketOK, Live
<1>5. ConnectionsMatchSockets'
  BY <1>1, <1>2, <1>4 DEF IInv, ConnectionsMatchSockets
<1> QED
  BY <1>1, <1>2, <1>3, <1>5, SocketFrame, SocketTypes

LEMMA SendMessageStep == ASSUME IInv, ended = "no", NEW s \in Sockets, SendMessage(s) PROVE IInv'
<1>1. /\ inbox' = [inbox EXCEPT ![s] = inbox[s] + 1]
      /\ messages' = [messages EXCEPT ![s] = messages[s] + 1] /\ messages[s] < MaxMessages
      /\ UNCHANGED <<queryVars, socket, peer, connections, lock, committed, ended>>
  BY DEF SendMessage
<1>2. inbox[s] + 1 \in 0 .. MaxMessages /\ messages[s] + 1 \in 0 .. MaxMessages
  BY <1>1, SocketTypes, InboxFits
<1>3. /\ inbox' \in [Sockets -> 0 .. MaxMessages] /\ messages' \in [Sockets -> 0 .. MaxMessages]
      /\ \A r \in Sockets : /\ inbox'[r] = IF r = s THEN inbox[s] + 1 ELSE inbox[r]
                            /\ messages'[r] = IF r = s THEN messages[s] + 1 ELSE messages[r]
  BY <1>1, <1>2, SocketTypes
<1>4. \A r \in Sockets : inbox'[r] <= messages'[r]
  BY <1>3, SocketTypes, InboxFits
<1>5. ASSUME NEW r \in Sockets PROVE SocketOK(r)'
  BY <1>1, <1>4 DEF IInv, SocketOK, Live
<1>6. ConnectionsMatchSockets'
  BY <1>1 DEF IInv, ConnectionsMatchSockets
<1> QED
  BY <1>1, <1>3, <1>5, <1>6, SocketFrame, SocketTypes

LEMMA CloseStep == ASSUME IInv, ended = "no", NEW s \in Sockets, Close(s) PROVE IInv'
<1>1. PICK how \in {"closed", "reset"} : peer' = [peer EXCEPT ![s] = how]
  BY DEF Close
<1>2. /\ UNCHANGED <<queryVars, socket, inbox, messages, connections, lock, committed, ended>>
      /\ peer[s] = "open"
  BY DEF Close
<1>3. /\ peer' \in [Sockets -> {"none", "open", "closed", "reset"}]
      /\ \A r \in Sockets : peer'[r] = IF r = s THEN how ELSE peer[r]
  BY <1>1, SocketTypes
<1>4. ASSUME NEW r \in Sockets PROVE SocketOK(r)'
  BY <1>2, <1>3 DEF IInv, SocketOK, Live
<1>5. ConnectionsMatchSockets'
  BY <1>2, <1>3 DEF IInv, ConnectionsMatchSockets, SocketOK
<1> QED
  BY <1>2, <1>3, <1>4, <1>5, SocketFrame, SocketTypes

LEMMA MessageStep ==
    ASSUME IInv, ended = "no", NEW s \in Sockets,
           OnMessage(s) \/ RunMessage(s) \/ AcquireForMessage(s) \/ CommitMessage(s) \/ Reply(s)
    PROVE  IInv'
<1>1. CASE OnMessage(s)
  <2>1. /\ inbox' = [inbox EXCEPT ![s] = inbox[s] - 1] /\ inbox[s] > 0 /\ socket[s] = "open"
        /\ socket' = [socket EXCEPT ![s] = "run"]
        /\ UNCHANGED <<queryVars, peer, messages, connections, lock, committed, ended>>
    BY <1>1 DEF OnMessage
  <2>2. inbox[s] - 1 \in 0 .. MaxMessages
    BY <2>1, SocketTypes
  <2>3. /\ inbox' \in [Sockets -> 0 .. MaxMessages]
        /\ \A r \in Sockets : inbox'[r] = IF r = s THEN inbox[s] - 1 ELSE inbox[r]
    BY <2>1, <2>2, SocketTypes
  <2>4. \A r \in Sockets : inbox'[r] <= messages[r]
    BY <2>3, SocketTypes, InboxFits
  <2>5. "run" \in Stages \ {"none", "upgrading", "ended"}
    BY DEF Stages
  <2> QED
    BY <2>1, <2>3, <2>4, <2>5, ServedStep, SocketTypes
<1>2. CASE RunMessage(s)
  <2>1. /\ socket[s] = "run"
        /\ UNCHANGED <<queryVars, peer, inbox, messages, connections, lock, committed, ended>>
    BY <1>2 DEF RunMessage
  <2>2. PICK x \in {"reply", "nested reply", "lock"} : socket' = [socket EXCEPT ![s] = x]
    BY <1>2 DEF RunMessage
  <2>3. x \in Stages \ {"none", "upgrading", "ended"}
    BY DEF Stages
  <2> QED
    BY <2>1, <2>2, <2>3, ServedStep, SocketTypes, InboxFits
<1>3. CASE AcquireForMessage(s)
  <2>1. /\ socket[s] = "lock" /\ lock' = s /\ socket' = [socket EXCEPT ![s] = "locked"]
        /\ UNCHANGED <<queryVars, peer, inbox, messages, connections, committed, ended>>
    BY <1>3 DEF AcquireForMessage
  <2>2. "locked" \in Stages \ {"none", "upgrading", "ended"}
    BY DEF Stages
  <2> QED
    BY <2>1, <2>2, ServedStep, SocketTypes, InboxFits
<1>4. CASE CommitMessage(s)
  <2>1. /\ socket[s] = "locked" /\ committed' \in {committed, committed \cup {s}}
        /\ UNCHANGED <<queryVars, peer, inbox, messages, connections, lock, ended>>
    BY <1>4 DEF CommitMessage
  <2>2. PICK x \in {"reply", "nested reply"} : socket' = [socket EXCEPT ![s] = x]
    BY <1>4 DEF CommitMessage
  <2>3. x \in Stages \ {"none", "upgrading", "ended"}
    BY DEF Stages
  <2> QED
    BY <2>1, <2>2, <2>3, ServedStep, SocketTypes, InboxFits
<1>5. CASE Reply(s)
  <2>1. /\ socket[s] \in {"reply", "nested reply"} /\ socket' = [socket EXCEPT ![s] = "open"]
        /\ UNCHANGED <<queryVars, peer, inbox, messages, connections, committed>>
        /\ lock' = Released(s) /\ ended' \in {ended, "exit"}
    BY <1>5 DEF Reply, Escape
  <2>2. "open" \in Stages \ {"none", "upgrading", "ended"}
    BY DEF Stages
  <2>3. lock' \in Queries \cup Sockets \cup {Nobody}
    BY <2>1, ReleasedType DEF IInv
  <2> QED
    BY <2>1, <2>2, <2>3, ServedStep, SocketTypes, InboxFits
<1> QED
  BY <1>1, <1>2, <1>3, <1>4, <1>5

LEMMA StreamEndsStep == ASSUME IInv, ended = "no", NEW s \in Sockets, StreamEnds(s) PROVE IInv'
<1>1. /\ socket' = [socket EXCEPT ![s] = "ended"] /\ socket[s] = "open" /\ peer[s] = "closed"
      /\ connections' = [connections EXCEPT ![RemoteAddr[s]] = Nobody]
      /\ UNCHANGED <<queryVars, peer, inbox, messages, lock, committed, ended>>
  BY DEF StreamEnds, Removed
<1>2. /\ socket' \in [Sockets -> Stages]
      /\ \A r \in Sockets : socket'[r] = IF r = s THEN "ended" ELSE socket[r]
      /\ connections' \in [Addresses -> Sockets \cup {Nobody}]
      /\ \A r \in Sockets : connections'[RemoteAddr[r]] = IF RemoteAddr[r] = RemoteAddr[s] THEN Nobody
                                                          ELSE connections[RemoteAddr[r]]
  BY <1>1, SocketTypes DEF Stages
<1>3. ASSUME NEW r \in Sockets PROVE SocketOK(r)'
  BY <1>1, <1>2, NobodyAssumption DEF IInv, SocketOK, Live
<1>4. \A r \in Sockets : r # s /\ RemoteAddr[r] = RemoteAddr[s] /\ peer[r] = "open" =>
          socket[r] \in {"none", "upgrading"}
  BY <1>1 DEF IInv, SocketOK, Live
<1>5. ConnectionsMatchSockets'
  BY <1>1, <1>2, <1>4, NobodyAssumption DEF IInv, ConnectionsMatchSockets
<1> QED
  BY <1>1, <1>2, <1>3, <1>5, SocketFrame, SocketTypes

LEMMA StreamFailsStep == ASSUME IInv, ended = "no", NEW s \in Sockets, StreamFails(s) PROVE IInv'
<1>1. /\ socket' = [socket EXCEPT ![s] = "ended"]
      /\ \/ socket[s] = "open" /\ peer[s] = "reset"
         \/ socket[s] = "upgrading" /\ peer[s] # "open"
      /\ UNCHANGED <<queryVars, peer, inbox, messages, connections, lock, committed, ended>>
  BY DEF StreamFails, Kept
<1>2. /\ socket' \in [Sockets -> Stages]
      /\ \A r \in Sockets : socket'[r] = IF r = s THEN "ended" ELSE socket[r]
  BY <1>1, SocketTypes DEF Stages
<1>3. ASSUME NEW r \in Sockets PROVE SocketOK(r)'
  BY <1>1, <1>2 DEF IInv, SocketOK, Live
<1>4. ConnectionsMatchSockets'
  BY <1>1, <1>2 DEF IInv, ConnectionsMatchSockets, SocketOK
<1> QED
  BY <1>1, <1>2, <1>3, <1>4, SocketFrame, SocketTypes

----------------------------------------------------------------------------
(* The theorems                                                            *)

LEMMA InitOK == Init => IInv
<1> SUFFICES ASSUME Init PROVE IInv
  OBVIOUS
<1>1. TypeOK
  <2>1. 0 \in 0 .. Chunks + 1 /\ 0 \in 0 .. MaxMessages
    BY WorkersAssumption
  <2>2. Idle \in HandlerState
    BY <2>1 DEF Idle, HandlerState, Codes
  <2>3. [state |-> "none", code |-> "none", chunks |-> 0] \in ClientState
    BY <2>1 DEF ClientState, Codes
  <2> QED
    BY <2>1, <2>2, <2>3 DEF Init, TypeOK
<1>2. ASSUME NEW q \in Queries PROVE QueryOK(q)
  <2>1. /\ client[q] = [state |-> "none", code |-> "none", chunks |-> 0]
        /\ handler[q] = [pc |-> "none", code |-> "none", left |-> 0, nested |-> FALSE, boxes |-> 0]
        /\ future[q] = "none" /\ oneshot[q] = "empty" /\ channel[q] = 0 /\ committed = {}
    BY DEF Init, Idle
  <2>2. StagesMatch(q) /\ CommitsAreTold(q)
    BY <2>1 DEF StagesMatch, CommitsAreTold
  <2>3. NothingIsLost(q)
    BY <2>1, WorkersAssumption DEF NothingIsLost, Unanswered, Sent
  <2> QED
    BY <2>2, <2>3 DEF QueryOK
<1>3. ASSUME NEW s \in Sockets PROVE SocketOK(s)
  BY NobodyAssumption DEF Init, SocketOK, Live, Addresses
<1>4. ConnectionsMatchSockets
  BY DEF Init, ConnectionsMatchSockets
<1> QED
  BY <1>1, <1>2, <1>3, <1>4 DEF IInv

LEMMA NextOK == IInv /\ [Next]_vars => IInv'
<1> SUFFICES ASSUME IInv, [Next]_vars PROVE IInv'
  OBVIOUS
<1>1. CASE UNCHANGED vars
  <2> USE <1>1 DEF vars, queryVars, socketVars
  <2>1. TypeOK'
    BY DEF IInv, TypeOK
  <2>2. ASSUME NEW q \in Queries PROVE QueryOK(q)'
    BY DEF IInv, QueryOK, StagesMatch, CommitsAreTold, NothingIsLost, Unanswered, Sent, Code
  <2>3. (\A s \in Sockets : SocketOK(s)') /\ ConnectionsMatchSockets'
    BY DEF IInv, SocketOK, Live, ConnectionsMatchSockets
  <2> QED
    BY <2>1, <2>2, <2>3 DEF IInv
<1>2. ASSUME ended = "no", NEW q \in Queries, Ask(q) \/ HangUp(q) \/ FutureOf(q) \/ HandlerOf(q)
      PROVE  IInv'
  BY <1>2, AskStep, HangUpStep, ServeStep, TakeHeadStep, TakeChunkStep, EndBodyStep,
     NoticeHangUpStep, ExecuteStep, AcquireStep, CommitStep, RespondInitStep, RespondSendStep,
     RepeatStep
  DEF FutureOf, HandlerOf
<1>3. ASSUME ended = "no", NEW s \in Sockets,
             Connect(s) \/ SendMessage(s) \/ Close(s) \/ TaskOf(s)
      PROVE  IInv'
  BY <1>3, ConnectStep, SendMessageStep, CloseStep, OnInitStep, MessageStep, StreamEndsStep,
     StreamFailsStep
  DEF TaskOf
<1> QED
  BY <1>1, <1>2, <1>3 DEF Next

LEMMA Invariant == Spec => []IInv
BY InitOK, NextOK, PTL DEF Spec

\* Every variable keeps its type: an answer has no more chunks than the rows
\* have, or one for an error, the channels hold what their capacity allows.
THEOREM TypeCorrect == Spec => []TypeOK
BY Invariant, PTL DEF IInv

\* A client whose answer came to its end has every chunk the handler made of
\* it, and one that was told of a commit was told the truth, also when rows
\* cannot be written, workers are taken by WebSockets and other clients go away.
THEOREM WholeAnswers == Spec => []AnswersAreWhole
<1>1. IInv => AnswersAreWhole
  BY DEF IInv, QueryOK, CommitsAreTold, NothingIsLost, AnswersAreWhole
<1> QED
  BY <1>1, Invariant, PTL

\* A served WebSocket whose client is there finds its own db-connection under
\* its address, however often addresses are used again.
THEOREM OwnConnections == Spec => []ConnectionsMatchSockets
BY Invariant, PTL DEF IInv

----------------------------------------------------------------------------
(* What Service makes of a request, whatever the requests are               *)

LEMMA SqlResponseKinds ==
    ASSUME NEW req, NEW params
    PROVE  /\ SqlResponse(req, params).kind \in {"status", "query"}
           /\ SqlResponse(req, params).kind = "query" =>
                  /\ SqlResponse(req, params).method = req.method
                  /\ SqlResponse(req, params).media = MediaType(Accepted(req))
BY DEF SqlResponse, Status

\* A POST is answered by a status or by a query, or it did not arrive as a whole.
LEMMA PostKinds ==
    ASSUME NEW req
    PROVE  /\ Post(req).kind \in {"status", "query", "dropped"}
           /\ Post(req).kind = "query" => /\ Post(req).method = req.method
                                          /\ Post(req).media = MediaType(Accepted(req))
           /\ Post(req).kind = "dropped" =>
                  /\ ~req.body.arrives
                  /\ req.type \in {"json", "ld+json", "sql", "form", "multipart"}
<1>1. \/ Post(req) = Status("400") \/ Post(req) = Status("415") \/ Post(req) = Status("422")
      \/ /\ Post(req) = Dropped /\ ~req.body.arrives
         /\ req.type \in {"json", "ld+json", "sql", "form", "multipart"}
      \/ \E params : Post(req) = SqlResponse(req, params)
  BY DEF Post
<1>2. /\ Status("400").kind = "status" /\ Status("415").kind = "status"
      /\ Status("422").kind = "status" /\ Dropped.kind = "dropped"
  BY DEF Status, Dropped
<1> QED
  BY <1>1, <1>2, SqlResponseKinds

LEMMA DispatchKinds ==
    ASSUME NEW req
    PROVE  /\ Dispatch(req).kind \in {"status", "query", "dropped"}
           /\ Dispatch(req).kind = "query" =>
                  /\ Dispatch(req).method \in {"GET", "POST"}
                  /\ Dispatch(req).media \in ContentTypes
           /\ Dispatch(req).kind = "dropped" =>
                  /\ req.method = "POST" /\ req.path = "/sql" /\ ~req.body.arrives
                  /\ req.type \in {"json", "ld+json", "sql", "form", "multipart"}
<1>1. \/ Dispatch(req) = Status("406") \/ Dispatch(req) = Status("404")
      \/ Dispatch(req) = Status("405")
      \/ /\ MediaType(Accepted(req)) # None /\ req.path = "/sql" /\ req.method = "GET"
         /\ Dispatch(req) = SqlResponse(req, UrlParams(req))
      \/ /\ MediaType(Accepted(req)) # None /\ req.path = "/sql" /\ req.method = "POST"
         /\ Dispatch(req) = Post(req)
  BY DEF Dispatch
<1>2. MediaType(Accepted(req)) # None => MediaType(Accepted(req)) \in ContentTypes
  BY DEF MediaType, ContentTypes
<1>3. /\ Status("406").kind = "status" /\ Status("404").kind = "status"
      /\ Status("405").kind = "status"
  BY DEF Status
<1>4. CASE Dispatch(req) = SqlResponse(req, UrlParams(req)) /\ req.method = "GET"
           /\ MediaType(Accepted(req)) # None
  BY <1>2, <1>4, SqlResponseKinds
<1>5. CASE Dispatch(req) = Post(req) /\ req.method = "POST" /\ req.path = "/sql"
           /\ MediaType(Accepted(req)) # None
  BY <1>2, <1>5, PostKinds
<1> QED
  BY <1>1, <1>3, <1>4, <1>5

\* Call answers by a status, asks the database or begins a WebSocket.
LEMMA CallKinds ==
    ASSUME NEW req
    PROVE  \/ Call(req).kind = "status"
           \/ ~Unauthorized(req) /\ ~IsUpgrade(req) /\ Call(req) = Dispatch(req)
           \/ ~Unauthorized(req) /\ IsUpgrade(req) /\ Call(req).kind = "websocket"
           \/ req.upgrade = "without key" /\ Call(req).kind = "dropped"
<1>1. \/ Call(req) = Status("401")
      \/ ~Unauthorized(req) /\ IsUpgrade(req) /\ Call(req) = Upgrade(req)
      \/ ~Unauthorized(req) /\ ~IsUpgrade(req) /\ Call(req) = Dispatch(req)
  BY DEF Call
<1>2. \/ Upgrade(req) = Status("404")
      \/ req.upgrade = "without key" /\ Upgrade(req) = Dropped
      \/ Upgrade(req) = Upgraded
  BY DEF Upgrade
<1>3. /\ Status("401").kind = "status" /\ Status("404").kind = "status"
      /\ Dropped.kind = "dropped" /\ Upgraded.kind = "websocket"
  BY DEF Status, Dropped, Upgraded
<1> QED
  BY <1>1, <1>2, <1>3

\* Nobody reaches the database without the user name and the password of the
\* command line, in the header this kind of request can carry.
THEOREM Authorized == Spec => []OnlyAuthorized
<1>1. AuthorizedRequests
  <2> SUFFICES ASSUME Username # None, Password # None, NEW req \in Requests,
                      Call(req).kind \in {"query", "websocket"}
               PROVE  LET kind == Call(req).kind
                          header == IF kind = "websocket" THEN req.protocol ELSE req.authorization
                      IN  header # None /\ header.credential = <<Username, Password>>
    BY DEF AuthorizedRequests
  <2>1. /\ ~Unauthorized(req)
        /\ Call(req).kind = "websocket" <=> IsUpgrade(req)
    BY CallKinds, DispatchKinds
  <2>2. Credential(req) = <<Username, Password>>
    BY <2>1, CredentialsAssumption DEF Unauthorized, BasicAuth
  <2>3. AuthHeader(req) # None /\ AuthHeader(req).credential = <<Username, Password>>
    BY <2>2, CredentialsAssumption DEF Credential
  <2> QED
    BY <2>1, <2>3 DEF AuthHeader
<1> QED
  BY <1>1, PTL DEF OnlyAuthorized

\* Every complete request that is let in is answered, and a query is asked for
\* in a format that can be written.
THEOREM Answered == Spec => []ClientsAreAnswered
<1>1. WritableMedia
  <2> SUFFICES ASSUME NEW req \in Requests, Call(req).kind = "query"
               PROVE  Call(req).method \in {"GET", "POST"} /\ Call(req).media \in ContentTypes
    BY DEF WritableMedia
  <2> QED
    BY CallKinds, DispatchKinds
<1>2. CompleteRequestsAnswered
  <2> SUFFICES ASSUME NEW req \in Requests, Call(req) = Dropped
               PROVE  \/ req.upgrade = "without key"
                      \/ /\ req.method = "POST" /\ req.path = "/sql" /\ ~req.body.arrives
                         /\ req.type \in {"json", "ld+json", "sql", "form", "multipart"}
    BY DEF CompleteRequestsAnswered
  <2>1. Call(req).kind = "dropped"
    BY DEF Dropped
  <2> QED
    BY <2>1, CallKinds, DispatchKinds
<1> QED
  BY <1>1, <1>2, PTL DEF ClientsAreAnswered
=============================================================================
