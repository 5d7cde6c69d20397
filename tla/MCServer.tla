------------------------------ MODULE MCServer ------------------------------
(***************************************************************************)
(* Instances of Server for TLC, and every combination of what Service!Call  *)
(* distinguishes.                                                           *)
(***************************************************************************)
EXTENDS ServerProps, ServiceProps

CONSTANTS q1, w1, w2

OneAddress == [s \in Sockets |-> "address"]

----------------------------------------------------------------------------
Right == Header(<<Username, Password>>, "encoded")
Headers == {None, Right, Header(<<Username, Password>>, "plain"),
            Header(<<Username, "guess">>, "plain"), Header(<<Username, Password>>, "garbled")}

Body(arrives, valid, parts) ==
    [arrives |-> arrives, valid |-> valid, parts |-> parts, text |-> "text"]

QueryStrings == {<<>>, <<Part("q", "url", "text")>>,
            <<Part("p", "url p", "text"), Part("q", "url", "text"), Part("q", "url again", "text")>>}

Fields == {Part("q", "body", "text"), Part("p", "body p", "text"), Part("m", "true", "text")}
BodyParts == {<<>>} \cup {<<a>> : a \in Fields} \cup {<<a, b>> : a, b \in Fields}
BadParts == {Part(None, "body", "text"), Part("q", "body", "undecodable"),
             Part("q", "body", "malformed")}
MultipartParts == BodyParts \cup {<<a, x, b>> : a, b \in Fields, x \in BadParts}

Plain(path, method, accept, type, authorization, query, body) ==
    [upgrade |-> "none", path |-> path, method |-> method, accept |-> accept, type |-> type,
     authorization |-> authorization, protocol |-> None, query |-> query, body |-> body]

Accepts == {<<>>, <<"junk">>, <<"text/*", "application/json">>, <<"text/xml", "text/csv">>,
            <<"application/x-ndjson">>}

\* How a request is routed, whatever it holds.
Routed == {Plain(path, method, accept, type, header, <<Part("q", "url", "text")>>,
                 Body(arrives, valid, <<Part("p", "body p", "text")>>)) :
           path \in {"/sql", "/foo"}, method \in {"GET", "POST", "HEAD"},
           accept \in Accepts, header \in Headers, arrives \in BOOLEAN, valid \in BOOLEAN,
           type \in {"none", "json", "sql", "form", "multipart", "multipart without boundary",
                     "text/plain"}}

\* What a routed request holds.
Asked == {Plain("/sql", method, <<>>, type, Right, query, Body(TRUE, TRUE, parts)) :
          method \in {"GET", "POST"}, type \in {"json", "ld+json", "sql", "form"},
          query \in QueryStrings, parts \in BodyParts}
         \cup {Plain("/sql", "POST", <<>>, "multipart", Right, query, Body(TRUE, TRUE, parts)) :
               query \in QueryStrings, parts \in MultipartParts}

Upgrades == {[upgrade |-> upgrade, path |-> path, method |-> "GET", accept |-> <<>>,
             type |-> "none", authorization |-> authorization, protocol |-> protocol,
             query |-> <<>>, body |-> Body(TRUE, TRUE, <<>>)] :
            upgrade \in {"websocket", "without key"}, path \in {"/sql", "/foo"},
            authorization \in Headers, protocol \in Headers}

MCRequests == Routed \cup Asked \cup Upgrades

MCRoutes == {[kind |-> "status"], [kind |-> "dropped"],
             [kind |-> "query", method |-> "GET"], [kind |-> "query", method |-> "POST"]}
=============================================================================
