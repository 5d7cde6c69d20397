------------------------------ MODULE Service ------------------------------
(***************************************************************************)
(* What the HTTP server makes of one request, before any database is asked: *)
(* EndbService::call and sql_response in endb_server.  A request is a       *)
(* record of the headers and parts that call looks at, already parsed by    *)
(* hyper; an outcome is an immediate status, the arguments of on_query, an  *)
(* upgrade to a WebSocket, or Dropped: call returned an error and hyper     *)
(* closes the connection without a response.                                *)
(***************************************************************************)
EXTENDS Sequences, SequencesExt, TLC

CONSTANTS Username, Password,   \* command line, None when not given
          None

\* What stands for a missing credential is not one.
ASSUME CredentialsAssumption == None # <<Username, Password>>

MediaTypes == {"*/*", "application/*", "application/json", "application/ld+json",
               "application/x-ndjson", "application/vnd.apache.arrow.file",
               "text/*", "text/csv", "text/xml"}

\* A credential is the pair it encodes.  A header holds it as it is or
\* percent-encoded, or cannot be decoded ("garbled").
Header(credential, form) == [credential |-> credential, form |-> form]

\* Parts of a body: fields in their order.  A part without a name and one
\* whose text cannot be decoded are skipped, a malformed part ends the list.
Part(name, value, state) == [name |-> name, value |-> value, state |-> state]

----------------------------------------------------------------------------
BasicAuth == IF Username # None /\ Password # None THEN <<Username, Password>> ELSE None

IsUpgrade(req) == req.upgrade # "none"

\* Browsers cannot set Authorization on a WebSocket.
AuthHeader(req) == IF IsUpgrade(req) THEN req.protocol ELSE req.authorization

\* A missing header is None, and percent_decode leaves plain text alone.
Credential(req) ==
    LET header == AuthHeader(req)
    IN  IF header = None \/ header.form = "garbled" THEN None ELSE header.credential

\* Mutant: a request without credentials is let through.
MUnauthorized(req) == BasicAuth # None /\ Credential(req) \notin {None, BasicAuth}

Unauthorized(req) == BasicAuth # None /\ Credential(req) # BasicAuth

\* Only the first of the accepted types is looked at; one that cannot be
\* parsed counts as */*, like none at all.
Accepted(req) == IF req.accept = <<>> \/ Head(req.accept) \notin MediaTypes
                 THEN "*/*" ELSE Head(req.accept)

MediaType(accept) ==
    CASE accept \in {"*/*", "application/*", "application/json"} -> "application/json"
      [] accept \in {"text/*", "text/csv"} -> "text/csv"
      [] accept \in {"application/ld+json", "application/x-ndjson",
                     "application/vnd.apache.arrow.file"} -> accept
      [] OTHER -> None

----------------------------------------------------------------------------
Status(code) == [kind |-> "status", code |-> code]
Dropped == [kind |-> "dropped"]
Upgraded == [kind |-> "websocket"]

\* Mutant: HashMap::entry(..).or_insert(..), the first value stays.
MInsert(params, part) == params @@ (part.name :> part.value)

\* HashMap::insert, once per pair.
Insert(params, part) == (part.name :> part.value) @@ params

UrlParams(req) == FoldLeft(Insert, <<>>, req.query)

BodyParams(req) == FoldLeft(Insert, UrlParams(req), req.body.parts)

\* next_field ends the loop on an error, which is not told from the end.
WellFormed(parts) ==
    LET bad == {i \in DOMAIN parts : parts[i].state = "malformed"}
    IN  IF bad = {} THEN parts
        ELSE SubSeq(parts, 1, (CHOOSE i \in bad : \A j \in bad : i <= j) - 1)

MultipartParams(req) ==
    FoldLeft(Insert, UrlParams(req),
             SelectSeq(WellFormed(req.body.parts),
                       LAMBDA p : p.name # None /\ p.state = "text"))

TextParams(req) == ("q" :> req.body.text) @@ UrlParams(req)

\* sql_response
SqlResponse(req, params) ==
    LET given(name, default) == IF name \in DOMAIN params THEN params[name] ELSE default
    IN  IF "q" \notin DOMAIN params
        THEN Status("422")
        ELSE [kind |-> "query", method |-> req.method, media |-> MediaType(Accepted(req)),
              q |-> params["q"], p |-> given("p", "[]"), m |-> given("m", "false")]

\* Mutant: the body is read before its type is looked at.
MPost(req) == IF ~req.body.arrives THEN Dropped
              ELSE IF req.body.valid THEN SqlResponse(req, BodyParams(req)) ELSE Status("415")

\* A POST is read as a whole before it is looked at.
Post(req) ==
    IF req.type = "multipart without boundary" THEN Status("400")
    ELSE IF req.type \notin {"json", "ld+json", "sql", "form", "multipart"} THEN Status("415")
    ELSE IF ~req.body.arrives THEN Dropped
    ELSE CASE req.type \in {"json", "ld+json"} /\ req.body.valid ->
                SqlResponse(req, BodyParams(req))
           [] req.type = "sql" /\ req.body.valid -> SqlResponse(req, TextParams(req))
           [] req.type = "form" -> SqlResponse(req, BodyParams(req))
           [] req.type = "multipart" -> SqlResponse(req, MultipartParams(req))
           [] OTHER -> Status("422")

Dispatch(req) ==
    IF MediaType(Accepted(req)) = None THEN Status("406")
    ELSE IF req.path # "/sql" THEN Status("404")
    ELSE CASE req.method = "GET" -> SqlResponse(req, UrlParams(req))
           [] req.method = "POST" -> Post(req)
           [] OTHER -> Status("405")

Upgrade(req) ==
    IF req.path # "/sql" THEN Status("404")
    ELSE IF req.upgrade = "without key" THEN Dropped ELSE Upgraded

Call(req) ==
    IF Unauthorized(req) THEN Status("401")
    ELSE IF IsUpgrade(req) THEN Upgrade(req) ELSE Dispatch(req)

=============================================================================
