------------------------------ MODULE ParseSql ------------------------------
(***************************************************************************)
(* Parsing a SQL string from Lisp: endb/lib/cst:parse-sql-cst calls         *)
(* endb_parse_sql_cst, which runs the generated parser and either replays   *)
(* its events backwards through callbacks that build the tree as a list, or *)
(* runs it again with errors tracked and hands over a report.               *)
(*                                                                         *)
(* Punctuation characters that follow each other in an input are written    *)
(* without space between them.  The report is kept as its groups of errors: *)
(* the order in which they are printed and their wording are left out.      *)
(***************************************************************************)
EXTENDS SqlGrammar, FiniteSets

CONSTANT Inputs  \* the SQL strings that are parsed

VARIABLES input,   \* the string, as tokens
          phase,   \* "new", "replay", "done" or "refused"
          todo,    \* the events still to be replayed
          stack,   \* *parse-result*: the lists under construction
          report   \* the groups of a refused string's errors

vars == <<input, phase, todo, stack, report>>

----------------------------------------------------------------------------
(* endb_cst: errors and their report                                       *)

\* Only the errors furthest into the input are kept.
Furthest(errors, e) ==
    IF errors = <<>> \/ e.from > errors[1].from THEN <<e>>
    ELSE IF e.from = errors[1].from THEN Append(errors, e) ELSE errors

\* events_to_errors.  A Close that is hidden leaves the context as it is, but
\* the Open it belongs to is never hidden.
Note(acc, e) ==
    CASE e.is = "open" /\ ~e.hide -> [acc EXCEPT !.context = Append(@, <<e.label, e.pos>>)]
      [] e.is = "close" /\ ~e.hide ->
            IF acc.context = <<>> THEN [acc EXCEPT !.panicked = TRUE]
            ELSE [acc EXCEPT !.context = Front(@)]
      [] e.is = "error" ->
            [acc EXCEPT !.errors = Furthest(@, [descriptor |-> e.descriptor,
                text |-> e.text, from |-> e.from, context |-> acc.context])]
      [] OTHER -> acc

\* All of a list of events; by halves, as the list may be long.
RECURSIVE NoteAll(_, _)
NoteAll(acc, events) ==
    CASE Len(events) = 0 -> acc
      [] Len(events) = 1 -> Note(acc, events[1])
      [] OTHER -> LET half == Len(events) \div 2
                      first == NoteAll(acc, SubSeq(events, 1, half))
                  IN  IF first.panicked THEN first
                      ELSE NoteAll(first, SubSeq(events, half + 1, Len(events)))

EventsToErrors(events) ==
    NoteAll([context |-> <<>>, errors |-> <<>>, panicked |-> FALSE], events)

Labels(context) == [i \in DOMAIN context |-> context[i][1]]

\* What a pattern should have matched is the rule it is in.
KeyOf(e) == IF e.descriptor = "pattern" THEN Front(Labels(e.context)) ELSE Labels(e.context)

\* parse_errors_to_string: errors are grouped by context; one that is alone in
\* its context joins those of the context around it, if there are any.
Groups(errors) ==
    LET keys == {KeyOf(errors[i]) : i \in DOMAIN errors}
        Of(key) == {i \in DOMAIN errors : KeyOf(errors[i]) = key}
        Alone(key) == Cardinality(Of(key)) = 1
        Target(key) == Cardinality({k \in keys : Alone(k) /\ Front(k) = key})
                       + (IF key \in keys /\ ~Alone(key) THEN Cardinality(Of(key)) ELSE 0)
        To(key) == IF Alone(key) /\ Target(Front(key)) > 1 THEN Front(key) ELSE key
    IN  {[key |-> to, errors |-> {errors[i] : i \in UNION {Of(k) : k \in
              {k \in keys : To(k) = to}}}] : to \in {To(k) : k \in keys}}

\* What a group says was expected.
Expected(group) ==
    {IF e.descriptor = "literal" THEN e.text ELSE Last(Labels(e.context)) :
        e \in {e \in group.errors : e.descriptor \in {"literal", "pattern"}}}

----------------------------------------------------------------------------
(* endb_parse_sql_cst                                                      *)

SqlStmtList(tokens, track) == Run(Rule("sql_stmt_list"), 0, State(tokens, track))

Accepts(tokens) == SqlStmtList(tokens, FALSE).res = "ok"

Errors(tokens) == EventsToErrors(SqlStmtList(tokens, TRUE).s.errors).errors

Hidden(event) ==
    \/ event.is \in {"open", "close"} /\ event.hide
    \/ event.is = "error"

Init == /\ input \in Inputs
        /\ phase = "new"
        /\ todo = <<>> /\ stack = <<>> /\ report = {}

\* An empty string never gets to the parser.
RefuseEmpty ==
    /\ phase = "new" /\ input = <<>>
    /\ phase' = "refused"
    /\ UNCHANGED <<input, todo, stack, report>>

Parse ==
    /\ phase = "new" /\ input # <<>>
    /\ LET r == SqlStmtList(input, FALSE) IN
       \/ /\ r.res = "ok"
          /\ phase' = "replay"
          /\ todo' = SelectSeq(Reverse(r.s.events), LAMBDA e : ~Hidden(e))
          /\ stack' = <<<<>>>>
          /\ UNCHANGED report
       \/ /\ r.res # "ok"
          /\ phase' = "refused"
          /\ report' = Groups(Errors(input))
          /\ UNCHANGED <<todo, stack>>
    /\ UNCHANGED input

----------------------------------------------------------------------------
(* The callbacks of endb/lib/cst, which push onto the first list            *)

PushFirst(lists, x) == <<(<<x>> \o Head(lists))>> \o Tail(lists)

\* on_open comes last: what was built since the rule's on_close is its node.
OnOpen(event) ==
    stack' = PushFirst(Tail(stack), [rule |-> event.label, of |-> Head(stack)])

OnClose == stack' = <<<<>>>> \o stack

\* A keyword is the grammar's own, however it was written; the text that a
\* pattern matched is taken from the input.
Leaf(event) ==
    [text |-> IF event.is = "literal" THEN Tokens(event.text)
              ELSE SubSeq(input, event.from + 1, event.to),
     from |-> event.from]

OnToken(event) == stack' = PushFirst(stack, Leaf(event))

Replay ==
    /\ phase = "replay" /\ todo # <<>>
    /\ LET event == Head(todo) IN
       \/ event.is = "open" /\ OnOpen(event)
       \/ event.is = "close" /\ OnClose
       \/ event.is \in {"literal", "pattern"} /\ OnToken(event)
    /\ todo' = Tail(todo)
    /\ UNCHANGED <<input, phase, report>>

Return ==
    /\ phase = "replay" /\ todo = <<>>
    /\ phase' = "done"
    /\ UNCHANGED <<input, todo, stack, report>>

Next == RefuseEmpty \/ Parse \/ Replay \/ Return

Spec == Init /\ [][Next]_vars
=============================================================================
