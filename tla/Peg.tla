--------------------------------- MODULE Peg ---------------------------------
(***************************************************************************)
(* The parsers that the macro peg! generates (endb_proc_macro).  A parser   *)
(* takes a position and the parser's state and returns a result, a new      *)
(* position and the state: it appends to the list of events, truncates it   *)
(* when it gives something up, and a hidden rule changes its Open event     *)
(* once it has seen what came of its body.                                  *)
(*                                                                         *)
(* An input is a sequence of tokens: words, numbers and single punctuation  *)
(* characters.  White space and comments, which terminals skip, have no     *)
(* token of their own.  A regular expression is the set of token sequences  *)
(* it matches and takes the longest.                                       *)
(***************************************************************************)
EXTENDS Naturals, Sequences, SequencesExt, TLC

CONSTANTS Rules,        \* the body of each rule
          HiddenRules,  \* rules written <id>
          Patterns,     \* what each regular expression matches
          Spelling      \* literals that are not one token: their characters

----------------------------------------------------------------------------
(* PegParser                                                               *)

Lit(text) == [is |-> "literal", text |-> text]
Pat(name) == [is |-> "pattern", name |-> name]
Rule(id) == [is |-> "rule", id |-> id]
Sq(parsers) == [is |-> "seq", of |-> parsers]
Alt(parsers) == [is |-> "ord", of |-> parsers]
Star(parser) == [is |-> "star", of |-> parser]
Neg(parser) == [is |-> "neg", of |-> parser]
Cut(parser) == [is |-> "cut", of |-> parser]
Plus(parser) == Sq(<<parser, Star(parser)>>)
Opt(parser) == Alt(<<parser, Lit("")>>)

Tokens(text) == IF text \in DOMAIN Spelling THEN Spelling[text] ELSE <<text>>

----------------------------------------------------------------------------
(* ParseState and its events; positions count from 0                       *)

State(input, track) == [input |-> input, events |-> <<>>, errors |-> <<>>, track |-> track]

Open(id, pos) == [is |-> "open", label |-> id, pos |-> pos, hide |-> FALSE]
Close(open, hide) == [is |-> "close", open |-> open, hide |-> hide]
Token(is, text, from, to) == [is |-> is, text |-> text, from |-> from, to |-> to]
Error(descriptor, text, from, to) ==
    [is |-> "error", descriptor |-> descriptor, text |-> text, from |-> from, to |-> to]

Push(s, event) == [s EXCEPT !.events = Append(@, event)]
Track(s, event) == IF s.track THEN [s EXCEPT !.errors = Append(@, event)] ELSE s

Ok(pos, s) == [res |-> "ok", pos |-> pos, s |-> s]
Fail(s) == [res |-> "fail", pos |-> 0, s |-> s]

\* Mutant: what a failed parser has appended stays.
MUndo(r, n) == r

\* state.events.truncate(idx)
Undo(r, n) == [r EXCEPT !.s.events = SubSeq(@, 1, n)]

\* Where a match that begins at pos may end.
LiteralEnds(text, input, pos) ==
    LET to == pos + Len(Tokens(text))
    IN  IF to <= Len(input) /\ SubSeq(input, pos + 1, to) = Tokens(text) THEN {to} ELSE {}

PatternEnds(name, input, pos) ==
    {to \in pos .. Len(input) : SubSeq(input, pos + 1, to) \in Patterns[name]}

\* The longest match becomes an event unless it is empty.
Terminal(is, text, ends, pos, s) ==
    IF ends = {} THEN Fail(Track(s, Error(is, text, pos, pos)))
    ELSE LET to == CHOOSE end \in ends : \A other \in ends : other <= end
         IN  Ok(to, IF to = pos THEN s ELSE Push(s, Token(is, text, pos, to)))

\* A hidden rule disappears if its body is one rule and nothing else.
Collapses(events, open) ==
    LET last == events[Len(events)]
    IN  last.is = "close" /\ last.open = open + 1

\* Mutant: what was expected within a negation is not forgotten.
MForget(errors, n) == errors

\* state.errors.truncate(err_idx)
Forget(errors, n) == SubSeq(errors, 1, n)

RECURSIVE Run(_, _, _), RunSeq(_, _, _, _), RunOrd(_, _, _, _)

\* n is the number of events before the sequence, or the choice, began.
RunSeq(parsers, pos, s, n) ==
    IF parsers = <<>> THEN Ok(pos, s)
    ELSE LET r == Run(Head(parsers), pos, s)
         IN  IF r.res = "ok" THEN RunSeq(Tail(parsers), r.pos, r.s, n) ELSE Undo(r, n)

\* An Error, unlike a Fail, ends the choice.
RunOrd(parsers, pos, s, n) ==
    IF parsers = <<>> THEN Fail(s)
    ELSE LET r == Run(Head(parsers), pos, s)
         IN  CASE r.res = "ok" -> r
               [] r.res = "error" -> Undo(r, n)
               [] r.res = "fail" -> RunOrd(Tail(parsers), pos, Undo(r, n).s, n)

RunStar(star, pos, s) ==
    LET r == Run(star.of, pos, s)
    IN  CASE r.res = "ok" -> Run(star, r.pos, r.s)
          [] r.res = "fail" -> Ok(pos, Undo(r, Len(s.events)).s)
          [] OTHER -> Undo(r, Len(s.events))

RunNeg(parser, pos, s) ==
    LET r == Run(parser, pos, s)
        t == [Undo(r, Len(s.events)).s EXCEPT !.errors = Forget(@, Len(s.errors))]
    IN  IF r.res = "ok" THEN Fail(Track(t, Error("unexpected", "", pos, r.pos)))
        ELSE Ok(pos, t)

Committed(res) == IF res = "ok" THEN "ok" ELSE "error"

\* The function generated for a rule closes what it opened in any case.  The
\* copy of its Open event among the errors is never hidden.
RunRule(id, pos, s) ==
    LET open == Len(s.events)
        r == Run(Rules[id], pos, Track(Push(s, Open(id, pos)), Open(id, pos)))
        hide == id \in HiddenRules /\ Collapses(r.s.events, open)
        close == Close(open, hide)
        t == IF hide THEN [r.s EXCEPT !.events[open + 1].hide = TRUE] ELSE r.s
    IN  [r EXCEPT !.s = Track(Push(t, close), close)]

Run(parser, pos, s) ==
    CASE parser.is = "literal" ->
            Terminal("literal", parser.text, LiteralEnds(parser.text, s.input, pos), pos, s)
      [] parser.is = "pattern" ->
            Terminal("pattern", parser.name, PatternEnds(parser.name, s.input, pos), pos, s)
      [] parser.is = "rule" -> RunRule(parser.id, pos, s)
      [] parser.is = "seq" -> RunSeq(parser.of, pos, s, Len(s.events))
      [] parser.is = "ord" -> RunOrd(parser.of, pos, s, Len(s.events))
      [] parser.is = "star" -> RunStar(parser, pos, s)
      [] parser.is = "neg" -> RunNeg(parser.of, pos, s)
      [] parser.is = "cut" -> LET r == Run(parser.of, pos, s)
                              IN  [r EXCEPT !.res = Committed(@)]

=============================================================================
