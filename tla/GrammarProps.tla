---------------------------- MODULE GrammarProps ----------------------------
(***************************************************************************)
(* What must hold of every rule of a grammar for the generated parser to    *)
(* end and to be able to take each alternative.  They are about the rules    *)
(* alone; a behaviour evaluates them before it starts to parse.             *)
(***************************************************************************)
EXTENDS ParseSql, FiniteSets

----------------------------------------------------------------------------
\* An expression and everything in it.
RECURSIVE Parts(_)
Parts(e) ==
    <<e>> \o CASE e.is \in {"seq", "ord"} -> FlattenSeq([i \in DOMAIN e.of |-> Parts(e.of[i])])
               [] e.is \in {"star", "neg", "cut"} -> Parts(e.of)
               [] OTHER -> <<>>

PartsOf == [id \in DOMAIN Rules |-> Parts(Rules[id])]

\* Whether e may succeed without consuming anything, given the rules that may.
RECURSIVE Empty(_, _)
Empty(e, rules) ==
    CASE e.is = "literal" -> Tokens(e.text) = <<>>
      [] e.is = "pattern" -> <<>> \in Patterns[e.name]
      [] e.is = "rule" -> e.id \in rules
      [] e.is = "seq" -> \A i \in DOMAIN e.of : Empty(e.of[i], rules)
      [] e.is = "ord" -> \E i \in DOMAIN e.of : Empty(e.of[i], rules)
      [] e.is \in {"star", "neg"} -> TRUE
      [] e.is = "cut" -> Empty(e.of, rules)

RECURSIVE EmptyFrom(_)
EmptyFrom(rules) ==
    LET more == {id \in DOMAIN Rules : Empty(Rules[id], rules)}
    IN  IF more = rules THEN rules ELSE EmptyFrom(more)

EmptyRules == EmptyFrom({})

\* The rules e may call before it has consumed anything.
RECURSIVE First(_)
First(e) ==
    CASE e.is = "rule" -> {e.id}
      [] e.is = "seq" -> UNION {First(e.of[i]) : i \in {i \in DOMAIN e.of :
                                    \A j \in 1 .. i - 1 : Empty(e.of[j], EmptyRules)}}
      [] e.is = "ord" -> UNION {First(e.of[i]) : i \in DOMAIN e.of}
      [] e.is \in {"star", "neg", "cut"} -> First(e.of)
      [] OTHER -> {}

FirstOf == [id \in DOMAIN Rules |-> First(Rules[id])]

RECURSIVE Reached(_)
Reached(ids) ==
    LET more == ids \cup UNION {FirstOf[id] : id \in ids}
    IN  IF more = ids THEN ids ELSE Reached(more)

\* The tokens every match of e begins with, and whether e is no more than them.
RECURSIVE Fixed(_)
Fixed(e) == \/ e.is = "literal"
            \/ e.is = "seq" /\ \A i \in DOMAIN e.of : Fixed(e.of[i])
            \/ e.is = "cut" /\ Fixed(e.of)

RECURSIVE Lead(_)
Lead(e) ==
    CASE e.is = "literal" -> Tokens(e.text)
      [] e.is = "cut" -> Lead(e.of)
      [] e.is = "seq" /\ e.of # <<>> ->
            Lead(Head(e.of)) \o (IF Fixed(Head(e.of)) THEN Lead(Sq(Tail(e.of))) ELSE <<>>)
      [] OTHER -> <<>>

----------------------------------------------------------------------------
AcyclicAtTheLeft == \A id \in DOMAIN Rules : id \notin Reached(FirstOf[id])

ConsumingLoops ==
    \A id \in DOMAIN Rules : \A k \in DOMAIN PartsOf[id] :
        LET e == PartsOf[id][k]
        IN  e.is = "star" => ~Empty(e.of, EmptyRules)

\* The generated functions end: no rule calls itself before it has consumed a
\* token, until the stack overflows, and nothing that is repeated may succeed
\* without consuming one, where the loop generated for * would go on for ever.
RulesEnd == phase = "new" => AcyclicAtTheLeft /\ ConsumingLoops

OpenAlternatives ==
    \A id \in DOMAIN Rules : \A k \in DOMAIN PartsOf[id] :
        LET e == PartsOf[id][k]
        IN  e.is = "ord" => \A j \in DOMAIN e.of : \A i \in 1 .. j - 1 :
                /\ ~Empty(e.of[i], EmptyRules)
                /\ Fixed(e.of[i]) => ~IsPrefix(Lead(e.of[i]), Lead(e.of[j]))

\* No alternative comes after one that takes whatever it could begin with, as
\* "<" before "<=" would: it would never be tried, or only to fail later.
NoAlternativeIsShadowed == phase = "new" => OpenAlternatives

=============================================================================
