--------------------------- MODULE ParseSqlProps ---------------------------
(***************************************************************************)
(* What the tree and the report of a SQL string must be.                    *)
(***************************************************************************)
EXTENDS ParseSql

IsLeaf(x) == "from" \in DOMAIN x

\* The tokens under a list of nodes, from left to right.
RECURSIVE Fringe(_)
Fringe(nodes) ==
    IF nodes = <<>> THEN <<>>
    ELSE LET x == Head(nodes)
         IN  (IF IsLeaf(x) THEN <<x>> ELSE Fringe(x.of)) \o Fringe(Tail(nodes))

RECURSIVE Nodes(_)
Nodes(x) == IF IsLeaf(x) THEN {}
            ELSE {x} \cup UNION {Nodes(x.of[i]) : i \in DOMAIN x.of}

Root == stack[1][1]

\* The tree that parse-sql-cst returns has one root, and its leaves are the
\* tokens of the input, all of them, once, in order and where they were:
\* nothing of an attempt the parser gave up is left among the events.
TreeCoversInput ==
    /\ Len(stack) = 1 /\ Len(stack[1]) = 1
    /\ Root.rule = "sql_stmt_list"
    /\ LET leaves == Fringe(stack[1])
           End(i) == IF i = 0 THEN 0 ELSE leaves[i].from + Len(leaves[i].text)
       IN  /\ \A i \in DOMAIN leaves :
                  /\ leaves[i].from = End(i - 1)
                  /\ leaves[i].text = SubSeq(input, End(i - 1) + 1, End(i))
           /\ End(Len(leaves)) = Len(input)

\* A hidden rule is in the tree exactly where it adds something: it has more
\* in it than one other rule, and then it keeps its operators from the node
\* around it.  The compiler of queries matches on this shape.
HiddenOnlyWithStructure ==
    \A x \in Nodes(Root) :
        /\ x.rule \in HiddenRules => Len(x.of) > 1 \/ IsLeaf(x.of[1])
        /\ x.rule = "result_column" /\ Len(x.of) > 1 /\ IsLeaf(x.of[2]) => x.of[2].text = <<"AS">>

\* What the compiler of queries is given: every token of the statement, and no
\* more structure than it has.
TreeIsWhole == phase = "done" => TreeCoversInput /\ HiddenOnlyWithStructure

\* What a report says was expected is no false trail: the input up to the
\* error, followed by any literal that is named, is accepted or gets further.
HintsAreTruthful ==
    phase = "refused" =>
        \A e \in {[from |-> e.from, text |-> e.text] : e \in {e \in UNION
                      {g.errors : g \in report} : e.descriptor = "literal"}} :
            LET hinted == SubSeq(input, 1, e.from) \o Tokens(e.text)
                r == SqlStmtList(hinted, TRUE)
            IN  r.res = "ok" \/ EventsToErrors(r.s.errors).errors[1].from >= Len(hinted)

\* An alias may be left out: if the string is accepted with AS and an alias
\* after a column, it is accepted without them.
AliasMayBeLeftOut ==
    phase = "done" =>
        \A x \in Nodes(Root) : x.rule = "result_column" /\ Len(x.of) = 3 =>
            LET as == x.of[2].from
            IN  Accepts(SubSeq(input, 1, as) \o SubSeq(input, as + 3, Len(input)))
=============================================================================
