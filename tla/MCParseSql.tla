----------------------------- MODULE MCParseSql -----------------------------
(***************************************************************************)
(* ParseSqlProps and GrammarProps for TLC.  Words are c, t, x and the       *)
(* keywords: an identifier is any word, a number any digit.                 *)
(***************************************************************************)
EXTENDS ParseSqlProps, GrammarProps

Keywords ==
    {"SELECT", "FROM", "WHERE", "HAVING", "ORDER", "BY", "LIMIT", "UNION", "AS", "CAST", "NOT",
     "NULL", "CASE", "WHEN", "THEN", "END", "EXISTS", "INSERT", "INTO", "VALUES", "CREATE",
     "TABLE", "DELETE", "KEY", "ON", "CONFLICT", "DO", "NOTHING", "IN", "POSITION", "UPDATE",
     "SET", "LEFT", "JOIN", "COUNT"}

MCPatterns ==
    "identifier" :> {<<w>> : w \in {"c", "t", "x"} \cup Keywords}
    @@ "number" :> {<<"1">>, <<"1", ".">>}
    @@ "parameter" :> {<<"?">>}
    @@ "nothing" :> {<<>>}
    @@ "anything" :> {<<w>> : w \in {"c", "t", "x", "1", "(", ")", ",", "*", "<", "=", "-", "?",
                                     ";", ".", "{", "}", ":", "+"} \cup Keywords}
    @@ [name \in {"string", "blob", "time", "date", "timestamp", "quoted time", "quoted date",
                  "quoted timestamp", "duration", "time duration", "quoted interval"} |-> {}]

UpTo(n, tokens) == UNION {[1 .. k -> tokens] : k \in 0 .. n}

\* What may come after SELECT, token by token.
Short == {<<"SELECT">> \o s : s \in UpTo(2, {"c", "1", ")", ",", "AS", "CAST", "-", "<"})}

Columns ==
    {<<"c">>, <<"c", "AS", "x">>, <<"c", "x">>, <<"(", "c", ")">>, <<"t", ".", "c", "AS", "x">>, <<"*">>,
     <<"COUNT", "(", "*", ")", "AS", "x">>, <<"CASE", "WHEN", "c", "THEN", "1", "END">>,
     <<"CAST", "(", "c", "AS", "t", ")", "AS", "x">>, <<"CAST", "(", "c", ")">>,
     <<"c", "NOT", "IN", "(", ")">>, <<"c", "<", "=", "1", "AS", "x">>}

Tails ==
    {<<>>, <<"FROM", "t">>, <<"FROM", "t", "x">>, <<"FROM", "t", "LEFT", "JOIN", "t">>,
     <<"WHERE", "c">>, <<"HAVING", "c">>, <<"ORDER", "BY", "c">>, <<"LIMIT", "1">>,
     <<"UNION", "SELECT", "c">>, <<";">>, <<"FROM">>, <<"WHERE">>}

Selects == {<<"SELECT">> \o c \o t : c \in Columns, t \in Tails}

Others ==
    {<<"CREATE", "TABLE", "t", "(", "c">>, <<"CREATE", "TABLE", "t", "(", "c", ")">>,
     <<"DELETE", "FROM", "t", "WHERE", "EXISTS", "(", "c", ")">>,
     <<"UPDATE", "t", "SET", "c", "=", "1">>, <<"UPDATE", "t", "SET">>,
     <<"INSERT", "INTO", "t", "VALUES", "(", "1", ")">>,
     <<"INSERT", "INTO", "t", "{", "c", ":", "1", "}">>,
     <<"INSERT", "INTO", "t", "{", "c", ":", "1">>}

MCStatements == {<<>>} \cup Short \cup Selects \cup Others
=============================================================================
