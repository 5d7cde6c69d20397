----------------------------- MODULE SqlGrammar -----------------------------
(***************************************************************************)
(* The grammar of endb's SQL (endb_cst/src/sql.rs) as data for Peg.         *)
(***************************************************************************)
EXTENDS Peg

Characters ==
    "" :> <<>> @@ "..." :> <<".", ".", ".">> @@ ".." :> <<".", ".">> @@ "||" :> <<"|", "|">>
    @@ "<<" :> <<"<", "<">> @@ ">>" :> <<">", ">">> @@ "<=" :> <<"<", "=">>
    @@ ">=" :> <<">", "=">> @@ "==" :> <<"=", "=">> @@ "!=" :> <<"!", "=">>
    @@ "<>" :> <<"<", ">">> @@ "@>" :> <<"@", ">">>

OneOf(texts) == Alt([i \in DOMAIN texts |-> Lit(texts[i])])
AnyOf(ids) == Alt([i \in DOMAIN ids |-> Rule(ids[i])])
Words(texts) == Sq([i \in DOMAIN texts |-> Lit(texts[i])])
May(text) == Opt(Lit(text))

\* Mutant: a list may end in what is not there.
MListed(item) == Sq(<<item, Star(Opt(Sq(<<Lit(","), item>>)))>>)

Listed(item) == Sq(<<item, Star(Sq(<<Lit(","), item>>))>>)

SqlHiddenRules ==
    {"literal", "atom", "property_access", "access_expr", "unary_expr",
     "concat_expr", "mul_expr", "add_expr", "bit_expr", "rel_expr",
     "equal_expr", "not_expr", "and_expr", "or_expr", "expr", "sql_stmt"}

\* Mutant: shorter operators first.
MRelationalOperators == <<"<", "<=", ">", ">=">>

RelationalOperators == <<"<=", "<", ">=", ">">>

Atoms == <<"literal", "bind_parameter", "scalar_subquery", "paren_expr", "extract_expr",
          "cast_expr", "position_expr", "array_expr", "object_expr", "path_expr", "case_expr",
          "exists_expr", "aggregate_function_invocation", "simple_function_invocation",
          "substring_expr", "column_reference">>

\* Mutant: a keyword is missing.
MInvalidColumnAliases == <<"FROM", "WHERE", "GROUP", "ORDER", "LIMIT", "UNION", "INTERSECT",
     "EXCEPT">>

InvalidColumnAliases == <<"FROM", "WHERE", "GROUP", "HAVING", "ORDER", "LIMIT", "UNION",
     "INTERSECT", "EXCEPT">>

InvalidTableAliases == <<"LEFT", "INNER", "CROSS", "JOIN", "WHERE", "GROUP", "HAVING", "ORDER",
     "LIMIT", "ON", "USING", "UNION", "INTERSECT", "EXCEPT">>

\* Literals; a regular expression has the name of what it matches.
Literals ==
    [ident |-> Pat("identifier"),
     numeric_literal |-> Pat("number"),
     string_literal |-> Pat("string"),
     blob_literal |-> Pat("blob"),
     iso_time_literal |-> Pat("time"),
     iso_date_literal |-> Pat("date"),
     iso_timestamp_literal |-> Pat("timestamp"),
     time_literal |-> Sq(<<Lit("TIME"), Pat("quoted time")>>),
     date_literal |-> Sq(<<Lit("DATE"), Pat("quoted date")>>),
     timestamp_literal |-> Sq(<<Lit("TIMESTAMP"), Pat("quoted timestamp")>>),
     iso_duration_literal |-> Alt(<<Pat("duration"), Pat("time duration")>>),
     datetime_field |-> OneOf(<<"YEAR", "MONTH", "DAY", "HOUR", "MINUTE", "SECOND">>),
     interval_literal |-> Sq(<<Lit("INTERVAL"), Pat("quoted interval"), Rule("datetime_field"),
         Opt(Sq(<<Lit("TO"), Rule("datetime_field")>>))>>),
     literal |-> Alt(<<Rule("iso_timestamp_literal"), Rule("iso_date_literal"),
         Rule("iso_time_literal"), Rule("iso_duration_literal"), Rule("timestamp_literal"),
         Rule("date_literal"), Rule("time_literal"), Rule("interval_literal"),
         Rule("numeric_literal"), Rule("string_literal"), Rule("blob_literal"), Lit("NULL"),
         Lit("TRUE"), Lit("FALSE"), Lit("CURRENT_TIME"), Lit("CURRENT_DATE"),
         Lit("CURRENT_TIMESTAMP")>>),
     bind_parameter |-> Pat("parameter")]

\* Expressions, from the operands up to the operator that binds least.
Expressions ==
    [simple_func |-> Rule("ident"),
     signed_number |-> Sq(<<Opt(OneOf(<<"+", "-">>)), Rule("numeric_literal")>>),
     type_name |-> Sq(<<Plus(Sq(<<Neg(Rule("column_constraint")), Rule("ident")>>)),
         Opt(Sq(<<Lit("("), Rule("signed_number"), Opt(Sq(<<Lit(","), Rule("signed_number")>>)),
         Lit(")")>>))>>),
     column_name |-> Rule("ident"),
     expr_list |-> Listed(Rule("expr")),
     column_name_list |-> Sq(<<Lit("("), Listed(Rule("column_name")), Lit(")")>>),
     all_distinct |-> OneOf(<<"ALL", "DISTINCT">>),
     subquery |-> Sq(<<Lit("("), Rule("select_stmt"), Lit(")")>>),
     scalar_subquery |-> Rule("subquery"),
     paren_expr |-> Sq(<<Lit("("), Rule("expr"), Lit(")")>>),
     extract_expr |-> Sq(<<Lit("EXTRACT"), Cut(Sq(<<Lit("("), Rule("datetime_field"), Lit("FROM"),
         Rule("expr"), Lit(")")>>))>>),
     cast_expr |-> Sq(<<Lit("CAST"), Cut(Sq(<<Lit("("), Rule("expr"), Lit("AS"), Rule("type_name"),
         Lit(")")>>))>>),
     position_expr |-> Sq(<<Lit("POSITION"), Cut(Sq(<<Lit("("), Rule("concat_expr"), Lit("IN"),
         Rule("expr"), Lit(")")>>))>>),
     substring_expr |-> Sq(<<Lit("SUBSTRING"), Cut(Sq(<<Lit("("), Rule("expr"),
         Opt(Sq(<<Lit("FROM"), Rule("expr")>>)), Opt(Sq(<<Lit("FOR"), Rule("expr")>>)),
         Lit(")")>>))>>),
     filter_clause |-> Sq(<<Lit("FILTER"), Cut(Sq(<<Lit("("), Lit("WHERE"), Rule("expr"),
         Lit(")")>>))>>),
     aggregate_func |-> OneOf(<<"ARRAY_AGG", "AVG", "COUNT", "GROUP_CONCAT", "MIN", "MAX",
         "OBJECT_AGG", "SUM", "TOTAL">>),
     aggregate_function_invocation |-> Sq(<<Rule("aggregate_func"), Lit("("),
         Opt(Rule("all_distinct")), Alt(<<Rule("star"), Sq(<<Rule("expr_list"),
         Opt(Rule("order_by_clause"))>>)>>), Lit(")"), Opt(Rule("filter_clause"))>>),
     simple_function_invocation |-> Sq(<<Rule("simple_func"), Lit("("), Opt(Rule("expr_list")),
         Lit(")")>>),
     exists_expr |-> Sq(<<Lit("EXISTS"), Cut(Rule("subquery"))>>),
     case_when_then_expr |-> Sq(<<Lit("WHEN"), Rule("expr"), Lit("THEN"), Rule("expr")>>),
     case_else_expr |-> Sq(<<Lit("ELSE"), Rule("expr")>>),
     case_operand |-> Sq(<<Neg(Lit("WHEN")), Rule("expr")>>),
     case_expr |-> Sq(<<Lit("CASE"), Cut(Sq(<<Opt(Rule("case_operand")),
         Plus(Rule("case_when_then_expr")), Opt(Rule("case_else_expr")), Lit("END")>>))>>),
     column_reference |-> Sq(<<Opt(Sq(<<Rule("table_name"), Lit("."), Neg(Lit("."))>>)),
         Rule("column_name")>>),
     spread_expr |-> Sq(<<OneOf(<<"...", "..">>), Rule("expr")>>),
     array_element |-> AnyOf(<<"spread_expr", "expr">>),
     array_expr |-> Alt(<<Sq(<<Lit("ARRAY"), Rule("subquery")>>), Sq(<<May("ARRAY"),
         Alt(<<Words(<<"[", "]">>), Sq(<<Lit("["), Listed(Rule("array_element")), May(","),
         Lit("]")>>)>>)>>)>>),
     computed_property |-> Sq(<<Lit("["), Rule("expr"), Lit("]")>>),
     shorthand_property |-> AnyOf(<<"column_reference", "bind_parameter">>),
     object_key |-> AnyOf(<<"ident", "string_literal", "computed_property">>),
     object_key_value_pair |-> Alt(<<Sq(<<Rule("object_key"), OneOf(<<":", "=">>), Rule("expr")>>),
         Rule("spread_expr"), Rule("qualified_star"), Rule("shorthand_property")>>),
     object_key_value_list |-> Sq(<<Listed(Rule("object_key_value_pair")), May(",")>>),
     object_expr |-> Alt(<<Sq(<<Lit("OBJECT"), Lit("("), Opt(Rule("object_key_value_list")),
         Lit(")")>>), Sq(<<Lit("{"), Opt(Rule("object_key_value_list")), Lit("}")>>)>>),
     path_object_label |-> Sq(<<Lit("."), Rule("ident")>>),
     path_array_length |-> Lit("#"),
     path_array_index |-> Alt(<<Sq(<<Opt(Sq(<<Rule("path_array_length"), Lit("-")>>)),
         Rule("numeric_literal")>>), Rule("path_array_length")>>),
     path_array_access |-> Sq(<<Lit("["), Rule("path_array_index"), Lit("]")>>),
     path_element |-> AnyOf(<<"path_object_label", "path_array_access">>),
     path_expr |-> Sq(<<Lit("$"), Star(Rule("path_element"))>>),
     atom |-> AnyOf(Atoms),
     paren_expr_list |-> Sq(<<Lit("("), Rule("expr_list"), Lit(")")>>),
     empty_list |-> Words(<<"(", ")">>),
     distinct_from |-> Words(<<"DISTINCT", "FROM">>),
     quantified_operator |-> OneOf(<<"ALL", "ANY", "SOME">>),
     property_field_access |-> Sq(<<Lit("."), Rule("ident")>>),
     property_recursive_field_access |-> Sq(<<Lit(".."), Rule("ident")>>),
     property_bracket_access |-> Sq(<<Lit("["), Rule("expr"), Lit("]")>>),
     property_bracket_wildcard_access |-> Sq(<<Lit("["), Rule("star"), Lit("]")>>),
     property_recursive_bracket_access |-> Sq(<<Lit(".."), AnyOf(<<"property_bracket_access",
         "property_bracket_wildcard_access">>)>>),
     property_access |-> AnyOf(<<"property_field_access", "property_recursive_field_access",
         "property_bracket_access", "property_bracket_wildcard_access",
         "property_recursive_bracket_access">>),
     access_expr |-> Sq(<<Rule("atom"), Star(Rule("property_access"))>>),
     unary_expr |-> Sq(<<Star(OneOf(<<"+", "-", "~">>)), Rule("access_expr")>>),
     concat_expr |-> Sq(<<Rule("unary_expr"), Star(Sq(<<Lit("||"), Rule("unary_expr")>>))>>),
     mul_expr |-> Sq(<<Rule("concat_expr"), Star(Sq(<<OneOf(<<"*", "/", "%">>),
         Rule("concat_expr")>>))>>),
     add_expr |-> Sq(<<Rule("mul_expr"), Star(Sq(<<OneOf(<<"+", "-">>), Rule("mul_expr")>>))>>),
     bit_expr |-> Sq(<<Rule("add_expr"), Star(Sq(<<OneOf(<<"<<", ">>", "&", "|">>),
         Rule("add_expr")>>))>>),
     rel_expr |-> Sq(<<Rule("bit_expr"), Star(Sq(<<OneOf(RelationalOperators),
         Alt(<<Sq(<<Rule("quantified_operator"), Rule("subquery")>>), Rule("bit_expr")>>)>>))>>),
     equal_expr |-> Sq(<<Rule("rel_expr"), Star(Alt(<<Sq(<<OneOf(<<"==", "=", "!=", "<>">>),
         Alt(<<Sq(<<Rule("quantified_operator"), Rule("subquery")>>), Rule("rel_expr")>>)>>),
         Sq(<<Alt(<<Lit("OVERLAPS"), Lit("EQUALS"), Lit("CONTAINS"), Sq(<<May("IMMEDIATELY"),
         Lit("PRECEDES")>>), Sq(<<May("IMMEDIATELY"), Lit("SUCCEEDS")>>)>>), Rule("rel_expr")>>),
         Sq(<<May("NOT"), Alt(<<Sq(<<Lit("LIKE"), Cut(Sq(<<Rule("rel_expr"),
         Opt(Sq(<<Lit("ESCAPE"), Rule("rel_expr")>>))>>))>>), Sq(<<OneOf(<<"GLOB", "REGEXP",
         "MATCH", "@>">>), Cut(Rule("rel_expr"))>>)>>)>>), Sq(<<Lit("IS"), Cut(Sq(<<May("NOT"),
         Opt(Rule("distinct_from")), Alt(<<Lit("UNKNOWN"), Rule("rel_expr")>>)>>))>>),
         Words(<<"NOT", "NULL">>), Sq(<<May("NOT"), Lit("BETWEEN"), Cut(Sq(<<Rule("rel_expr"),
         Lit("AND"), Rule("rel_expr")>>))>>), Sq(<<May("NOT"), Lit("IN"), Cut(AnyOf(<<"subquery",
         "paren_expr_list", "empty_list", "table_name">>))>>)>>))>>),
     not_expr |-> Sq(<<Star(Lit("NOT")), Rule("equal_expr")>>),
     and_expr |-> Sq(<<Rule("not_expr"), Star(Sq(<<Lit("AND"), Rule("not_expr")>>))>>),
     or_expr |-> Sq(<<Rule("and_expr"), Star(Sq(<<Lit("OR"), Rule("and_expr")>>))>>),
     expr |-> Rule("or_expr")]

\* Queries and the clauses of statements.
Queries ==
    [column_alias |-> Rule("ident"),
     table_name |-> Alt(<<Sq(<<Lit("INFORMATION_SCHEMA"), Lit("."), Rule("ident")>>),
         Rule("ident")>>),
     qualified_star |-> Sq(<<Rule("table_name"), Lit("."), Rule("star")>>),
     star |-> Lit("*"),
     invalid_column_alias |-> OneOf(InvalidColumnAliases),
     result_column |-> Alt(<<Sq(<<Rule("expr"), Opt(Alt(<<Sq(<<Lit("AS"),
         Cut(Rule("column_alias"))>>), Sq(<<Neg(Rule("invalid_column_alias")),
         Rule("column_alias")>>)>>))>>), Rule("qualified_star"), Rule("star")>>),
     table_alias |-> Sq(<<Rule("ident"), Opt(Rule("column_name_list"))>>),
     join_constraint |-> Alt(<<Sq(<<Lit("ON"), Rule("expr")>>), Sq(<<Lit("USING"),
         Rule("column_name_list")>>)>>),
     join_operator |-> Alt(<<Lit(","), Sq(<<Opt(Alt(<<Sq(<<Lit("LEFT"), May("OUTER")>>),
         Lit("INNER"), Lit("CROSS")>>)), Lit("JOIN")>>)>>),
     join_clause |-> Sq(<<Rule("table_or_subquery"), Star(Sq(<<Rule("join_operator"),
         Rule("table_or_subquery"), Opt(Rule("join_constraint"))>>))>>),
     system_time_clause |-> Sq(<<Lit("FOR"), Cut(Sq(<<Lit("SYSTEM_TIME"), Alt(<<Lit("ALL"),
         Sq(<<Lit("AS"), Lit("OF"), Rule("atom")>>), Sq(<<Lit("FROM"), Rule("atom"), Lit("TO"),
         Rule("atom")>>), Sq(<<Lit("BETWEEN"), Rule("atom"), Lit("AND"), Rule("atom")>>)>>)>>))>>),
     invalid_table_alias |-> OneOf(InvalidTableAliases),
     with_ordinality |-> Words(<<"WITH", "ORDINALITY">>),
     table_function |-> Sq(<<Rule("simple_function_invocation"), Opt(Rule("with_ordinality"))>>),
     not_indexed |-> Words(<<"NOT", "INDEXED">>),
     table_or_subquery |-> Alt(<<Sq(<<May("LATERAL"), Rule("table_function"), May("AS"),
         Rule("table_alias")>>), Sq(<<May("LATERAL"), Rule("subquery"), May("AS"),
         Rule("table_alias")>>), Sq(<<Rule("table_name"), Opt(Rule("not_indexed")),
         Opt(Rule("system_time_clause")), Opt(Alt(<<Sq(<<Lit("AS"), Cut(Rule("table_alias"))>>),
         Sq(<<Neg(Rule("invalid_table_alias")), Rule("table_alias")>>)>>))>>), Sq(<<Lit("("),
         Rule("join_clause"), Lit(")")>>)>>),
     from_clause |-> Sq(<<Lit("FROM"), Rule("join_clause")>>),
     where_clause |-> Sq(<<Lit("WHERE"), Rule("expr")>>),
     group_by_clause |-> Sq(<<Lit("GROUP"), Lit("BY"), Rule("expr_list")>>),
     having_clause |-> Sq(<<Lit("HAVING"), Rule("expr")>>),
     values_stmt |-> Sq(<<Lit("VALUES"), Listed(Rule("paren_expr_list"))>>),
     objects_stmt |-> Sq(<<May("OBJECTS"), Listed(Rule("object_expr"))>>),
     result_expr_list |-> Listed(Rule("result_column")),
     select_core |-> Alt(<<Sq(<<Lit("SELECT"), Opt(Rule("all_distinct")), Rule("result_expr_list"),
         Opt(Rule("from_clause")), Opt(Rule("where_clause")), Opt(Rule("group_by_clause")),
         Opt(Rule("having_clause"))>>), Rule("values_stmt"), Rule("objects_stmt")>>),
     compound_operator |-> Alt(<<Sq(<<Lit("UNION"), May("ALL")>>), Lit("INTERSECT"),
         Lit("EXCEPT")>>),
     common_table_expression |-> Sq(<<Rule("table_name"), Opt(Rule("column_name_list")), Lit("AS"),
         Rule("subquery")>>),
     with_clause |-> Sq(<<Lit("WITH"), May("RECURSIVE"), Listed(Rule("common_table_expression"))>>),
     ordering_term |-> Sq(<<Rule("expr"), Opt(OneOf(<<"ASC", "DESC">>))>>),
     order_by_clause |-> Sq(<<Lit("ORDER"), Lit("BY"), Listed(Rule("ordering_term"))>>),
     limit_offset_clause |-> Sq(<<Lit("LIMIT"), Rule("expr"), Opt(Sq(<<OneOf(<<",", "OFFSET">>),
         Rule("expr")>>))>>),
     select_stmt |-> Sq(<<Opt(Rule("with_clause")), Rule("select_core"),
         Star(Sq(<<Rule("compound_operator"), Rule("select_core")>>)),
         Opt(Rule("order_by_clause")), Opt(Rule("limit_offset_clause"))>>),
     update_set_assignment |-> Sq(<<AnyOf(<<"column_name", "path_expr">>), Lit("="),
         Rule("expr")>>),
     update_set_clause |-> Sq(<<Lit("SET"), Listed(Rule("update_set_assignment"))>>),
     update_remove_clause |-> Sq(<<OneOf(<<"UNSET", "REMOVE">>), Listed(AnyOf(<<"column_name",
         "path_expr">>))>>),
     update_patch_clause |-> Sq(<<May("PATCH"), Rule("object_expr")>>),
     update_where_clause |-> Sq(<<Lit("WHERE"), Rule("expr")>>),
     update_clause |-> Sq(<<Opt(Rule("update_set_clause")), Opt(Rule("update_remove_clause")),
         Opt(Rule("update_patch_clause")), Opt(Rule("update_where_clause"))>>),
     upsert_clause |-> Sq(<<Lit("ON"), Lit("CONFLICT"), Rule("column_name_list"), Lit("DO"),
         Alt(<<Lit("NOTHING"), Sq(<<Lit("UPDATE"), Rule("update_clause")>>)>>)>>)]

\* Statements.
Statements ==
    [or_replace |-> Words(<<"OR", "REPLACE">>),
     insert_stmt |-> Sq(<<Lit("INSERT"), Opt(Rule("or_replace")), Lit("INTO"), Rule("table_name"),
         Opt(Rule("column_name_list")), Rule("select_stmt"), Opt(Rule("upsert_clause"))>>),
     delete_stmt |-> Sq(<<Lit("DELETE"), Lit("FROM"), Rule("table_name"), Opt(Sq(<<Lit("WHERE"),
         Rule("expr")>>))>>),
     erase_stmt |-> Sq(<<Lit("ERASE"), Lit("FROM"), Rule("table_name"), Opt(Sq(<<Lit("WHERE"),
         Rule("expr")>>))>>),
     update_stmt |-> Sq(<<Lit("UPDATE"), Rule("table_name"), Rule("update_clause")>>),
     index_name |-> Rule("ident"),
     indexed_column |-> Sq(<<Rule("column_name"), Opt(OneOf(<<"ASC", "DESC">>))>>),
     create_index_stmt |-> Sq(<<Lit("CREATE"), May("UNIQUE"), Lit("INDEX"), Rule("index_name"),
         Lit("ON"), Rule("table_name"), Lit("("), Listed(Rule("indexed_column")), Lit(")")>>),
     view_name |-> Rule("ident"),
     create_view_stmt |-> Sq(<<Lit("CREATE"), Opt(OneOf(<<"TEMPORARY", "TEMP">>)), Lit("VIEW"),
         Rule("view_name"), Opt(Rule("column_name_list")), Lit("AS"), Rule("select_stmt")>>),
     column_constraint |-> Alt(<<Words(<<"PRIMARY", "KEY">>), Lit("UNIQUE")>>),
     column_def |-> Sq(<<Rule("column_name"), Neg(Lit("KEY")), Rule("type_name"),
         Opt(Rule("column_constraint"))>>),
     foreign_key_clause |-> Sq(<<Lit("REFERENCES"), Rule("table_name"), Rule("column_name_list")>>),
     table_constraint |-> Alt(<<Sq(<<Lit("PRIMARY"), Lit("KEY"), Rule("column_name_list")>>),
         Sq(<<Lit("FOREIGN"), Lit("KEY"), Rule("column_name_list"),
         Rule("foreign_key_clause")>>)>>),
     create_table_stmt |-> Sq(<<Lit("CREATE"), Lit("TABLE"), Rule("table_name"), Lit("("),
         Listed(Rule("column_def")), Star(Sq(<<Lit(","), Rule("table_constraint")>>)), Lit(")")>>),
     assertion_name |-> Rule("ident"),
     create_assertion_stmt |-> Sq(<<Lit("CREATE"), Lit("ASSERTION"), Rule("assertion_name"),
         Lit("CHECK"), Lit("("), Rule("expr"), Lit(")")>>),
     if_exists |-> Words(<<"IF", "EXISTS">>),
     drop_assertion_stmt |-> Sq(<<Lit("DROP"), Lit("ASSERTION"), Opt(Rule("if_exists")),
         Rule("assertion_name")>>),
     drop_index_stmt |-> Sq(<<Lit("DROP"), Lit("INDEX"), Opt(Rule("if_exists")),
         Rule("index_name")>>),
     drop_table_stmt |-> Sq(<<Lit("DROP"), Lit("TABLE"), Opt(Rule("if_exists")),
         Rule("table_name")>>),
     drop_view_stmt |-> Sq(<<Lit("DROP"), Lit("VIEW"), Opt(Rule("if_exists")), Rule("view_name")>>),
     begin_stmt |-> Sq(<<Lit("BEGIN"), May("TRANSACTION")>>),
     commit_stmt |-> Sq(<<OneOf(<<"COMMIT", "END">>), May("TRANSACTION")>>),
     rollback_stmt |-> Sq(<<Lit("ROLLBACK"), May("TRANSACTION"), Opt(Sq(<<Lit("TO"),
         May("SAVEPOINT"), Rule("savepoint_name")>>))>>),
     savepoint_name |-> AnyOf(<<"ident", "string_literal", "bind_parameter">>),
     savepoint_stmt |-> Sq(<<Lit("SAVEPOINT"), Opt(Rule("savepoint_name"))>>),
     release_stmt |-> Sq(<<Lit("RELEASE"), May("SAVEPOINT"), Rule("savepoint_name")>>),
     sql_stmt |-> AnyOf(<<"select_stmt", "insert_stmt", "delete_stmt", "erase_stmt", "update_stmt",
         "create_assertion_stmt", "create_index_stmt", "create_view_stmt", "create_table_stmt",
         "drop_assertion_stmt", "drop_index_stmt", "drop_table_stmt", "drop_view_stmt",
         "begin_stmt", "commit_stmt", "rollback_stmt", "savepoint_stmt", "release_stmt">>)]

StatementList ==
    [sql_stmt_list |-> Sq(<<Pat("nothing"), Rule("sql_stmt"), Star(Sq(<<Lit(";"),
         Rule("sql_stmt")>>)), May(";"), Neg(Pat("anything"))>>)]

SqlRules == Literals @@ Expressions @@ Queries @@ Statements @@ StatementList

=============================================================================
