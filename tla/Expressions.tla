---------------------------- MODULE Expressions ----------------------------
(***************************************************************************)
(* The expressions that not every dialect has: function calls with their   *)
(* modifiers, windows, and the operators of src/src/builder/eb.ts.  A      *)
(* function whose name says nothing to the feature matrix is not here, and *)
(* a family of functions that one feature and one test of the printers     *)
(* cover (BIT_AND and BIT_OR, ...) is its first member.                    *)
(***************************************************************************)
LOCAL INSTANCE TLC
LOCAL INSTANCE Clauses
LOCAL INSTANCE Features

\* The feature that a function needs, if any.
FunctionFeature ==
    [NEXTVAL |-> "SEQUENCE_FNS", EXTRACT |-> "EXTRACT_FN", OVERLAY |-> "OVERLAY_FN", JSON_VALUE |-> "JSON_VALUE_FN",
     JSON_QUERY |-> "JSON_QUERY_FN", JSON_EXISTS |-> "JSON_EXISTS_FN", DATE_TRUNC |-> "DATE_TRUNC_FN", AGE |-> "AGE_FN",
     CORR |-> "LINEAR_REGRESSION_AGG", REGEXP_REPLACE |-> "REGEXP_REPLACE_FN", REGEXP_LIKE |-> "REGEXP_LIKE_FN",
     REGEXP_MATCHES |-> "REGEXP_MATCHES_FN", REGEXP_SUBSTR |-> "REGEXP_SUBSTR_FN", PI |-> "PI_FN",
     SIN |-> "TRIGONOMETRY_FNS", ARRAY_APPEND |-> "PG_ARRAY_FNS", BIT_AND |-> "BIT_AGGREGATES", BIT_XOR |-> "BIT_XOR_AGG",
     BOOL_AND |-> "BOOL_AGGREGATES", NTH_VALUE |-> "NTH_VALUE_FN", STDDEV |-> "STDDEV_FN", VARIANCE |-> "VARIANCE_FN",
     STRING_AGG |-> "STRING_AGG", ARRAY_AGG |-> "ARRAY_AGG", ROW_NUMBER |-> "WINDOW_FUNCTIONS"]

LOCAL Aggregates == {"COUNT", "CORR", "BIT_AND", "BIT_XOR", "BOOL_AND", "STDDEV", "VARIANCE", "STRING_AGG", "ARRAY_AGG"}

LOCAL Names == DOMAIN FunctionFeature \cup {"LOG", "LN", "POSITION", "GREATEST", "COUNT", "PERCENTILE_CONT"}

LOCAL WindowOnly == {"ROW_NUMBER", "NTH_VALUE"}

LOCAL Frames == {"ROWS", "RANGE", "GROUPS"}

ExpressionNodes ==
    [function_call   |-> Names \cup {"args", "filter", "withinGroup", "returningType", "over"},
     window_function |-> {"partitionBy", "orderBy", "exclude"} \cup Frames,
     window_name     |-> {"windowName"},
     between         |-> {"symmetric"},
     is_json         |-> {"isJson"},
     json_access     |-> {"->", "#>"},
     quantified      |-> {"subquery", "array"},
     array_expr      |-> {"elements"},
     grouping        |-> {"GROUPING SETS", "CUBE", "ROLLUP"},
     binary_op       |-> {"IS DISTINCT FROM", "ILIKE", "@>"}]

\* The modifiers are functions of the call; args is a second argument.
LOCAL FunctionBuilder ==
    Builder({{name} : name \in Names} \cup {{"GREATEST", "args"}, {"JSON_VALUE", "returningType"}},
            {MethodWhen("filter", {aggregate}, {"filter"}, {}) : aggregate \in Aggregates}
            \cup {MethodWhen("withinGroup", {"PERCENTILE_CONT"}, {"withinGroup"}, {})}
            \cup {MethodWhen("over", {name}, {"over"}, {}) : name \in Aggregates \cup WindowOnly})

\* A frame replaces the frame and keeps its EXCLUDE, which needs a frame.
LOCAL WindowBuilder ==
    Builder({{}}, Flags({"partitionBy", "orderBy"}) \cup LastWins(Frames)
                  \cup {MethodWhen("exclude", {frame}, {"exclude"}, {}) : frame \in Frames})

ExpressionBuilders ==
    [function_call |-> FunctionBuilder, window_function |-> WindowBuilder]
    @@ [k \in DOMAIN ExpressionNodes \ {"function_call", "window_function"} |->
            Builder({{word} : word \in ExpressionNodes[k]}, {})]

-----------------------------------------------------------------------------

\* The functions that a printer looks up in the matrix by name: the base
\* printer knows three, and each dialect's its own.
LOCAL Tested(dialect) ==
    {"NEXTVAL", "EXTRACT", "OVERLAY"}
    \cup CASE dialect = "pg"     -> {"BIT_XOR"}
           [] dialect = "mysql"  -> {"JSON_QUERY", "JSON_EXISTS", "DATE_TRUNC", "AGE", "CORR", "REGEXP_MATCHES",
                                     "ARRAY_APPEND", "BOOL_AND"}
           [] dialect = "sqlite" -> {"JSON_VALUE", "JSON_QUERY", "JSON_EXISTS", "DATE_TRUNC", "AGE", "CORR", "REGEXP_LIKE",
                                     "REGEXP_MATCHES", "REGEXP_SUBSTR", "PI", "ARRAY_APPEND", "BIT_XOR"}
           [] dialect = "mssql"  -> {"DATE_TRUNC", "AGE", "STDDEV", "VARIANCE", "CORR", "REGEXP_REPLACE", "REGEXP_LIKE",
                                     "REGEXP_MATCHES", "REGEXP_SUBSTR", "PI", "SIN", "ARRAY_APPEND", "BIT_AND", "BIT_XOR",
                                     "BOOL_AND", "NTH_VALUE"}

\* What a name is printed as: LOG is to be of base 10 and LN natural on every
\* server, and SQLite's MAX of two arguments is no aggregate.
LOCAL Emitted(name, dialect) ==
    CASE name = "LOG" /\ dialect \in {"mysql", "mssql"} -> "LOG10"
      [] name = "LN" /\ dialect = "mssql"               -> "LOG"
      [] name = "POSITION" /\ dialect = "mssql"         -> "CHARINDEX"
      [] name = "GREATEST" /\ dialect = "sqlite"        -> "MAX"
      [] OTHER                                          -> name

PrintFunctionCall(node, dialect) ==
    LET name == CHOOSE n \in Names : n \in node
    IN  Checked(/\ name \in WindowOnly => "over" \in node
                /\ name \in Tested(dialect) => Supports(dialect, FunctionFeature[name])
                /\ "filter" \in node => dialect \notin {"mysql", "mssql"}
                /\ "returningType" \in node => dialect # "mssql"
                /\ "withinGroup" \in node => dialect # "sqlite"
                /\ name = "GREATEST" /\ dialect = "sqlite" => "args" \in node,
                <<Emitted(name, dialect)>> \o InOrder(<<"args", "returningType", "withinGroup", "filter", "over">>, node))

PrintWindow(node, dialect) ==
    Checked(/\ "exclude" \in node => dialect \notin {"mysql", "mssql"}
            /\ "GROUPS" \in node => dialect # "mysql",
            InOrder(<<"partitionBy", "orderBy", "ROWS", "RANGE", "GROUPS", "exclude">>, node))

\* An operator is one word, printed by every dialect but these.
LOCAL RefusedBy(word) ==
    CASE word \in {"symmetric", "ILIKE", "elements", "array", "#>"} -> {"mysql", "sqlite", "mssql"}
      [] word = "isJson"                     -> {"sqlite"}
      [] word = "->"                         -> {"mssql"}
      [] word = "subquery"                   -> {"sqlite", "mssql"}
      [] word = "GROUPING SETS"              -> {"mysql", "sqlite"}
      [] word \in {"CUBE", "ROLLUP"}         -> {"mysql"}
      [] word \in {"IS DISTINCT FROM", "windowName"} -> {"mssql"}
      [] OTHER                               -> {}

PrintOperator(node, dialect) ==
    LET word == CHOOSE w \in node : TRUE IN Checked(dialect \notin RefusedBy(word), <<word>>)

PrintExpression(kind, node, dialect) ==
    CASE kind = "function_call"   -> PrintFunctionCall(node, dialect)
      [] kind = "window_function" -> PrintWindow(node, dialect)
      [] OTHER                    -> PrintOperator(node, dialect)

-----------------------------------------------------------------------------

\* What a printed name means on a server: the inverse of the names' intent,
\* read off the servers' manuals.
FunctionMeant(word, dialect) ==
    CASE word = "LOG" /\ dialect \in {"mysql", "mssql"}   -> "LN"
      [] word = "LOG10" /\ dialect \in {"mysql", "mssql"} -> "LOG"
      [] word = "CHARINDEX" /\ dialect = "mssql"          -> "POSITION"
      [] word = "MAX" /\ dialect = "sqlite"               -> "GREATEST"
      [] word = "LN" /\ dialect = "mssql"                 -> "no such function"
      [] word = "POSITION" /\ dialect \in {"sqlite", "mssql"} -> "no such function"
      [] word = "GREATEST" /\ dialect = "sqlite"          -> "no such function"
      [] OTHER                                            -> word

ExpressionFeature(clause) ==
    CASE clause \in DOMAIN FunctionFeature -> FunctionFeature[clause]
      [] clause = "filter"           -> "FILTER_WHERE"
      [] clause = "withinGroup"      -> "ORDERED_SET_AGGREGATES"
      [] clause = "over"             -> "WINDOW_FUNCTIONS"
      [] clause \in Frames           -> "WINDOW_FRAME_" \o clause
      [] clause = "exclude"          -> "FRAME_EXCLUDE"
      [] clause = "symmetric"        -> "BETWEEN_SYMMETRIC"
      [] clause = "isJson"           -> "IS_JSON_PREDICATE"
      [] clause = "->"               -> "JSON_ARROW"
      [] clause = "#>"               -> "JSON_PATH_ARROW"
      [] clause = "subquery"         -> "QUANTIFIED_SUBQUERY"
      [] clause = "array"            -> "QUANTIFIED_ARRAY"
      [] clause = "elements"         -> "ARRAY_LITERALS"
      [] clause = "GROUPING SETS"    -> "GROUPING_SETS"
      [] clause \in {"CUBE", "ROLLUP"} -> "GROUPING_" \o clause
      [] clause = "IS DISTINCT FROM" -> "IS_DISTINCT_FROM"
      [] clause = "ILIKE"            -> "ILIKE"
      [] clause = "@>"               -> "ARRAY_CONTAINS_OPS"
      [] OTHER                       -> clause

\* Printed although the matrix denies it.  MySQL writes IS DISTINCT FROM with
\* its own operator, and both MySQL and SQLite have an arrow of their own; the
\* others fail on the server.
ExpressionUngated(clause, dialect) ==
    \/ clause = "IS DISTINCT FROM" /\ dialect = "mysql"
    \/ clause = "->" /\ dialect \in {"mysql", "sqlite"}
    \/ clause = "GROUPS" /\ dialect = "mssql"
    \/ clause \in {"STRING_AGG", "ARRAY_AGG", "@>"}

\* SQLite is said to have POSITION, and it has only INSTR.
ExpressionDropped(clause, dialect) == clause = "POSITION" /\ dialect = "sqlite"

\* Refused for another reason than the matrix: a window function without its
\* window, one argument where SQLite would aggregate, a RETURNING type and a
\* named window that SQL Server does not have.
ExpressionDeliberate(kind, node, dialect) ==
    \/ kind = "function_call" /\ \/ node \cap WindowOnly # {} /\ "over" \notin node
                                 \/ node = {"GREATEST"} /\ dialect = "sqlite"
                                 \/ "returningType" \in node /\ dialect = "mssql"
    \/ kind = "window_name" /\ dialect = "mssql"

=============================================================================
