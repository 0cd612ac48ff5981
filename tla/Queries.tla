------------------------------ MODULE Queries ------------------------------
(***************************************************************************)
(* SELECT and EXPLAIN, with the joins and the sort keys that they embed:   *)
(* select.ts, typed-select.ts and explain.ts of src/src/builder, and the   *)
(* printers of src/src/printer.  Several entries of a list are one clause. *)
(***************************************************************************)
LOCAL INSTANCE Clauses
LOCAL INSTANCE Features

LockModes == {"UPDATE", "SHARE", "NO KEY UPDATE", "KEY SHARE"}

JoinTypes == {"INNER", "LEFT", "RIGHT", "FULL", "CROSS"}

ExplainFormats == {"TEXT", "JSON", "YAML", "XML"}

LOCAL LockOptions == {"of", "noWait", "skipLocked"}

LOCAL Offsets == {"offset", "offset 0"}

QueryNodes ==
    [select   |-> {"recursive", "ctes", "distinct", "distinctOn", "columns", "from", "temporal", "joins", "where",
                   "groupBy", "having", "windows", "setOp", "orderBy", "limit"}
                  \cup Offsets \cup LockModes \cup LockOptions,
     join     |-> JoinTypes \cup {"lateral", "on"},
     order_by |-> {"expr", "nulls"},
     explain  |-> {"analyze"} \cup ExplainFormats]

\* A new lock replaces the old one with its options.
LOCAL LockMethods ==
    {Method("lock", {mode}, (LockModes \cup LockOptions) \ {mode}) : mode \in LockModes}
    \cup {MethodWhen(option, {mode}, {option}, {}) : option \in LockOptions, mode \in LockModes}

LOCAL ClearMethods ==
    {Method("clear", {}, cleared) : cleared \in {{c} : c \in {"where", "orderBy", "limit", "groupBy", "having", "columns"}}
                                                \cup {Offsets}}

\* forSystemTime needs a table to be about; cursorPaginate sorts and filters
\* only when it is given a cursor.
SelectBuilder ==
    Builder({{"from"}}, Flags({"distinct", "distinctOn", "columns", "joins", "where", "groupBy", "having", "windows",
                               "setOp", "orderBy", "limit", "ctes"})
                        \cup LastWins(Offsets) \cup LockMethods \cup ClearMethods
                        \cup {Method("with", {"recursive", "ctes"}, {}),
                              MethodOn("forSystemTime", {"from"}, {"temporal"}, {}),
                              Method("cursorPaginate", {"where", "orderBy", "limit"}, {}),
                              Method("cursorPaginate", {"limit"}, {})})

\* A join is made by one call: join takes any type, with or without ON.
JoinBuilder ==
    Builder({{type} : type \in JoinTypes} \cup {{type, "on"} : type \in JoinTypes}
            \cup {{"INNER", "lateral", "on"}, {"LEFT", "lateral", "on"}, {"CROSS", "lateral"}}, {})

OrderByBuilder == Builder({{"expr"}, {"expr", "nulls"}}, {})

ExplainBuilder == Builder({{}, {"analyze"}} \cup {{f} : f \in ExplainFormats} \cup {{"analyze", f} : f \in ExplainFormats}, {})

LOCAL SelectOrder(limit) ==
    <<"recursive", "ctes", "distinct", "distinctOn", "TOP", "columns", "from", "temporal", "joins", "where", "groupBy",
      "having", "windows", "setOp", "orderBy">>
    \o limit \o <<"UPDATE", "SHARE", "NO KEY UPDATE", "KEY SHARE", "of", "noWait", "skipLocked">>

\* BasePrinter.printSelect: DISTINCT ON replaces DISTINCT, NOWAIT replaces
\* SKIP LOCKED, and the sort of a set operation follows its last operand.
PrintSelect(node) ==
    InOrder(SelectOrder(<<"limit", "offset", "offset 0">>),
            node \ ((IF "distinctOn" \in node THEN {"distinct"} ELSE {})
                    \cup (IF "noWait" \in node THEN {"skipLocked"} ELSE {})))

\* SQL Server has TOP where there is neither an offset nor a set operation,
\* and FETCH, which needs a sort and brings an offset of its own, where there
\* is; WITH needs no RECURSIVE.  An offset of zero alone is not printed.
PrintSelectMssql(node) ==
    LET skips   == node \cap Offsets # {} /\ node \cap {"offset 0", "limit"} # {"offset 0"}
        fetches == skips \/ {"limit", "setOp"} \subseteq node
    IN  Checked(/\ node \cap ({"distinctOn", "windows"} \cup LockModes) = {}
                /\ fetches => "orderBy" \in node,
                InOrder(SelectOrder(<<"offset", "offset 0", "limit">>),
                        IF fetches THEN node \ {"recursive"}
                        ELSE (node \ ({"recursive", "limit"} \cup Offsets))
                             \cup (IF "limit" \in node THEN {"TOP"} ELSE {})))

PrintSelectFor(node, dialect) ==
    CASE dialect = "mssql"  -> PrintSelectMssql(node)
      [] dialect = "pg"     -> PrintSelect(node)
      [] dialect = "mysql"  -> Checked(node \cap {"distinctOn", "NO KEY UPDATE", "KEY SHARE"} = {}, PrintSelect(node))
      [] dialect = "sqlite" -> Checked(node \cap ({"distinctOn"} \cup LockModes) = {}, PrintSelect(node))

PrintJoin(node, dialect) ==
    Checked(/\ node \cap {"on", "CROSS"} # {}
            /\ "FULL" \in node => dialect # "mysql"
            /\ "lateral" \in node => Supports(dialect, "LATERAL_JOIN"),
            InOrder(<<"INNER", "LEFT", "RIGHT", "FULL", "CROSS", "lateral", "on">>, node))

PrintOrderBy(node, dialect) ==
    Checked("nulls" \in node => dialect \notin {"mysql", "mssql"}, InOrder(<<"expr", "nulls">>, node))

PrintExplain(node, dialect) ==
    Checked(/\ dialect # "mssql"
            /\ dialect = "sqlite" => node = {}
            /\ dialect = "mysql" => /\ node \cap {"YAML", "XML"} = {}
                                    /\ "analyze" \in node => node = {"analyze"},
            InOrder(<<"analyze", "TEXT", "JSON", "YAML", "XML">>, node))

PrintQuery(kind, node, dialect) ==
    CASE kind = "select"   -> PrintSelectFor(node, dialect)
      [] kind = "join"     -> PrintJoin(node, dialect)
      [] kind = "order_by" -> PrintOrderBy(node, dialect)
      [] kind = "explain"  -> PrintExplain(node, dialect)

QueryBuilders ==
    [select |-> SelectBuilder, join |-> JoinBuilder, order_by |-> OrderByBuilder, explain |-> ExplainBuilder]

-----------------------------------------------------------------------------

QueryFeature(kind, clause) ==
    CASE clause = "distinctOn"                       -> "DISTINCT_ON"
      [] clause = "temporal"                         -> "TEMPORAL_FOR_SYSTEM_TIME"
      [] clause \in {"UPDATE", "SHARE"}              -> "FOR_UPDATE"
      [] clause \in {"NO KEY UPDATE", "KEY SHARE"}   -> "FOR_NO_KEY_UPDATE"
      [] clause = "of"                               -> "FOR_UPDATE_OF"
      [] clause = "noWait"                           -> "NOWAIT"
      [] clause = "skipLocked"                       -> "SKIP_LOCKED"
      [] clause = "lateral"                          -> "LATERAL_JOIN"
      [] clause = "FULL"                             -> "FULL_OUTER_JOIN"
      [] clause = "analyze"                          -> "EXPLAIN_ANALYZE"
      [] clause \in ExplainFormats \ {"TEXT"}        -> "EXPLAIN_" \o clause
      [] OTHER                                       -> "SELECT"

\* Printed although the matrix denies it: FOR SYSTEM_TIME for every dialect and
\* FOR UPDATE OF for MySQL, which has it.
QueryUngated(clause, dialect) ==
    \/ clause = "temporal"
    \/ clause = "of" /\ dialect = "mysql"

\* Statements that are printed although the server has no such statement.
QueryUnguarded(kind, node, dialect) ==
    \/ kind = "select" /\ \/ "temporal" \in node /\ dialect # "mssql"
                          \/ /\ node \cap Offsets # {} /\ "limit" \notin node
                             /\ dialect \in {"mysql", "sqlite"}
                          \/ /\ node \cap LockModes # {} /\ dialect = "pg"
                             /\ node \cap {"setOp", "groupBy", "having", "distinct", "distinctOn"} # {}
    \/ kind = "join" /\ {"CROSS", "on"} \subseteq node /\ dialect \in {"pg", "mssql"}
    \/ kind = "explain" /\ \/ "analyze" \in node /\ node # {"analyze"} /\ dialect = "pg"
                           \/ "TEXT" \in node /\ dialect = "mysql"

\* Refused on purpose, for it is taken for a slip: a join without a condition.
QueryDeliberate(kind, node, dialect) ==
    kind = "join" /\ node \cap {"on", "CROSS"} = {} /\ dialect \in {"mysql", "sqlite"}

\* Asked for and not printed: what a stronger word replaces.
QueryDropped(node, clause, dialect) ==
    \/ clause = "distinct" /\ "distinctOn" \in node
    \/ clause = "skipLocked" /\ "noWait" \in node
    \/ clause = "recursive" /\ dialect = "mssql"
    \/ clause = "offset 0" /\ "limit" \notin node /\ dialect = "mssql"

=============================================================================
