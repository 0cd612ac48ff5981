------------------------------ MODULE Grammars ------------------------------
(***************************************************************************)
(* The servers' side of a statement, which the repository does not         *)
(* contain: a grammar over clauses.  A statement is grammatical if its     *)
(* clauses come in the order of the phrases, each adjunct directly follows *)
(* one of its hosts, one clause of every required set is there and no      *)
(* excluded set is complete.                                               *)
(***************************************************************************)
EXTENDS Sequences, Integers
LOCAL INSTANCE TLC
LOCAL INSTANCE DdlTables
LOCAL INSTANCE DdlRoutines
LOCAL INSTANCE DdlSession
LOCAL INSTANCE DdlSequences

Rule(phrases, required, excluded) ==
    [phrases |-> phrases, adjuncts |-> <<>>, required |-> required, excluded |-> excluded]

LOCAL Phrase(rule, clause) == {i \in DOMAIN rule.phrases : clause \in rule.phrases[i]}

\* A set of clauses that some order makes a statement of.
Expressible(rule, clauses) ==
    /\ \A c \in clauses : Phrase(rule, c) # {}
    /\ \A c \in clauses \cap DOMAIN rule.adjuncts : clauses \cap rule.adjuncts[c] # {}
    /\ \A r \in rule.required : r \cap clauses # {}
    /\ \A e \in rule.excluded : ~(e \subseteq clauses)

\* The clauses in an order that the grammar allows.
WellOrdered(rule, words) ==
    /\ words # <<>> => words[1] \notin DOMAIN rule.adjuncts
    /\ \A i \in 1 .. Len(words) - 1 :
        /\ \A p \in Phrase(rule, words[i]), q \in Phrase(rule, words[i + 1]) : p <= q
        /\ words[i + 1] \in DOMAIN rule.adjuncts => words[i] \in rule.adjuncts[words[i + 1]]

-----------------------------------------------------------------------------
(* PostgreSQL's grammar of each DDL and transaction statement, over the    *)
(* clauses of the DDL modules.                                             *)

LOCAL Drop(middle, required) ==
    Rule(<<{"ifExists"}, middle, {"cascade", "restrict"}>>, required, {{"cascade", "restrict"}})

LOCAL SequenceConflicts ==
    {{"minValue", "noMinValue"}, {"maxValue", "noMaxValue"}, {"cycle", "noCycle"}, {"ownedBy", "ownedByNone"},
     {"restart", "restartWith"}}

LOCAL TypeRules ==
    [create_extension |-> Rule(<<{"ifNotExists"}, {"schema", "version", "cascade"}>>, {}, {}),
     drop_extension   |-> Drop({"names"}, {{"names"}}),
     create_type_enum |-> Rule(<<{"values"}>>, {}, {}),
     drop_type        |-> Drop({"names"}, {{"names"}}),
     create_domain    |-> [Rule(<<{"dataType"}, {"defaultTo", "notNull", "checkConstraintName", "check"}>>,
                                {{"dataType"}}, {}) EXCEPT !.adjuncts = "check" :> {"dataType", "defaultTo", "notNull",
                                                                                    "checkConstraintName"}],
     drop_domain      |-> Drop({"names"}, {{"names"}}),
     alter_type_add_value |-> Rule(<<{"ifNotExists"}, {"value"}, {"before", "after"}>>, {{"value"}},
                                   {{"before", "after"}}),
     alter_type_rename       |-> Rule(<<{"newName"}>>, {{"newName"}}, {}),
     alter_type_rename_value |-> Rule(<<{"oldValue"}, {"newValue"}>>, {{"oldValue"}, {"newValue"}}, {})]

LOCAL SequenceRules ==
    [create_sequence |-> Rule(<<{"ifNotExists"}, CreateSequenceNode \ {"ifNotExists"}>>, {}, SequenceConflicts),
     drop_sequence   |-> Drop({}, {}),
     alter_sequence  |-> Rule(<<{"ifExists"}, AlterSequenceNode \ {"ifExists", "noCache"}>>,
                              {AlterSequenceNode \ {"ifExists"}}, SequenceConflicts)]

LOCAL ColumnRule ==
    [phrases  |-> <<ColumnNodes.column \ {"comment"}>>,
     adjuncts |-> "nullsNotDistinct" :> {"unique"} @@ "stored" :> {"generatedAs"}
                  @@ "onDelete" :> {"references", "onUpdate"} @@ "onUpdate" :> {"references", "onDelete"},
     required |-> {},
     excluded |-> {{"defaultTo", "generatedAs"}, {"autoIncrement", "defaultTo"}, {"autoIncrement", "generatedAs"}}]

LOCAL TableRules ==
    [column |-> ColumnRule,
     pk_constraint      |-> Rule(<<{"name"}, {"columns"}>>, {{"columns"}}, {}),
     unique_constraint  |-> Rule(<<{"name"}, {"nullsNotDistinct"}, {"columns"}>>, {{"columns"}}, {}),
     check_constraint   |-> Rule(<<{"name"}, {"expression"}>>, {{"expression"}}, {}),
     fk_constraint      |-> Rule(<<{"name"}, {"columns"}, {"onDelete", "onUpdate"}>>, {{"columns"}}, {}),
     exclude_constraint |-> Rule(<<{"name"}, {"method"}, {"elements"}, {"where"}>>, {{"elements"}}, {}),
     create_table |-> Rule(<<{"temporary"}, {"ifNotExists"}, {"columns", "constraints"}, {"asSelect"}>>, {},
                           {{"columns", "asSelect"}, {"constraints", "asSelect"}}),
     alter_table  |-> [Rule(<<TableNodes.alter_table>>, {TableNodes.alter_table},
                            {{rename, other} : rename \in {"renameColumn", "renameTo"}, other \in TableNodes.alter_table}
                            \ {{"renameColumn"}, {"renameTo"}})
                       EXCEPT !.adjuncts = "alterColumnUsing" :> {"alterColumn"}],
     drop_table   |-> Drop({}, {}),
     create_index |-> Rule(<<{"unique"}, {"ifNotExists"}, {"table"}, {"using"}, {"columns"}, {"where"}>>,
                           {{"table"}, {"columns"}}, {}),
     drop_index   |-> Drop({}, {})]

LOCAL ViewRules ==
    [create_view |-> [Rule(<<{"orReplace"}, {"temporary"}, {"materialized"}, {"ifNotExists"}, {"columns"}, {"asSelect"},
                             {"withData", "withNoData"}>>,
                           {{"asSelect"}}, {{"materialized", "orReplace"}, {"materialized", "temporary"}})
                      EXCEPT !.adjuncts = "ifNotExists" :> {"materialized"}],
     drop_view   |-> Rule(<<{"materialized"}, {"ifExists"}, {"cascade"}>>, {}, {}),
     refresh_materialized_view |-> Rule(<<{"concurrently"}, {"withData", "withNoData"}>>, {},
                                        {{"concurrently", "withNoData"}}),
     truncate_table |-> Rule(<<{"only"}, {"moreTables"}, {"restartIdentity", "continueIdentity"}, {"cascade", "restrict"}>>,
                             {}, {{"restartIdentity", "continueIdentity"}, {"cascade", "restrict"}}),
     create_schema  |-> Rule(<<{"ifNotExists"}, {"authorization"}>>, {}, {}),
     drop_schema    |-> Drop({}, {}),
     comment_on     |-> Rule(<<{"column"}, {"columnName"}, {"comment", "null"}>>, {{"comment", "null"}}, {})]

LOCAL RoutineRules ==
    [create_policy |-> Rule(<<{"table"}, {"permissive", "restrictive"}, {"forRead", "forInsert", "forUpdate"}, {"roles"},
                              {"using"}, {"withCheck"}>>,
                            {{"table"}},
                            {{"permissive", "restrictive"}, {"forInsert", "using"}, {"forRead", "withCheck"}}),
     drop_policy   |-> Rule(<<{"ifExists"}, {"table"}, {"cascade", "restrict"}>>, {{"table"}}, {}),
     alter_policy  |-> Rule(<<{"table"}, {"renameTo", "roles"}, {"using"}, {"withCheck"}>>,
                            {{"table"}, PolicyNodes.alter_policy \ {"table", "emptyRoles"}},
                            {{"renameTo", modify} : modify \in {"roles", "using", "withCheck"}}),
     create_function |-> Rule(<<{"orReplace"}, {"args"}, {"defaultValue"}, {"returns"},
                                {"sql", "plpgsql", "immutable", "stable", "strict", "parallel", "security"},
                                {"expression", "block"}>>,
                              {{"returns"}, {"sql", "plpgsql"}, {"expression", "block"}},
                              {{"sql", "block"}, {"immutable", "stable"}, {"sql", "plpgsql"}}),
     drop_function   |-> Rule(<<{"ifExists"}, {"argTypes"}, {"cascade"}>>, {}, {}),
     create_trigger  |-> [Rule(<<{"orReplace"}, TriggerTiming, TriggerEvents \cup {"updateOf"}, {"table"}, {"deferrable"},
                                 {"initiallyDeferred"}, {"ROW", "STATEMENT"}, {"when"}, {"executeFunction"}>>,
                               {TriggerTiming, TriggerEvents, {"table"}, {"executeFunction"}},
                               {{"deferrable", other} : other \in {"BEFORE", "INSTEAD OF", "STATEMENT", "orReplace"}}
                               \cup {{"INSTEAD OF", other} : other \in {"STATEMENT", "when", "updateOf", "TRUNCATE"}}
                               \cup {{"TRUNCATE", "ROW"}})
                          EXCEPT !.adjuncts = "updateOf" :> {"UPDATE"}],
     drop_trigger    |-> Rule(<<{"ifExists"}, {"table"}, {"cascade"}>>, {{"table"}}, {})]

LOCAL CopyRule(sources, options) ==
    Rule(<<sources, {"columns"}, options>>, {sources},
         {{"BINARY", text} : text \in {"delimiter", "nullString", "header", "headerMatch"}}
         \cup {{format, csv} : format \in {"TEXT", "BINARY"}, csv \in {"quote", "escape"}}
         \cup {{"query", "columns"}})

LOCAL SessionRules ==
    [vacuum     |-> Rule(<<MaintenanceNodes.vacuum \ {"tables"}, {"tables"}>>, {}, {{"truncate", "truncateFalse"}}),
     analyze    |-> Rule(<<{"verbose", "skipLocked"}, {"tables"}>>, {}, {}),
     reindex    |-> Rule(<<{"verbose"}, {"relation", "SYSTEM"}, {"concurrently"}>>, {{"relation", "SYSTEM"}},
                         {{"SYSTEM", "concurrently"}}),
     lock_table |-> Rule(<<{"only"}, {"tables"}, {"mode"}, {"noWait"}>>, {{"tables"}}, {}),
     copy_from  |-> CopyRule({"table"}, CopyOptions),
     copy_to    |-> CopyRule({"table", "query"}, CopyOptions \ {"freeze", "headerMatch"}),
     listen     |-> Rule(<<{"channel"}>>, {{"channel"}}, {}),
     unlisten   |-> Rule(<<{"channel", "*"}>>, {{"channel", "*"}}, {{"channel", "*"}}),
     notify     |-> Rule(<<{"channel"}, {"payload"}>>, {{"channel"}}, {})]

LOCAL TclRules ==
    [tcl_begin             |-> Rule(<<{"isolation", "access", "deferrable"}>>, {}, {}),
     tcl_commit            |-> Rule(<<{"andChain"}>>, {}, {}),
     tcl_rollback          |-> Rule(<<{"andChain", "toSavepoint"}>>, {}, {{"andChain", "toSavepoint"}}),
     tcl_savepoint         |-> Rule(<<{"name"}>>, {{"name"}}, {}),
     tcl_release_savepoint |-> Rule(<<{"name"}>>, {{"name"}}, {}),
     tcl_set_transaction   |-> Rule(<<{"isolation", "access"}>>, {{"isolation", "access"}}, {})]

DdlGrammar == TypeRules @@ SequenceRules @@ TableRules @@ ViewRules @@ RoutineRules @@ SessionRules @@ TclRules

-----------------------------------------------------------------------------
(* The servers' grammars of the DML statements, over the clauses of        *)
(* Queries and Writes: one rule for each statement and dialect.            *)

\* A statement that the dialect does not have.
LOCAL None == Rule(<<>>, {{}}, {})

LOCAL With == <<{"recursive"}, {"ctes"}>>

LOCAL Pairs(one, others) == {{one, other} : other \in others}

LOCAL Filters == <<{"joins"}, {"where"}, {"groupBy"}, {"having"}, {"windows"}, {"setOp"}, {"orderBy"}>>

LOCAL LockTail == <<{"of"}, {"noWait", "skipLocked"}>>

\* PostgreSQL locks rows of a table only where each row of the result is one,
\* and SQL Server's TOP limits the first operand of a set operation only.
LOCAL SelectRule(d) ==
    CASE d = "pg" ->
            [Rule(With \o <<{"distinct", "distinctOn"}, {"columns"}, {"from"}>> \o Filters
                  \o <<{"limit", "offset", "offset 0"}, {"UPDATE", "SHARE", "NO KEY UPDATE", "KEY SHARE"}>> \o LockTail,
                  {},
                  {{lock, other} : lock  \in {"UPDATE", "SHARE", "NO KEY UPDATE", "KEY SHARE"},
                                   other \in {"setOp", "groupBy", "having", "distinct", "distinctOn"}}
                  \cup Pairs("distinct", {"distinctOn"}) \cup Pairs("noWait", {"skipLocked"}))
             EXCEPT !.adjuncts = "of" :> {"UPDATE", "SHARE", "NO KEY UPDATE", "KEY SHARE"}]
      [] d = "mysql" ->
            [Rule(With \o <<{"distinct"}, {"columns"}, {"from"}>> \o Filters
                  \o <<{"limit"}, {"offset", "offset 0"}, {"UPDATE", "SHARE"}>> \o LockTail,
                  {}, Pairs("noWait", {"skipLocked"}))
             EXCEPT !.adjuncts = "offset" :> {"limit"} @@ "offset 0" :> {"limit"} @@ "of" :> {"UPDATE", "SHARE"}]
      [] d = "sqlite" ->
            [Rule(With \o <<{"distinct"}, {"columns"}, {"from"}>> \o Filters \o <<{"limit"}, {"offset", "offset 0"}>>, {}, {})
             EXCEPT !.adjuncts = "offset" :> {"limit"} @@ "offset 0" :> {"limit"}]
      [] d = "mssql" ->
            [Rule(<<{"ctes"}, {"distinct"}, {"TOP"}, {"columns"}, {"from"}, {"temporal"}, {"joins"}, {"where"}, {"groupBy"},
                    {"having"}, {"setOp"}, {"orderBy"}, {"offset", "offset 0"}, {"limit"}>>,
                  {}, Pairs("TOP", {"offset", "offset 0", "limit", "setOp"}))
             EXCEPT !.adjuncts = "offset" :> {"orderBy"} @@ "offset 0" :> {"orderBy"}
                                 @@ "limit" :> {"orderBy", "offset", "offset 0"}]

\* MySQL's INNER and CROSS are one join, and SQLite takes a join without ON.
LOCAL JoinRule(d) ==
    [Rule(<<{"INNER", "LEFT", "RIGHT", "CROSS"} \cup (IF d = "mysql" THEN {} ELSE {"FULL"}), {"on"}>>,
          IF d = "sqlite" THEN {} ELSE {{"on", "CROSS"} \cup (IF d = "mysql" THEN {"INNER"} ELSE {})},
          IF d \in {"pg", "mssql"} THEN {{"CROSS", "on"}} ELSE {})
     EXCEPT !.phrases = IF d \in {"pg", "mysql"} THEN <<@[1], {"lateral"}, @[2]>> ELSE @]

LOCAL OrderByRule(d) == Rule(IF d \in {"pg", "sqlite"} THEN <<{"expr"}, {"nulls"}>> ELSE <<{"expr"}>>, {{"expr"}}, {})

\* PostgreSQL can analyze and format at once, in another form than the printed.
LOCAL ExplainRule(d) ==
    CASE d = "pg"     -> LET formats == {"TEXT", "JSON", "YAML", "XML"}
                         IN  Rule(<<{"analyze"} \cup formats>>, {}, Pairs("analyze", formats))
      [] d = "mysql"  -> Rule(<<{"analyze", "JSON"}>>, {}, {{"analyze", "JSON"}})
      [] d = "sqlite" -> Rule(<<>>, {}, {})
      [] d = "mssql"  -> None

LOCAL InsertRule(d) ==
    LET body == {"defaultValues", "source", "values"}
        one  == Pairs("source", body \ {"source"}) \cup Pairs("values", {"defaultValues"})
    IN
    CASE d = "pg" ->
            Rule(With \o <<{"columns"}, {"SYSTEM", "USER"}, body, {"onConflict"}, {"returning"}>>, {body},
                 one \cup Pairs("defaultValues", {"columns", "SYSTEM", "USER"}))
      [] d = "mysql" -> Rule(<<{"columns"}, body \ {"defaultValues"}, {"onDuplicateKeyUpdate"}>>, {body}, one)
      [] d = "sqlite" ->
            Rule(With \o <<{"orIgnore", "orReplace"}, {"columns"}, body, {"onConflict"}, {"returning"}>>, {body},
                 one \cup Pairs("defaultValues", {"columns", "onConflict"}))
      [] d = "mssql" -> Rule(<<{"ctes"}, {"columns"}, {"returning"}, body>>, {body}, one)

LOCAL OnConflictRule(d) ==
    CASE d = "pg"     -> [Rule(<<{"constraint", "columns"}, {"nothing", "update"}, {"where"}>>, {{"nothing", "update"}}, {})
                          EXCEPT !.adjuncts = "where" :> {"update"} @@ "update" :> {"constraint", "columns"}]
      [] d = "sqlite" -> [Rule(<<{"columns"}, {"nothing", "update"}, {"where"}>>, {{"nothing", "update"}}, {})
                          EXCEPT !.adjuncts = "where" :> {"update"}]
      [] OTHER        -> None

\* SQLite's default build has no ORDER BY or LIMIT on UPDATE and DELETE.
LOCAL UpdateRule(d) ==
    CASE d \in {"pg", "sqlite"} ->
            [Rule(With \o <<{"set"}, {"from"}, {"joins"}, {"where"}, {"returning"}>>, {{"set"}}, {})
             EXCEPT !.adjuncts = "joins" :> {"from"}]
      [] d = "mysql" ->
            Rule(With \o <<{"joins"}, {"set"}, {"where"}, {"orderBy"}, {"limit"}>>, {{"set"}},
                 Pairs("joins", {"orderBy", "limit"}))
      [] d = "mssql" ->
            [Rule(<<{"ctes"}, {"set"}, {"returning"}, {"from"}, {"joins"}, {"where"}>>, {{"set"}}, {})
             EXCEPT !.adjuncts = "joins" :> {"from"}]

LOCAL DeleteRule(d) ==
    CASE d = "pg"     -> Rule(With \o <<{"using"}, {"where"}, {"returning"}>>, {}, {})
      [] d = "sqlite" -> Rule(With \o <<{"where"}, {"returning"}>>, {}, {})
      [] d = "mysql"  -> Rule(With \o <<{"joins"}, {"where"}, {"orderBy"}, {"limit"}>>, {},
                              Pairs("joins", {"orderBy", "limit"}))
      [] d = "mssql"  -> Rule(<<{"ctes"}, {"returning"}, {"joins"}, {"where"}>>, {}, {})

\* Of all statements only SQL Server's MERGE must end in a semicolon.
LOCAL MergeRule(d) ==
    CASE d = "pg"    -> Rule(<<{"ctes"}, {"whens"}, {"returning"}>>, {{"whens"}}, {})
      [] d = "mssql" -> Rule(<<{"ctes"}, {"whens"}, {"returning"}, {";"}>>, {{"whens"}, {";"}}, {})
      [] OTHER       -> None

LOCAL MergeWhenRule(d) ==
    IF d \in {"pg", "mssql"}
    THEN Rule(<<{"matched", "not_matched", "not_matched_by_source"}, {"condition"}, {"update", "delete", "insert"}>>,
              {{"matched", "not_matched", "not_matched_by_source"}, {"update", "delete", "insert"}},
              Pairs("insert", {"matched", "not_matched_by_source"}) \cup Pairs("not_matched", {"update", "delete"}))
    ELSE None

DmlGrammar ==
    [d \in {"pg", "mysql", "sqlite", "mssql"} |->
    [select |-> SelectRule(d), join |-> JoinRule(d), order_by |-> OrderByRule(d), explain |-> ExplainRule(d),
     insert |-> InsertRule(d), on_conflict |-> OnConflictRule(d), update |-> UpdateRule(d), delete |-> DeleteRule(d),
     merge |-> MergeRule(d), merge_when |-> MergeWhenRule(d)]]

=============================================================================
