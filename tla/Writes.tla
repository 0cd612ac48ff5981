------------------------------ MODULE Writes ------------------------------
(***************************************************************************)
(* INSERT, UPDATE, DELETE and MERGE with the clauses that they embed: the  *)
(* builders of src/src/builder (plain and typed), and the printers.  The   *)
(* target table is always there and is not a clause.                       *)
(***************************************************************************)
LOCAL INSTANCE Clauses
LOCAL INSTANCE Features

LOCAL Ctes == {"recursive", "ctes"}

LOCAL Bodies == {"defaultValues", "source", "values"}

WriteNodes ==
    [insert      |-> Ctes \cup {"orIgnore", "orReplace", "columns", "SYSTEM", "USER", "onConflict",
                                "onDuplicateKeyUpdate", "returning"} \cup Bodies,
     on_conflict |-> {"constraint", "columns", "nothing", "update", "where"},
     update      |-> Ctes \cup {"set", "from", "joins", "where", "orderBy", "limit", "returning"},
     delete      |-> Ctes \cup {"using", "joins", "where", "allRows", "orderBy", "limit", "returning"},
     merge       |-> Ctes \cup {"whens", "returning"},
     merge_when  |-> {"matched", "not_matched", "not_matched_by_source", "condition", "update", "delete", "insert"}]

LOCAL With == {Method("with", {"ctes"}, {}), Method("with", Ctes, {})}

\* values of the typed builder names the columns; defaultValues forgets what
\* was there before it, and nothing that comes after it.
InsertBuilder ==
    Builder({{}}, With \cup LastWins({"orIgnore", "orReplace"}) \cup LastWins({"SYSTEM", "USER"})
                  \cup Flags({"columns", "values", "source", "onConflict", "onDuplicateKeyUpdate", "returning"})
                  \cup {Method("values", {"columns", "values"}, {}),
                        Method("defaultValues", {"defaultValues"}, {"columns", "values", "source"})})

\* A conflict clause is made by one call; an empty list of columns is no target.
LOCAL Targets == {{}, {"columns"}, {"constraint"}}

OnConflictBuilder ==
    Builder({t \cup {"nothing"} : t \in Targets} \cup {t \cup {"update"} : t \in Targets}
            \cup {t \cup {"update", "where"} : t \in Targets}, {})

UpdateBuilder == Builder({{}}, With \cup Flags(WriteNodes.update \ Ctes))

DeleteBuilder == Builder({{}}, With \cup Flags(WriteNodes.delete \ Ctes))

MergeBuilder == Builder({{}}, With \cup Flags({"whens", "returning"}))

LOCAL Branches ==
    {{"matched", "update"}, {"matched", "delete"}, {"not_matched", "insert"},
     {"not_matched_by_source", "update"}, {"not_matched_by_source", "delete"}}

MergeWhenBuilder == Builder(Branches \cup {b \cup {"condition"} : b \in Branches}, {})

-----------------------------------------------------------------------------

\* DEFAULT VALUES wins over a query, and a query over rows.
LOCAL Shown(node) ==
    node \ (IF "defaultValues" \in node THEN {"source", "values"} ELSE IF "source" \in node THEN {"values"} ELSE {})

PrintInsert(node, dialect) ==
    CASE dialect = "mssql" ->
            Checked(node \cap {"onConflict", "orIgnore", "orReplace", "SYSTEM", "USER"} = {},
                    InOrder(<<"ctes", "columns", "returning", "defaultValues", "source", "values">>, Shown(node)))
      [] dialect = "mysql" ->
            Checked(node \cap {"returning", "recursive", "onConflict", "orIgnore", "orReplace", "SYSTEM", "USER"} = {},
                    InOrder(<<"ctes", "columns", "defaultValues", "source", "values", "onDuplicateKeyUpdate">>,
                            Shown(node)))
      [] OTHER ->
            Checked(node \cap (IF dialect = "pg" THEN {"orIgnore", "orReplace"} ELSE {"recursive", "SYSTEM", "USER"}) = {},
                    InOrder(<<"recursive", "ctes", "orIgnore", "orReplace", "columns", "SYSTEM", "USER", "defaultValues",
                              "source", "values", "onConflict", "returning">>, Shown(node)))

\* Refused by the INSERT that embeds it.
PrintOnConflict(node, dialect) ==
    Checked(dialect \in {"pg", "sqlite"}, InOrder(<<"constraint", "columns", "nothing", "update", "where">>, node))

\* MySQL joins the target before SET, and SQL Server has OUTPUT after it.
PrintUpdate(node, dialect) ==
    CASE dialect = "mysql" ->
            Checked(node \cap {"returning", "recursive", "from"} = {},
                    InOrder(<<"ctes", "joins", "set", "where", "orderBy", "limit">>, node))
      [] dialect = "mssql" ->
            Checked(node \cap {"limit", "orderBy"} = {},
                    InOrder(<<"ctes", "set", "returning", "from", "joins", "where">>, node))
      [] OTHER ->
            Checked(dialect = "sqlite" => "recursive" \notin node,
                    InOrder(<<"recursive", "ctes", "set", "from", "joins", "where", "orderBy", "limit", "returning">>, node))

\* TypedDeleteBuilder._assertHasFilter, which the builder that returning()
\* makes does not have.
LOCAL HasFilter(node) == node \cap {"where", "allRows", "returning"} # {}

PrintDelete(node, dialect) ==
    Checked(HasFilter(node)
            /\ node \cap (CASE dialect = "pg"     -> {"joins"}
                            [] dialect = "mysql"  -> {"returning", "recursive", "using"}
                            [] dialect = "sqlite" -> {"recursive", "using", "joins"}
                            [] dialect = "mssql"  -> {"limit", "orderBy", "using"}) = {},
            IF dialect = "mssql" THEN InOrder(<<"ctes", "returning", "joins", "where">>, node)
            ELSE InOrder(<<"recursive", "ctes", "using", "joins", "where", "orderBy", "limit", "returning">>, node))

PrintMerge(node, dialect) ==
    Checked(dialect \in {"pg", "mssql"},
            InOrder(<<"recursive", "ctes", "whens", "returning">>, IF dialect = "mssql" THEN node \ {"recursive"} ELSE node))

PrintMergeWhen(node, dialect) ==
    Checked(dialect \in {"pg", "mssql"},
            InOrder(<<"matched", "not_matched", "not_matched_by_source", "condition", "update", "delete", "insert">>, node))

PrintWrite(kind, node, dialect) ==
    CASE kind = "insert"      -> PrintInsert(node, dialect)
      [] kind = "on_conflict" -> PrintOnConflict(node, dialect)
      [] kind = "update"      -> PrintUpdate(node, dialect)
      [] kind = "delete"      -> PrintDelete(node, dialect)
      [] kind = "merge"       -> PrintMerge(node, dialect)
      [] kind = "merge_when"  -> PrintMergeWhen(node, dialect)

WriteBuilders ==
    [insert |-> InsertBuilder, on_conflict |-> OnConflictBuilder, update |-> UpdateBuilder, delete |-> DeleteBuilder,
     merge |-> MergeBuilder, merge_when |-> MergeWhenBuilder]

-----------------------------------------------------------------------------

WriteFeature(kind, clause) ==
    CASE kind = "insert" /\ clause = "returning"  -> "RETURNING"
      [] kind = "update" /\ clause = "returning"  -> "RETURNING_UPDATE"
      [] kind = "delete" /\ clause = "returning"  -> "RETURNING_DELETE"
      [] kind = "merge" /\ clause = "returning"   -> "MERGE_RETURNING"
      [] kind = "merge" /\ clause # "returning"   -> "MERGE_STATEMENT"
      [] clause \in {"SYSTEM", "USER"}            -> "INSERT_OVERRIDING"
      [] clause \in {"orIgnore", "orReplace"}     -> "INSERT_OR_IGNORE"
      [] clause = "onConflict"                    -> "ON_CONFLICT"
      [] clause = "onDuplicateKeyUpdate"          -> "ON_DUPLICATE_KEY_UPDATE"
      [] clause = "constraint"                    -> "ON_CONFLICT_CONSTRAINT"
      [] OTHER                                    -> kind

\* Printed although the matrix denies it: SQL Server's OUTPUT, which stands for
\* RETURNING, and a conflict constraint that SQLite cannot name.
WriteUngated(clause, dialect) ==
    \/ clause = "returning" /\ dialect = "mssql"
    \/ clause = "constraint" /\ dialect = "sqlite"

LOCAL Sorted(node) == node \cap {"orderBy", "limit"} # {}

\* Statements that are printed although the server has no such statement.
WriteUnguarded(kind, node, dialect) ==
    \/ kind = "insert" /\ \/ node \cap Bodies = {}
                          \/ {"defaultValues", "columns"} \subseteq node /\ dialect # "mssql"
                          \/ "defaultValues" \in node /\ node \cap {"SYSTEM", "USER"} # {} /\ dialect = "pg"
                          \/ {"defaultValues", "onConflict"} \subseteq node /\ dialect = "sqlite"
                          \/ node \cap {"ctes", "defaultValues"} # {} /\ dialect = "mysql"
    \/ kind = "on_conflict" /\ \/ "update" \in node /\ node \cap {"columns", "constraint"} = {} /\ dialect = "pg"
                               \/ "constraint" \in node /\ dialect = "sqlite"
    \/ kind = "update" /\ \/ "set" \notin node
                          \/ "joins" \in node /\ "from" \notin node /\ dialect # "mysql"
                          \/ "joins" \in node /\ Sorted(node) /\ dialect = "mysql"
                          \/ Sorted(node) /\ dialect \in {"pg", "sqlite"}
    \/ kind = "delete" /\ Sorted(node) /\ (dialect \in {"pg", "sqlite"} \/ "joins" \in node)
    \/ kind = "merge" /\ ("whens" \notin node \/ ("recursive" \in node /\ dialect = "pg"))

\* Refused on purpose: a recursive WITH that MySQL and SQLite do accept in
\* front of these statements, and a DELETE of every row that was not asked for.
WriteDeliberate(kind, node, dialect) ==
    \/ kind \in {"update", "delete"} /\ "recursive" \in node /\ dialect \in {"mysql", "sqlite"}
    \/ kind = "insert" /\ "recursive" \in node /\ dialect = "sqlite"
    \/ kind = "delete" /\ ~HasFilter(node)

\* Asked for and not printed.
WriteDropped(kind, node, clause, dialect) ==
    \/ kind = "insert" /\ clause \in node \ Shown(node)
    \/ clause = "recursive" /\ dialect = "mssql"
    \/ clause = "onDuplicateKeyUpdate" /\ dialect # "mysql"
    \/ clause = "allRows"

=============================================================================
