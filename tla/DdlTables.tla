----------------------------- MODULE DdlTables -----------------------------
(***************************************************************************)
(* Tables, indexes, views, schemas and comments: create-table.ts,          *)
(* alter-table.ts, create-index.ts, create-view.ts, drop.ts, schema.ts and *)
(* truncate.ts of src/src/builder/ddl.  Columns and table constraints,     *)
(* which CREATE TABLE and ALTER TABLE embed, are statements of their own   *)
(* here.  Several entries of a list are one clause.                        *)
(***************************************************************************)
LOCAL INSTANCE Clauses
LOCAL INSTANCE Features

ColumnNodes ==
    [column |-> {"notNull", "defaultTo", "primaryKey", "unique", "nullsNotDistinct", "check", "autoIncrement",
                 "references", "onDelete", "onUpdate", "generatedAs", "stored", "comment"}]

ConstraintNodes ==
    [pk_constraint      |-> {"name", "columns"},
     unique_constraint  |-> {"name", "nullsNotDistinct", "columns"},
     check_constraint   |-> {"name", "expression"},
     fk_constraint      |-> {"name", "columns", "onDelete", "onUpdate"},
     exclude_constraint |-> {"name", "method", "elements", "where"}]

TableNodes ==
    [create_table |-> {"ifNotExists", "temporary", "columns", "constraints", "asSelect"},
     alter_table  |-> {"addColumn", "dropColumn", "renameColumn", "renameTo", "alterColumn", "alterColumnUsing",
                       "addConstraint", "dropConstraint", "rowLevelSecurity"},
     drop_table   |-> {"ifExists", "cascade"},
     create_index |-> {"unique", "ifNotExists", "table", "using", "columns", "where"},
     drop_index   |-> {"ifExists", "table", "cascade"}]

ViewNodes ==
    [create_view |-> {"orReplace", "orAlter", "temporary", "materialized", "ifNotExists", "columns", "asSelect",
                      "withData", "withNoData"},
     drop_view   |-> {"materialized", "ifExists", "cascade"},
     refresh_materialized_view |-> {"concurrently", "withData", "withNoData"}]

SchemaNodes ==
    [truncate_table |-> {"moreTables", "only", "restartIdentity", "continueIdentity", "cascade", "restrict"},
     create_schema  |-> {"ifNotExists", "authorization"},
     drop_schema    |-> {"ifExists", "cascade"},
     comment_on     |-> {"column", "columnName", "comment", "null"}]

\* onDelete, onUpdate and stored extend a field that must be there: called
\* too early, they leave the node as it is.  A second unique without the
\* option leaves the option of the first in place.
ColumnDefBuilder ==
    Builder({{}}, Flags({"notNull", "defaultTo", "primaryKey", "unique", "check", "autoIncrement", "references",
                         "generatedAs"})
                  \cup {Method("unique", {"unique", "nullsNotDistinct"}, {}),
                        MethodOn("onDelete", {"references"}, {"onDelete"}, {}),
                        MethodOn("onUpdate", {"references"}, {"onUpdate"}, {}),
                        MethodOn("stored", {"generatedAs"}, {"stored"}, {})})

\* The callback of a foreign key gets a builder of its own.
ForeignKeyBuilder == Builder({{"columns"}, {"columns", "name"}}, Flags({"onDelete", "onUpdate"}))

\* addPrimaryKeyConstraint, addUniqueConstraint and addCheckConstraint take
\* all their parts at once; exclusion constraints come from the schema's
\* declaration.
ConstraintBuilders ==
    [pk_constraint      |-> Builder({{"columns"}, {"columns", "name"}}, {}),
     unique_constraint  |-> Builder({{"columns"} \cup n : n \in SUBSET {"name", "nullsNotDistinct"}}, {}),
     check_constraint   |-> Builder({{"expression"}, {"expression", "name"}}, {}),
     fk_constraint      |-> ForeignKeyBuilder,
     exclude_constraint |-> Builder({{"elements"} \cup n : n \in SUBSET {"name", "method", "where"}}, {})]

CreateTableBuilder ==
    Builder({{}}, Flags({"ifNotExists", "temporary", "asSelect"})
                  \cup {Method("addColumn", {"columns"}, {}), Method("addConstraint", {"constraints"}, {})})

\* The actions are a list; one clause stands for all the actions of a kind.
AlterTableBuilder ==
    Builder({{}}, Flags(TableNodes.alter_table \ {"alterColumnUsing"})
                  \cup {Method("alterColumn", {"alterColumn", "alterColumnUsing"}, {})})

CreateIndexBuilder ==
    Builder({{}}, Flags({"unique", "ifNotExists", "using", "columns", "where"}) \cup {Method("on", {"table"}, {})})

\* temporary, materialized and the others are independent flags.
CreateViewBuilder ==
    Builder({{}}, Flags(ViewNodes.create_view \ {"withData", "withNoData"}) \cup LastWins({"withData", "withNoData"}))

RefreshMaterializedViewBuilder ==
    Builder({{}}, Flags({"concurrently"}) \cup LastWins({"withData", "withNoData"}))

DropTableBuilder == Builder({{}}, Flags({"ifExists", "cascade"}))

DropIndexBuilder == Builder({{}}, Flags({"ifExists", "cascade"}) \cup {Method("on", {"table"}, {})})

DropViewBuilder == Builder({{}}, Flags({"ifExists", "cascade", "materialized"}))

\* The older truncateTable has a subset of these methods, without the
\* exclusions: no chain of them sets both flags of a pair.
TruncateBuilder ==
    Builder({{}, {"moreTables"}}, Flags({"only"}) \cup LastWins({"restartIdentity", "continueIdentity"})
                                  \cup LastWins({"cascade", "restrict"}))

CreateSchemaBuilder == Builder({{}}, Flags({"ifNotExists", "authorization"}))

DropSchemaBuilder == Builder({{}}, Flags({"ifExists", "cascade"}))

PrintColumnDef(node, dialect) ==
    Checked({"unique", "nullsNotDistinct"} \subseteq node => dialect = "pg",
            InOrder(<<"primaryKey", "autoIncrement", "notNull", "unique", "nullsNotDistinct", "defaultTo", "check",
                      "references", "onDelete", "onUpdate", "generatedAs", "stored", "comment">>,
                    node \ ((IF "unique" \in node THEN {} ELSE {"nullsNotDistinct"})
                            \cup (IF dialect = "sqlite" /\ "primaryKey" \notin node THEN {"autoIncrement"} ELSE {})
                            \cup (IF dialect = "mysql" THEN {} ELSE {"comment"}))))

PrintConstraint(kind, node, dialect) ==
    Checked(/\ kind = "unique_constraint" /\ "nullsNotDistinct" \in node => dialect = "pg"
            /\ kind = "exclude_constraint" => Supports(dialect, "EXCLUDE_CONSTRAINTS"),
            InOrder(<<"name", "method", "nullsNotDistinct", "columns", "expression", "elements", "where", "onDelete",
                      "onUpdate">>, node))

PrintCreateTable(node, dialect) ==
    Checked("ifNotExists" \in node => dialect # "mssql",
            InOrder(<<"temporary", "ifNotExists", "columns", "constraints", "asSelect">>,
                    IF "asSelect" \in node THEN node \ {"columns", "constraints"} ELSE node))

\* The actions stand for a list in the order of the calls.  SQL Server's
\* renames are statements of their own.
PrintAlterTable(node, dialect) ==
    Checked("rowLevelSecurity" \in node => Supports(dialect, "ROW_LEVEL_SECURITY"),
            InOrder(<<"addColumn", "dropColumn", "renameColumn", "renameTo", "alterColumn", "alterColumnUsing",
                      "addConstraint", "dropConstraint", "rowLevelSecurity">>,
                    IF dialect = "pg" THEN node ELSE node \ {"alterColumnUsing"}))

PrintDropTable(node, dialect) ==
    Checked("cascade" \in node => dialect \in {"pg", "mysql"}, InOrder(<<"ifExists", "cascade">>, node))

\* Mutant: the dialect of the partial index is tested by name, and wrongly.
PartialIndexOnSqliteOnly(node, dialect) ==
    Checked(/\ "ifNotExists" \in node => dialect # "mssql"
            /\ "where" \in node => dialect = "sqlite",
            InOrder(<<"unique", "ifNotExists", "table", "using", "columns", "where">>, node))

\* An index without a table prints an empty name, one without columns no list.
PrintCreateIndex(node, dialect) ==
    Checked(/\ "ifNotExists" \in node => dialect # "mssql"
            /\ "where" \in node => Supports(dialect, "PARTIAL_INDEX"),
            InOrder(<<"unique", "ifNotExists", "table", "using", "columns", "where">>, node))

\* Mutant: SQL Server's DROP INDEX without its ON.
DropIndexWithoutTable(node, dialect) ==
    Checked("cascade" \in node => dialect = "pg",
            InOrder(<<"ifExists", "table", "cascade">>, IF dialect = "mysql" THEN node ELSE node \ {"table"}))

PrintDropIndex(node, dialect) ==
    Checked("cascade" \in node => dialect = "pg",
            InOrder(<<"ifExists", "table", "cascade">>,
                    IF dialect \in {"mysql", "mssql"} THEN node ELSE node \ {"table"}))

\* Mutant: a view without a body falls through to the printing.
CreateViewWithoutBody(node, dialect) ==
    Checked(/\ Without(node, {{"orReplace", "ifNotExists"}, {"orAlter", "ifNotExists"}, {"orReplace", "orAlter"}})
            /\ "orReplace" \in node => dialect \notin {"mssql", "sqlite"}
            /\ "materialized" \in node => dialect = "pg",
            InOrder(<<"orAlter", "orReplace", "temporary", "materialized", "ifNotExists", "columns", "asSelect",
                      "withNoData">>, node))

PrintCreateView(node, dialect) ==
    Checked(/\ Without(node, {{"orReplace", "ifNotExists"}, {"orAlter", "ifNotExists"}, {"orReplace", "orAlter"}})
            /\ "orReplace" \in node => dialect \notin {"mssql", "sqlite"}
            /\ "orAlter" \in node => dialect = "mssql"
            /\ "materialized" \in node => dialect = "pg"
            /\ "ifNotExists" \in node => dialect # "mssql"
            /\ "asSelect" \in node,
            InOrder(<<"orAlter", "orReplace", "temporary", "materialized", "ifNotExists", "columns", "asSelect",
                      "withNoData">>,
                    IF "materialized" \in node THEN node ELSE node \ {"withNoData"}))

\* Mutant: only the concurrent form asks the feature matrix.
UngatedRefresh(node, dialect) ==
    Checked("concurrently" \in node => Supports(dialect, "MATERIALIZED_VIEW_CONCURRENT_REFRESH"),
            InOrder(<<"concurrently", "withNoData">>, node))

PrintRefreshMaterializedView(node, dialect) ==
    Checked(/\ Supports(dialect, "MATERIALIZED_VIEW")
            /\ "concurrently" \in node => Supports(dialect, "MATERIALIZED_VIEW_CONCURRENT_REFRESH"),
            InOrder(<<"concurrently", "withNoData">>, node))

PrintDropView(node, dialect) ==
    Checked("cascade" \in node => dialect = "pg", InOrder(<<"materialized", "ifExists", "cascade">>, node))

\* CONTINUE IDENTITY and RESTRICT are defaults and are not printed.
PrintTruncateTable(node, dialect) ==
    Checked(/\ dialect # "sqlite"
            /\ Without(node, {{"cascade", "restrict"}, {"restartIdentity", "continueIdentity"}})
            /\ dialect # "pg" => node = {},
            InOrder(<<"only", "moreTables", "restartIdentity", "cascade">>, node))

PrintCreateSchema(node, dialect) ==
    Checked("ifNotExists" \in node => dialect # "mssql", InOrder(<<"ifNotExists", "authorization">>, node))

PrintDropSchema(node, dialect) == InOrder(<<"ifExists", "cascade">>, node)

PrintCommentOn(node, dialect) ==
    Checked(/\ Supports(dialect, "OBJECT_COMMENTS")
            /\ "column" \in node => dialect = "pg" /\ "columnName" \in node,
            InOrder(<<"column", "columnName", "null", "comment">>,
                    IF "column" \in node THEN node ELSE node \ {"columnName"}))

PrintTableStatement(kind, node, dialect) ==
    CASE kind = "column"       -> PrintColumnDef(node, dialect)
      [] kind \in DOMAIN ConstraintNodes -> PrintConstraint(kind, node, dialect)
      [] kind = "create_table" -> PrintCreateTable(node, dialect)
      [] kind = "alter_table"  -> PrintAlterTable(node, dialect)
      [] kind = "drop_table"   -> PrintDropTable(node, dialect)
      [] kind = "create_index" -> PrintCreateIndex(node, dialect)
      [] kind = "drop_index"   -> PrintDropIndex(node, dialect)
      [] kind = "create_view"  -> PrintCreateView(node, dialect)
      [] kind = "drop_view"    -> PrintDropView(node, dialect)
      [] kind = "refresh_materialized_view" -> PrintRefreshMaterializedView(node, dialect)
      [] kind = "truncate_table" -> PrintTruncateTable(node, dialect)
      [] kind = "create_schema"  -> PrintCreateSchema(node, dialect)
      [] kind = "drop_schema"    -> PrintDropSchema(node, dialect)
      [] kind = "comment_on"     -> PrintCommentOn(node, dialect)

\* What the diff engine and the printers' callers build without a builder.
CommentBuilder ==
    Builder({{"comment"}, {"null"}, {"column", "columnName", "comment"}, {"column", "columnName", "null"}}, {})

\* The entry points of db.schema for these statements, and what they build.
TableBuilders ==
    [column       |-> ColumnDefBuilder,
     create_table |-> CreateTableBuilder,
     alter_table  |-> AlterTableBuilder,
     drop_table   |-> DropTableBuilder,
     create_index |-> CreateIndexBuilder,
     drop_index   |-> DropIndexBuilder,
     create_view  |-> CreateViewBuilder,
     drop_view    |-> DropViewBuilder,
     refresh_materialized_view |-> RefreshMaterializedViewBuilder,
     truncate_table |-> TruncateBuilder,
     create_schema  |-> CreateSchemaBuilder,
     drop_schema    |-> DropSchemaBuilder,
     comment_on     |-> CommentBuilder]

=============================================================================
