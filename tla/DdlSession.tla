---------------------------- MODULE DdlSession -----------------------------
(***************************************************************************)
(* Maintenance, locks, bulk copy, publish and subscribe: maintenance.ts,   *)
(* lock-table.ts, copy.ts and pubsub.ts of src/src/builder/ddl.  The       *)
(* targets of REINDEX are the two sorts that its grammar tells apart.      *)
(***************************************************************************)
LOCAL INSTANCE Clauses
LOCAL INSTANCE Features

MaintenanceNodes ==
    [vacuum  |-> {"tables", "full", "freeze", "verbose", "analyze", "skipLocked", "truncate", "truncateFalse"},
     analyze |-> {"tables", "verbose", "skipLocked"},
     reindex |-> {"relation", "SYSTEM", "verbose", "concurrently"}]

LockTableNode == {"tables", "only", "mode", "noWait"}

CopyFormats == {"TEXT", "CSV", "BINARY"}

LOCAL Header == {"header", "headerMatch"}

\* emptyTable is the table without a name that columns makes up.
CopyOptions == CopyFormats \cup Header \cup {"freeze", "delimiter", "nullString", "quote", "escape", "encoding"}

CopyNodes ==
    [copy_from |-> {"table", "columns"} \cup CopyOptions,
     copy_to   |-> {"table", "emptyTable", "columns", "query"} \cup (CopyOptions \ {"freeze"})]

PubsubNodes == [listen |-> {"channel"}, unlisten |-> {"channel", "*"}, notify |-> {"channel", "payload"}]

VacuumBuilder ==
    Builder({{}}, Flags({"full", "freeze", "verbose", "analyze", "skipLocked"})
                  \cup LastWins({"truncate", "truncateFalse"})
                  \cup {Method("tables", {"tables"}, {}), Method("tables", {}, {"tables"})})

AnalyzeBuilder ==
    Builder({{}}, Flags({"verbose", "skipLocked"})
                  \cup {Method("tables", {"tables"}, {}), Method("tables", {}, {"tables"})})

ReindexBuilder ==
    Builder({{"relation"}, {"SYSTEM"}}, Flags({"verbose", "concurrently"}) \cup LastWins({"relation", "SYSTEM"}))

LockTableBuilder == Builder({{}, {"tables"}}, Flags({"only", "mode", "noWait"}))

LOCAL CopyOptionMethods ==
    Flags({"delimiter", "nullString", "quote", "escape", "encoding"}) \cup LastWins(CopyFormats)

CopyFromBuilder ==
    Builder({{"table"}}, CopyOptionMethods \cup LastWins(Header)
                         \cup {Method("columns", {"columns"}, {}), Method("columns", {}, {"columns"}),
                               Method("freeze", {"freeze"}, {}), Method("freeze", {}, {"freeze"})})

\* query drops the table and its columns; columns after query brings a table
\* without a name.
CopyToBuilder ==
    Builder({{"table"}}, CopyOptionMethods \cup LastWins(Header)
                         \cup {Method("query", {"query"}, {"table", "emptyTable", "columns"}),
                               MethodWhen("columns", {"table"}, {"columns"}, {}),
                               MethodWhen("columns", {"query"}, {"emptyTable", "columns"}, {})})

ListenBuilder == Builder({{"channel"}}, {})

UnlistenBuilder == Builder({{"channel"}, {"*"}}, LastWins({"channel", "*"}))

NotifyBuilder ==
    Builder({{"channel"}}, {Method("payload", {"payload"}, {}), Method("payload", {}, {"payload"})})

PrintVacuum(node, dialect) ==
    Checked(Supports(dialect, "VACUUM_STMT"),
            InOrder(<<"full", "freeze", "verbose", "analyze", "skipLocked", "truncate", "truncateFalse", "tables">>,
                    node))

PrintAnalyze(node, dialect) ==
    Checked(Supports(dialect, "ANALYZE_STMT"), InOrder(<<"verbose", "skipLocked", "tables">>, node))

PrintReindex(node, dialect) ==
    Checked(Supports(dialect, "REINDEX_STMT"),
            InOrder(<<"verbose", "relation", "SYSTEM", "concurrently">>, node))

PrintLockTable(node, dialect) ==
    Checked(Supports(dialect, "LOCK_TABLE_STMT") /\ "tables" \in node,
            InOrder(<<"only", "tables", "mode", "noWait">>, node))

FormatCopyOptions(node) ==
    InOrder(<<"TEXT", "CSV", "BINARY", "freeze", "delimiter", "nullString", "headerMatch", "header", "quote",
              "escape", "encoding">>, node)

\* columns prints its list with the table.
PrintCopy(kind, node, dialect) ==
    Checked(/\ dialect = "pg"
            /\ kind = "copy_from" => "table" \in node
            /\ kind = "copy_to" => /\ node \cap {"table", "emptyTable", "query"} # {}
                                   /\ Without(node, {{"table", "query"}, {"emptyTable", "query"}})
                                   /\ node \cap {"freeze", "headerMatch"} = {},
            InOrder(<<"table", "emptyTable", "columns", "query">>, node) \o FormatCopyOptions(node))

PrintListen(node, dialect) == Checked(Supports(dialect, "PUBSUB"), InOrder(<<"channel">>, node))

PrintUnlisten(node, dialect) == Checked(Supports(dialect, "PUBSUB"), InOrder(<<"*", "channel">>, node))

PrintNotify(node, dialect) == Checked(Supports(dialect, "PUBSUB"), InOrder(<<"channel", "payload">>, node))

PrintSessionStatement(kind, node, dialect) ==
    CASE kind = "vacuum"           -> PrintVacuum(node, dialect)
      [] kind = "analyze"          -> PrintAnalyze(node, dialect)
      [] kind = "reindex"          -> PrintReindex(node, dialect)
      [] kind = "lock_table"       -> PrintLockTable(node, dialect)
      [] kind \in DOMAIN CopyNodes -> PrintCopy(kind, node, dialect)
      [] kind = "listen"           -> PrintListen(node, dialect)
      [] kind = "unlisten"         -> PrintUnlisten(node, dialect)
      [] kind = "notify"           -> PrintNotify(node, dialect)

\* The entry points of db.schema for these statements, and what they build.
MaintenanceBuilders ==
    [vacuum |-> VacuumBuilder, analyze |-> AnalyzeBuilder, reindex |-> ReindexBuilder]

SessionBuilders ==
    [lock_table |-> LockTableBuilder,
     copy_from  |-> CopyFromBuilder,
     copy_to    |-> CopyToBuilder,
     listen     |-> ListenBuilder,
     unlisten   |-> UnlistenBuilder,
     notify     |-> NotifyBuilder]

=============================================================================
