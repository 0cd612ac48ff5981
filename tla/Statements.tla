--------------------------- MODULE Statements ---------------------------
(***************************************************************************)
(* The life of a statement, or of an expression in one: a builder is made, *)
(* its methods are called in any order, and the node is compiled for a     *)
(* dialect, which prints it or throws (Sumak.compile, Sumak.compileDDL).   *)
(* The promise is that a statement which a database cannot take fails here *)
(* and not at the database, and that no clause the caller asked for is     *)
(* lost on the way.                                                        *)
(***************************************************************************)
EXTENDS Integers, Sequences, FiniteSets, TLC
LOCAL INSTANCE Clauses
LOCAL INSTANCE Features
LOCAL INSTANCE DdlTypes
LOCAL INSTANCE DdlSequences
LOCAL INSTANCE DdlTables
LOCAL INSTANCE DdlRoutines
LOCAL INSTANCE DdlSession
LOCAL INSTANCE Tcl
LOCAL INSTANCE Queries
LOCAL INSTANCE Writes
LOCAL INSTANCE Expressions
LOCAL INSTANCE Grammars

CONSTANT
    MaxClauses          \* bound: the clauses of a DML statement

ASSUME MaxClausesAssumption == MaxClauses \in Nat

VARIABLES
    kind,               \* the type of the node that is built, or "none"
    node,               \* its clauses
    asked,              \* the clauses that the caller's last words on each are
    dialect,            \* the dialect it was compiled for, or "none"
    printed             \* what the printer returned

vars == <<kind, node, asked, dialect, printed>>

Nodes ==
    ExtensionNodes @@ TypeNodes @@ AlterTypeNodes
    @@ [create_sequence |-> CreateSequenceNode, drop_sequence |-> DropSequenceNode, alter_sequence |-> AlterSequenceNode]
    @@ ColumnNodes @@ ConstraintNodes @@ TableNodes @@ ViewNodes @@ SchemaNodes
    @@ PolicyNodes @@ FunctionNodes @@ TriggerNodes
    @@ MaintenanceNodes @@ ("lock_table" :> LockTableNode) @@ CopyNodes @@ PubsubNodes @@ TclNodes
    @@ QueryNodes @@ WriteNodes @@ ExpressionNodes

Builders ==
    TypeBuilders @@ SequenceBuilders @@ TableBuilders @@ ConstraintBuilders @@ PolicyBuilders @@ RoutineBuilders
    @@ MaintenanceBuilders @@ SessionBuilders @@ TclBuilders @@ QueryBuilders @@ WriteBuilders @@ ExpressionBuilders

QueryKinds      == DOMAIN QueryBuilders
WriteKinds      == DOMAIN WriteBuilders
ExpressionKinds == DOMAIN ExpressionBuilders
DmlKinds        == QueryKinds \cup WriteKinds
Kinds == DOMAIN Builders

\* The dispatch of BasePrinter, DDLPrinter and TclPrinter by the node's type.
PrintNode(k, n, d) ==
    CASE k \in DOMAIN TypeBuilders     -> PrintTypeStatement(k, n, d)
      [] k \in DOMAIN SequenceBuilders -> PrintSequenceStatement(k, n, d)
      [] k \in DOMAIN TableBuilders \cup DOMAIN ConstraintBuilders -> PrintTableStatement(k, n, d)
      [] k \in DOMAIN PolicyBuilders \cup DOMAIN RoutineBuilders   -> PrintRoutineStatement(k, n, d)
      [] k \in DOMAIN MaintenanceBuilders \cup DOMAIN SessionBuilders -> PrintSessionStatement(k, n, d)
      [] k \in DOMAIN TclBuilders      -> PrintTclStatement(k, n, d)
      [] k \in QueryKinds              -> PrintQuery(k, n, d)
      [] k \in WriteKinds              -> PrintWrite(k, n, d)
      [] k \in ExpressionKinds         -> PrintExpression(k, n, d)

Init ==
    /\ kind = "none"
    /\ node = {}
    /\ asked = {}
    /\ dialect = "none"
    /\ printed = <<>>

Begin(k) ==
    /\ kind = "none"
    /\ kind' = k
    /\ \E start \in Builders[k].starts : node' = start /\ asked' = start
    /\ UNCHANGED <<dialect, printed>>

Call ==
    /\ kind # "none" /\ dialect = "none"
    /\ \E call \in Builders[kind].methods :
          /\ call.when \subseteq node
          /\ kind \in DmlKinds => Cardinality(Apply(node, call)) <= MaxClauses
          /\ node' = Apply(node, call)
          /\ asked' = Asked(asked, call)
    /\ UNCHANGED <<kind, dialect, printed>>

Compile(d) ==
    /\ kind # "none" /\ dialect = "none"
    /\ dialect' = d
    /\ printed' = PrintNode(kind, node, d)
    /\ UNCHANGED <<kind, node, asked>>

Next == (\E k \in Kinds : Begin(k)) \/ Call \/ (\E d \in Dialects : Compile(d))

Spec == Init /\ [][Next]_vars

-----------------------------------------------------------------------------

Compiled == dialect # "none"
Accepted == Compiled /\ printed # Refused
Words == {printed[i] : i \in DOMAIN printed}

\* The clauses that the printed words stand for on the server.
Meant == {IF w = "TOP" THEN "limit" ELSE FunctionMeant(w, dialect) : w \in Words}

(***************************************************************************)
(* A chain of calls only makes nodes that the AST's types describe, and    *)
(* the printers print no clause that the node does not carry.              *)
(***************************************************************************)
TypeOK ==
    /\ kind \in Kinds \cup {"none"}
    /\ kind # "none" => node \subseteq Nodes[kind]
    /\ Accepted => Meant \subseteq node

\* The server's grammar: PostgreSQL's for DDL, each dialect's own for DML, none
\* for a part of an expression.
HasGrammar == kind \notin ExpressionKinds /\ (kind \in DmlKinds \/ dialect = "pg")
ServerRule == IF kind \in DmlKinds THEN DmlGrammar[dialect][kind] ELSE DdlGrammar[kind]

(***************************************************************************)
(* Combinations that the printers let through although the server has no   *)
(* such statement: the gaps in the promise, one line for each.             *)
(***************************************************************************)
DdlUnguarded(k, n) ==
    \/ k = "column" /\ \E pair \in {{"defaultTo", "generatedAs"}, {"autoIncrement", "defaultTo"},
                                    {"autoIncrement", "generatedAs"}} : pair \subseteq n
    \/ k = "alter_table" /\ (n = {} \/ (n \cap {"renameColumn", "renameTo"} # {} /\ Cardinality(n) > 1))
    \/ k = "create_index" /\ ~({"table", "columns"} \subseteq n)
    \/ k = "create_view" /\ "materialized" \in n /\ n \cap {"orReplace", "temporary"} # {}
    \/ k = "create_view" /\ "materialized" \notin n /\ "ifNotExists" \in n
    \/ k = "refresh_materialized_view" /\ {"concurrently", "withNoData"} \subseteq n
    \/ k = "create_policy" /\ ({"forInsert", "using"} \subseteq n \/ {"forRead", "withCheck"} \subseteq n)
    \/ k = "create_trigger" /\ \/ "INSTEAD OF" \in n /\ n \cap {"STATEMENT", "when", "updateOf", "TRUNCATE"} # {}
                               \/ {"TRUNCATE", "ROW"} \subseteq n
                               \/ {"deferrable", "orReplace"} \subseteq n
    \/ k = "reindex" /\ {"SYSTEM", "concurrently"} \subseteq n
    \/ k \in DOMAIN CopyNodes /\ \/ "BINARY" \in n /\ n \cap {"delimiter", "nullString", "header", "headerMatch"} # {}
                                 \/ n \cap {"TEXT", "BINARY"} # {} /\ n \cap {"quote", "escape"} # {}
    \/ k = "copy_to" /\ "emptyTable" \in n
    \/ k = "tcl_begin" /\ "SNAPSHOT" \in n
    \/ k = "tcl_set_transaction" /\ n = {}

Unguarded ==
    CASE kind \in QueryKinds -> QueryUnguarded(kind, node, dialect)
      [] kind \in WriteKinds -> WriteUnguarded(kind, node, dialect)
      [] OTHER               -> DdlUnguarded(kind, node)

\* Statements and expressions that are refused for another reason.
Deliberate ==
    CASE kind \in QueryKinds      -> QueryDeliberate(kind, node, dialect)
      [] kind \in WriteKinds      -> WriteDeliberate(kind, node, dialect)
      [] kind \in ExpressionKinds -> ExpressionDeliberate(kind, node, dialect)
      [] OTHER                    -> FALSE

\* The semicolon that neither printMerge nor the driver writes.
Unterminated == kind = "merge" /\ dialect = "mssql"
Terminator   == IF Unterminated THEN <<";">> ELSE <<>>

InGrammar(words) ==
    Expressible(ServerRule, {words[i] : i \in DOMAIN words}) /\ WellOrdered(ServerRule, words)

(***************************************************************************)
(* Whatever the chain of calls, what compiles is a statement of the        *)
(* server's grammar, clause by clause and in order, except in the named    *)
(* gaps, which are none.  SQL Server takes no MERGE as it is printed, and  *)
(* with the semicolon it would take those outside of the gaps.             *)
(***************************************************************************)
WellFormed ==
    Accepted /\ HasGrammar =>
        /\ InGrammar(printed) <=> ~Unguarded /\ ~Unterminated
        /\ InGrammar(printed \o Terminator) <=> ~Unguarded

\* Which feature of the matrix a clause, or a statement as a whole, needs.
DdlFeature(k, clause) ==
    CASE k \in {"drop_table", "drop_index", "drop_view", "drop_schema", "drop_sequence"} /\ clause = "cascade" -> "CASCADE_DROP"
      [] k \in {"drop_table", "drop_index", "drop_view", "drop_schema", "drop_sequence"} /\ clause = "ifExists" -> "IF_EXISTS_DROP"
      [] k = "create_table" /\ clause = "ifNotExists" -> "IF_NOT_EXISTS_TABLE"
      [] k = "create_index" /\ clause = "where"       -> "PARTIAL_INDEX"
      [] k \in {"create_view", "drop_view"} /\ clause = "materialized" -> "MATERIALIZED_VIEW"
      [] k = "create_view" /\ clause = "orReplace"    -> "OR_REPLACE_VIEW"
      [] k = "refresh_materialized_view"              -> "MATERIALIZED_VIEW_CONCURRENT_REFRESH"
      [] k = "truncate_table"                         -> "TRUNCATE_PG_OPTIONS"
      [] k = "comment_on"                             -> "OBJECT_COMMENTS"
      [] k = "exclude_constraint"                     -> "EXCLUDE_CONSTRAINTS"
      [] k = "alter_table" /\ clause = "rowLevelSecurity" -> "ROW_LEVEL_SECURITY"
      [] k \in DOMAIN SequenceBuilders                -> "SEQUENCES"
      [] k \in DOMAIN ExtensionNodes                  -> "EXTENSIONS"
      [] k \in DOMAIN TypeBuilders                    -> "CUSTOM_TYPES"
      [] k \in DOMAIN PolicyNodes                     -> "ROW_LEVEL_SECURITY"
      [] k \in DOMAIN FunctionNodes                   -> "CREATE_FUNCTION"
      [] k \in DOMAIN TriggerNodes                    -> "CREATE_TRIGGER"
      [] k = "vacuum"                                 -> "VACUUM_STMT"
      [] k = "analyze"                                -> "ANALYZE_STMT"
      [] k = "reindex"                                -> "REINDEX_STMT"
      [] k = "lock_table"                             -> "LOCK_TABLE_STMT"
      [] k \in DOMAIN CopyNodes                       -> "COPY_STMT"
      [] k \in DOMAIN PubsubNodes                     -> "PUBSUB"
      [] k = "tcl_begin" /\ clause = "isolation"      -> "TX_ISOLATION_INLINE"
      [] k \in {"tcl_begin", "tcl_set_transaction"} /\ clause = "SNAPSHOT" -> "TX_SNAPSHOT_ISOLATION"
      [] k = "tcl_begin" /\ clause = "access"         -> "TX_READ_ONLY_INLINE"
      [] k = "tcl_begin" /\ clause = "deferrable"     -> "TX_DEFERRABLE"
      [] k = "tcl_begin" /\ clause = "consistentSnapshot" -> "TX_CONSISTENT_SNAPSHOT"
      [] k = "tcl_begin" /\ clause = "locking"        -> "TX_SQLITE_LOCKING"
      [] k = "tcl_commit"                             -> "TX_COMMIT_CHAIN"
      [] k = "tcl_rollback" /\ clause = "andChain"    -> "TX_ROLLBACK_CHAIN"
      [] k = "tcl_release_savepoint"                  -> "TX_RELEASE_SAVEPOINT"
      [] OTHER                                        -> "CREATE_VIEW"

FeatureOf(k, clause) ==
    CASE k \in QueryKinds      -> QueryFeature(k, clause)
      [] k \in WriteKinds      -> WriteFeature(k, clause)
      [] k \in ExpressionKinds -> ExpressionFeature(clause)
      [] OTHER                 -> DdlFeature(k, clause)

(***************************************************************************)
(* And nothing is refused that the server could take: compile throws only  *)
(* where no order of the clauses is a statement or, in an expression, the  *)
(* feature matrix denies the dialect one of them, but for the deliberate   *)
(* refusals.                                                               *)
(***************************************************************************)
RefusedOnlyIfIllFormed ==
    Compiled /\ printed = Refused /\ ~Deliberate =>
        /\ HasGrammar => ~Expressible(ServerRule, IF Unterminated THEN node \cup {";"} ELSE node)
        /\ kind \in ExpressionKinds => \E c \in node : ~Supports(dialect, FeatureOf(kind, c))

\* Clauses that are printed for dialects which the matrix does not list.
DdlUngated(k, clause, d) ==
    \/ k = "drop_table" /\ clause = "cascade" /\ d = "mysql"
    \/ k = "drop_schema" /\ clause = "cascade"
    \/ k \in {"drop_table", "drop_index", "drop_view", "drop_schema", "drop_sequence"} /\ clause = "ifExists" /\ d = "mssql"
    \/ k = "drop_view" /\ clause = "materialized"
    \/ k = "tcl_begin" /\ clause = "SNAPSHOT" /\ d = "pg"

Ungated(k, clause, d) ==
    CASE k \in QueryKinds      -> QueryUngated(clause, d)
      [] k \in WriteKinds      -> WriteUngated(clause, d)
      [] k \in ExpressionKinds -> ExpressionUngated(clause, d)
      [] OTHER                 -> DdlUngated(k, clause, d)

(***************************************************************************)
(* The feature matrix is the one answer to which dialect has what: no      *)
(* statement compiles with a clause whose feature the matrix denies the    *)
(* dialect, except for the ungated ones.                                   *)
(***************************************************************************)
MatrixRespected ==
    Accepted => \A c \in Meant : Supports(dialect, FeatureOf(kind, c)) \/ Ungated(kind, c, dialect)

\* Clauses that are dropped without an error, by the code's own account or
\* because the builder had nothing to attach them to.
DdlDropped(k, n, c, d) ==
    \/ k = "column" /\ \/ c \in {"onDelete", "onUpdate"} /\ "references" \notin n
                       \/ c = "stored" /\ "generatedAs" \notin n
                       \/ c = "nullsNotDistinct" /\ "unique" \notin n
                       \/ c = "autoIncrement" /\ d = "sqlite" /\ "primaryKey" \notin n
                       \/ c = "comment" /\ d # "mysql"
    \/ k = "create_table" /\ c \in {"columns", "constraints"} /\ "asSelect" \in n
    \/ k = "alter_table" /\ c = "alterColumnUsing" /\ d # "pg"
    \/ k = "drop_index" /\ c = "table" /\ d \in {"pg", "sqlite"}
    \/ k = "create_view" /\ (c = "withData" \/ (c = "withNoData" /\ "materialized" \notin n))
    \/ k = "refresh_materialized_view" /\ c = "withData"
    \/ k = "truncate_table" /\ c \in {"continueIdentity", "restrict"}
    \/ k = "comment_on" /\ c = "columnName"
    \/ k = "create_domain" /\ c = "checkConstraintName" /\ "check" \notin n
    \/ k = "tcl_begin" /\ \/ c \in {"isolation", "SNAPSHOT"} /\ d = "sqlite" /\ "locking" \in n
                          \/ c = "access" /\ d \in {"sqlite", "mssql"}
                          \/ c = "deferrable" /\ d # "pg"
                          \/ c = "consistentSnapshot" /\ d # "mysql"
                          \/ c = "locking" /\ d # "sqlite"

Dropped(k, n, c, d) ==
    CASE k \in QueryKinds -> QueryDropped(n, c, d)
      [] k \in WriteKinds -> WriteDropped(k, n, c, d)
      [] k \in ExpressionKinds -> ExpressionDropped(c, d)
      [] OTHER            -> DdlDropped(k, n, c, d)

(***************************************************************************)
(* Whatever the order of the calls, each clause that the caller asked for  *)
(* last is printed or the statement is refused, except for the dropped     *)
(* ones: an option is not lost between the builder and the SQL.  A column  *)
(* also loses what extends a clause that was not there yet (onDelete       *)
(* before references, stored before generatedAs).                          *)
(***************************************************************************)
NothingLost ==
    Accepted => \A c \in asked \ Meant :
                    Dropped(kind, node, c, dialect) \/ (c \notin node /\ kind = "column")

=============================================================================
