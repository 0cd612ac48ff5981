------------------------------ MODULE Features ------------------------------
(***************************************************************************)
(* The feature matrix of src/src/dialect/features.ts: the one place that   *)
(* says which dialect has which feature.  Printers ask it with             *)
(* assertFeature, which throws.                                            *)
(***************************************************************************)
LOCAL INSTANCE TLC

LOCAL PgOnly(names)  == [f \in names |-> {"pg"}]
LOCAL PgMysql(names) == [f \in names |-> {"pg", "mysql"}]

DdlFeatures ==
    PgOnly({"MATERIALIZED_VIEW", "MATERIALIZED_VIEW_CONCURRENT_REFRESH", "GIN_INDEX",
            "GIST_INDEX", "EXCLUDE_CONSTRAINTS", "CASCADE_DROP", "SEQUENCE_FNS",
            "TRUNCATE_PG_OPTIONS", "VACUUM_STMT", "ANALYZE_STMT", "REINDEX_STMT",
            "ROW_LEVEL_SECURITY"})
    @@ PgMysql({"OR_REPLACE_VIEW", "OBJECT_COMMENTS"})
    @@ [f \in {"IF_NOT_EXISTS_TABLE", "IF_EXISTS_DROP"} |-> {"pg", "mysql", "sqlite"}]
    @@ [f \in {"RENAME_COLUMN", "CREATE_VIEW"} |-> {"pg", "mysql", "sqlite", "mssql"}]
    @@ "PARTIAL_INDEX"  :> {"pg", "sqlite"}
    @@ "SEQUENCES"      :> {"pg", "mssql"}
    @@ "TRUNCATE_TABLE" :> {"pg", "mysql", "mssql"}

ObjectFeatures ==
    PgOnly({"EXTENSIONS", "CUSTOM_TYPES", "LOCK_TABLE_STMT", "COPY_STMT",
            "CREATE_FUNCTION", "CREATE_TRIGGER", "PUBSUB"})

TclFeatures ==
    PgOnly({"TX_ISOLATION_INLINE", "TX_DEFERRABLE"})
    @@ PgMysql({"TX_READ_ONLY_INLINE", "TX_COMMIT_CHAIN", "TX_ROLLBACK_CHAIN"})
    @@ "TX_CONSISTENT_SNAPSHOT" :> {"mysql"}
    @@ "TX_SQLITE_LOCKING"      :> {"sqlite"}
    @@ "TX_RELEASE_SAVEPOINT"   :> {"pg", "mysql", "sqlite"}
    @@ "TX_SNAPSHOT_ISOLATION"  :> {"mssql"}

LOCAL All == {"pg", "mysql", "sqlite", "mssql"}

DmlFeatures ==
    PgOnly({"DISTINCT_ON", "INSERT_OVERRIDING", "ON_CONFLICT_CONSTRAINT", "FOR_NO_KEY_UPDATE", "FOR_UPDATE_OF",
            "EXPLAIN_YAML", "EXPLAIN_XML"})
    @@ PgMysql({"LATERAL_JOIN", "FOR_UPDATE", "SKIP_LOCKED", "NOWAIT", "EXPLAIN_JSON"})
    @@ [f \in {"RETURNING", "RETURNING_UPDATE", "RETURNING_DELETE", "ON_CONFLICT"} |-> {"pg", "sqlite"}]
    @@ [f \in {"MERGE_STATEMENT", "MERGE_RETURNING"} |-> {"pg", "mssql"}]
    @@ "FULL_OUTER_JOIN"          :> {"pg", "mssql", "sqlite"}
    @@ "INSERT_OR_IGNORE"         :> {"sqlite", "mysql"}
    @@ "ON_DUPLICATE_KEY_UPDATE"  :> {"mysql"}
    @@ "TEMPORAL_FOR_SYSTEM_TIME" :> {"mssql"}
    @@ "EXPLAIN_ANALYZE"          :> {"pg", "mysql", "sqlite"}

ExpressionFeatures ==
    PgOnly({"BETWEEN_SYMMETRIC", "ILIKE", "ARRAY_AGG", "LINEAR_REGRESSION_AGG", "ARRAY_LITERALS", "ARRAY_CONTAINS_OPS",
            "PG_ARRAY_FNS", "QUANTIFIED_ARRAY", "JSON_ARROW", "JSON_PATH_ARROW", "REGEXP_MATCHES_FN", "DATE_TRUNC_FN",
            "AGE_FN"})
    @@ PgMysql({"QUANTIFIED_SUBQUERY", "REGEXP_LIKE_FN", "REGEXP_SUBSTR_FN"})
    @@ [f \in {"FILTER_WHERE", "WINDOW_FRAME_GROUPS", "FRAME_EXCLUDE", "BOOL_AGGREGATES", "IS_DISTINCT_FROM"} |->
            {"pg", "sqlite"}]
    @@ [f \in {"GROUPING_CUBE", "GROUPING_ROLLUP"} |-> {"pg", "mssql", "sqlite"}]
    @@ [f \in {"STRING_AGG", "GROUPING_SETS", "JSON_QUERY_FN", "JSON_EXISTS_FN"} |-> {"pg", "mssql"}]
    @@ [f \in {"ORDERED_SET_AGGREGATES", "IS_JSON_PREDICATE", "JSON_VALUE_FN", "OVERLAY_FN", "PI_FN"} |->
            {"pg", "mysql", "mssql"}]
    @@ [f \in {"STDDEV_FN", "VARIANCE_FN", "BIT_AGGREGATES", "NTH_VALUE_FN", "REGEXP_REPLACE_FN"} |->
            {"pg", "mysql", "sqlite"}]
    @@ [f \in {"EXTRACT_FN", "TRIGONOMETRY_FNS", "WINDOW_FUNCTIONS", "WINDOW_FRAME_ROWS", "WINDOW_FRAME_RANGE"} |-> All]
    @@ "BIT_XOR_AGG" :> {"mysql"}

LOCAL Matrix == DdlFeatures @@ ObjectFeatures @@ TclFeatures @@ DmlFeatures @@ ExpressionFeatures

\* What no feature of the matrix is about is for every dialect.
Supports(dialect, feature) == feature \in DOMAIN Matrix => dialect \in Matrix[feature]

=============================================================================
