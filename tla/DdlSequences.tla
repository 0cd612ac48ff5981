---------------------------- MODULE DdlSequences ----------------------------
(***************************************************************************)
(* CREATE, ALTER and DROP SEQUENCE (src/src/builder/ddl/create-sequence.ts *)
(* and alter-sequence.ts).  Numbers are integers: the printers throw at    *)
(* any other.  A field that holds a number, null or a Boolean gives one    *)
(* clause for each form that is printed.                                   *)
(***************************************************************************)
LOCAL INSTANCE Clauses
LOCAL INSTANCE Features

LOCAL MinValue == {"minValue", "noMinValue"}
LOCAL MaxValue == {"maxValue", "noMaxValue"}
LOCAL Cycle    == {"cycle", "noCycle"}
LOCAL OwnedBy  == {"ownedBy", "ownedByNone"}

CreateSequenceNode ==
    {"ifNotExists", "dataType", "increment", "start", "cache"} \cup MinValue \cup MaxValue \cup Cycle \cup OwnedBy

DropSequenceNode == {"ifExists", "cascade"}

AlterSequenceNode ==
    {"ifExists", "dataType", "increment", "start", "restart", "restartWith", "cache", "noCache"}
    \cup MinValue \cup MaxValue \cup Cycle \cup OwnedBy

CreateSequenceBuilder ==
    Builder({{}}, Flags({"ifNotExists", "dataType", "increment", "start", "cache"})
                  \cup UNION {LastWins(field) : field \in {MinValue, MaxValue, Cycle, OwnedBy}})

DropSequenceBuilder == Builder({{}}, Flags({"ifExists", "cascade"}))

AlterSequenceBuilder ==
    Builder({{}}, Flags({"ifExists", "dataType", "increment", "start"})
                  \cup UNION {LastWins(field) : field \in {MinValue, MaxValue, Cycle, OwnedBy,
                                                           {"restart", "restartWith"}, {"cache", "noCache"}}})

PrintCreateSequence(node, dialect) ==
    Checked(/\ Supports(dialect, "SEQUENCES")
            /\ dialect = "mssql" => "ifNotExists" \notin node
            /\ dialect # "pg" => node \cap OwnedBy = {},
            InOrder(<<"ifNotExists", "dataType", "increment", "noMinValue", "minValue", "noMaxValue", "maxValue",
                      "start", "cache", "cycle", "noCycle", "ownedByNone", "ownedBy">>, node))

PrintDropSequence(node, dialect) ==
    Checked(/\ Supports(dialect, "SEQUENCES")
            /\ "cascade" \in node => dialect = "pg",
            InOrder(<<"ifExists", "cascade">>, node))

PrintAlterSequence(node, dialect) ==
    Checked(/\ Supports(dialect, "SEQUENCES")
            /\ dialect = "mssql" => node \cap ({"ifExists", "dataType", "start"} \cup OwnedBy) = {}
            /\ dialect # "mssql" => "noCache" \notin node
            /\ node \ {"ifExists"} # {},
            InOrder(<<"ifExists", "dataType", "increment", "noMinValue", "minValue", "noMaxValue", "maxValue", "start",
                      "restart", "restartWith", "noCache", "cache", "cycle", "noCycle", "ownedByNone", "ownedBy">>,
                    node))

PrintSequenceStatement(kind, node, dialect) ==
    CASE kind = "create_sequence" -> PrintCreateSequence(node, dialect)
      [] kind = "drop_sequence"   -> PrintDropSequence(node, dialect)
      [] kind = "alter_sequence"  -> PrintAlterSequence(node, dialect)

\* The entry points of db.schema for these statements, and what they build.
SequenceBuilders ==
    [create_sequence |-> CreateSequenceBuilder,
     drop_sequence   |-> DropSequenceBuilder,
     alter_sequence  |-> AlterSequenceBuilder]

=============================================================================
