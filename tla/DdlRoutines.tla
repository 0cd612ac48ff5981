---------------------------- MODULE DdlRoutines ----------------------------
(***************************************************************************)
(* Row-level security policies, functions and triggers: policy.ts,         *)
(* function.ts and trigger.ts of src/src/builder/ddl.  The body of a       *)
(* function is one clause, whatever is in it.                              *)
(***************************************************************************)
LOCAL INSTANCE Clauses
LOCAL INSTANCE Features

PolicyNodes ==
    [create_policy |-> {"table", "permissive", "restrictive", "forRead", "forInsert", "forUpdate", "roles",
                        "using", "withCheck"},
     drop_policy   |-> {"table", "ifExists", "cascade"},
     alter_policy  |-> {"table", "renameTo", "roles", "emptyRoles", "using", "withCheck"}]

FunctionNodes ==
    [create_function |-> {"orReplace", "args", "defaultValue", "returns", "sql", "plpgsql", "expression", "block",
                          "immutable", "stable", "strict", "parallel", "security"},
     drop_function   |-> {"ifExists", "argTypes", "cascade"}]

TriggerTiming == {"BEFORE", "AFTER", "INSTEAD OF"}
TriggerEvents == {"INSERT", "UPDATE", "DELETE", "TRUNCATE"}

TriggerNodes ==
    [create_trigger |-> {"orReplace", "table", "updateOf", "ROW", "STATEMENT", "when", "executeFunction",
                         "deferrable", "initiallyDeferred"} \cup TriggerTiming \cup TriggerEvents,
     drop_trigger   |-> {"table", "ifExists", "cascade"}]

\* for takes any command; SELECT and DELETE have the same rules.
CreatePolicyBuilder ==
    Builder({{}}, Flags({"using", "withCheck"}) \cup LastWins({"permissive", "restrictive"})
                  \cup LastWins({"forRead", "forInsert", "forUpdate"})
                  \cup {Method("on", {"table"}, {}), Method("to", {"roles"}, {}), Method("to", {}, {"roles"})})

DropPolicyBuilder == Builder({{}}, Flags({"ifExists", "cascade"}) \cup {Method("on", {"table"}, {})})

AlterPolicyBuilder ==
    Builder({{}}, Flags({"renameTo", "using", "withCheck"})
                  \cup {Method("on", {"table"}, {}), Method("to", {"roles"}, {"emptyRoles"}),
                        Method("to", {"emptyRoles"}, {"roles"})})

\* args replaces the list; plpgsql sets the language with the body.
CreateFunctionBuilder ==
    Builder({{}}, Flags({"orReplace", "returns", "strict", "parallel", "security"})
                  \cup LastWins({"immutable", "stable"}) \cup LastWins({"sql", "plpgsql"})
                  \cup {Method("args", {"args"}, {"defaultValue"}), Method("args", {"args", "defaultValue"}, {}),
                        Method("body", {"expression"}, {"block"}),
                        Method("plpgsql", {"block", "plpgsql"}, {"expression", "sql"})})

DropFunctionBuilder == Builder({{}}, Flags({"ifExists", "argTypes", "cascade"}))

\* before, after and insteadOf replace the list of events; a column list
\* needs UPDATE and any other call throws.  withEvents keeps the timing and
\* takes the column list as given.
CreateTriggerBuilder ==
    Builder({{"AFTER", "ROW"}},
            Flags({"orReplace", "when", "executeFunction"}) \cup LastWins({"ROW", "STATEMENT"})
            \cup {Method("on", {"table"}, {}), Method("deferrable", {"deferrable"}, {"initiallyDeferred"}),
                  Method("deferrable", {"deferrable", "initiallyDeferred"}, {})}
            \cup {Method("events", {timing, event}, (TriggerTiming \cup TriggerEvents \cup {"updateOf"}) \ {timing, event})
                    : timing \in TriggerTiming, event \in TriggerEvents}
            \cup {Method("events", {timing, "UPDATE", "updateOf"}, (TriggerTiming \cup TriggerEvents) \ {timing, "UPDATE"})
                    : timing \in TriggerTiming}
            \cup {Method("withEvents", events \cup of, (TriggerEvents \cup {"updateOf"}) \ (events \cup of))
                    : events \in SUBSET TriggerEvents \ {{}}, of \in {{}, {"updateOf"}}})

DropTriggerBuilder == Builder({{}}, Flags({"ifExists", "cascade"}) \cup {Method("on", {"table"}, {})})

PrintCreatePolicy(node, dialect) ==
    Checked(/\ Supports(dialect, "ROW_LEVEL_SECURITY")
            /\ Without(node, {{"permissive", "restrictive"}})
            /\ "table" \in node,
            InOrder(<<"table", "restrictive", "permissive", "forRead", "forInsert", "forUpdate", "roles", "using",
                      "withCheck">>, node))

PrintDropPolicy(node, dialect) ==
    Checked(/\ Supports(dialect, "ROW_LEVEL_SECURITY")
            /\ "table" \in node,
            InOrder(<<"ifExists", "table", "cascade">>, node))

\* An empty list of roles counts as a modifying clause and is refused later.
PrintAlterPolicy(node, dialect) ==
    LET modify == node \cap {"roles", "emptyRoles", "using", "withCheck"}
    IN  Checked(/\ Supports(dialect, "ROW_LEVEL_SECURITY")
                /\ "table" \in node
                /\ "renameTo" \in node <=> modify = {}
                /\ "emptyRoles" \notin node,
                InOrder(<<"table", "renameTo", "roles", "using", "withCheck">>, node))

\* What buildNode requires of the chain.
BuildCreateFunction(node) ==
    /\ "returns" \in node
    /\ node \cap {"sql", "plpgsql"} # {}
    /\ node \cap {"expression", "block"} # {}

PrintCreateFunction(node, dialect) ==
    Checked(/\ BuildCreateFunction(node)
            /\ Supports(dialect, "CREATE_FUNCTION")
            /\ Without(node, {{"immutable", "stable"}, {"block", "sql"}}),
            InOrder(<<"orReplace", "args", "defaultValue", "returns", "sql", "plpgsql", "immutable", "stable",
                      "strict", "parallel", "security", "expression", "block">>, node))

PrintDropFunction(node, dialect) ==
    Checked(Supports(dialect, "CREATE_FUNCTION"), InOrder(<<"ifExists", "argTypes", "cascade">>, node))

PrintCreateTrigger(node, dialect) ==
    Checked(/\ Supports(dialect, "CREATE_TRIGGER")
            /\ {"table", "executeFunction"} \subseteq node
            /\ node \cap TriggerEvents # {}
            /\ "updateOf" \in node => "UPDATE" \in node
            /\ "deferrable" \in node => {"AFTER", "ROW"} \subseteq node,
            InOrder(<<"orReplace", "BEFORE", "AFTER", "INSTEAD OF", "INSERT", "UPDATE", "updateOf", "DELETE",
                      "TRUNCATE", "table", "deferrable", "initiallyDeferred", "ROW", "STATEMENT", "when",
                      "executeFunction">>, node))

PrintDropTrigger(node, dialect) ==
    Checked(/\ Supports(dialect, "CREATE_TRIGGER")
            /\ "table" \in node,
            InOrder(<<"ifExists", "table", "cascade">>, node))

PrintRoutineStatement(kind, node, dialect) ==
    CASE kind = "create_policy"   -> PrintCreatePolicy(node, dialect)
      [] kind = "drop_policy"     -> PrintDropPolicy(node, dialect)
      [] kind = "alter_policy"    -> PrintAlterPolicy(node, dialect)
      [] kind = "create_function" -> PrintCreateFunction(node, dialect)
      [] kind = "drop_function"   -> PrintDropFunction(node, dialect)
      [] kind = "create_trigger"  -> PrintCreateTrigger(node, dialect)
      [] kind = "drop_trigger"    -> PrintDropTrigger(node, dialect)

\* The entry points of db.schema for these statements, and what they build.
PolicyBuilders ==
    [create_policy |-> CreatePolicyBuilder,
     drop_policy   |-> DropPolicyBuilder,
     alter_policy  |-> AlterPolicyBuilder]

RoutineBuilders ==
    [create_function |-> CreateFunctionBuilder,
     drop_function   |-> DropFunctionBuilder,
     create_trigger  |-> CreateTriggerBuilder,
     drop_trigger    |-> DropTriggerBuilder]

=============================================================================
