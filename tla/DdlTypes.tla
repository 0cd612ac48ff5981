------------------------------ MODULE DdlTypes ------------------------------
(***************************************************************************)
(* Extensions, enum types and domains: the statements of                   *)
(* src/src/builder/ddl/extension.ts and custom-types.ts.  Names are valid  *)
(* identifiers and types; an empty string or list is an absent clause.     *)
(***************************************************************************)
LOCAL INSTANCE Clauses
LOCAL INSTANCE Features

ExtensionNodes ==
    [create_extension |-> {"ifNotExists", "schema", "version", "cascade"},
     drop_extension   |-> {"names", "ifExists", "cascade", "restrict"}]

TypeNodes ==
    [create_type_enum |-> {"values"},
     drop_type        |-> {"names", "ifExists", "cascade", "restrict"},
     create_domain    |-> {"dataType", "defaultTo", "notNull", "check", "checkConstraintName"},
     drop_domain      |-> {"names", "ifExists", "cascade", "restrict"}]

AlterTypeNodes ==
    [alter_type_add_value    |-> {"ifNotExists", "value", "before", "after"},
     alter_type_rename       |-> {"newName"},
     alter_type_rename_value |-> {"oldValue", "newValue"}]

CreateExtensionBuilder == Builder({{}}, Flags({"ifNotExists", "schema", "version", "cascade"}))

DropExtensionBuilder ==
    Builder({{}, {"names"}}, Flags({"ifExists"}) \cup LastWins({"cascade", "restrict"}))

\* values replaces the list, and may replace it by an empty one.
CreateTypeEnumBuilder == Builder({{}}, {Method("values", {"values"}, {}), Method("values", {}, {"values"})})

DropTypeBuilder ==
    Builder({{}, {"names"}}, Flags({"ifExists"}) \cup LastWins({"cascade", "restrict"}))

\* The constraint's name is an argument of check: a check without one
\* forgets the name of the check before it.
CreateDomainBuilder ==
    Builder({{}, {"dataType"}},
            Flags({"dataType", "defaultTo", "notNull"})
            \cup {Method("check", {"check"}, {"checkConstraintName"}),
                  Method("check", {"check", "checkConstraintName"}, {})})

DropDomainBuilder ==
    Builder({{}, {"names"}}, Flags({"ifExists"}) \cup LastWins({"cascade", "restrict"}))

AlterTypeAddValueBuilder ==
    Builder({{}}, Flags({"ifNotExists", "value"}) \cup LastWins({"before", "after"})
                  \cup {Method("value", {}, {"value"})})

AlterTypeRenameBuilder ==
    Builder({{}, {"newName"}}, {Method("to", {"newName"}, {}), Method("to", {}, {"newName"})})

AlterTypeRenameValueBuilder ==
    Builder({{}}, {Method("from", {"oldValue"}, {}), Method("to", {"newValue"}, {})})

PrintCreateExtension(node, dialect) ==
    Checked(Supports(dialect, "EXTENSIONS"),
            InOrder(<<"ifNotExists", "schema", "version", "cascade">>, node))

PrintDropExtension(node, dialect) ==
    Checked(/\ Supports(dialect, "EXTENSIONS")
            /\ "names" \in node
            /\ Without(node, {{"cascade", "restrict"}}),
            InOrder(<<"ifExists", "names", "cascade", "restrict">>, node))

PrintCreateTypeEnum(node, dialect) ==
    Checked(Supports(dialect, "CUSTOM_TYPES"), InOrder(<<"values">>, node))

PrintDropType(node, dialect) ==
    Checked(/\ Supports(dialect, "CUSTOM_TYPES")
            /\ "names" \in node
            /\ Without(node, {{"cascade", "restrict"}}),
            InOrder(<<"ifExists", "names", "cascade", "restrict">>, node))

PrintCreateDomain(node, dialect) ==
    Checked(/\ Supports(dialect, "CUSTOM_TYPES")
            /\ "dataType" \in node,
            InOrder(<<"dataType", "defaultTo", "notNull", "checkConstraintName", "check">>,
                    IF "check" \in node THEN node ELSE node \ {"checkConstraintName"}))

PrintDropDomain(node, dialect) ==
    Checked(/\ Supports(dialect, "CUSTOM_TYPES")
            /\ "names" \in node
            /\ Without(node, {{"cascade", "restrict"}}),
            InOrder(<<"ifExists", "names", "cascade", "restrict">>, node))

PrintAlterTypeAddValue(node, dialect) ==
    Checked(/\ Supports(dialect, "CUSTOM_TYPES")
            /\ "value" \in node,
            InOrder(<<"ifNotExists", "value", "before", "after">>, node))

PrintAlterTypeRename(node, dialect) ==
    Checked(/\ Supports(dialect, "CUSTOM_TYPES")
            /\ "newName" \in node,
            InOrder(<<"newName">>, node))

PrintAlterTypeRenameValue(node, dialect) ==
    Checked(/\ Supports(dialect, "CUSTOM_TYPES")
            /\ {"oldValue", "newValue"} \subseteq node,
            InOrder(<<"oldValue", "newValue">>, node))

PrintTypeStatement(kind, node, dialect) ==
    CASE kind = "create_extension"        -> PrintCreateExtension(node, dialect)
      [] kind = "drop_extension"          -> PrintDropExtension(node, dialect)
      [] kind = "create_type_enum"        -> PrintCreateTypeEnum(node, dialect)
      [] kind = "drop_type"               -> PrintDropType(node, dialect)
      [] kind = "create_domain"           -> PrintCreateDomain(node, dialect)
      [] kind = "drop_domain"             -> PrintDropDomain(node, dialect)
      [] kind = "alter_type_add_value"    -> PrintAlterTypeAddValue(node, dialect)
      [] kind = "alter_type_rename"       -> PrintAlterTypeRename(node, dialect)
      [] kind = "alter_type_rename_value" -> PrintAlterTypeRenameValue(node, dialect)

\* The entry points of db.schema for these statements, and what they build.
TypeBuilders ==
    [create_extension        |-> CreateExtensionBuilder,
     drop_extension          |-> DropExtensionBuilder,
     create_type_enum        |-> CreateTypeEnumBuilder,
     drop_type               |-> DropTypeBuilder,
     create_domain           |-> CreateDomainBuilder,
     drop_domain             |-> DropDomainBuilder,
     alter_type_add_value    |-> AlterTypeAddValueBuilder,
     alter_type_rename       |-> AlterTypeRenameBuilder,
     alter_type_rename_value |-> AlterTypeRenameValueBuilder]

=============================================================================
