-------------------------- MODULE MCPluginPipeline --------------------------
(***************************************************************************)
(* The instances of the run: two tables of two rows between them, a table  *)
(* expression without a name, and lists of up to three plugins.            *)
(***************************************************************************)
EXTENDS PluginPipeline

MCRows == {1, 2}

Plugin(class, tables) ==
    [class |-> class, tables |-> tables, strict |-> FALSE, rules |-> <<>>, onForbidden |-> "throw"]

CaslWith(rules, onForbidden) ==
    [Plugin("casl", {"t"}) EXCEPT !.rules = rules, !.onForbidden = onForbidden]

StrictTenant == [Plugin("multi-tenant", {"t"}) EXCEPT !.strict = TRUE]

Ability == CaslWith(<<Cannot({1}), Can({1, 2})>>, "throw")

Policies ==
    {Plugin("soft-delete", {"t"}), Plugin("soft-delete", {"u"}), Plugin("soft-delete", {"t", "u"}), Plugin("multi-tenant", {"t"}),
     Plugin("multi-tenant", {"t", "u"}), StrictTenant, Ability, CaslWith(<<>>, "throw"), CaslWith(<<>>, "empty")}

Values ==
    {Plugin("optimistic-lock", {"t"}), Plugin("audit", {"t"}), Plugin("defaults", {"t"}),
     Plugin("query-limit", {}), Plugin("with-schema", {})}

\* The abilities of up to three rules, highest priority first.
Rule == {[inverted |-> i, condition |-> c] : i \in BOOLEAN, c \in {{1}, {2}, Always}}

Abilities == {CaslWith(rules, "throw") : rules \in UNION {[1 .. n -> Rule] : n \in 0 .. 3}}

Pairs == {<<p, q>> : p, q \in Policies \cup Values}

Triples ==
    {<<Plugin("soft-delete", {"t"}), Plugin("multi-tenant", {"t", "u"}), Ability>>,
     <<Ability, Plugin("audit", {"t"}), Plugin("multi-tenant", {"t"})>>,
     <<Plugin("query-limit", {}), Plugin("optimistic-lock", {"t"}), Plugin("soft-delete", {"t", "u"})>>}

MCLists == {<<p>> : p \in Policies \cup Values \cup Abilities} \cup Pairs \cup Triples

MCNestLists ==
    Triples \cup {<<p>> : p \in {CaslWith(<<>>, "empty"), StrictTenant, Plugin("with-schema", {})}}

-----------------------------------------------------------------------------

Join(type, table) == [type |-> type, table |-> table]

Joins == {NoJoin, Join("INNER", "t"), Join("INNER", "u"), Join("LEFT", "u")}

Selects ==
    {[Frame("select", table) EXCEPT !.join = join, !.mode = mode, !.flags = flags] :
        table \in {"t", "u", NoTable}, join \in Joins, mode \in {"none", "include"}, flags \in {{}, {"cross-tenant"}}}

SoftDeletes == {DbSoftDelete("t"), DbRestore("t")}

Updates ==
    {[Frame("update", table) EXCEPT !.join = join, !.set = set] :
        table \in {"t", "u"}, join \in {NoJoin, Join("FROM", "u"), Join("INNER", "u")},
        set \in {<<"x">>, <<"version">>, <<"updated_at">>}}

Deletes ==
    {[Frame("delete", table) EXCEPT !.join = join] :
        table \in {"t", "u"}, join \in {NoJoin, Join("USING", "u"), Join("INNER", "t")}}

Inserts ==
    {[Frame("insert", table) EXCEPT !.columns = columns, !.rows = rows] :
        table \in {"t", "u"}, rows \in {"values", "select"},
        columns \in {<<"x">>, <<"tenant_id">>, <<"version">>, <<"created_at">>, <<"updated_at">>}}
    \cup {[Frame("insert", "t") EXCEPT !.rows = "default"]}

Merges ==
    {[Frame("merge", table) EXCEPT !.join = Join("USING", source), !.columns = columns, !.set = <<"x">>] :
        table \in {"t", "u"}, source \in {"t", "u"}, columns \in {<<"x">>, <<"tenant_id">>}}

Wrappers == {Frame("explain", NoTable), Frame("create_view", NoTable)}

MCRoots == Selects \cup SoftDeletes \cup Updates \cup Deletes \cup Inserts \cup Merges \cup Wrappers

MCNestRoots ==
    {Frame(type, table) : type \in {"select", "update", "delete"}, table \in {"t", "u", NoTable}}
        \cup {[Frame("insert", "t") EXCEPT !.columns = <<"x">>, !.rows = "select"],
              [Frame("select", "t") EXCEPT !.join = Join("INNER", "u")],
              [Frame("merge", "t") EXCEPT !.set = <<"x">>]}
        \cup Wrappers

MCInners == {Frame("select", "u"), [Frame("select", "t") EXCEPT !.join = Join("INNER", "u")]}

=============================================================================
