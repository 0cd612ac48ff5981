--------------------------- MODULE MCQueryRewrite ---------------------------
(***************************************************************************)
(* A table t under the alias a, or a subquery of it, joined with b and c.  *)
(***************************************************************************)
EXTENDS QueryRewrite

Column(table, column) == [type |-> "column_ref", table |-> table, column |-> column]
Param(n) == [type |-> "param", value |-> Number(n)]
N(n)     == Literal(Number(n))
T        == Literal(Bool(TRUE))
F        == Literal(Bool(FALSE))
S(v)     == Literal(Spelled(v))
Count(filter) == [type |-> "function_call", name |-> "COUNT", filter |-> filter]
IsNull(e, negated) == [type |-> "is_null", expr |-> e, negated |-> negated]
In(e, outer, rest, negated) ==
    [type |-> "in", expr |-> e, negated |-> negated, values |-> [outer |-> outer, rest |-> rest]]
Exists(rest) == [type |-> "exists", negated |-> FALSE, query |-> [outline |-> "select from d", rest |-> rest]]
Raw(n) == [type |-> "raw", sql |-> "x < ?", params |-> <<Number(n)>>, column |-> "x"]

A == Column("a", "id")
B == Column("b", "id")
X == Column("", "x")            \* a column of c, unqualified

MCOwner == [x |-> "c"]
MCSubqueries == [zero |-> {Number(0)}, one |-> {Number(1), Null}, none |-> {}]

MCPredicates ==
    {Binary("=", A, Param(0)), Binary("=", B, Param(0)), Binary("=", B, Param(1)),
     Binary("<", N(0), A), Binary("=", A, B),
     Not(Not(Binary(">", B, Binary("+", N(0), N(1))))), Not(IsNull(B, FALSE)),
     T, F, Binary("OR", IsNull(B, FALSE), Binary("=", X, N(0))), Not(Binary("OR", T, Binary("=", A, N(1)))),
     Not(Binary("=", B, N(1))), Not(Binary("=", B, S(Number(1)))), Binary("=", B, Literal(Null)), Binary("=", B, S(Null)),
     In(A, "", "zero", FALSE), In(A, "", "one", FALSE), In(B, "c", "", FALSE), In(B, "", "one", TRUE),
     Exists("zero"), Exists("none"), Raw(0), Raw(1)}

\* Filtered counts that differ in the FILTER, or in nothing at all.
Some(filter) == Binary("<", N(0), Count(filter))
MCConditions ==
    {T, Some(Absent), Binary("AND", Some(Binary("=", A, N(1))), Some(Binary("=", A, N(0)))),
     Binary("AND", Some(Binary("=", A, N(1))), Some(Not(Not(Binary("=", A, N(1))))))}

Sub(has) == [type |-> "subquery", name |-> "t", alias |-> "a", has |-> has]

MCSources == {[type |-> "table_ref", name |-> "t", alias |-> "a", has |-> {}],
              Sub({}), Sub({"lock"}), Sub({"orderBy", "limit"})}

To(type, name, on) == [joinType |-> type, table |-> [name |-> name, alias |-> name], on |-> on]

MCJoins ==
    {To(type, "b", Binary("=", A, B)) : type \in {"INNER", "LEFT", "FULL"}}
        \cup {To("INNER", "b", Binary("=", B, N(1))), To("CROSS", "b", Absent), To("CROSS", "c", Absent)}
        \cup {To(type, "c", Binary("=", A, Column("c", "x"))) : type \in {"INNER", "RIGHT"}}

MCOptions ==
    {[normalize |-> n, optimizeQueries |-> o, optimizeRules |-> r, rules |-> s] :
        n \in BOOLEAN, o \in BOOLEAN, r \in {<<>>, <<"default-limit">>}, s \in {<<>>, <<"default-limit">>}}

\* Without the options that behave alike: optimizing normalizes in any case.
MCInstances ==
    {o \in MCOptions : /\ ~o.optimizeQueries => o.optimizeRules = <<>> /\ o.rules = <<>>
                       /\ ~o.normalize => o.optimizeRules = <<>> /\ o.rules = <<>>}

MCDatabases ==
    {[t |-> t, b |-> b, c |-> {Number(0), Number(1)}] :
        t \in {{Number(0), Number(1)}, {Number(1), Null}}, b \in {{Number(1), Spelled(Number(1))}, {Spelled(Null), Number(0), Null}}}
    \cup {[t |-> {Number(1)}, b |-> {}, c |-> {Number(1)}]}

=============================================================================
