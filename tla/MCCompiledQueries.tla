--------------------------- MODULE MCCompiledQueries ---------------------------
(* CompiledQueries on three tables in general position, so that two set     *)
(* expressions over them answer alike only if they are equal.               *)
EXTENDS CompiledQueries

CONSTANTS A, B, C

MCTables == {A, B, C}
MCRows == (A :> {1, 3, 5, 7}) @@ (B :> {2, 3, 6, 7}) @@ (C :> {4, 5, 6, 7})

Num(n) == Param(<<"num", n>>)
Slot(name) == Param(<<"slot", name>>)

\* col = p and (col = 1 or col = 2); col + 1 in (p, q); fn(p, 10n); col in (1, col);
\* col in (select ... where col = p).
MCPredicates ==
    {Binary("AND", Binary("=", Column, Slot("p")),
            Binary("OR", Binary("=", Column, Num(1)), Binary("=", Num(2), Column))),
     In(Binary("+", Column, Num(1)), <<Slot("p"), Slot("q")>>),
     In(Column, <<Num(3), Num(4)>>),
     In(Binary("+", Column, Num(5)), <<Num(6), Column>>),
     Raw(<<<<"slot", "q">>, <<"num", 7>>>>),
     Raw(<<<<"big", 8>>>>),
     InSelect(Column, AndWhere(SelectFrom(A), Binary("=", Column, Slot("p"))))}

MCArguments == {("p" :> <<"num", 20>>) @@ ("q" :> <<"big", 30>>),
                ("p" :> <<"big", 30>>) @@ ("q" :> <<"num", 20>>)}

\* Three builder calls reach a chain that is an operand of a chain; three hook
\* calls are three handlers, or two and an edit under the loop over them; three
\* uses are a call, a write into its result and another call.
MCBudgets == {<<3, 0, 1>>, <<0, 3, 2>>, <<1, 1, 3>>}

=============================================================================
