------------------------------ MODULE Clauses ------------------------------
(***************************************************************************)
(* What the DDL modules share.  The AST node of a DDL statement is         *)
(* abstracted to the set of the optional clauses it carries: a field that  *)
(* is undefined, false, empty or an empty list is an absent clause.  A     *)
(* builder is the set of nodes its constructor can make and the set of its *)
(* methods; a printer maps a node and a dialect to the sequence of the     *)
(* clauses it prints, or refuses by throwing.                              *)
(***************************************************************************)
EXTENDS Sequences

Dialects == {"pg", "mysql", "sqlite", "mssql"}

\* The outcome of a printer that throws instead of printing.
Refused == <<"refused">>

Checked(accepted, words) == IF accepted THEN words ELSE Refused

\* The clauses of node, in the order in which the printer visits them.
InOrder(order, node) == SelectSeq(order, LAMBDA c : c \in node)

\* A method of a builder: a clone of the node with some fields set and
\* others deleted, if the node has the fields that the method extends.
MethodOn(m, needs, adds, drops) ==
    [method |-> m, when |-> {}, needs |-> needs, adds |-> adds, drops |-> drops]

\* What the method does to a node that has the clauses of when.
MethodWhen(m, when, adds, drops) == [MethodOn(m, {}, adds, drops) EXCEPT !.when = when]

Method(m, adds, drops) == MethodOn(m, {}, adds, drops)

Flags(names) == {Method(m, {m}, {}) : m \in names}

\* Methods that share one field, or delete each other's: the last call wins.
LastWins(names) == {Method(m, {m}, names \ {m}) : m \in names}

Builder(starts, methods) == [starts |-> starts, methods |-> methods]

Asked(node, call) == (node \ call.drops) \cup call.adds

Apply(node, call) == IF call.needs \subseteq node THEN Asked(node, call) ELSE node

Without(node, exclusive) == \A pair \in exclusive : ~(pair \subseteq node)

=============================================================================
