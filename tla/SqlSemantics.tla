---------------------------- MODULE SqlSemantics ----------------------------
(***************************************************************************)
(* What a server answers to a SELECT, as far as the rewriting of queries   *)
(* has to preserve it: three-valued logic and the joins of the standard.   *)
(* Nothing of this is in the repository.  A table has one column, which    *)
(* gives its rows their identity; an expression is a node of               *)
(* src/src/ast/nodes.ts; a row of a join maps the aliases of its sources   *)
(* to values.                                                              *)
(***************************************************************************)
EXTENDS Integers, Sequences
LOCAL INSTANCE FiniteSets
LOCAL INSTANCE TLC

CONSTANTS
    Owner,              \* the source that an unqualified column belongs to
    Subqueries          \* the sets of values that the uncorrelated subqueries return

Number(n) == <<"number", n>>
Bool(b)   == <<"boolean", IF b THEN 1 ELSE 0>>
Null      == <<"null", 0>>
Spelled(v) == <<"string", v>>   \* the string that v is written as

LOCAL True  == Bool(TRUE)
LOCAL False == Bool(FALSE)

LOCAL Not3(v)    == CASE v = True -> False [] v = False -> True [] OTHER -> Null
LOCAL And3(v, w) == IF False \in {v, w} THEN False ELSE IF {v, w} = {True} THEN True ELSE Null
LOCAL Or3(v, w)  == Not3(And3(Not3(v), Not3(w)))

\* As SQLite compares in a column without a type: no number is a string, and
\* every number comes before every string.
LOCAL Less(v, w) == IF v[1] = w[1] THEN v[2] < w[2] ELSE v[1] = "number"

LOCAL Compare(op, v, w) ==
    IF Null \in {v, w} THEN Null
    ELSE CASE op = "=" -> Bool(v = w)
           [] op = "<" -> Bool(Less(v, w))
           [] op = ">" -> Bool(Less(w, v))
           [] op = "+" -> Number(v[2] + w[2])

LOCAL Member(v, values) ==
    CASE v \in values -> True [] values = {} -> False [] Null \in values \cup {v} -> Null [] OTHER -> False

LOCAL Source(e) == IF e.table = "" THEN Owner[e.column] ELSE e.table

\* The value of an expression in a row or, in HAVING, in [group |-> rows].
RECURSIVE Eval(_, _)
Eval(e, row) ==
    CASE e.type = "column_ref" -> row[Source(e)]
      [] e.type \in {"literal", "param"} -> e.value
      [] e.type = "raw"        -> Compare("<", row[Owner[e.column]], e.params[1])
      [] e.type = "unary_op"   -> Not3(Eval(e.operand, row))
      [] e.type = "is_null"    -> Bool((Eval(e.expr, row) = Null) # e.negated)
      [] e.type = "in"         ->
            LET found == Member(Eval(e.expr, row),
                                IF e.values.outer = "" THEN Subqueries[e.values.rest] ELSE {row[e.values.outer]})
            IN  IF e.negated THEN Not3(found) ELSE found
      [] e.type = "function_call" ->
            Number(Cardinality({r \in row.group : e.filter.type = "none" \/ Eval(e.filter, r) = True}))
      [] e.type = "exists"     -> Bool((Subqueries[e.query.rest] # {}) # e.negated)
      [] e.type = "binary_op"  ->
            CASE e.op = "AND" -> And3(Eval(e.left, row), Eval(e.right, row))
              [] e.op = "OR"  -> Or3(Eval(e.left, row), Eval(e.right, row))
              [] OTHER        -> Compare(e.op, Eval(e.left, row), Eval(e.right, row))

\* The sources whose columns an expression reads, its correlated subqueries
\* included.
RECURSIVE Reads(_)
Reads(e) ==
    CASE e.type = "column_ref" -> {Source(e)}
      [] e.type = "raw"        -> {Owner[e.column]}
      [] e.type = "unary_op"   -> Reads(e.operand)
      [] e.type = "is_null"    -> Reads(e.expr)
      [] e.type = "function_call" -> Reads(e.filter)
      [] e.type = "in"         -> Reads(e.expr) \cup ({e.values.outer} \ {""})
      [] e.type = "binary_op"  -> Reads(e.left) \cup Reads(e.right)
      [] OTHER                 -> {}

LOCAL Passes(e, row) == e.type = "none" \/ Eval(e, row) = True

LOCAL Extended(row, sources) == row @@ [s \in sources |-> Null]

\* One more join of rows, which range over the sources of scope.
LOCAL JoinRows(rows, scope, join, data) ==
    LET right   == {join.table.alias :> v : v \in data[join.table.name]}
        matches == {p \in rows \X right : Passes(join.on, p[1] @@ p[2])}
        matched == {p[1] @@ p[2] : p \in matches}
        left    == {Extended(l, {join.table.alias}) : l \in rows \ {p[1] : p \in matches}}
        rights  == {Extended(r, scope) : r \in right \ {p[2] : p \in matches}}
    IN  CASE join.joinType \in {"INNER", "CROSS"} -> matched
          [] join.joinType = "LEFT"  -> matched \cup left
          [] join.joinType = "RIGHT" -> matched \cup rights
          [] join.joinType = "FULL"  -> matched \cup left \cup rights

\* The sources in scope at the i-th join, itself included.
LOCAL Scope(q, i) == {q.from.alias} \cup {q.joins[k].table.alias : k \in 1 .. i}

\* PostgreSQL and SQL Server have no CROSS JOIN ... ON; an ON sees the
\* sources up to its own.
Accepts(q) ==
    /\ \A i \in DOMAIN q.joins :
           /\ q.joins[i].joinType = "CROSS" <=> q.joins[i].on.type = "none"
           /\ Reads(q.joins[i].on) \subseteq Scope(q, i)
    /\ Reads(q.where) \cup Reads(q.having) \subseteq Scope(q, Len(q.joins))

\* The rows, or one row of aggregates over all of them; and what a subquery in
\* FROM does beside naming its table.
Answer(q, data) ==
    LET RECURSIVE Joined(_)
        Joined(i) == IF i = 0 THEN {q.from.alias :> v : v \in data[q.from.name]}
                     ELSE JoinRows(Joined(i - 1), Scope(q, i - 1), q.joins[i], data)
        rows == {row \in Joined(Len(q.joins)) : Passes(q.where, row)}
    IN  [from |-> q.from.has \ {"orderBy"}, limit |-> q.limit,
         rows |-> IF q.columns = "all" THEN rows
                  ELSE IF Passes(q.having, [group |-> rows]) THEN {rows} ELSE {}]

=============================================================================
