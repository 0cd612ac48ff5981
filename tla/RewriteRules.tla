---------------------------- MODULE RewriteRules ----------------------------
(***************************************************************************)
(* The rewrite rules of src/src/optimize/rules.ts, the loop that applies   *)
(* them (optimizer.ts) and normalizeQuery of src/src/normalize/query.ts,   *)
(* over SELECTs of tables joined one after the other.  A clause that is    *)
(* undefined is the node Absent.                                           *)
(***************************************************************************)
EXTENDS NormalizeExpression
LOCAL INSTANCE SequencesExt

Absent == [type |-> "none"]

LOCAL NormalizeClause(e) == IF e.type = "none" THEN e ELSE NormalizeExpression(e)

LOCAL UnlessTrue(e) == IF e = Literal(<<"boolean", 1>>) THEN Absent ELSE e

\* normalizeSelect; what the model leaves out, set operations and CTEs, goes
\* through the same function.
NormalizeQuery(q) ==
    [q EXCEPT !.where = UnlessTrue(NormalizeClause(@)),
              !.having = UnlessTrue(NormalizeClause(@)),
              !.joins = [i \in DOMAIN @ |-> [@[i] EXCEPT !.on = NormalizeClause(@)]]]

\* The table names and aliases that qualify the columns of an expression.
\* Unqualified columns, raw SQL and subqueries contribute none.
RECURSIVE ExtractTableRefs(_)
ExtractTableRefs(e) ==
    CASE e.type = "column_ref" -> IF e.table = "" THEN {} ELSE {e.table}
      [] e.type = "binary_op"  -> ExtractTableRefs(e.left) \cup ExtractTableRefs(e.right)
      [] e.type = "unary_op"   -> ExtractTableRefs(e.operand)
      [] e.type \in {"is_null", "in"} -> ExtractTableRefs(e.expr)
      [] OTHER -> {}

\* The join a conjunct of WHERE is moved to, or 0.
LOCAL Target(q, pred) ==
    LET fits == {i \in DOMAIN q.joins : /\ q.joins[i].joinType \in {"INNER", "CROSS"}
                                        /\ ExtractTableRefs(pred) = {q.joins[i].table.alias}}
    IN  IF fits = {} THEN 0 ELSE CHOOSE i \in fits : \A k \in fits : i <= k

\* The moves that predicate pushdown makes: <<conjunct, join>>.
Moves(q) ==
    LET parts == FlattenByOp(q.where, "AND")
    IN  IF q.where.type = "none" THEN {} ELSE {<<pred, Target(q, pred)>> : pred \in {parts[i] : i \in DOMAIN parts}}

\* WHERE without what Into sends to a join, ON with it.
LOCAL Push(q, Into(_, _)) ==
    LET parts     == FlattenByOp(q.where, "AND")
        Pushed(i) == SelectSeq(parts, LAMBDA p : Into(q, p) = i)
        With(i)   == (IF q.joins[i].on.type = "none" THEN <<>> ELSE <<q.joins[i].on>>) \o Pushed(i)
    IN  [q EXCEPT !.where = IF Pushed(0) = <<>> THEN Absent ELSE Chain("AND", Pushed(0)),
                  !.joins = [i \in DOMAIN @ |->
                                [@[i] EXCEPT !.on = IF With(i) = <<>> THEN Absent ELSE Chain("AND", With(i))]]]

\* Mutant: outer joins are not told apart.
PushIntoEveryJoin(q) ==
    IF q.joins = <<>> \/ q.where.type = "none" THEN q
    ELSE Push(q, LAMBDA query, p : IF ExtractTableRefs(p) = {query.joins[1].table.alias} THEN 1 ELSE 0)

PredicatePushdown(q) ==
    IF q.joins = <<>> \/ q.where.type = "none" THEN q ELSE Push(q, Target)

\* What else an inner SELECT may have, and what keeps it from being flattened.
Wrapped == {"where", "having", "groupBy", "limit", "offset", "setOp", "ctes", "distinct", "joins", "columns",
            "orderBy", "lock"}

LOCAL Blocking == Wrapped \ {"orderBy", "lock"}

LOCAL Flattens(q) == q.from.type = "subquery" /\ q.from.has \cap Blocking = {}

LOCAL Unwrap(from) == [from EXCEPT !.type = "table_ref", !.has = {}]

\* Mutant: the alias of the subquery is lost.
FlattenWithoutAlias(q) == IF Flattens(q) THEN [q EXCEPT !.from = [Unwrap(@) EXCEPT !.alias = q.from.name]] ELSE q

SubqueryFlattening(q) == IF Flattens(q) THEN [q EXCEPT !.from = Unwrap(@)] ELSE q

RemoveWhereTrue(q) == [q EXCEPT !.where = UnlessTrue(@)]

\* A rule of the user's, as the README has it.
DefaultLimit(q) == IF q.limit = "none" THEN [q EXCEPT !.limit = "1000"] ELSE q

BUILTIN_RULES == <<"predicate-pushdown", "subquery-flattening", "remove-where-true">>

ApplyRule(rule, q) ==
    CASE rule = "predicate-pushdown"  -> PredicatePushdown(q)
      [] rule = "subquery-flattening" -> SubqueryFlattening(q)
      [] rule = "remove-where-true"   -> RemoveWhereTrue(q)
      [] rule = "default-limit"       -> DefaultLimit(q)

\* Every rule once, in order.
ApplyRules(q, rules) == FoldLeft(LAMBDA x, rule : ApplyRule(rule, x), q, rules)

MaxIterations == 10

=============================================================================
