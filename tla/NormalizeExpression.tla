------------------------ MODULE NormalizeExpression ------------------------
(***************************************************************************)
(* normalizeExpression of src/src/normalize/expression.ts: five passes     *)
(* over an expression, repeated until nothing changes.  The node types are *)
(* those whose treatment differs; the others only pass the visit on.       *)
(***************************************************************************)
EXTENDS Integers, Sequences
LOCAL INSTANCE SequencesExt

Literal(value) == [type |-> "literal", value |-> value]
Binary(op, left, right) == [type |-> "binary_op", op |-> op, left |-> left, right |-> right]
Not(e) == [type |-> "unary_op", op |-> "NOT", operand |-> e]

LOCAL True  == Literal(<<"boolean", 1>>)
LOCAL False == Literal(<<"boolean", 0>>)
LOCAL IsNumber(e) == e.type = "literal" /\ e.value[1] = "number"
LOCAL IsOp(e, op) == e.type = "binary_op" /\ e.op = op

\* AND of a sequence of parts, or OR, leaning to the left.
Chain(op, parts) == FoldLeft(LAMBDA l, r : Binary(op, l, r), Head(parts), Tail(parts))

RECURSIVE FlattenByOp(_, _)
FlattenByOp(e, op) ==
    IF IsOp(e, op) THEN FlattenByOp(e.left, op) \o FlattenByOp(e.right, op) ELSE <<e>>

\* The fields that a pass goes on to, subqueries excepted.
Children(e) ==
    CASE e.type = "binary_op" -> {"left", "right"}
      [] e.type = "unary_op"  -> {"operand"}
      [] e.type \in {"is_null", "in"} -> {"expr"}
      [] e.type = "function_call" -> {"filter"}
      [] OTHER -> {}

Recurse(e, Transform(_)) ==
    [f \in DOMAIN e |-> IF f \in Children(e) THEN Transform(e[f]) ELSE e[f]]

RECURSIVE SimplifyNegation(_)
SimplifyNegation(e) ==
    IF e.type # "unary_op" THEN Recurse(e, SimplifyNegation)
    ELSE LET inner == SimplifyNegation(e.operand)
         IN  CASE inner.type = "unary_op" -> inner.operand
               [] inner = True            -> False
               [] inner = False           -> True
               [] inner.type = "is_null"  -> [inner EXCEPT !.negated = ~@]
               [] OTHER                   -> Not(inner)

Flip(op) == CASE op = "<" -> ">" [] op = ">" -> "<" [] OTHER -> op

RECURSIVE FoldConstants(_)
FoldConstants(e) ==
    IF e.type # "binary_op" THEN Recurse(e, FoldConstants)
    ELSE LET left  == FoldConstants(e.left)
             right == FoldConstants(e.right)
         IN  CASE IsNumber(left) /\ IsNumber(right) /\ e.op = "+" ->
                    Literal(<<"number", left.value[2] + right.value[2]>>)
               [] e.op \in {"=", "<", ">"} /\ left.type = "literal" /\ right.type # "literal" ->
                    Binary(Flip(e.op), right, left)
               [] OTHER -> Binary(e.op, left, right)

RECURSIVE SimplifyTautologies(_)
SimplifyTautologies(e) ==
    IF e.type # "binary_op" THEN Recurse(e, SimplifyTautologies)
    ELSE LET left    == SimplifyTautologies(e.left)
             right   == SimplifyTautologies(e.right)
             neutral == IF e.op = "AND" THEN True ELSE False
             absorbs == IF e.op = "AND" THEN False ELSE True
         IN  CASE e.op \notin {"AND", "OR"}   -> Binary(e.op, left, right)
               [] e.op = "OR" /\ absorbs \in {left, right} -> absorbs
               [] left = neutral              -> right
               [] right = neutral             -> left
               [] absorbs \in {left, right}   -> absorbs
               [] OTHER                       -> Binary(e.op, left, right)

RECURSIVE FlattenLogical(_)
FlattenLogical(e) ==
    IF IsOp(e, "AND") \/ IsOp(e, "OR")
    THEN LET parts == FlattenByOp(e, e.op)
         IN  Chain(e.op, [i \in DOMAIN parts |-> FlattenLogical(parts[i])])
    ELSE Recurse(e, FlattenLogical)

\* String() of a literal's value: a string literal is <<"string", v>> for the
\* value v that it spells, so that 1 and '1' have one text, null and 'null' too.
LOCAL Text(value) == IF value[1] = "string" THEN value[2] ELSE value

\* The text by which two expressions are told apart.  Every parameter gets a
\* stamp of its own; of a subquery only the outline is in it, of IN's not
\* even that, of a raw fragment only the SQL, and of a function not the FILTER.
RECURSIVE Fingerprint(_, _)
Fingerprint(e, stamp) ==
    CASE e.type = "column_ref" -> <<"col", e.table, e.column>>
      [] e.type = "literal"    -> <<"lit", Text(e.value)>>
      [] e.type = "param"      -> <<"param", stamp>>
      [] e.type = "binary_op"  -> <<"bin", e.op, Fingerprint(e.left, Append(stamp, 1)), Fingerprint(e.right, Append(stamp, 2))>>
      [] e.type = "unary_op"   -> <<"un", e.op, Fingerprint(e.operand, stamp)>>
      [] e.type = "is_null"    -> <<"isnull", e.negated, Fingerprint(e.expr, stamp)>>
      [] e.type = "in"         -> <<"in", e.negated, Fingerprint(e.expr, stamp), "subq">>
      [] e.type = "function_call" -> <<"fn", e.name>>
      [] e.type = "exists"     -> <<"exists", e.negated, e.query.outline>>
      [] e.type = "raw"        -> <<"raw", e.sql>>

\* Keeps the first of the parts that Same makes one.
LOCAL Deduplicate(e, Same(_, _, _)) ==
    LET parts  == FlattenByOp(e, "AND")
        kept   == SelectSeq([i \in DOMAIN parts |-> i], LAMBDA i : \A k \in 1 .. i - 1 : ~Same(parts, k, i))
    IN  IF ~IsOp(e, "AND") \/ Len(kept) = Len(parts) THEN e
        ELSE Chain("AND", [i \in DOMAIN kept |-> parts[kept[i]]])

\* Mutant: a parameter is told apart by its value.
DeduplicateByValue(e) == Deduplicate(e, LAMBDA parts, k, i : parts[k] = parts[i])

\* Mutant: a parameter is not told apart at all.
DeduplicateByArity(e) ==
    Deduplicate(e, LAMBDA parts, k, i : Fingerprint(parts[k], <<>>) = Fingerprint(parts[i], <<>>))

DeduplicatePredicates(e) ==
    Deduplicate(e, LAMBDA parts, k, i : Fingerprint(parts[k], <<k>>) = Fingerprint(parts[i], <<i>>))

Sweep(e) ==
    DeduplicatePredicates(FlattenLogical(SimplifyTautologies(FoldConstants(SimplifyNegation(e)))))

\* Mutant.
SinglePass == 1

NORMALIZE_FIXPOINT_PASSES == 6

RECURSIVE Sweeps(_, _)
Sweeps(e, passes) ==
    LET swept == Sweep(e)
    IN  IF passes = 0 \/ swept = e THEN e ELSE Sweeps(swept, passes - 1)

NormalizeExpression(e) == Sweeps(e, NORMALIZE_FIXPOINT_PASSES)

=============================================================================
