------------------------------ MODULE SelectPrinter ------------------------------
(***************************************************************************)
(* How a SELECT tree becomes SQL text and an array of parameters, and how  *)
(* a server reads the two back.                                            *)
(*                                                                         *)
(* printExpression is impure: it returns text and pushes parameters on     *)
(* this.params.  PrintNode therefore takes the parameters pushed so far and    *)
(* returns [text, params].  The text is kept to what decides what is bound *)
(* and which rows come back: placeholders, tables, set operators, the      *)
(* parentheses around an operand, and ORDER BY ... LIMIT 1 as one word.    *)
(* A placeholder carries the index written into it (0 when the dialect     *)
(* writes a bare ?) and, for the properties, the value of its node.        *)
(***************************************************************************)
EXTENDS Integers, SequencesExt

CONSTANTS
    Tables,  \* tables that can be selected from
    Rows     \* the rows of each of them: [Tables -> SUBSET (Nat \ {0})]

Dialects == {"pg", "mysql", "sqlite", "mssql"}
SetOperators == {"UNION", "INTERSECT", "EXCEPT"}

----------------------------------------------------------------------------
(* Trees, and the builder calls that make them. *)

\* The value of a parameter is <<kind, payload>>: "num", "big" (a bigint),
\* "str", "tenant" or "slot" (a placeholder marker; the payload is its name).
Coerce(v) == IF v[1] = "big" THEN <<"str", v[2]>> ELSE v

Column == [type |-> "column_ref"]
Param(v) == [type |-> "param", value |-> v]
Binary(op, l, r) == [type |-> "binary_op", op |-> op, left |-> l, right |-> r]
In(e, vs) == [type |-> "in", expr |-> e, values |-> vs]
Raw(vs) == [type |-> "raw", params |-> vs]
InSelect(e, q) == [type |-> "in_select", expr |-> e, query |-> q]

SelectFrom(t) ==
    [type |-> "select", from |-> t, where |-> <<>>, paged |-> FALSE, setOp |-> <<>>]

\* where(): a second predicate is conjoined to the first.
AndWhere(n, e) ==
    [n EXCEPT !.where = IF @ = <<>> THEN <<e>> ELSE <<Binary("AND", @[1], e)>>]

\* appendSetOp: the new operation is hung on the last operand of the chain.
\* A mutant of it replaces the chain instead.
ReplaceSetOp(n, next) == [n EXCEPT !.setOp = <<next>>]

RECURSIVE AppendSetOp(_, _)
AppendSetOp(n, next) ==
    IF n.setOp = <<>>
    THEN [n EXCEPT !.setOp = <<next>>]
    ELSE [n EXCEPT !.setOp = <<[op |-> @[1].op, query |-> AppendSetOp(@[1].query, next)]>>]

SetOp(n, op, query) == AppendSetOp(n, [op |-> op, query |-> query])

----------------------------------------------------------------------------
(* Printing. *)

\* pg writes $1, $2, ... and mssql @p0, @p1, ...; mysql and sqlite write ?.
FormatParam(d, index, v) ==
    <<"placeholder", IF d \in {"mysql", "sqlite"} THEN 0 ELSE index, v>>

IsPlaceholderWord(w) == w[1] = "placeholder"

PrintParam(d, v, params) ==
    [text |-> <<FormatParam(d, Len(params) + 1, v)>>, params |-> Append(params, Coerce(v))]

\* A raw fragment writes its placeholders in the order of its own params, and
\* pushes them as they are.
PrintRaw(d, n, params) ==
    [text |-> [i \in DOMAIN n.params |-> FormatParam(d, Len(params) + i, n.params[i])],
     params |-> params \o n.params]

RECURSIVE PrintNode(_, _, _)

PrintEach(d, nodes, params) ==
    FoldLeft(LAMBDA acc, n :
                 LET r == PrintNode(d, n, acc.params)
                 IN  [texts |-> Append(acc.texts, r.text), params |-> r.params],
             [texts |-> <<>>, params |-> params], nodes)

\* The operands of a run of one operator, deepest left first.
RECURSIVE Operands(_, _)
Operands(op, n) ==
    IF n.type = "binary_op" /\ n.op = op
    THEN Append(Operands(op, n.left), n.right)
    ELSE <<n>>

\* A mutant of PrintChain: printed on the way down the spine, so that the
\* right-hand operands push their parameters first.
PrintChainDescending(d, n, params) ==
    LET r == PrintEach(d, Reverse(Operands(n.op, n)), params)
    IN  [text |-> FlattenSeq(Reverse(r.texts)), params |-> r.params]

PrintChain(d, n, params) ==
    LET r == PrintEach(d, Operands(n.op, n), params)
    IN  [text |-> FlattenSeq(r.texts), params |-> r.params]

\* IN with a list of parameters only: all of them are pushed before the tested
\* expression is printed, though the text has the expression first.
PrintIn(d, n, params) ==
    LET list == PrintEach(d, n.values, params)
        subject == PrintNode(d, n.expr, list.params)
        all == PrintEach(d, <<n.expr>> \o n.values, params)
    IN  IF \A i \in DOMAIN n.values : n.values[i].type = "param"
        THEN [text |-> subject.text \o FlattenSeq(list.texts), params |-> subject.params]
        ELSE [text |-> FlattenSeq(all.texts), params |-> all.params]

\* The right operand of a set operation is put in parentheses when it carries
\* its own ORDER BY, LIMIT or OFFSET.  ORDER BY and LIMIT of the receiver come
\* after the last operand.
PrintSelect(d, n, params) ==
    LET where == PrintEach(d, n.where, params)
        inner == PrintNode(d, n.setOp[1].query, where.params)
        operand == IF n.setOp[1].query.paged
                   THEN << <<"(">> >> \o inner.text \o << <<")">> >>
                   ELSE inner.text
        page == IF n.paged THEN << <<"page">> >> ELSE <<>>
        arm == << <<"table", n.from>> >> \o FlattenSeq(where.texts)
    IN  IF n.setOp = <<>>
        THEN [text |-> arm \o page, params |-> where.params]
        ELSE [text |-> arm \o << <<"op", n.setOp[1].op>> >> \o operand \o page,
              params |-> inner.params]

PrintNode(d, n, params) ==
    CASE n.type = "column_ref" -> [text |-> <<>>, params |-> params]
      [] n.type = "param" -> PrintParam(d, n.value, params)
      [] n.type = "raw" -> PrintRaw(d, n, params)
      [] n.type = "binary_op" -> PrintChain(d, n, params)
      [] n.type = "in" -> PrintIn(d, n, params)
      [] n.type = "in_select" ->
             LET r == PrintEach(d, <<n.expr, n.query>>, params)
             IN  [text |-> SelectSeq(FlattenSeq(r.texts), IsPlaceholderWord),
                  params |-> r.params]
      [] n.type = "select" -> PrintSelect(d, n, params)

----------------------------------------------------------------------------
(* What the server makes of it: the value of every placeholder ... *)

\* The values the placeholders of a text are bound to, in order of the text:
\* by the number written in them, or by their position.
BoundValues(text, params) ==
    LET marks == SelectSeq(text, IsPlaceholderWord)
    IN  [k \in DOMAIN marks |-> params[IF marks[k][2] = 0 THEN k ELSE marks[k][2]]]

\* The values of the nodes those placeholders stand for.
MeantValues(text) ==
    LET marks == SelectSeq(text, IsPlaceholderWord)
    IN  [k \in DOMAIN marks |-> Coerce(marks[k][3])]

----------------------------------------------------------------------------
(* ... and the rows of a chain of set operations. *)

Refused == {0}   \* a statement the server's grammar does not have

First(rows) == {r \in rows : \A s \in rows : r <= s}

Apply(op, left, right) ==
    CASE op = "UNION" -> left \cup right
      [] op = "INTERSECT" -> left \cap right
      [] op = "EXCEPT" -> left \ right

\* INTERSECT binds tighter than UNION and EXCEPT, except on SQLite, where all
\* of them associate to the left.
RECURSIVE Associate(_, _, _)
Associate(d, operands, ops) ==
    IF ops = <<>> THEN operands[1]
    ELSE LET tight == {i \in DOMAIN ops : ops[i] = "INTERSECT" /\ d # "sqlite"}
             i == IF tight = {} THEN 1 ELSE CHOOSE j \in tight : \A k \in tight : j <= k
         IN  Associate(d,
                 RemoveAt([operands EXCEPT ![i] = Apply(ops[i], @, operands[i + 1])], i + 1),
                 RemoveAt(ops, i))

\* Reads operands and operators up to a ")" or the end.
RECURSIVE Read(_, _, _, _)
Read(d, words, operands, ops) ==
    IF words = <<>> \/ Head(words)[1] = ")"
    THEN [rows |-> Associate(d, operands, ops), rest |-> words]
    ELSE LET w == Head(words)
         IN  CASE w[1] = "table" -> Read(d, Tail(words), Append(operands, Rows[w[2]]), ops)
               [] w[1] = "op" -> Read(d, Tail(words), operands, Append(ops, w[2]))
               [] w[1] = "page" ->
                      Read(d, Tail(words), <<First(Associate(d, operands, ops))>>, <<>>)
               [] w[1] = "(" ->
                      LET q == Read(d, Tail(words), <<>>, <<>>)
                      IN  Read(d, Tail(q.rest), Append(operands, q.rows), ops)

\* A word inside parentheses.
Enclosed(text, k) ==
    Cardinality({i \in 1 .. k : text[i] = <<"(">>}) > Cardinality({i \in 1 .. k : text[i] = <<")">>})

\* SQLite has no parentheses around an operand of a compound SELECT; SQL Server
\* has them, and no ORDER BY inside: only the whole of a set operation has one.
Grammatical(d, text) ==
    CASE d = "sqlite" -> <<"(">> \notin ToSet(text)
      [] d = "mssql"  -> ~ \E k \in DOMAIN text : text[k] = <<"page">> /\ Enclosed(text, k)
      [] OTHER        -> TRUE

Answer(d, text) ==
    IF ~Grammatical(d, text)
    THEN Refused
    ELSE Read(d, SelectSeq(text, LAMBDA w : ~IsPlaceholderWord(w)), <<>>, <<>>).rows

=============================================================================
