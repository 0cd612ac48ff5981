---------------------------- MODULE CompiledQueries ----------------------------
(***************************************************************************)
(* The life of a SELECT in one Sumak instance: builder calls make a tree,  *)
(* compile() takes it through the tenant plugin and the hooks and prints   *)
(* it, and toCompiled() keeps the result as a function of its placeholders *)
(* which is called again and again afterwards.  What the hooks do is       *)
(* Hooks: each step of theirs is a step of that module.                    *)
(***************************************************************************)
EXTENDS SelectPrinter, Hooks

CONSTANTS
    Tenants,      \* what the tenantId callback may return
    Predicates,   \* the arguments where() is given
    Arguments,    \* the objects a compiled query is called with: [name -> value]
    Base,         \* the table the first builder selects from
    Budgets       \* bounds of a behaviour: a set of <<builds, hookings, uses>>

VARIABLES
    dialect,    \* the instance's dialect
    tenant,     \* what the tenantId callback would return now
    main,       \* the builder at hand: [node, calls]
    saved,      \* another builder, kept to be an operand: <<>> or <<builder>>
    product,    \* what compile() has so far: [node, text, params]
    compiled,   \* the compiled query: <<>> or <<record>>
    last,       \* the CompiledQuery it returned last: <<>> or <<record>>
    spent       \* how many builder calls, calls of hook() and of what edits it,
                \* and uses of the compiled query there were so far

builders == <<dialect, tenant, main, saved>>
pipeline == <<product, compiled, last>>
vars == <<builders, spent, pipeline, hookVars>>

\* Spends one of the i-th bound, if some budget has it left.
Spend(i) ==
    /\ spent' = [spent EXCEPT ![i] = @ + 1]
    /\ \E budget \in Budgets : \A j \in DOMAIN budget : spent'[j] <= budget[j]

----------------------------------------------------------------------------
(* Building.  calls is the tree of the calls that were made, which the     *)
(* properties compare the tree of nodes with.                              *)

\* The paging of the builder a set operation is called on is that of the
\* combined answer, whether it was asked for before the operation or after.
CallsFrom(t) == [kind |-> "from", table |-> t, paged |-> FALSE]
CallsSetOp(left, op, right) ==
    [kind |-> "setOp", op |-> op, left |-> [left EXCEPT !.paged = FALSE],
     right |-> right, paged |-> left.paged]

From(t) == [node |-> SelectFrom(t), calls |-> CallsFrom(t)]
Paged(b) == [node |-> [b.node EXCEPT !.paged = TRUE],
             calls |-> [b.calls EXCEPT !.paged = TRUE]]

Building == stage = "building" /\ Spend(1)

Where(e) ==
    /\ Building
    /\ main' = [main EXCEPT !.node = AndWhere(@, e)]
    /\ UNCHANGED <<dialect, tenant, saved, pipeline, hookVars>>

OrderByLimit ==
    /\ Building
    /\ ~main.node.paged
    /\ main' = Paged(main)
    /\ UNCHANGED <<dialect, tenant, saved, pipeline, hookVars>>

\* union(), intersect(), except(): the operand is a table or the kept builder.
Combine(op, other) ==
    /\ Building
    /\ main' = [node |-> SetOp(main.node, op, other.node),
                calls |-> CallsSetOp(main.calls, op, other.calls)]
    /\ UNCHANGED <<dialect, tenant, saved, pipeline, hookVars>>

\* The program keeps the builder and starts another one.
Keep(t) ==
    /\ Building
    /\ saved = <<>>
    /\ saved' = <<main>>
    /\ main' = From(t)
    /\ UNCHANGED <<dialect, tenant, pipeline, hookVars>>

----------------------------------------------------------------------------
(* Hooks, within the bounds.  Handlers are registered before the query is    *)
(* compiled, and by handlers.                                                *)

RegisterHandler(name, h) ==
    /\ stage = "building"
    /\ Register(name, h)
    /\ Spend(2)
    /\ UNCHANGED <<builders, pipeline>>

RunHandler(edit, speaks) ==
    /\ CallHandler(edit, speaks)
    /\ IF edit[1] = "none" THEN UNCHANGED spent ELSE Spend(2)
    /\ UNCHANGED <<builders, pipeline>>

----------------------------------------------------------------------------
(* compile(). *)

\* The tenant plugin, on the SELECT, on the operands of its set operation and
\* on the subqueries of its predicates: what the callback returns is a parameter
\* of the tree.
RECURSIVE AddTenant(_, _)
AddTenant(n, t) ==
    CASE n.type = "select" ->
             LET inside == [n EXCEPT !.where = [i \in DOMAIN @ |-> AddTenant(@[i], t)],
                                     !.setOp = [i \in DOMAIN @ |->
                                         [op |-> @[i].op, query |-> AddTenant(@[i].query, t)]]]
             IN  AndWhere(inside, Binary("=", Column, Param(<<"tenant", t>>)))
      [] n.type = "binary_op" -> Binary(n.op, AddTenant(n.left, t), AddTenant(n.right, t))
      [] n.type = "in_select" -> InSelect(n.expr, AddTenant(n.query, t))
      [] OTHER -> n

\* Layers 1 and 2: the plugins, then select:before.
BeginCompile ==
    /\ FirstHook
    /\ product' = [node |-> AddTenant(main.node, tenant), text |-> <<>>, params |-> <<>>]
    /\ UNCHANGED <<builders, spent, compiled, last>>

SelectBeforeDone ==
    /\ HookAfter("select:before", "query:before")
    /\ UNCHANGED <<builders, spent, pipeline>>

\* Layer 6, and layer 7 begins: the tree is printed and query:after is called.
Printed ==
    /\ HookAfter("query:before", "query:after")
    /\ LET r == PrintNode(dialect, product.node, <<>>)
       IN  product' = [product EXCEPT !.text = r.text, !.params = r.params]
    /\ UNCHANGED <<builders, spent, compiled, last>>

IsSlot(v) == v[1] = "slot"
Slots(params) == {i \in DOMAIN params : IsSlot(params[i])}

\* compileQuery(): the positions of the placeholders, and the other values.
\* tenant and written are kept for the properties.
Compiled(q) ==
    [names |-> [i \in Slots(q.params) |-> q.params[i][2]],
     baseParams |-> [i \in DOMAIN q.params |->
                         IF IsSlot(q.params[i]) THEN <<"undefined">> ELSE q.params[i]],
     tenant |-> tenant,
     written |-> FALSE]

CompileDone ==
    /\ LastHook
    /\ compiled' = <<Compiled(product)>>
    /\ UNCHANGED <<builders, spent, product, last>>

----------------------------------------------------------------------------
(* Using the compiled query. *)

Using == stage = "ready" /\ Spend(3)

Fill(c, args) ==
    [i \in DOMAIN c.baseParams |->
        IF i \in DOMAIN c.names THEN Coerce(args[c.names[i]]) ELSE c.baseParams[i]]

\* A mutant of Bind: the values are written into the function's own array.
BindInPlace(c, args) ==
    [params |-> Fill(c, args), shared |-> TRUE, base |-> Fill(c, args)]

\* bind(): without placeholders the array itself is returned; otherwise the
\* values are written into a new one.  shared: the array is the function's own.
Bind(c, args) ==
    [params |-> Fill(c, args), shared |-> DOMAIN c.names = {}, base |-> c.baseParams]

Call(args) ==
    /\ Using
    /\ LET b == Bind(compiled[1], args)
       IN  /\ last' = <<[params |-> b.params, shared |-> b.shared, args |-> args,
                         fresh |-> TRUE]>>
           /\ compiled' = <<[compiled[1] EXCEPT !.baseParams = b.base]>>
    /\ UNCHANGED <<builders, product, hookVars>>

\* Whoever holds the returned query, a handler or a driver, writes into its params.
WriteParams ==
    /\ Using
    /\ last # <<>> /\ last[1].fresh
    /\ \E i \in DOMAIN last[1].params :
       LET written == [last[1].params EXCEPT ![i] = <<"str", "written">>]
       IN  /\ last' = <<[last[1] EXCEPT !.params = written, !.fresh = FALSE]>>
           /\ compiled' = IF last[1].shared
                          THEN <<[compiled[1] EXCEPT !.baseParams = written, !.written = TRUE]>>
                          ELSE compiled
    /\ UNCHANGED <<builders, product, hookVars>>

\* The next request: the callback of the tenant plugin would answer t, and the
\* queries of the last one are gone.
SwitchTenant(t) ==
    /\ Using
    /\ t # tenant
    /\ tenant' = t
    /\ last' = <<>>
    /\ UNCHANGED <<dialect, main, saved, product, compiled, hookVars>>

\* transformResult(): the rows of a call go through result:transform.
Receive ==
    /\ Using
    /\ last # <<>>
    /\ TransformHook
    /\ UNCHANGED <<builders, pipeline>>

ReceiveDone ==
    /\ TransformDone
    /\ UNCHANGED <<builders, spent, pipeline>>

----------------------------------------------------------------------------

Init ==
    /\ dialect \in Dialects
    /\ tenant \in Tenants
    /\ main = From(Base)
    /\ saved = <<>>
    /\ HookInit
    /\ product = [node |-> <<>>, text |-> <<>>, params |-> <<>>]
    /\ compiled = <<>>
    /\ last = <<>>
    /\ spent = <<0, 0, 0>>

Operand == {From(t) : t \in Tables} \cup {Paged(From(t)) : t \in Tables} \cup ToSet(saved)

Next ==
    \/ \E e \in Predicates : Where(e)
    \/ OrderByLimit
    \/ \E op \in SetOperators, other \in Operand : Combine(op, other)
    \/ \E t \in Tables : Keep(t)
    \/ \E name \in HookNames, h \in Handlers : RegisterHandler(name, h)
    \/ BeginCompile
    \/ \E edit \in HookEdits, speaks \in BOOLEAN : RunHandler(edit, speaks)
    \/ SelectBeforeDone
    \/ Printed
    \/ CompileDone
    \/ \E args \in Arguments : Call(args)
    \/ WriteParams
    \/ \E t \in Tenants : SwitchTenant(t)
    \/ Receive
    \/ ReceiveDone

Spec == Init /\ [][Next]_vars

----------------------------------------------------------------------------
(* Properties: exceptions first, each named after what the code does. *)

RECURSIVE Nodes(_)
Nodes(n) ==
    {n} \cup
    CASE n.type = "binary_op" -> Nodes(n.left) \cup Nodes(n.right)
      [] n.type = "in" -> Nodes(n.expr) \cup UNION {Nodes(v) : v \in ToSet(n.values)}
      [] n.type = "in_select" -> Nodes(n.expr) \cup Nodes(n.query)
      [] n.type = "select" ->
             UNION {Nodes(e) : e \in ToSet(n.where)}
             \cup UNION {Nodes(o.query) : o \in ToSet(n.setOp)}
      [] OTHER -> {}

HasParams(n) == \E m \in Nodes(n) : m.type \in {"param", "raw"}

\* The list of an IN is pushed before the expression it is tested against,
\* which shows where the placeholders carry no number.
ListBeforeSubject(d, n) ==
    /\ d \in {"mysql", "sqlite"}
    /\ \E m \in Nodes(n) :
          /\ m.type = "in" /\ HasParams(m.expr)
          /\ \A v \in ToSet(m.values) : v.type = "param"

\* printRaw() pushes the values of a fragment without coerceParamValue().
RawUncoerced(n) ==
    \E m \in Nodes(n) : m.type = "raw" /\ \E v \in ToSet(m.params) : v[1] = "big"

\* PlaceholdersBind: for every query the builder calls can make, the server
\* binds each placeholder to the value of the node it stands for, in the form
\* the drivers accept.  printExpression() numbers parameters by the order in
\* which it reaches them, so every printer has to reach them in the order of
\* the text (the comment in printBinaryOp, printer/base.ts:541).
PlaceholdersBind ==
    stage = "query:after" =>
        LET bound == BoundValues(product.text, product.params)
            meant == MeantValues(product.text)
        IN  \/ bound = meant
            \/ RawUncoerced(product.node) /\ [k \in DOMAIN bound |-> Coerce(bound[k])] = meant
            \/ ListBeforeSubject(dialect, product.node)

RECURSIVE Meaning(_)
Meaning(c) ==
    LET rows == IF c.kind = "from" THEN Rows[c.table]
                ELSE Apply(c.op, Meaning(c.left), Meaning(c.right))
    IN  IF c.paged THEN First(rows) ELSE rows

RECURSIVE Operations(_)
Operations(c) ==
    IF c.kind = "from" THEN {}
    ELSE {c} \cup Operations(c.left) \cup Operations(c.right)

\* An operand that is a chain itself is printed without parentheses.
ChainOperand(c) ==
    \E o \in Operations(c) :
        /\ o.right.kind = "setOp" /\ ~o.right.paged
        /\ ~ \E op \in {"UNION", "INTERSECT"} : \A p \in Operations(c) : p.op = op

\* INTERSECT called on a UNION or an EXCEPT binds to the last operand only.
IntersectLast(d, c) ==
    /\ d # "sqlite"
    /\ \E o \in Operations(c) :
          o.op = "INTERSECT" /\ \E p \in Operations(o.left) : p.op # "INTERSECT"

\* An operation appended to a paged operand ends up inside its parentheses.
AppendedToPage(c) ==
    \E o \in Operations(c) : \E p \in Operations(o.left) : p.right.paged

\* SQLite does not have the parentheses a paged operand is printed in, and SQL
\* Server has no ORDER BY inside them.
PagedOperand(d, c) ==
    d \in {"sqlite", "mssql"} /\ \E o \in Operations(c) : o.right.paged

\* SetOpsAssociate: the rows of a printed chain of set operations are those of
\* the calls, each applied to the whole of what was built before it, though
\* the chain is kept as a list that nests to the right
\* (appendSetOp, builder/select.ts: "Preserves the left-associative chain order").
SetOpsAssociate ==
    stage = "query:after" =>
        \/ ChainOperand(main.calls)
        \/ IntersectLast(dialect, main.calls)
        \/ AppendedToPage(main.calls)
        \/ PagedOperand(dialect, main.calls)
        \/ Answer(dialect, product.text) = Meaning(main.calls)

\* Without placeholders every call returns the one array: what was written into
\* it stays there for the calls that follow.
SharedArray == DOMAIN compiled[1].names = {} /\ compiled[1].written

\* The tree with the values of the arguments in place of the placeholders.
RECURSIVE Substitute(_, _)
Substitute(n, args) ==
    CASE n.type = "param" ->
             IF IsSlot(n.value) THEN Param(args[n.value[2]]) ELSE n
      [] n.type = "raw" ->
             Raw([i \in DOMAIN n.params |->
                     IF IsSlot(n.params[i]) THEN args[n.params[i][2]] ELSE n.params[i]])
      [] n.type = "binary_op" ->
             Binary(n.op, Substitute(n.left, args), Substitute(n.right, args))
      [] n.type = "in" ->
             In(Substitute(n.expr, args), [i \in DOMAIN n.values |-> Substitute(n.values[i], args)])
      [] n.type = "in_select" ->
             InSelect(Substitute(n.expr, args), Substitute(n.query, args))
      [] n.type = "select" ->
             [n EXCEPT !.where = [i \in DOMAIN @ |-> Substitute(@[i], args)],
                       !.setOp = [i \in DOMAIN @ |->
                                     [op |-> @[i].op, query |-> Substitute(@[i].query, args)]]]
      [] OTHER -> n

\* The tenant is a value of the tree, asked for once: by compile().  Calls for
\* another tenant carry the one of toCompiled(), though README.md:1609 says
\* that the callback is "called per query".
TenantBaked == compiled[1].tenant # tenant

\* CallsAgree: whatever calls went before, a call of a compiled query returns
\* the parameters that compiling the query with its arguments now would give
\* (test/builder/compiled-coercion.test.ts:32 "agrees with the uncompiled path").
CallsAgree ==
    last # <<>> /\ last[1].fresh =>
        LET direct == Substitute(AddTenant(main.node, tenant), last[1].args)
        IN  \/ SharedArray
            \/ RawUncoerced(direct)
            \/ TenantBaked
            \/ last[1].params = PrintNode(dialect, direct, <<>>).params

=============================================================================
