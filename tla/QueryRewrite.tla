---------------------------- MODULE QueryRewrite ----------------------------
(***************************************************************************)
(* Steps 4 and 5 of Sumak.compile, src/src/sumak.ts: a SELECT that the     *)
(* builder has put together is normalized and then optimized, under the    *)
(* options that the instance was made with.                                *)
(***************************************************************************)
EXTENDS SqlSemantics, RewriteRules

CONSTANTS
    Sources,            \* what FROM may be
    Joins,              \* the joins that a call may add, and
    Predicates,         \* the predicates that where() may add
    Conditions,         \* the conditions on groups that having() may set
    Options,            \* the options of the instance
    Databases,          \* the contents of the tables
    MaxCalls            \* bound on the calls of join(), where() and having()

VARIABLES
    options,
    built,              \* the query as the builder made it
    query,              \* the query as rewritten so far
    phase,              \* "build", "normalize", "optimize", "rules", "print"
    iterations

vars == <<options, built, query, phase, iterations>>

\* Rules given with optimizeQueries are overridden when there are none in
\* the option rules; when there are, they replace the built-in ones.
RulesOf(o) == IF o.rules = <<>> THEN BUILTIN_RULES ELSE o.optimizeRules \o o.rules

Calls ==
    Len(built.joins) + (IF built.where = Absent THEN 0 ELSE Len(FlattenByOp(built.where, "AND")))
        + (IF built.having = Absent THEN 0 ELSE 1)

Init ==
    /\ options \in Options
    /\ \E from \in Sources :
          built = [from |-> from, joins |-> <<>>, where |-> Absent, having |-> Absent, columns |-> "all", limit |-> "none"]
    /\ query = built
    /\ phase = "build"
    /\ iterations = 0

Build(q) ==
    /\ phase = "build" /\ Calls < MaxCalls
    /\ built' = q /\ query' = q
    /\ UNCHANGED <<options, phase, iterations>>

\* The node does not tell whether join(), where() or having() came first.
Join ==
    \E join \in Joins :
        /\ built.where = Absent /\ built.having = Absent
        /\ join.table.name \notin {built.from.name} \cup {built.joins[i].table.name : i \in DOMAIN built.joins}
        /\ Build([built EXCEPT !.joins = Append(@, join)])

\* A second where() is ANDed to the first.
Where ==
    \E pred \in Predicates :
        /\ built.having = Absent
        /\ Build([built EXCEPT !.where = IF @.type = "none" THEN pred ELSE Binary("AND", @, pred)])

\* Having is for a query of aggregates; a second having() replaces the first.
Having ==
    \E condition \in Conditions :
        /\ built.having = Absent
        /\ Build([built EXCEPT !.having = condition, !.columns = "aggregates"])

Compile ==
    /\ phase = "build" /\ Accepts(built)
    /\ phase' = "normalize"
    /\ UNCHANGED <<options, built, query, iterations>>

Normalize ==
    /\ phase = "normalize"
    /\ query' = IF options.normalize THEN NormalizeQuery(query) ELSE query
    /\ phase' = IF options.optimizeQueries THEN "optimize" ELSE "print"
    /\ UNCHANGED <<options, built, iterations>>

\* optimize() normalizes too, with the defaults.
Optimize ==
    /\ phase = "optimize"
    /\ query' = NormalizeQuery(query)
    /\ phase' = "rules"
    /\ UNCHANGED <<options, built, iterations>>

\* Predicate pushdown makes a new node whenever it matches, so the loop ends
\* early only when it does not.
Iterate ==
    LET next == ApplyRules(query, RulesOf(options))
        same == next = query /\ ~(/\ "predicate-pushdown" \in {RulesOf(options)[i] : i \in DOMAIN RulesOf(options)}
                                  /\ query.joins # <<>> /\ query.where.type # "none")
    IN  /\ phase = "rules"
        /\ IF same \/ iterations = MaxIterations
           THEN phase' = "print" /\ UNCHANGED <<query, iterations>>
           ELSE query' = next /\ iterations' = iterations + 1 /\ UNCHANGED phase
        /\ UNCHANGED <<options, built>>

Next == Join \/ Where \/ Having \/ Compile \/ Normalize \/ Optimize \/ Iterate

Spec == Init /\ [][Next]_vars

-----------------------------------------------------------------------------

Done == phase = "print"

RECURSIVE Optimized(_, _, _)
Optimized(q, rules, rounds) ==
    LET next == ApplyRules(q, rules)
    IN  IF rounds = 0 \/ next = q THEN q ELSE Optimized(next, rules, rounds - 1)

\* The whole of it at once.
Rewritten(q, o) ==
    LET normal == IF o.normalize \/ o.optimizeQueries THEN NormalizeQuery(q) ELSE q
    IN  IF o.optimizeQueries THEN Optimized(normal, RulesOf(o), MaxIterations) ELSE normal

SameAnswer(p, q) == Accepts(q) /\ \A data \in Databases : Answer(p, data) = Answer(q, data)

TypeOK ==
    /\ options \in Options
    /\ built.from \in Sources
    /\ phase \in {"build", "normalize", "optimize", "rules", "print"}
    /\ iterations \in 0 .. MaxIterations

(***************************************************************************)
(* The rewritings that change the answer, one line for each.               *)
(***************************************************************************)
Conjuncts(e) == LET parts == FlattenByOp(e, "AND") IN {parts[i] : i \in DOMAIN parts}

\* Two conditions that the fingerprint takes for one.
Collide ==
    \E clause \in {built.where, built.having} : \E p, q \in Conjuncts(clause) :
        p # q /\ Fingerprint(p, <<1>>) = Fingerprint(q, <<2>>)

\* A condition that pushdown moves to the i-th join, and must not.
Misplaced(pred, i) ==
    \/ built.joins[i].joinType = "CROSS"
    \/ \E k \in i + 1 .. Len(built.joins) : built.joins[k].joinType \in {"RIGHT", "FULL"}
    \/ ~(Reads(pred) \subseteq {built.from.alias} \cup {built.joins[k].table.alias : k \in 1 .. i})

MeaningLost ==
    \/ (options.normalize \/ options.optimizeQueries) /\ Collide
    \/ options.optimizeQueries /\ options.rules = <<>> /\ \E move \in Moves(NormalizeQuery(built)) :
            move[2] # 0 /\ Misplaced(move[1], move[2])
    \/ options.optimizeQueries /\ options.rules = <<>> /\ built.from.has # {} /\ built.from.has \subseteq {"lock", "orderBy"}

(***************************************************************************)
(* Rewriting keeps the answer: whatever is in the tables, the query that   *)
(* is printed returns what the query that was built returns, the named     *)
(* rewritings excepted.                                                    *)
(***************************************************************************)
KeepsAnswer ==
    Done /\ ~MeaningLost => SameAnswer([built EXCEPT !.limit = query.limit], query)

RECURSIVE Shape(_)
Shape(e) ==
    CASE e.type = "param" -> [e EXCEPT !.value = Null]
      [] e.type = "raw"   -> [e EXCEPT !.params = <<Null>>]
      [] OTHER            -> Recurse(e, Shape)

ShapeOf(q) ==
    [q EXCEPT !.where = Shape(@), !.having = Shape(@), !.joins = [i \in DOMAIN @ |-> [@[i] EXCEPT !.on = Shape(@)]]]

(***************************************************************************)
(* The SQL text is a function of the query's shape: the values of the      *)
(* parameters never decide what is kept of it, or one call site would emit *)
(* several texts and lose its prepared statement.                          *)
(***************************************************************************)
ValueIndependent ==
    Done => ShapeOf(query) = Rewritten(ShapeOf(built), options)

\* A condition that pushdown adds to an ON that has it already.
PushedTwice ==
    \E i \in DOMAIN query.joins :
        LET parts == FlattenByOp(query.joins[i].on, "AND")
        IN  \E j, k \in DOMAIN parts : j < k /\ Fingerprint(parts[j], <<j>>) = Fingerprint(parts[k], <<k>>)

(***************************************************************************)
(* The output is a normal form: compiling the rewritten query again        *)
(* changes nothing, so the caps on sweeps and iterations are never what    *)
(* ends the rewriting.  Pushdown runs after the last normalization, and    *)
(* what it duplicates stays.                                               *)
(***************************************************************************)
Settled ==
    Done /\ ~PushedTwice => Rewritten(query, options) = query

\* The parameters under an expression, and whether a constant can absorb them.
RECURSIVE Parameters(_)
Parameters(e) ==
    CASE e.type \in {"param", "raw"}     -> 1
      [] e.type = "binary_op"            -> Parameters(e.left) + Parameters(e.right)
      [] e.type = "unary_op"             -> Parameters(e.operand)
      [] e.type \in {"is_null", "in"}    -> Parameters(e.expr)
      [] e.type = "function_call"        -> Parameters(e.filter)
      [] OTHER                           -> 0

RECURSIVE HasConstant(_)
HasConstant(e) ==
    \/ e.type = "literal" /\ e.value[1] = "boolean"
    \/ e.type = "binary_op" /\ (HasConstant(e.left) \/ HasConstant(e.right))
    \/ e.type = "unary_op" /\ HasConstant(e.operand)

(***************************************************************************)
(* README.md, Normalization: "Parameters are never deduplicated, even when *)
(* two of them hold the same value."  Without a constant that absorbs its  *)
(* neighbours, normalizing keeps the number of parameters.                 *)
(***************************************************************************)
ParametersNeverDeduplicated ==
    phase = "rules" /\ iterations = 0 /\ ~HasConstant(built.where) =>
        Parameters(query.where) = Parameters(built.where)

=============================================================================
