------------------------------- MODULE Walker -------------------------------
(***************************************************************************)
(* The slots of a statement from which a SELECT can hang, and those that   *)
(* ASTWalker (src/src/ast/walker.ts) descends into.  In a slot that takes  *)
(* an expression the SELECT may be wrapped in an expression; a field of    *)
(* that expression is named if not all fields are visited.                 *)
(***************************************************************************)

Expressions ==
    [select |-> {"distinctOn", "columns", "fromValues", "joinOn", "where", "groupBy", "having", "orderBy", "limit",
                 "offset", "windows"},
     insert |-> {"values", "returning", "onConflict.set", "onConflict.where", "onDuplicateKeyUpdate"},
     update |-> {"set", "joinOn", "where", "returning", "orderBy", "limit"},
     delete |-> {"joinOn", "where", "returning", "orderBy", "limit"},
     merge  |-> {"on", "whens.condition", "whens.set", "whens.values", "returning"},
     explain |-> {}, create_view |-> {}]

Statements ==
    [select |-> {"fromSubquery", "joinTable", "ctes", "setOp"}, insert |-> {"ctes", "source"}, update |-> {"ctes"},
     delete |-> {"ctes"}, merge |-> {"ctes", "usingSubquery"}, explain |-> {"statement"},
     create_view |-> {"asSelect"}]

\* Slots and fields that no visit method descends into.
Unvisited == {"joinValues", "fromGraphTable", "temporal"}

\* Mutant: set operations and the sources of INSERT are forgotten.
Forgotten == {"setOp", "source"}

Fields == {"operand", "args", "filter", "partitionBy", "function.orderBy", "withinGroup"}

SlotsOf(type) ==
    Expressions[type] \cup Statements[type]
        \cup IF type = "select" THEN Unvisited ELSE IF type \in {"update", "delete"} THEN {"joinTable"} ELSE {}

TakesExpression(slot) == slot \in Unvisited \cup UNION {Expressions[t] : t \in DOMAIN Expressions}

\* Mutant.
VisitsLess(slot, field) == slot \notin Unvisited \cup Forgotten /\ field \notin {"function.orderBy", "withinGroup"}

Visits(slot, field) == slot \notin Unvisited /\ field \notin {"function.orderBy", "withinGroup"}

=============================================================================
