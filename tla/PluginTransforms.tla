-------------------------- MODULE PluginTransforms --------------------------
(***************************************************************************)
(* transformNode of the plugins of src/src/plugin that rewrite statements. *)
(* A statement is a frame: what plugins look at and what they add.  The    *)
(* sequence frames is a path of nested statements from the root down, each *)
(* SELECT in it hanging from a slot of the one before.                     *)
(***************************************************************************)
EXTENDS CaslWhere, SequencesExt

\* A predicate that a plugin adds to WHERE or ON, about the main table or
\* the joined one (USING, of a MERGE).
Guard(by, at, qualified) == [by |-> by, at |-> at, qualified |-> qualified]

\* What a frame reads when FROM is no table.
NoTable == ""

\* What joins a frame that joins nothing.
NoJoin == [type |-> "none", table |-> NoTable]

\* A statement as the builders make it.
Frame(type, table) ==
    [type |-> type, table |-> table, join |-> NoJoin, mode |-> "none", flags |-> {}, guards |-> <<>>,
     columns |-> <<>>, set |-> <<>>, rows |-> "none", limited |-> FALSE, schema |-> {},
     slot |-> "root", field |-> "operand"]

\* db.softDelete and db.restore: the first writes the predicate itself, the
\* second asks for all rows.
DbSoftDelete(table) ==
    [Frame("update", table) EXCEPT !.set = <<"deleted_at">>, !.flags = {"soft-delete"},
                                   !.guards = <<Guard("soft-delete", "main", FALSE)>>]

DbRestore(table) == [Frame("update", table) EXCEPT !.set = <<"deleted_at">>, !.flags = {"soft-delete"}, !.mode = "include"]

\* The frames of a compilation that threw.
Thrown == <<>>

Marked(f, class, guards) == [f EXCEPT !.guards = @ \o guards, !.flags = @ \cup {class}]

Put(frames, d, f) == [frames EXCEPT ![d] = f]

\* Mutant: nobody looks at what is there.
Anyway(name, names) == <<name>>

\* A column that the statement does not set yet.
Lacking(name, names) == IF Contains(names, name) THEN <<>> ELSE <<name>>

-----------------------------------------------------------------------------
(* soft-delete.ts.  A subquery that is joined is rewritten at once, before  *)
(* the walk gets to it.                                                     *)

\* A SELECT that has not been filtered yet and does not ask for all rows.
Unfiltered(f) == "soft-delete" \notin f.flags /\ f.mode # "include"

\* The predicates of one SELECT: joins first, outer joins are left alone.
FiltersJoin(p, f) == f.join.type = "INNER" /\ f.join.table \in p.tables
AliveGuards(p, f) == (IF FiltersJoin(p, f) THEN <<Guard("soft-delete", "join", FALSE)>> ELSE <<>>)
                     \o (IF f.table \in p.tables THEN <<Guard("soft-delete", "main", FALSE)>> ELSE <<>>)

\* The SELECT d and the subqueries joined to it, as deep as the plugin goes.
Entered(frames, d) ==
    {e \in d .. Len(frames) :
        \A k \in d .. e : Unfiltered(frames[k]) /\ (k = d \/ frames[k].slot = "joinTable")}

\* _transformSelect, with the calls it makes of itself: a SELECT is new if it,
\* or one that is joined to it, is.
SoftDeleteSelect(p, frames, d) ==
    LET changed == {e \in Entered(frames, d) :
                       \E k \in Entered(frames, d) :
                           k >= e /\ (frames[k].table \in p.tables \/ FiltersJoin(p, frames[k]))}
    IN  [e \in DOMAIN frames |-> IF e \in changed
                                 THEN Marked(frames[e], "soft-delete", AliveGuards(p, frames[e])) ELSE frames[e]]

\* DELETE is a hard delete, INSERT has nothing to filter.
SoftDelete(p, frames, d) ==
    LET f == frames[d]
    IN  CASE f.type = "select" -> SoftDeleteSelect(p, frames, d)
          [] f.type \in {"update", "merge"} /\ f.table \in p.tables /\ "soft-delete" \notin f.flags
             /\ (f.type = "update" => f.mode # "include") ->
                Put(frames, d, Marked(f, "soft-delete", <<Guard("soft-delete", "main", f.type = "merge")>>))
          [] OTHER -> frames

-----------------------------------------------------------------------------
(* multi-tenant.ts *)

\* Mutant: the flag is not looked at.
TenantSelectAgain(p, f) ==
    IF f.table \notin p.tables THEN f
    ELSE Marked(f, "multi-tenant", (IF f.join.table \in p.tables THEN <<Guard("multi-tenant", "join", TRUE)>> ELSE <<>>)
                                   \o <<Guard("multi-tenant", "main", f.join # NoJoin)>>)

TenantSelect(p, f) ==
    IF "multi-tenant" \in f.flags \/ f.table \notin p.tables THEN f
    ELSE Marked(f, "multi-tenant", (IF f.join.table \in p.tables THEN <<Guard("multi-tenant", "join", TRUE)>> ELSE <<>>)
                                   \o <<Guard("multi-tenant", "main", f.join # NoJoin)>>)

\* CrossTenantJoinError.
CrossesTenants(p, f) ==
    /\ p.strict /\ f.type = "select" /\ {"multi-tenant", "cross-tenant"} \cap f.flags = {}
    /\ f.table \in p.tables /\ f.join.table \notin p.tables \cup {NoTable}

TenantMerge(p, f) ==
    [Marked(f, "multi-tenant", <<Guard("multi-tenant", "main", TRUE)>>
                               \o (IF f.join.table \in p.tables THEN <<Guard("multi-tenant", "join", TRUE)>> ELSE <<>>))
        EXCEPT !.columns = @ \o Lacking("tenant_id", @)]

MultiTenant(p, frames, d) ==
    LET f == frames[d]
    IN  IF CrossesTenants(p, f) THEN Thrown
        ELSE IF f.type = "select" THEN Put(frames, d, TenantSelect(p, f))
        ELSE IF "multi-tenant" \in f.flags \/ f.table \notin p.tables THEN frames
        ELSE Put(frames, d,
                 CASE f.type \in {"update", "delete"} -> Marked(f, "multi-tenant", <<Guard("multi-tenant", "main", FALSE)>>)
                   [] f.type = "insert" -> [f EXCEPT !.columns = Append(@, "tenant_id"), !.flags = @ \cup {"multi-tenant"}]
                   [] f.type = "merge"  -> TenantMerge(p, f))

-----------------------------------------------------------------------------
(* casl.ts.  INSERT and MERGE are left alone. *)

\* Mutant: any flag is taken for the one of this plugin.
AuthorizedByAnyone(f) == f.flags # {}

Authorized(f) == "casl" \in f.flags

Casl(p, frames, d) ==
    LET f     == frames[d]
        where == BuildWhereNode(p.rules)
    IN  IF f.type \notin {"select", "update", "delete"} \/ Authorized(f) THEN frames
        ELSE IF f.table \notin p.tables \/ where = True
        THEN Put(frames, d, Marked(f, "casl", <<>>))
        ELSE IF where = Null /\ p.onForbidden = "throw" THEN Thrown
        ELSE Put(frames, d, Marked(f, "casl", <<Guard("casl", "main", FALSE)>>))

-----------------------------------------------------------------------------
(* optimistic-lock.ts *)

OptimisticLock(p, frames, d) ==
    LET f == frames[d]
    IN  IF f.table \notin p.tables \/ "optimistic-lock" \in f.flags THEN frames
        ELSE CASE f.type = "update" ->
                    Put(frames, d, [Marked(f, "optimistic-lock", <<Guard("optimistic-lock", "main", FALSE)>>)
                                        EXCEPT !.set = Append(@, "version")])
               [] f.type = "insert" /\ f.rows # "default" /\ ~Contains(f.columns, "version") ->
                    Put(frames, d, [f EXCEPT !.columns = Append(@, "version"), !.flags = @ \cup {"optimistic-lock"}])
               [] OTHER -> frames

(* audit-timestamp.ts: no flag, and only MERGE looks at what is there. *)
AuditTimestamp(p, frames, d) ==
    LET f == frames[d]
    IN  IF f.table \notin p.tables THEN frames
        ELSE CASE f.type = "insert" -> Put(frames, d, [f EXCEPT !.columns = @ \o <<"created_at", "updated_at">>])
               [] f.type = "update" -> Put(frames, d, [f EXCEPT !.set = Append(@, "updated_at")])
               [] f.type = "merge"  -> Put(frames, d, [f EXCEPT !.columns = @ \o Lacking("created_at", @) \o Lacking("updated_at", @),
                                                                !.set = @ \o Lacking("updated_at", @)])
               [] OTHER -> frames

(* defaults.ts, with a default for the tenant. *)
Defaults(p, frames, d) ==
    LET f == frames[d]
    IN  IF f.type = "insert" /\ f.table \in p.tables /\ f.rows = "values"
        THEN Put(frames, d, [f EXCEPT !.columns = @ \o Lacking("tenant_id", @)])
        ELSE frames

(* query-limit.ts *)
QueryLimit(frames, d) ==
    IF frames[d].type = "select" THEN [frames EXCEPT ![d].limited = TRUE] ELSE frames

(* with-schema.ts: the tables that are prefixed. *)
Prefixed(f) ==
    (IF f.table # NoTable THEN {"main"} ELSE {})
    \cup (IF f.join.table # NoTable /\ (f.type \in {"select", "merge"} \/ f.join.type = "FROM") THEN {"join"} ELSE {})

WithSchema(frames, d) == Put(frames, d, [frames[d] EXCEPT !.schema = Prefixed(frames[d])])

-----------------------------------------------------------------------------

TransformNode(p, frames, d) ==
    IF frames[d].type \in {"explain", "create_view"} THEN frames
    ELSE CASE p.class = "soft-delete"     -> SoftDelete(p, frames, d)
           [] p.class = "multi-tenant"    -> MultiTenant(p, frames, d)
           [] p.class = "casl"            -> Casl(p, frames, d)
           [] p.class = "optimistic-lock" -> OptimisticLock(p, frames, d)
           [] p.class = "audit"           -> AuditTimestamp(p, frames, d)
           [] p.class = "defaults"        -> Defaults(p, frames, d)
           [] p.class = "query-limit"     -> QueryLimit(frames, d)
           [] p.class = "with-schema"     -> WithSchema(frames, d)

=============================================================================
