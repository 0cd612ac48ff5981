--------------------------- MODULE PluginPipeline ---------------------------
(***************************************************************************)
(* Step 1 of Sumak.compile: PluginManager.transformNode walks a statement  *)
(* and applies the chain of plugins to it and to every SELECT it reaches,  *)
(* on the way in (src/src/plugin/plugin-manager.ts).  The rest of the      *)
(* compilation prints what it left.                                        *)
(***************************************************************************)
EXTENDS PluginTransforms, Walker

CONSTANTS
    Lists,              \* the lists of plugins an instance may have
    Columns,            \* the columns that statements and plugins set
    Roots,              \* the statements that are compiled
    Inners,             \* the SELECTs that may be nested in them
    NestRoots,          \* the statements in which they are, and
    NestLists,          \* the lists with which: a bound on the combinations
    MaxDepth            \* bound on the nesting

Classes ==
    {"soft-delete", "multi-tenant", "casl", "optimistic-lock", "audit", "defaults", "query-limit", "with-schema"}

Rules == [inverted : BOOLEAN, condition : (SUBSET Rows) \cup {Always}]

Guards == [by : Classes, at : {"main", "join"}, qualified : BOOLEAN]

\* A statement as the builders make it: plugins have not been at it, but for the
\* UPDATE of db.softDelete and db.restore.
Fresh(f) ==
    /\ DOMAIN f = DOMAIN Frame("select", NoTable)
    /\ f.type \in DOMAIN Expressions
    /\ f.type \in {"explain", "create_view"} => f.table = NoTable
    /\ f.type \in {"explain", "create_view", "insert"} => f.join = NoJoin
    /\ f.flags \subseteq {"soft-delete", "cross-tenant"} /\ f.schema = {}
    /\ f.guards \in {<<>>, <<Guard("soft-delete", "main", FALSE)>>}
    /\ f.guards # <<>> => "soft-delete" \in f.flags
    /\ "soft-delete" \in f.flags => f.type = "update" /\ (f.guards # <<>> \/ f.mode = "include")
    /\ f.rows \in IF f.type = "insert" THEN {"values", "select", "default"} ELSE {"none"}
    /\ f.columns \in Seq(Columns) /\ f.set \in Seq(Columns)

ASSUME PipelineAssumption ==
    /\ \A list \in Lists :
        /\ DOMAIN list = 1 .. Len(list) /\ Len(list) \in Nat
        /\ \A i \in DOMAIN list : list[i].class \in Classes /\ list[i].rules \in Seq(Rules)
                                   /\ NoTable \notin list[i].tables
    /\ \A f \in Roots \cup Inners : Fresh(f)
    /\ \A f \in Inners : f.type = "select"
    /\ {"tenant_id", "version", "created_at", "updated_at"} \subseteq Columns

VARIABLES
    plugins,
    built,              \* the frames as the builders made them
    frames,             \* the frames as rewritten so far
    phase,              \* "build", "walk", "print", "thrown"
    at,                 \* the frame the walk is at
    next                \* the plugin that is next in the chain

vars == <<plugins, built, frames, phase, at, next>>

Init ==
    /\ plugins \in Lists
    /\ \E root \in Roots : built = <<root>>
    /\ frames = built
    /\ phase = "build"
    /\ at = 1
    /\ next = 1

\* The slot joinTable makes the subquery the joined table.  Below a field of
\* an expression nothing more is nested: a bound.
Nest ==
    LET last == built[Len(built)]
    IN  /\ phase = "build" /\ Len(built) < MaxDepth /\ last.field = "operand"
        /\ built[1] \in NestRoots /\ plugins \in NestLists
        /\ \E inner \in Inners, slot \in SlotsOf(last.type) :
           \E field \in IF TakesExpression(slot) THEN Fields ELSE {"operand"} :
              /\ slot \in {"fromSubquery", "fromValues", "fromGraphTable"} => last.table = NoTable
              /\ slot = "temporal" => last.table # NoTable
              /\ slot \in {"joinTable", "joinValues"} => last.join = NoJoin
              /\ slot = "joinOn" => last.join # NoJoin
              /\ slot = "usingSubquery" => last.join = NoJoin
              /\ built' = Append([built EXCEPT ![Len(built)].join =
                                     IF slot \in {"joinTable", "joinValues"} THEN [type |-> "INNER", table |-> NoTable] ELSE @],
                                 [inner EXCEPT !.slot = slot, !.field = field])
        /\ frames' = built'
        /\ UNCHANGED <<plugins, phase, at, next>>

Compile ==
    /\ phase = "build"
    /\ phase' = "walk"
    /\ UNCHANGED <<plugins, built, frames, at, next>>

\* applyPluginChain, one plugin.
ApplyPlugin ==
    LET result == TransformNode(plugins[next], frames, at)
    IN  /\ phase = "walk" /\ next <= Len(plugins)
        /\ IF result = Thrown
           THEN phase' = "thrown" /\ UNCHANGED frames
           ELSE frames' = result /\ UNCHANGED phase
        /\ next' = next + 1
        /\ UNCHANGED <<plugins, built, at>>

Reaches(fs, d) == Visits(fs[d].slot, fs[d].field)

Descend ==
    /\ phase = "walk" /\ next > Len(plugins)
    /\ IF at < Len(frames) /\ Reaches(frames, at + 1)
       THEN at' = at + 1 /\ next' = 1 /\ UNCHANGED phase
       ELSE phase' = "print" /\ UNCHANGED <<at, next>>
    /\ UNCHANGED <<plugins, built, frames>>

Next == Nest \/ Compile \/ ApplyPlugin \/ Descend

Spec == Init /\ [][Next]_vars

-----------------------------------------------------------------------------

Printed == phase = "print"

TableAt(f, pos) == IF pos = "main" THEN f.table ELSE f.join.table

\* A table that the configuration of a plugin is about.
Concerns(p, f, pos) ==
    /\ TableAt(f, pos) # NoTable
    /\ CASE p.class \in {"soft-delete", "multi-tenant", "casl"} ->
                TableAt(f, pos) \in p.tables /\ f.type \in {"select", "update", "delete", "merge"}
         [] p.class = "query-limit" -> f.type = "select" /\ pos = "main"
         [] p.class = "with-schema" -> TRUE
         [] OTHER -> FALSE

Treated(p, f, pos) ==
    CASE p.class = "query-limit" -> f.limited
      [] p.class = "with-schema" -> pos \in f.schema
      [] OTHER -> \E i \in DOMAIN f.guards : f.guards[i].by = p.class /\ f.guards[i].at = pos

\* Statements that the documentation of the plugins leaves alone.
OptedOut(p, f, pos) ==
    \/ p.class = "soft-delete" /\ (f.type = "delete" \/ f.mode = "include" \/ (pos = "join" /\ f.join.type # "INNER"))
    \/ p.class = "casl" /\ (f.type = "merge" \/ BuildWhereNode(p.rules) = True)

\* The first plugin of a class takes the flag, also for the other ones.
Shadowed(p, f) ==
    \E i, k \in DOMAIN plugins :
        /\ i < k /\ plugins[k] = p /\ plugins[i].class = p.class /\ p.class \in {"soft-delete", "multi-tenant", "casl"}
        /\ p.class = "casl" \/ {f.table, f.join.table} \cap plugins[i].tables # {} \/ "soft-delete" \in f.flags

\* Tables that nothing is done about although a plugin is about them.
Overlooked(p, f, pos) ==
    \/ pos = "join" /\ p.class = "multi-tenant" /\ (f.type \in {"update", "delete"} \/ f.table \notin p.tables)
    \/ pos = "join" /\ p.class = "casl"
    \/ pos = "join" /\ p.class = "soft-delete" /\ f.type \in {"update", "merge"}
    \/ pos = "join" /\ p.class = "with-schema" /\ f.type \in {"update", "delete"} /\ f.join.type # "FROM"

Upheld(p, f, pos) ==
    Concerns(p, f, pos) => Treated(p, f, pos) \/ OptedOut(p, f, pos) \/ Shadowed(p, f) \/ Overlooked(p, f, pos)

(***************************************************************************)
(* A policy holds for all of a statement: of every table in it, at any     *)
(* depth and in any slot, a plugin that is configured for the table has    *)
(* added its predicate (prefix, limit) exactly once, except for tables     *)
(* that it leaves alone, that another plugin of its class shadows, or that *)
(* the walk does not reach.                                                *)
(***************************************************************************)
PolicyHolds ==
    Printed =>
        \A d \in 1 .. at :
            /\ IsInjective(frames[d].guards)
            /\ \A i \in DOMAIN plugins, pos \in {"main", "join"} : Upheld(plugins[i], frames[d], pos)

(***************************************************************************)
(* The walk reaches every nested SELECT, except those in VALUES that is    *)
(* joined, in a graph pattern or a temporal clause, and in the ORDER BY of *)
(* an aggregate: these are printed as they were built.                     *)
(***************************************************************************)
EverySelectReached ==
    Printed /\ at < Len(frames) =>
        \/ frames[at + 1].slot \in {"joinValues", "fromGraphTable", "temporal"}
        \/ frames[at + 1].field \in {"function.orderBy", "withinGroup"}

-----------------------------------------------------------------------------

Has(class, f) == \E i \in DOMAIN plugins : plugins[i].class = class /\ f.table \in plugins[i].tables

Twice(class, f) ==
    \E i, k \in DOMAIN plugins :
        /\ i # k /\ plugins[i].class = class /\ plugins[k].class = class
        /\ f.table \in plugins[i].tables \cap plugins[k].tables

Added(names, before) == DOMAIN names \ DOMAIN before

\* A column that is named already.
Repeats(names, before) == \E i \in Added(names, before), k \in DOMAIN names : i # k /\ names[i] = names[k]

\* The columns a predicate without qualifier names: does the other table
\* have one of that name?
Ambiguous(f, before) ==
    \E i \in Added(f.guards, before.guards), k \in DOMAIN plugins :
        LET g == f.guards[i]
            other == TableAt(f, IF g.at = "main" THEN "join" ELSE "main")
        IN  ~g.qualified /\ plugins[k].class = g.by /\ other \in plugins[k].tables

\* What a server refuses of what plugins added.
Refused(f, before) ==
    \/ Repeats(f.columns, before.columns) \/ Repeats(f.set, before.set)
    \/ f.rows \in {"select", "default"} /\ f.columns # before.columns
    \/ Ambiguous(f, before)

\* When that happens.
Breaks(f, before) ==
    \/ f.type = "insert" /\ f.rows # "values" /\ (Has("multi-tenant", f) \/ Has("audit", f))
    \/ f.type = "insert" /\ f.rows = "select" /\ Has("optimistic-lock", f) /\ ~Contains(before.columns, "version")
    \/ f.type = "insert" /\ Has("multi-tenant", f) /\ Contains(before.columns, "tenant_id")
    \/ f.type = "insert" /\ f.rows = "values" /\ \E i, k \in DOMAIN plugins :
           /\ i < k /\ plugins[i].class = "defaults" /\ plugins[k].class = "multi-tenant"
           /\ f.table \in plugins[i].tables \cap plugins[k].tables
    \/ f.type = "insert" /\ Has("audit", f) /\ (Contains(before.columns, "created_at") \/ Contains(before.columns, "updated_at"))
    \/ f.type = "update" /\ Has("optimistic-lock", f) /\ Contains(before.set, "version")
    \/ f.type = "update" /\ Has("audit", f) /\ Contains(before.set, "updated_at")
    \/ f.type \in {"insert", "update"} /\ Twice("audit", f)
    \/ f.type # "merge" /\ \E i, k \in DOMAIN plugins :
           /\ plugins[i].class \in {"soft-delete", "casl"} \cup (IF f.type = "select" THEN {} ELSE {"multi-tenant", "optimistic-lock"})
           /\ plugins[k].class = plugins[i].class
           /\ f.table \in plugins[i].tables /\ f.join.table \in plugins[k].tables

(***************************************************************************)
(* What plugins add, whatever their order and number, leaves a statement a *)
(* server can take: no column twice, as many values as columns, no         *)
(* ambiguous column.  Breaks lists when it does not.                       *)
(***************************************************************************)
StillExecutable ==
    Printed => \A d \in 1 .. at : Refused(frames[d], built[d]) => Breaks(frames[d], built[d])

-----------------------------------------------------------------------------

\* The walk at once, with another list.
Walk(fs, list) ==
    LET Chain(x, d) == FoldLeft(LAMBDA y, p : IF y = Thrown THEN y ELSE TransformNode(p, y, d), x, list)
        IsReached(d) == \A k \in 2 .. d : Reaches(fs, k)
    IN  FoldLeft(LAMBDA x, d : IF x = Thrown \/ ~IsReached(d) THEN x ELSE Chain(x, d), fs, [d \in DOMAIN fs |-> d])

\* What the order of plugins may decide: the order in which they add.
Unordered(fs) ==
    [d \in DOMAIN fs |-> [fs[d] EXCEPT !.guards = {<<g, TRUE>> : g \in ToSet(@)},
                                       !.columns = {<<Len(fs[d].columns), c>> : c \in ToSet(@)},
                                       !.set = {<<Len(fs[d].set), c>> : c \in ToSet(@)}]]

\* Two plugins of one class that differ, and a column that defaults gives
\* unless it is there.
OrderMatters ==
    \E i, k \in DOMAIN plugins :
        \/ plugins[i] # plugins[k] /\ plugins[i].class = plugins[k].class
        \/ plugins[i].class = "defaults" /\ plugins[k].class = "multi-tenant"

(***************************************************************************)
(* The order of registration decides nothing but the order of the          *)
(* predicates: another order of the list makes the same statements, or     *)
(* throws when this one throws.                                            *)
(***************************************************************************)
OrderDecidesNothing ==
    phase \in {"print", "thrown"} /\ ~OrderMatters =>
        LET other == Walk(built, Reverse(plugins))
        IN  IF phase = "thrown" THEN other = Thrown ELSE Unordered(other) = Unordered(frames)

(***************************************************************************)
(* caslAuthz shows no row that the ability forbids, "composed the same way *)
(* CASL does": whatever the rules and their priorities, the predicate on a *)
(* table admits permitted rows only, and when nothing is permitted the     *)
(* statement is refused or empty.  Not so for an ability with conditional  *)
(* cannot rules and no can rule before the walk ends: it admits what they  *)
(* do not name.                                                            *)
(***************************************************************************)
ShowsPermittedRowsOnly ==
    \A i \in DOMAIN plugins :
        LET rules == plugins[i].rules
        IN  plugins[i].class = "casl" =>
                \/ BuildWhereNode(rules).admits \subseteq Permitted(rules)
                \/ \E k \in DOMAIN rules : /\ rules[k].inverted /\ rules[k].condition # Always
                                           /\ \A j \in 1 .. k : rules[j].inverted

-----------------------------------------------------------------------------
(* Why policies hold: the inductive invariant behind PolicyHolds.            *)

\* A plugin that adds a predicate to a statement has set its flag there.
FrameOK(f) ==
    /\ DOMAIN f = DOMAIN Frame("select", NoTable)
    /\ f.type \in DOMAIN Expressions
    /\ f.type \in {"explain", "create_view"} => f.table = NoTable
    /\ f.type \in {"explain", "create_view", "insert"} => f.join = NoJoin
    /\ f.guards \in Seq(Guards) /\ IsInjective(f.guards)
    /\ \A i \in DOMAIN f.guards : f.guards[i].by \in f.flags
    /\ f.schema \subseteq Prefixed(f)

\* Plugin i has been applied to frame d.
Applied(i, d) == d < at \/ (d = at /\ i < next)

\* A flag of multi-tenant or casl is the work of a plugin of that class that was
\* applied before, and is about the table.
FlagEarned(class, d) ==
    class \in frames[d].flags =>
        \E k \in DOMAIN plugins : /\ plugins[k].class = class /\ Applied(k, d)
                                  /\ (class = "multi-tenant" => frames[d].table \in plugins[k].tables)

\* soft-delete sets its flag ahead of the walk: wherever it is, all plugins of
\* the class are done with the statement.
SoftDeleteDone(d) ==
    "soft-delete" \in frames[d].flags =>
        \A i \in DOMAIN plugins, pos \in {"main", "join"} :
            plugins[i].class = "soft-delete" => Upheld(plugins[i], frames[d], pos)

\* What a soft-delete plugin has been through and not marked is not its concern.
PassedOver ==
    \A i \in 1 .. next - 1 :
        plugins[i].class = "soft-delete" /\ frames[at].type = "select" =>
            \A e \in Entered(frames, at) :
                frames[e].table \notin plugins[i].tables /\ ~FiltersJoin(plugins[i], frames[e])

PathOK ==
    /\ plugins \in Lists
    /\ DOMAIN built = 1 .. Len(built) /\ Len(built) \in Nat
    /\ DOMAIN frames = DOMAIN built /\ Len(frames) = Len(built)
    /\ \A d \in DOMAIN built : Fresh(built[d]) /\ (d > 1 => built[d].type = "select")
    /\ phase \in {"build", "walk", "print", "thrown"}
    /\ at \in 1 .. Len(frames) /\ next \in 1 .. Len(plugins) + 1
    /\ phase = "build" => frames = built /\ at = 1 /\ next = 1
    /\ phase = "print" => next = Len(plugins) + 1 /\ (at < Len(frames) => ~Reaches(frames, at + 1))

FlagsOK ==
    \A d \in DOMAIN frames :
        /\ FrameOK(frames[d])
        /\ FlagEarned("multi-tenant", d) /\ FlagEarned("casl", d) /\ SoftDeleteDone(d)

AppliedUpheld ==
    \A d \in DOMAIN frames, i \in DOMAIN plugins, pos \in {"main", "join"} :
        Applied(i, d) => Upheld(plugins[i], frames[d], pos)

PolicyInv == PathOK /\ FlagsOK /\ (phase # "thrown" => PassedOver /\ AppliedUpheld)

-----------------------------------------------------------------------------
(* Why statements stay executable: what StillExecutable adds to PolicyInv.   *)

\* A plugin of the class that is about the table has been applied to frame d.
Done(class, d) ==
    \E k \in DOMAIN plugins : /\ plugins[k].class = class /\ Applied(k, d)
                              /\ frames[d].table \in plugins[k].tables

\* Who added a column to frame d.
NamedBySome(name, d) ==
    \/ name = "tenant_id" /\ "multi-tenant" \in frames[d].flags
    \/ name = "tenant_id" /\ frames[d].rows = "values" /\ Done("defaults", d)
    \/ name = "version" /\ "optimistic-lock" \in frames[d].flags
    \/ name \in {"created_at", "updated_at"} /\ Done("audit", d)

NamesOK(names, before, d) ==
    /\ names \in Seq(Columns) /\ DOMAIN before \subseteq DOMAIN names
    /\ \A i \in DOMAIN names : IF i \in DOMAIN before THEN names[i] = before[i] ELSE NamedBySome(names[i], d)

\* A predicate without a qualifier is about a table of a plugin of its class.
Announced(g, f) ==
    \/ g.qualified
    \/ /\ f.type # "merge"
       /\ \/ g.by \in {"soft-delete", "casl"}
          \/ g.by \in {"multi-tenant", "optimistic-lock"} /\ f.type # "select"
          \/ g.at = "main" /\ f.join = NoJoin
       /\ \E k \in DOMAIN plugins : plugins[k].class = g.by /\ TableAt(f, g.at) \in plugins[k].tables

ExecutableAt(d) ==
    LET f == frames[d]
        before == built[d]
    IN  /\ f.type = before.type /\ f.rows = before.rows
        /\ NamesOK(f.columns, before.columns, d) /\ NamesOK(f.set, before.set, d)
        /\ \A i \in Added(f.guards, before.guards) : Announced(f.guards[i], f)
        /\ Refused(f, before) => Breaks(f, before)

ExecutableInv == \A d \in DOMAIN frames : ExecutableAt(d)


=============================================================================
