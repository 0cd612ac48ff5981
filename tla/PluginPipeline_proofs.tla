----------------------- MODULE PluginPipeline_proofs -----------------------
(***************************************************************************)
(* What policies guarantee, for every list of plugins, every statement and *)
(* every depth of nesting, and what caslAuthz admits, for every ability.   *)
(***************************************************************************)
EXTENDS PluginPipeline, SequenceTheorems, WellFoundedInduction, TLAPS

-----------------------------------------------------------------------------
(* The condition of an ability *)

\* A rule that matches a row: there is a first one.
LEMMA FirstIndex ==
  ASSUME NEW S, S \subseteq Nat, S # {}
  PROVE  \E i \in S : \A k \in S : i <= k
<1>1. PICK i \in S : \A k \in S : <<k, i>> \notin OpToRel(<, Nat)
  BY NatLessThanWellFounded, WFMin
<1>2. \A k \in S : ~(k < i)
  BY <1>1 DEF OpToRel
<1> QED
  BY <1>2

\* The rules that match r, as Permitted looks for them.
Matching(rules, r) == {i \in DOMAIN rules : rules[i].condition = Always \/ r \in rules[i].condition}

\* A row is permitted if the first rule that matches it is a can.
LEMMA PermittedByFirst ==
  ASSUME NEW rules \in Seq(Rules), NEW r \in Rows, NEW e \in Matching(rules, r),
         \A m \in Matching(rules, r) : m <= e => ~rules[m].inverted
  PROVE  r \in Permitted(rules)
<1>1. Matching(rules, r) \subseteq Nat
  BY DEF Matching
<1>2. PICK m \in Matching(rules, r) : \A k \in Matching(rules, r) : m <= k
  BY <1>1, FirstIndex
<1>3. ~rules[m].inverted
  BY <1>2
<1> QED
  BY <1>2, <1>3 DEF Permitted, Matching

\* The rules before the first unconditional one.
LEMMA ConditionalFacts ==
  ASSUME NEW rules \in Seq(Rules)
  PROVE  /\ \A i \in Conditional(rules) : i \in DOMAIN rules /\ rules[i].condition # Always
         /\ \A i \in Conditional(rules), k \in DOMAIN rules : k <= i => k \in Conditional(rules)
         /\ \A i \in DOMAIN rules : i \in Nat \ {0} /\ rules[i] \in Rules
BY DEF Conditional

\* Cut off at an inverted rule nothing is admitted that the rules before deny.
LEMMA WherePermits ==
  ASSUME NEW rules \in Seq(Rules),
         \A k \in DOMAIN rules : rules[k].inverted /\ rules[k].condition # Always =>
                                   \E j \in 1 .. k : ~rules[j].inverted
  PROVE  BuildWhereNode(rules).admits \subseteq Permitted(rules)
<1> DEFINE positive == Conditions(rules, FALSE)
           inverted == Conditions(rules, TRUE)
<1>c. /\ \A i \in Conditional(rules) : i \in DOMAIN rules /\ rules[i].condition # Always
      /\ \A i \in Conditional(rules), k \in DOMAIN rules : k <= i => k \in Conditional(rules)
      /\ \A i \in DOMAIN rules : i \in Nat \ {0} /\ rules[i] \in Rules
      /\ \A i \in DOMAIN rules : rules[i].inverted \in BOOLEAN
  BY ConditionalFacts DEF Rules
<1>d. \A r : r \in UNION inverted <=>
               \E i \in Conditional(rules) : rules[i].inverted /\ r \in rules[i].condition
  BY <1>c DEF Conditions
<1>p. \A r : r \in UNION positive <=>
               \E i \in Conditional(rules) : ~rules[i].inverted /\ r \in rules[i].condition
  BY <1>c DEF Conditions
<1>k. Combine(rules).admits =
        IF EndsInCan(rules) THEN (IF inverted = {} THEN Rows ELSE Rows \ (UNION inverted))
        ELSE IF positive = {} THEN (IF inverted = {} THEN {} ELSE Rows \ (UNION inverted))
        ELSE (UNION positive) \ (UNION inverted)
  BY DEF Combine, True, Null, Where
<1>n. /\ inverted # {} => \E i \in Conditional(rules) : rules[i].inverted
      /\ \A i \in Conditional(rules) : ~rules[i].inverted => rules[i].condition \in positive
  BY <1>c DEF Conditions
<1> HIDE DEF positive, inverted
<1> SUFFICES ASSUME NEW r \in Combine(rules).admits
             PROVE  r \in Permitted(rules)
  BY DEF BuildWhereNode
\* An unconditional can at e: what is subtracted are the cannots before it.
<1>1. ASSUME EndsInCan(rules), r \in Rows, r \notin UNION inverted
      PROVE  r \in Permitted(rules)
  <2>1. PICK e \in DOMAIN rules : /\ rules[e] = Can(Always)
                                  /\ \A k \in 1 .. e - 1 : rules[k].condition # Always
    BY <1>1 DEF EndsInCan
  <2>2. e \in Matching(rules, r) /\ ~rules[e].inverted
    BY <2>1 DEF Matching, Can
  <2>3. ASSUME NEW m \in Matching(rules, r), m <= e
        PROVE  ~rules[m].inverted
    <3>1. CASE m = e
      BY <3>1, <2>2
    <3>2. CASE m < e
      <4>1. m \in Conditional(rules)
        BY <3>2, <2>1, <1>c DEF Conditional, Matching
      <4>2. r \in rules[m].condition
        BY <4>1, <1>c DEF Matching
      <4> QED
        BY <4>1, <4>2, <1>1, <1>d
    <3> QED
      BY <3>1, <3>2, <2>3, <1>c DEF Matching
  <2> QED
    BY <1>1, <2>2, <2>3, PermittedByFirst
\* No unconditional can: a conditional one admits the row.
<1>2. ASSUME r \in UNION positive, r \notin UNION inverted
      PROVE  r \in Permitted(rules)
  <2>1. PICK e \in Conditional(rules) : ~rules[e].inverted /\ r \in rules[e].condition
    BY <1>2, <1>p
  <2>2. e \in Matching(rules, r)
    BY <2>1, <1>c DEF Matching
  <2>3. ASSUME NEW m \in Matching(rules, r), m <= e
        PROVE  ~rules[m].inverted
    <3>1. m \in Conditional(rules) /\ r \in rules[m].condition
      BY <2>1, <2>3, <1>c DEF Matching
    <3> QED
      BY <3>1, <1>2, <1>d
  <2>4. r \in Rows
    <3>1. rules[e].condition \in (SUBSET Rows) \cup {Always} /\ rules[e].condition # Always
      BY <2>1, <1>c DEF Rules
    <3> QED
      BY <2>1, <3>1
  <2> QED
    BY <2>2, <2>3, <2>4, PermittedByFirst
<1>3. CASE EndsInCan(rules)
  <2>1. r \in Rows /\ r \notin UNION inverted
    BY <1>3, <1>k
  <2> QED
    BY <1>1, <1>3, <2>1
<1>4. CASE ~EndsInCan(rules) /\ positive = {} /\ inverted = {}
  BY <1>4, <1>k
\* Cannots only: the hypothesis excludes it.
<1>5. CASE ~EndsInCan(rules) /\ positive = {} /\ inverted # {}
  <2>1. PICK k \in Conditional(rules) : rules[k].inverted
    BY <1>5, <1>n
  <2>2. PICK j \in 1 .. k : ~rules[j].inverted
    BY <2>1, <1>c
  <2>3. j \in DOMAIN rules /\ j \in Conditional(rules)
    BY <2>1, <2>2, <1>c
  <2> QED
    BY <2>2, <2>3, <1>n, <1>5
<1>6. CASE ~EndsInCan(rules) /\ positive # {}
  <2>1. r \in (UNION positive) \ (UNION inverted)
    BY <1>6, <1>k
  <2> QED
    BY <1>2, <2>1
<1> QED
  BY <1>3, <1>4, <1>5, <1>6

\* What is assumed of a list of plugins.
LEMMA ListFacts ==
  ASSUME NEW list \in Lists
  PROVE  /\ DOMAIN list = 1 .. Len(list) /\ Len(list) \in Nat
         /\ \A i \in DOMAIN list : list[i].class \in Classes /\ list[i].rules \in Seq(Rules)
                                    /\ NoTable \notin list[i].tables
BY PipelineAssumption

\* Where a walk is.
LEMMA PathIndices ==
  PathOK => /\ Len(plugins) \in Nat /\ DOMAIN plugins = 1 .. Len(plugins) /\ next \in 1 .. Len(plugins) + 1
            /\ Len(frames) \in Nat /\ DOMAIN frames = 1 .. Len(frames) /\ at \in 1 .. Len(frames)
            /\ \A i \in DOMAIN plugins : plugins[i].class \in Classes /\ NoTable \notin plugins[i].tables
<1> SUFFICES ASSUME PathOK
             PROVE  /\ Len(plugins) \in Nat /\ DOMAIN plugins = 1 .. Len(plugins) /\ next \in 1 .. Len(plugins) + 1
                    /\ Len(frames) \in Nat /\ DOMAIN frames = 1 .. Len(frames) /\ at \in 1 .. Len(frames)
                    /\ \A i \in DOMAIN plugins : plugins[i].class \in Classes /\ NoTable \notin plugins[i].tables
  OBVIOUS
<1>1. plugins \in Lists /\ next \in 1 .. Len(plugins) + 1 /\ at \in 1 .. Len(frames)
      /\ DOMAIN built = 1 .. Len(built) /\ Len(built) \in Nat /\ DOMAIN frames = DOMAIN built /\ Len(frames) = Len(built)
  BY DEF PathOK
<1> QED
  BY <1>1, ListFacts

\* The list of plugins is the one the instance was made with.
LEMMA PluginsAlways == Spec => [](plugins \in Lists)
<1>1. Init => plugins \in Lists
  BY DEF Init
<1>2. plugins \in Lists /\ [Next]_vars => (plugins \in Lists)'
  BY DEF Next, Nest, Compile, ApplyPlugin, Descend, vars
<1> QED
  BY <1>1, <1>2, PTL DEF Spec

\* caslAuthz shows no row that the ability forbids, whatever its rules and their
\* priorities (buildWhereNode), except for an ability that has a conditional
\* cannot rule and no can rule before it.
THEOREM ForbiddenRowsHidden == Spec => []ShowsPermittedRowsOnly
<1>1. ASSUME plugins \in Lists
      PROVE  ShowsPermittedRowsOnly
  <2> SUFFICES ASSUME NEW i \in DOMAIN plugins, plugins[i].class = "casl",
                      ~ \E k \in DOMAIN plugins[i].rules :
                          /\ plugins[i].rules[k].inverted /\ plugins[i].rules[k].condition # Always
                          /\ \A j \in 1 .. k : plugins[i].rules[j].inverted
               PROVE  BuildWhereNode(plugins[i].rules).admits \subseteq Permitted(plugins[i].rules)
    BY DEF ShowsPermittedRowsOnly
  <2>1. plugins[i].rules \in Seq(Rules)
    BY <1>1, ListFacts
  <2> QED
    BY <2>1, WherePermits
<1> QED
  BY <1>1, PluginsAlways, PTL

-----------------------------------------------------------------------------
(* What a plugin may do to a statement *)

FrameFields == {"type", "table", "join", "mode", "flags", "guards", "columns", "set", "rows", "limited",
            "schema", "slot", "field"}

LEMMA FrameDomain == DOMAIN Frame("select", NoTable) = FrameFields
BY DEF Frame, FrameFields

\* g is f with more predicates, flags and prefixes.
Grows(f, g) ==
  /\ FrameOK(g)
  /\ g.type = f.type /\ g.table = f.table /\ g.join = f.join /\ g.mode = f.mode
  /\ g.slot = f.slot /\ g.field = f.field
  /\ f.flags \subseteq g.flags
  /\ \A i \in DOMAIN f.guards : i \in DOMAIN g.guards /\ g.guards[i] = f.guards[i]
  /\ f.limited => g.limited
  /\ f.schema \subseteq g.schema

LEMMA GrowsSelf ==
  ASSUME NEW f, FrameOK(f)
  PROVE  Grows(f, f)
BY DEF Grows

LEMMA GrowsTransitive ==
  ASSUME NEW f, NEW g, NEW h, Grows(f, g), Grows(g, h)
  PROVE  Grows(f, h)
BY DEF Grows

\* A plugin that has not marked a statement adds predicates of its own class.
LEMMA MarkedGrows ==
  ASSUME NEW f, FrameOK(f), NEW c \in Classes, c \notin f.flags,
         NEW gs \in Seq(Guards), IsInjective(gs), \A i \in DOMAIN gs : gs[i].by = c
  PROVE  /\ Grows(f, Marked(f, c, gs))
         /\ Marked(f, c, gs).flags = f.flags \cup {c}
         /\ \A i \in DOMAIN gs : \E k \in DOMAIN Marked(f, c, gs).guards : Marked(f, c, gs).guards[k] = gs[i]
<1> DEFINE g == Marked(f, c, gs)
<1>1. DOMAIN f = FrameFields /\ f.guards \in Seq(Guards)
  BY FrameDomain DEF FrameOK
<1>2. /\ g = [f EXCEPT !.guards = f.guards \o gs, !.flags = f.flags \cup {c}]
      /\ DOMAIN g = FrameFields
  BY <1>1 DEF Marked
<1>3. /\ g.guards = f.guards \o gs /\ g.flags = f.flags \cup {c}
      /\ g.type = f.type /\ g.table = f.table /\ g.join = f.join /\ g.mode = f.mode
      /\ g.slot = f.slot /\ g.field = f.field /\ g.limited = f.limited /\ g.schema = f.schema
  BY <1>1, <1>2 DEF FrameFields
<1> HIDE DEF g
<1>4. /\ g.guards \in Seq(Guards) /\ DOMAIN g.guards = 1 .. Len(f.guards) + Len(gs)
      /\ Len(f.guards) \in Nat /\ Len(gs) \in Nat
      /\ DOMAIN f.guards = 1 .. Len(f.guards) /\ DOMAIN gs = 1 .. Len(gs)
      /\ \A i \in DOMAIN f.guards : g.guards[i] = f.guards[i]
      /\ \A i \in DOMAIN gs : g.guards[Len(f.guards) + i] = gs[i]
  BY <1>1, <1>3
<1>5. \A i \in DOMAIN g.guards : i \in DOMAIN f.guards \/ \E j \in DOMAIN gs : i = Len(f.guards) + j
  <2> SUFFICES ASSUME NEW i \in DOMAIN g.guards, i \notin DOMAIN f.guards
               PROVE  \E j \in DOMAIN gs : i = Len(f.guards) + j
    OBVIOUS
  <2>1. i - Len(f.guards) \in DOMAIN gs /\ i = Len(f.guards) + (i - Len(f.guards))
    BY <1>4
  <2> QED
    BY <2>1
<1>6. \A i \in DOMAIN f.guards : f.guards[i].by # c
  BY DEF FrameOK
<1>7. IsInjective(g.guards)
  <2> SUFFICES ASSUME NEW a \in DOMAIN g.guards, NEW b \in DOMAIN g.guards, g.guards[a] = g.guards[b]
               PROVE  a = b
    BY DEF IsInjective
  <2>1. CASE a \in DOMAIN f.guards /\ b \in DOMAIN f.guards
    <3>1. f.guards[a] = f.guards[b] /\ IsInjective(f.guards)
      BY <1>4, <2>1 DEF FrameOK
    <3> QED
      BY <2>1, <3>1 DEF IsInjective
  <2>2. CASE a \in DOMAIN f.guards /\ b \notin DOMAIN f.guards
    <3>1. PICK j \in DOMAIN gs : b = Len(f.guards) + j
      BY <1>5, <2>2
    <3>2. g.guards[a] = f.guards[a] /\ g.guards[b] = gs[j]
      BY <1>4, <2>2, <3>1
    <3> QED
      BY <1>6, <2>2, <3>2
  <2>3. CASE a \notin DOMAIN f.guards /\ b \in DOMAIN f.guards
    <3>1. PICK j \in DOMAIN gs : a = Len(f.guards) + j
      BY <1>5, <2>3
    <3>2. g.guards[b] = f.guards[b] /\ g.guards[a] = gs[j]
      BY <1>4, <2>3, <3>1
    <3> QED
      BY <1>6, <2>3, <3>2
  <2>4. CASE a \notin DOMAIN f.guards /\ b \notin DOMAIN f.guards
    <3>1. PICK i \in DOMAIN gs, j \in DOMAIN gs : a = Len(f.guards) + i /\ b = Len(f.guards) + j
      BY <1>5, <2>4
    <3>2. gs[i] = gs[j]
      BY <3>1, <1>4
    <3> QED
      BY <3>1, <3>2 DEF IsInjective
  <2> QED
    BY <2>1, <2>2, <2>3, <2>4
<1>8. \A i \in DOMAIN g.guards : g.guards[i].by \in g.flags
  <2> SUFFICES ASSUME NEW i \in DOMAIN g.guards
               PROVE  g.guards[i].by \in g.flags
    OBVIOUS
  <2>1. CASE i \in DOMAIN f.guards
    BY <1>3, <1>4, <2>1 DEF FrameOK
  <2>2. CASE \E j \in DOMAIN gs : i = Len(f.guards) + j
    BY <1>3, <1>4, <2>2
  <2> QED
    BY <1>5, <2>1, <2>2
<1>9. FrameOK(g)
  BY <1>2, <1>3, <1>4, <1>7, <1>8, FrameDomain DEF FrameOK, Prefixed
<1>10. Grows(f, g)
  BY <1>3, <1>4, <1>9 DEF Grows
<1>11. \A i \in DOMAIN gs : \E k \in DOMAIN g.guards : g.guards[k] = gs[i]
  <2> SUFFICES ASSUME NEW i \in DOMAIN gs
               PROVE  \E k \in DOMAIN g.guards : g.guards[k] = gs[i]
    OBVIOUS
  <2>1. Len(f.guards) + i \in DOMAIN g.guards
    BY <1>4
  <2> QED
    BY <1>4, <2>1
<1> QED
  BY <1>3, <1>10, <1>11 DEF g

\* Columns, assignments, flags, a limit or a prefix on top of that.
LEMMA AsideGrows ==
  ASSUME NEW f, FrameOK(f), NEW g, DOMAIN g = DOMAIN f,
         g.type = f.type, g.table = f.table, g.join = f.join, g.mode = f.mode,
         g.slot = f.slot, g.field = f.field, g.guards = f.guards, f.flags \subseteq g.flags,
         f.limited => g.limited, g.schema \in {f.schema, Prefixed(f)}
  PROVE  Grows(f, g)
BY DEF Grows, FrameOK, Prefixed

\* One predicate, and two.
LEMMA OneGuard ==
  ASSUME NEW c \in Classes, NEW a \in {"main", "join"}, NEW q \in BOOLEAN
  PROVE  /\ <<Guard(c, a, q)>> \in Seq(Guards) /\ IsInjective(<<Guard(c, a, q)>>)
         /\ \A i \in DOMAIN <<Guard(c, a, q)>> : <<Guard(c, a, q)>>[i] = Guard(c, a, q)
         /\ Guard(c, a, q).by = c /\ Guard(c, a, q).at = a /\ 1 \in DOMAIN <<Guard(c, a, q)>>
BY DEF Guard, Guards, IsInjective

LEMMA TwoGuards ==
  ASSUME NEW g \in Guards, NEW h \in Guards, g # h
  PROVE  /\ <<g>> \o <<h>> \in Seq(Guards) /\ IsInjective(<<g>> \o <<h>>)
         /\ DOMAIN (<<g>> \o <<h>>) = 1 .. 2 /\ (<<g>> \o <<h>>)[1] = g /\ (<<g>> \o <<h>>)[2] = h
<1> DEFINE s == <<g>>  u == <<h>>
<1>1. /\ s \in Seq(Guards) /\ u \in Seq(Guards) /\ Len(s) = 1 /\ Len(u) = 1
      /\ s[1] = g /\ u[1] = h
  OBVIOUS
<1> HIDE DEF s, u
<1>2. /\ s \o u \in Seq(Guards) /\ DOMAIN (s \o u) = 1 .. 2
      /\ (s \o u)[1] = g /\ (s \o u)[2] = h
  <2>1. s \o u \in Seq(Guards) /\ Len(s \o u) = Len(s) + Len(u)
    BY <1>1, ConcatProperties
  <2>2. DOMAIN (s \o u) = 1 .. Len(s \o u) /\ Len(s \o u) = 2
    BY <1>1, <2>1
  <2>3. (s \o u)[1] = s[1] /\ (s \o u)[2] = u[2 - 1]
    BY <1>1, <2>1, <2>2, ConcatProperties
  <2> QED
    BY <1>1, <2>1, <2>2, <2>3
<1>3. IsInjective(s \o u)
  <2> SUFFICES ASSUME NEW a \in 1 .. 2, NEW b \in 1 .. 2, (s \o u)[a] = (s \o u)[b]
               PROVE  a = b
    BY <1>2 DEF IsInjective
  <2>1. a \in {1, 2} /\ b \in {1, 2}
    OBVIOUS
  <2> QED
    BY <1>2, <2>1
<1> QED
  BY <1>2, <1>3 DEF s, u

\* The predicates of a class at some positions: what MarkedGrows asks of them, and
\* where they are.
GuardsFor(gs, c, P) ==
  /\ gs \in Seq(Guards) /\ IsInjective(gs)
  /\ \A i \in DOMAIN gs : gs[i].by = c
  /\ \A pos \in P : \E i \in DOMAIN gs : gs[i].at = pos

LEMMA PairFor ==
  ASSUME NEW c, NEW g \in Guards, NEW h \in Guards, g.by = c, h.by = c, {g.at, h.at} = {"main", "join"}
  PROVE  GuardsFor(<<g>> \o <<h>>, c, {"main", "join"})
<1>1. g # h
  OBVIOUS
<1>2. /\ <<g>> \o <<h>> \in Seq(Guards) /\ IsInjective(<<g>> \o <<h>>)
      /\ DOMAIN (<<g>> \o <<h>>) = 1 .. 2 /\ (<<g>> \o <<h>>)[1] = g /\ (<<g>> \o <<h>>)[2] = h
  BY <1>1, TwoGuards
<1> DEFINE s == <<g>> \o <<h>>
<1> HIDE DEF s
<1>3. /\ s \in Seq(Guards) /\ IsInjective(s) /\ DOMAIN s = 1 .. 2 /\ s[1] = g /\ s[2] = h
  BY <1>2 DEF s
<1>4. \A i \in 1 .. 2 : i = 1 \/ i = 2
  OBVIOUS
<1>5. GuardsFor(s, c, {"main", "join"})
  <2>1. (g.at = "main" /\ h.at = "join") \/ (g.at = "join" /\ h.at = "main")
    OBVIOUS
  <2>2. 1 \in DOMAIN s /\ 2 \in DOMAIN s
    BY <1>3
  <2>3. /\ \E i \in DOMAIN s : s[i].at = "join"
        /\ \E i \in DOMAIN s : s[i].at = "main"
    BY <1>3, <2>1, <2>2
  <2>4. \A i \in DOMAIN s : s[i].by = c
    BY <1>3, <1>4
  <2> QED
    BY <1>3, <2>3, <2>4 DEF GuardsFor
<1> QED
  BY <1>5 DEF s

LEMMA FewerGuards ==
  ASSUME NEW gs, NEW c, NEW P, NEW Q, P \subseteq Q, GuardsFor(gs, c, Q)
  PROVE  GuardsFor(gs, c, P)
BY DEF GuardsFor

LEMMA GuardLists ==
  ASSUME NEW c \in Classes, NEW q \in BOOLEAN, NEW r \in BOOLEAN
  PROVE  /\ GuardsFor(<<>>, c, {})
         /\ GuardsFor(<<Guard(c, "main", q)>>, c, {"main"})
         /\ GuardsFor(<<Guard(c, "join", q)>>, c, {"join"})
         /\ GuardsFor(<<Guard(c, "join", q)>> \o <<Guard(c, "main", r)>>, c, {"main", "join"})
         /\ GuardsFor(<<Guard(c, "main", q)>> \o <<Guard(c, "join", r)>>, c, {"main", "join"})
         /\ \A gs \in Seq(Guards) : <<>> \o gs = gs /\ gs \o <<>> = gs
         /\ <<Guard(c, "main", q)>> \in Seq(Guards) /\ <<Guard(c, "join", q)>> \in Seq(Guards)
<1>1. GuardsFor(<<>>, c, {})
  BY DEF GuardsFor, IsInjective
<1>2. GuardsFor(<<Guard(c, "main", q)>>, c, {"main"}) /\ GuardsFor(<<Guard(c, "join", q)>>, c, {"join"})
  BY OneGuard DEF GuardsFor
<1>3. /\ Guard(c, "main", q) \in Guards /\ Guard(c, "join", q) \in Guards
      /\ Guard(c, "main", r) \in Guards /\ Guard(c, "join", r) \in Guards
      /\ \A b \in BOOLEAN : /\ Guard(c, "main", b).at = "main" /\ Guard(c, "join", b).at = "join"
                           /\ Guard(c, "main", b).by = c /\ Guard(c, "join", b).by = c
  BY DEF Guard, Guards
<1>5. GuardsFor(<<Guard(c, "join", q)>> \o <<Guard(c, "main", r)>>, c, {"main", "join"})
  BY <1>3, PairFor
<1>6. GuardsFor(<<Guard(c, "main", q)>> \o <<Guard(c, "join", r)>>, c, {"main", "join"})
  BY <1>3, PairFor
<1>7. \A gs \in Seq(Guards) : <<>> \o gs = gs /\ gs \o <<>> = gs
  BY ConcatEmptySeq
<1>8. <<Guard(c, "main", q)>> \in Seq(Guards) /\ <<Guard(c, "join", q)>> \in Seq(Guards)
  BY OneGuard
<1> QED
  BY <1>1, <1>2, <1>5, <1>6, <1>7, <1>8

\* The statement after it was marked: the predicates are there.
GuardedAt(g, c, pos) == \E k \in DOMAIN g.guards : g.guards[k].by = c /\ g.guards[k].at = pos

LEMMA MarkedFor ==
  ASSUME NEW f, FrameOK(f), NEW c \in Classes, c \notin f.flags, NEW gs, NEW P, GuardsFor(gs, c, P)
  PROVE  /\ Grows(f, Marked(f, c, gs))
         /\ Marked(f, c, gs).flags = f.flags \cup {c}
         /\ \A pos \in P : GuardedAt(Marked(f, c, gs), c, pos)
BY MarkedGrows DEF GuardsFor, GuardedAt

\* What a plugin does to statement d, and to no other.
Effect(p, fs, d, r) ==
  /\ DOMAIN r = DOMAIN fs
  /\ \A e \in DOMAIN fs : e # d => r[e] = fs[e]
  /\ Grows(fs[d], r[d])
  /\ r[d].flags \subseteq fs[d].flags \cup {p.class}
  /\ p.class = "multi-tenant" /\ p.class \in r[d].flags =>
       p.class \in fs[d].flags \/ fs[d].table \in p.tables
  /\ \A pos \in {"main", "join"} : Concerns(p, fs[d], pos) =>
       \/ Treated(p, r[d], pos) \/ OptedOut(p, fs[d], pos) \/ Overlooked(p, fs[d], pos)
       \/ p.class \in {"soft-delete", "multi-tenant", "casl"} /\ p.class \in fs[d].flags

Framed(fs, d) == /\ d \in DOMAIN fs /\ \A e \in DOMAIN fs : FrameOK(fs[e])
                 /\ fs[d].type \notin {"explain", "create_view"}

LEMMA PutFacts ==
  ASSUME NEW fs, NEW d \in DOMAIN fs, NEW g
  PROVE  /\ DOMAIN Put(fs, d, g) = DOMAIN fs /\ Put(fs, d, g)[d] = g
         /\ \A e \in DOMAIN fs : e # d => Put(fs, d, g)[e] = fs[e]
BY DEF Put

\* A plugin that replaces statement f by g has this effect.
Does(p, f, g) ==
  /\ Grows(f, g)
  /\ g.flags \subseteq f.flags \cup {p.class}
  /\ p.class = "multi-tenant" /\ p.class \in g.flags => p.class \in f.flags \/ f.table \in p.tables
  /\ \A pos \in {"main", "join"} : Concerns(p, f, pos) =>
       \/ Treated(p, g, pos) \/ OptedOut(p, f, pos) \/ Overlooked(p, f, pos)
       \/ p.class \in {"soft-delete", "multi-tenant", "casl"} /\ p.class \in f.flags

LEMMA PutEffect ==
  ASSUME NEW p, NEW fs, NEW d, Framed(fs, d), NEW g, Does(p, fs[d], g)
  PROVE  Effect(p, fs, d, Put(fs, d, g))
BY PutFacts DEF Framed, Does, Effect

LEMMA IdleEffect ==
  ASSUME NEW p, NEW fs, NEW d, Framed(fs, d), Does(p, fs[d], fs[d])
  PROVE  Effect(p, fs, d, fs)
BY DEF Framed, Does, Effect

\* Policies are treated when their predicate is there.
LEMMA TreatedIs ==
  ASSUME NEW p, p.class \in {"soft-delete", "multi-tenant", "casl"}, NEW f, NEW pos
  PROVE  Treated(p, f, pos) <=> GuardedAt(f, p.class, pos)
BY DEF Treated, GuardedAt

\* The tables of a statement that a plugin is configured for.
Tabled(p, f) == {pos \in {"main", "join"} : TableAt(f, pos) \in p.tables}

LEMMA ConcernsTabled ==
  ASSUME NEW p, p.class \in {"soft-delete", "multi-tenant", "casl"}, NEW f,
         NEW pos \in {"main", "join"}, Concerns(p, f, pos)
  PROVE  pos \in Tabled(p, f) /\ f.type \in {"select", "update", "delete", "merge"}
BY DEF Concerns, Tabled

LEMMA TenantSelectDoes ==
  ASSUME NEW p, p.class = "multi-tenant", NEW f, FrameOK(f), f.type = "select"
  PROVE  Does(p, f, TenantSelect(p, f))
<1>1. CASE "multi-tenant" \in f.flags \/ f.table \notin p.tables
  <2>1. TenantSelect(p, f) = f
    BY <1>1 DEF TenantSelect
  <2>2. ASSUME NEW pos \in {"main", "join"}, Concerns(p, f, pos), "multi-tenant" \notin f.flags
        PROVE  Overlooked(p, f, pos)
    BY <1>1, <2>2 DEF Concerns, TableAt, Overlooked
  <2> QED
    BY <2>1, <2>2, GrowsSelf DEF Does
<1>2. CASE "multi-tenant" \notin f.flags /\ f.table \in p.tables
  <2> DEFINE c == "multi-tenant"
             gs == (IF f.join.table \in p.tables THEN <<Guard(c, "join", TRUE)>> ELSE <<>>)
                   \o <<Guard(c, "main", f.join # NoJoin)>>
             g == Marked(f, c, gs)
  <2>1. TenantSelect(p, f) = g
    BY <1>2 DEF TenantSelect
  <2>2. c \in Classes /\ (f.join # NoJoin) \in BOOLEAN
    BY DEF Classes
  <2>3. GuardsFor(gs, c, Tabled(p, f))
    <3>1. CASE f.join.table \in p.tables
      <4>1. gs = <<Guard(c, "join", TRUE)>> \o <<Guard(c, "main", f.join # NoJoin)>>
        BY <3>1
      <4>2. GuardsFor(gs, c, {"main", "join"})
        BY <4>1, <2>2, GuardLists
      <4> QED
        BY <4>2, FewerGuards DEF Tabled
    <3>2. CASE f.join.table \notin p.tables
      <4>1. gs = <<Guard(c, "main", f.join # NoJoin)>>
        BY <3>2, <2>2, GuardLists
      <4>2. GuardsFor(gs, c, {"main"})
        BY <4>1, <2>2, GuardLists
      <4>3. Tabled(p, f) \subseteq {"main"}
        BY <3>2 DEF Tabled, TableAt
      <4> QED
        BY <4>2, <4>3, FewerGuards
    <3> QED
      BY <3>1, <3>2
  <2> HIDE DEF gs
  <2>4. /\ Grows(f, g) /\ g.flags = f.flags \cup {c}
        /\ \A pos \in Tabled(p, f) : GuardedAt(g, c, pos)
    BY <1>2, <2>2, <2>3, MarkedFor
  <2> HIDE DEF g
  <2>5. ASSUME NEW pos \in {"main", "join"}, Concerns(p, f, pos)
        PROVE  Treated(p, g, pos)
    BY <2>4, <2>5, ConcernsTabled, TreatedIs
  <2> QED
    BY <1>2, <2>1, <2>4, <2>5 DEF Does
<1> QED
  BY <1>1, <1>2

LEMMA TenantMergeDoes ==
  ASSUME NEW p, p.class = "multi-tenant", NEW f, FrameOK(f), f.type = "merge",
         "multi-tenant" \notin f.flags, f.table \in p.tables
  PROVE  Does(p, f, TenantMerge(p, f))
<1> DEFINE c == "multi-tenant"
           gs == <<Guard(c, "main", TRUE)>> \o (IF f.join.table \in p.tables THEN <<Guard(c, "join", TRUE)>> ELSE <<>>)
           m == Marked(f, c, gs)
           g == [m EXCEPT !.columns = @ \o Lacking("tenant_id", @)]
<1>1. TenantMerge(p, f) = g
  BY DEF TenantMerge
<1>2. c \in Classes
  BY DEF Classes
<1>3. GuardsFor(gs, c, Tabled(p, f))
  <2>1. CASE f.join.table \in p.tables
    <3>1. gs = <<Guard(c, "main", TRUE)>> \o <<Guard(c, "join", TRUE)>>
      BY <2>1
    <3>2. GuardsFor(gs, c, {"main", "join"})
      BY <3>1, <1>2, GuardLists
    <3> QED
      BY <3>2, FewerGuards DEF Tabled
  <2>2. CASE f.join.table \notin p.tables
    <3>1. gs = <<Guard(c, "main", TRUE)>>
      BY <2>2, <1>2, GuardLists
    <3>2. GuardsFor(gs, c, {"main"})
      BY <3>1, <1>2, GuardLists
    <3>3. Tabled(p, f) \subseteq {"main"}
      BY <2>2 DEF Tabled, TableAt
    <3> QED
      BY <3>2, <3>3, FewerGuards
  <2> QED
    BY <2>1, <2>2
<1> HIDE DEF gs
<1>4. /\ Grows(f, m) /\ m.flags = f.flags \cup {c}
      /\ \A pos \in Tabled(p, f) : GuardedAt(m, c, pos)
  BY <1>2, <1>3, MarkedFor
<1> HIDE DEF m
<1>5. DOMAIN m = FrameFields /\ FrameOK(m)
  BY <1>4, FrameDomain DEF Grows, FrameOK
<1>6. /\ DOMAIN g = DOMAIN m /\ g.type = m.type /\ g.table = m.table /\ g.join = m.join /\ g.mode = m.mode
      /\ g.slot = m.slot /\ g.field = m.field /\ g.guards = m.guards /\ g.flags = m.flags
      /\ g.limited = m.limited /\ g.schema = m.schema
  BY <1>5 DEF FrameFields
<1> HIDE DEF g
<1>7. Grows(m, g)
  BY <1>5, <1>6, AsideGrows
<1>8. Grows(f, g)
  BY <1>4, <1>7, GrowsTransitive
<1>9. ASSUME NEW pos \in {"main", "join"}, Concerns(p, f, pos)
      PROVE  Treated(p, g, pos)
  <2>1. GuardedAt(m, c, pos)
    BY <1>4, <1>9, ConcernsTabled
  <2>2. GuardedAt(g, c, pos)
    BY <2>1, <1>6 DEF GuardedAt
  <2> QED
    BY <2>2, TreatedIs
<1> QED
  BY <1>1, <1>4, <1>6, <1>8, <1>9 DEF Does

\* A predicate on the main table, by a plugin with nothing to do on the joined one.
LEMMA MainMarkedDoes ==
  ASSUME NEW c \in {"soft-delete", "multi-tenant", "casl"}, NEW p, p.class = c, NEW f, FrameOK(f), NEW q \in BOOLEAN,
         c \notin f.flags, f.table \in p.tables,
         Concerns(p, f, "join") => OptedOut(p, f, "join") \/ Overlooked(p, f, "join")
  PROVE  Does(p, f, Marked(f, c, <<Guard(c, "main", q)>>))
<1> DEFINE gs == <<Guard(c, "main", q)>>
           g == Marked(f, c, gs)
<1>1. c \in Classes
  BY DEF Classes
<1>2. GuardsFor(gs, c, {"main"})
  BY <1>1, GuardLists
<1> HIDE DEF gs
<1>3. Grows(f, g) /\ g.flags = f.flags \cup {c} /\ GuardedAt(g, c, "main")
  BY <1>1, <1>2, MarkedFor
<1> HIDE DEF g
<1>4. Treated(p, g, "main")
  BY <1>3, TreatedIs
<1>5. Does(p, f, g)
  BY <1>3, <1>4 DEF Does
<1> QED
  BY <1>5 DEF g, gs

\* Columns and flags of an INSERT, which nothing filters.
LEMMA InsertDoes ==
  ASSUME NEW p, p.class \notin {"query-limit", "with-schema"}, NEW f, FrameOK(f), f.type = "insert",
         NEW g, DOMAIN g = DOMAIN f, g.type = f.type, g.table = f.table, g.join = f.join, g.mode = f.mode,
         g.slot = f.slot, g.field = f.field, g.guards = f.guards, g.limited = f.limited, g.schema = f.schema,
         f.flags \subseteq g.flags, g.flags \subseteq f.flags \cup {p.class},
         p.class = "multi-tenant" => f.table \in p.tables
  PROVE  Does(p, f, g)
<1>1. Grows(f, g)
  BY AsideGrows
<1>2. \A pos \in {"main", "join"} : ~Concerns(p, f, pos)
  BY DEF Concerns
<1> QED
  BY <1>1, <1>2 DEF Does

LEMMA MultiTenantEffect ==
  ASSUME NEW p, p.class = "multi-tenant", NEW fs, NEW d, Framed(fs, d), MultiTenant(p, fs, d) # Thrown
  PROVE  Effect(p, fs, d, MultiTenant(p, fs, d))
<1> DEFINE f == fs[d]
<1>1. /\ d \in DOMAIN fs /\ FrameOK(f) /\ DOMAIN f = FrameFields
      /\ f.type \in {"select", "insert", "update", "delete", "merge"}
  BY FrameDomain DEF Framed, FrameOK, Expressions
<1>2. ~CrossesTenants(p, f)
  BY DEF MultiTenant
<1>3. CASE f.type = "select"
  <2>1. MultiTenant(p, fs, d) = Put(fs, d, TenantSelect(p, f))
    BY <1>2, <1>3 DEF MultiTenant
  <2>2. Does(p, f, TenantSelect(p, f))
    BY <1>1, <1>3, TenantSelectDoes
  <2> QED
    BY <2>1, <2>2, PutEffect
<1>4. CASE f.type # "select" /\ ("multi-tenant" \in f.flags \/ f.table \notin p.tables)
  <2>1. MultiTenant(p, fs, d) = fs
    BY <1>2, <1>4 DEF MultiTenant
  <2>2. ASSUME NEW pos \in {"main", "join"}, Concerns(p, f, pos), "multi-tenant" \notin f.flags
        PROVE  Overlooked(p, f, pos)
    BY <1>4, <2>2 DEF Concerns, TableAt, Overlooked
  <2>3. Does(p, f, f)
    BY <1>1, <2>2, GrowsSelf DEF Does
  <2> QED
    BY <2>1, <2>3, IdleEffect
<1>5. CASE f.type \in {"update", "delete"} /\ "multi-tenant" \notin f.flags /\ f.table \in p.tables
  <2>1. MultiTenant(p, fs, d) = Put(fs, d, Marked(f, "multi-tenant", <<Guard("multi-tenant", "main", FALSE)>>))
    BY <1>2, <1>5 DEF MultiTenant
  <2>2. Overlooked(p, f, "join")
    BY <1>5 DEF Overlooked
  <2>3. Does(p, f, Marked(f, "multi-tenant", <<Guard("multi-tenant", "main", FALSE)>>))
    BY <1>1, <1>5, <2>2, MainMarkedDoes
  <2> QED
    BY <2>1, <2>3, PutEffect
<1>6. CASE f.type = "insert" /\ "multi-tenant" \notin f.flags /\ f.table \in p.tables
  <2> DEFINE g == [f EXCEPT !.columns = Append(@, "tenant_id"), !.flags = @ \cup {"multi-tenant"}]
  <2>1. MultiTenant(p, fs, d) = Put(fs, d, g)
    BY <1>2, <1>6 DEF MultiTenant
  <2>2. /\ DOMAIN g = DOMAIN f /\ g.type = f.type /\ g.table = f.table /\ g.join = f.join /\ g.mode = f.mode
        /\ g.slot = f.slot /\ g.field = f.field /\ g.guards = f.guards /\ g.limited = f.limited
        /\ g.schema = f.schema /\ g.flags = f.flags \cup {"multi-tenant"}
    BY <1>1 DEF FrameFields
  <2> HIDE DEF g
  <2>3. Does(p, f, g)
    BY <1>1, <1>6, <2>2, InsertDoes
  <2> QED
    BY <2>1, <2>3, PutEffect
<1>7. CASE f.type = "merge" /\ "multi-tenant" \notin f.flags /\ f.table \in p.tables
  <2>1. MultiTenant(p, fs, d) = Put(fs, d, TenantMerge(p, f))
    BY <1>2, <1>7 DEF MultiTenant
  <2>2. Does(p, f, TenantMerge(p, f))
    BY <1>1, <1>7, TenantMergeDoes
  <2> QED
    BY <2>1, <2>2, PutEffect
<1> QED
  BY <1>1, <1>3, <1>4, <1>5, <1>6, <1>7

LEMMA CaslEffect ==
  ASSUME NEW p, p.class = "casl", NEW fs, NEW d, Framed(fs, d), Casl(p, fs, d) # Thrown
  PROVE  Effect(p, fs, d, Casl(p, fs, d))
<1> DEFINE f == fs[d]
<1>1. /\ d \in DOMAIN fs /\ FrameOK(f)
      /\ f.type \in {"select", "insert", "update", "delete", "merge"}
  BY DEF Framed, FrameOK, Expressions
<1>2. Overlooked(p, f, "join")
  BY DEF Overlooked
<1>3. CASE f.type \notin {"select", "update", "delete"} \/ Authorized(f)
  <2>1. Casl(p, fs, d) = fs
    BY <1>3 DEF Casl
  <2>2. ASSUME NEW pos \in {"main", "join"}, Concerns(p, f, pos), "casl" \notin f.flags
        PROVE  OptedOut(p, f, pos)
    BY <1>3, <2>2 DEF Concerns, OptedOut, Authorized
  <2>3. Does(p, f, f)
    BY <1>1, <2>2, GrowsSelf DEF Does
  <2> QED
    BY <2>1, <2>3, IdleEffect
<1>4. CASE f.type \in {"select", "update", "delete"} /\ ~Authorized(f)
           /\ (f.table \notin p.tables \/ BuildWhereNode(p.rules) = True)
  <2> DEFINE g == Marked(f, "casl", <<>>)
  <2>1. Casl(p, fs, d) = Put(fs, d, g)
    BY <1>4 DEF Casl
  <2>2. "casl" \in Classes /\ GuardsFor(<<>>, "casl", {})
    BY GuardLists DEF Classes
  <2>3. Grows(f, g) /\ g.flags = f.flags \cup {"casl"}
    BY <1>1, <1>4, <2>2, MarkedFor DEF Authorized
  <2> HIDE DEF g
  <2>4. Concerns(p, f, "main") => OptedOut(p, f, "main")
    BY <1>4 DEF Concerns, TableAt, OptedOut
  <2>5. Does(p, f, g)
    BY <1>2, <2>3, <2>4 DEF Does
  <2> QED
    BY <2>1, <2>5, PutEffect
<1>5. CASE f.type \in {"select", "update", "delete"} /\ ~Authorized(f)
           /\ f.table \in p.tables /\ BuildWhereNode(p.rules) # True
  <2>1. Casl(p, fs, d) = Put(fs, d, Marked(f, "casl", <<Guard("casl", "main", FALSE)>>))
    BY <1>5 DEF Casl
  <2>2. Does(p, f, Marked(f, "casl", <<Guard("casl", "main", FALSE)>>))
    BY <1>1, <1>2, <1>5, MainMarkedDoes DEF Authorized
  <2> QED
    BY <2>1, <2>2, PutEffect
<1> QED
  BY <1>3, <1>4, <1>5

\* Plugins for values filter nothing: g is f with other columns or assignments.
LEMMA ValuesDo ==
  ASSUME NEW p, p.class \in {"optimistic-lock", "audit", "defaults"}, NEW f, FrameOK(f),
         NEW g, Grows(f, g), g.flags \subseteq f.flags \cup {p.class}
  PROVE  Does(p, f, g)
BY DEF Does, Concerns

LEMMA OptimisticLockEffect ==
  ASSUME NEW p, p.class = "optimistic-lock", NEW fs, NEW d, Framed(fs, d)
  PROVE  Effect(p, fs, d, OptimisticLock(p, fs, d))
<1> DEFINE f == fs[d]
           c == "optimistic-lock"
           r == OptimisticLock(p, fs, d)
<1>1. d \in DOMAIN fs /\ FrameOK(f) /\ DOMAIN f = FrameFields /\ c \in Classes
  BY FrameDomain DEF Framed, FrameOK, Classes
<1>2. ASSUME r = fs
      PROVE  Effect(p, fs, d, r)
  <2>1. Does(p, f, f)
    BY <1>1, GrowsSelf, ValuesDo
  <2> QED
    BY <1>2, <2>1, IdleEffect
<1>3. CASE f.table \notin p.tables \/ c \in f.flags
  BY <1>2, <1>3 DEF OptimisticLock
<1>4. CASE f.table \in p.tables /\ c \notin f.flags /\ f.type = "update"
  <2> DEFINE m == Marked(f, c, <<Guard(c, "main", FALSE)>>)
             g == [m EXCEPT !.set = Append(@, "version")]
  <2>1. r = Put(fs, d, g)
    BY <1>4 DEF OptimisticLock
  <2>2. GuardsFor(<<Guard(c, "main", FALSE)>>, c, {"main"})
    BY <1>1, GuardLists
  <2>3. Grows(f, m) /\ m.flags = f.flags \cup {c}
    BY <1>1, <1>4, <2>2, MarkedFor
  <2> HIDE DEF m
  <2>4. DOMAIN m = FrameFields /\ FrameOK(m)
    BY <2>3, FrameDomain DEF Grows, FrameOK
  <2>5. /\ DOMAIN g = DOMAIN m /\ g.type = m.type /\ g.table = m.table /\ g.join = m.join /\ g.mode = m.mode
        /\ g.slot = m.slot /\ g.field = m.field /\ g.guards = m.guards /\ g.flags = m.flags
        /\ g.limited = m.limited /\ g.schema = m.schema
    BY <2>4 DEF FrameFields
  <2> HIDE DEF g
  <2>6. Grows(m, g)
    BY <2>4, <2>5, AsideGrows
  <2>7. Grows(f, g)
    BY <2>3, <2>6, GrowsTransitive
  <2>8. Does(p, f, g)
    BY <1>1, <2>3, <2>5, <2>7, ValuesDo
  <2> QED
    BY <2>1, <2>8, PutEffect
<1>5. CASE f.table \in p.tables /\ c \notin f.flags /\ f.type = "insert" /\ r # fs
  <2> DEFINE g == [f EXCEPT !.columns = Append(@, "version"), !.flags = @ \cup {"optimistic-lock"}]
  <2>1. r = Put(fs, d, g)
    BY <1>5 DEF OptimisticLock
  <2>2. /\ DOMAIN g = DOMAIN f /\ g.type = f.type /\ g.table = f.table /\ g.join = f.join /\ g.mode = f.mode
        /\ g.slot = f.slot /\ g.field = f.field /\ g.guards = f.guards /\ g.limited = f.limited
        /\ g.schema = f.schema /\ g.flags = f.flags \cup {c}
    BY <1>1 DEF FrameFields
  <2> HIDE DEF g
  <2>3. Does(p, f, g)
    BY <1>1, <1>5, <2>2, InsertDoes
  <2> QED
    BY <2>1, <2>3, PutEffect
<1>6. CASE f.table \in p.tables /\ c \notin f.flags /\ f.type \notin {"insert", "update"}
  BY <1>2, <1>6 DEF OptimisticLock
<1> QED
  BY <1>2, <1>3, <1>4, <1>5, <1>6

\* A statement with other columns and assignments.
LEMMA AsideDoes ==
  ASSUME NEW p, p.class \in {"optimistic-lock", "audit", "defaults"}, NEW f, FrameOK(f), NEW g,
         DOMAIN g = DOMAIN f, \A x \in FrameFields \ {"columns", "set"} : g[x] = f[x]
  PROVE  Does(p, f, g)
<1>1. /\ g.type = f.type /\ g.table = f.table /\ g.join = f.join /\ g.mode = f.mode
      /\ g.slot = f.slot /\ g.field = f.field /\ g.guards = f.guards /\ g.limited = f.limited
      /\ g.schema = f.schema /\ g.flags = f.flags
  BY DEF FrameFields
<1>2. Grows(f, g)
  BY <1>1, AsideGrows
<1> QED
  BY <1>1, <1>2, ValuesDo

WithColumns(f, columns) == [f EXCEPT !.columns = columns]
WithSet(f, set) == [f EXCEPT !.set = set]
WithBoth(f, columns, set) == [f EXCEPT !.columns = columns, !.set = set]

LEMMA RewrittenDoes ==
  ASSUME NEW p, p.class \in {"optimistic-lock", "audit", "defaults"}, NEW f, FrameOK(f), NEW columns, NEW set
  PROVE  /\ Does(p, f, f)
         /\ Does(p, f, WithColumns(f, columns))
         /\ Does(p, f, WithSet(f, set))
         /\ Does(p, f, WithBoth(f, columns, set))
<1>1. DOMAIN f = FrameFields
  BY FrameDomain DEF FrameOK
<1>2. Does(p, f, f)
  BY AsideDoes
<1>3. Does(p, f, WithColumns(f, columns))
  BY <1>1, AsideDoes DEF WithColumns
<1>4. Does(p, f, WithSet(f, set))
  BY <1>1, AsideDoes DEF WithSet
<1>5. Does(p, f, WithBoth(f, columns, set))
  <2> DEFINE g == WithBoth(f, columns, set)
  <2>1. DOMAIN g = DOMAIN f
    BY DEF WithBoth
  <2>2. \A x \in FrameFields \ {"columns", "set"} : g[x] = f[x]
    BY <1>1 DEF WithBoth
  <2> HIDE DEF g
  <2>3. Does(p, f, g)
    BY <2>1, <2>2, AsideDoes
  <2> QED
    BY <2>3 DEF g
<1> QED
  BY <1>2, <1>3, <1>4, <1>5

\* The statement is left as it is, or gets other columns and assignments.
LEMMA RewrittenEffect ==
  ASSUME NEW p, p.class \in {"optimistic-lock", "audit", "defaults"}, NEW fs, NEW d, Framed(fs, d)
  PROVE  /\ Effect(p, fs, d, fs)
         /\ \A columns : Effect(p, fs, d, Put(fs, d, WithColumns(fs[d], columns)))
         /\ \A set : Effect(p, fs, d, Put(fs, d, WithSet(fs[d], set)))
         /\ \A columns, set : Effect(p, fs, d, Put(fs, d, WithBoth(fs[d], columns, set)))
<1>1. FrameOK(fs[d])
  BY DEF Framed
<1>2. ASSUME NEW columns, NEW set
      PROVE  /\ Does(p, fs[d], fs[d])
             /\ Does(p, fs[d], WithColumns(fs[d], columns))
             /\ Does(p, fs[d], WithSet(fs[d], set))
             /\ Does(p, fs[d], WithBoth(fs[d], columns, set))
  BY <1>1, RewrittenDoes
<1>3. Effect(p, fs, d, fs)
  BY <1>2, IdleEffect
<1>4. ASSUME NEW columns
      PROVE  Effect(p, fs, d, Put(fs, d, WithColumns(fs[d], columns)))
  BY <1>2, PutEffect
<1>5. ASSUME NEW set
      PROVE  Effect(p, fs, d, Put(fs, d, WithSet(fs[d], set)))
  BY <1>2, PutEffect
<1>6. ASSUME NEW columns, NEW set
      PROVE  Effect(p, fs, d, Put(fs, d, WithBoth(fs[d], columns, set)))
  BY <1>2, PutEffect
<1> QED
  BY <1>3, <1>4, <1>5, <1>6

LEMMA AuditTimestampEffect ==
  ASSUME NEW p, p.class = "audit", NEW fs, NEW d, Framed(fs, d)
  PROVE  Effect(p, fs, d, AuditTimestamp(p, fs, d))
<1> DEFINE f == fs[d]
           r == AuditTimestamp(p, fs, d)
<1>1. p.class \in {"optimistic-lock", "audit", "defaults"}
  OBVIOUS
<1>2. /\ Effect(p, fs, d, fs)
      /\ \A columns : Effect(p, fs, d, Put(fs, d, WithColumns(fs[d], columns)))
      /\ \A set : Effect(p, fs, d, Put(fs, d, WithSet(fs[d], set)))
      /\ \A columns, set : Effect(p, fs, d, Put(fs, d, WithBoth(fs[d], columns, set)))
  <2> HIDE DEF f, r
  <2> QED
    BY <1>1, RewrittenEffect
<1>6. CASE f.table \notin p.tables \/ f.type \notin {"insert", "update", "merge"}
  BY <1>2, <1>6 DEF AuditTimestamp
<1>7. CASE f.table \in p.tables /\ f.type = "insert"
  <2>1. r = Put(fs, d, WithColumns(f, f.columns \o <<"created_at", "updated_at">>))
    BY <1>7 DEF AuditTimestamp, WithColumns
  <2> QED
    BY <1>2, <2>1
<1>8. CASE f.table \in p.tables /\ f.type = "update"
  <2>1. r = Put(fs, d, WithSet(f, Append(f.set, "updated_at")))
    BY <1>8 DEF AuditTimestamp, WithSet
  <2> QED
    BY <1>2, <2>1
<1>9. CASE f.table \in p.tables /\ f.type = "merge"
  <2>1. r = Put(fs, d, WithBoth(f, f.columns \o Lacking("created_at", f.columns) \o Lacking("updated_at", f.columns),
                               f.set \o Lacking("updated_at", f.set)))
    BY <1>9 DEF AuditTimestamp, WithBoth
  <2> QED
    BY <1>2, <2>1
<1> QED
  BY <1>6, <1>7, <1>8, <1>9

LEMMA DefaultsEffect ==
  ASSUME NEW p, p.class = "defaults", NEW fs, NEW d, Framed(fs, d)
  PROVE  Effect(p, fs, d, Defaults(p, fs, d))
<1> DEFINE f == fs[d]
           new == f.columns \o Lacking("tenant_id", f.columns)
<1>1. p.class \in {"optimistic-lock", "audit", "defaults"}
  OBVIOUS
<1>2. Effect(p, fs, d, fs) /\ Effect(p, fs, d, Put(fs, d, WithColumns(f, new)))
  BY <1>1, RewrittenEffect
<1>3. Defaults(p, fs, d) \in {fs, Put(fs, d, WithColumns(f, new))}
  BY DEF Defaults, WithColumns
<1> QED
  BY <1>2, <1>3

\* A limit and a prefix: no flags, no predicates.
LEMMA QueryLimitEffect ==
  ASSUME NEW p, p.class = "query-limit", NEW fs, NEW d, Framed(fs, d)
  PROVE  Effect(p, fs, d, QueryLimit(fs, d))
<1> DEFINE f == fs[d]
           g == [f EXCEPT !.limited = TRUE]
<1>1. d \in DOMAIN fs /\ FrameOK(f) /\ DOMAIN f = FrameFields
  BY FrameDomain DEF Framed, FrameOK
<1>2. CASE f.type = "select"
  <2>1. QueryLimit(fs, d) = Put(fs, d, g)
    BY <1>2 DEF QueryLimit, Put
  <2>2. /\ DOMAIN g = DOMAIN f /\ g.type = f.type /\ g.table = f.table /\ g.join = f.join /\ g.mode = f.mode
        /\ g.slot = f.slot /\ g.field = f.field /\ g.guards = f.guards /\ g.limited
        /\ g.schema = f.schema /\ g.flags = f.flags
    BY <1>1 DEF FrameFields
  <2> HIDE DEF g
  <2>3. Grows(f, g)
    BY <1>1, <2>2, AsideGrows
  <2>4. \A pos \in {"main", "join"} : Treated(p, g, pos)
    BY <2>2 DEF Treated
  <2>5. Does(p, f, g)
    BY <2>2, <2>3, <2>4 DEF Does
  <2> QED
    BY <2>1, <2>5, PutEffect
<1>3. CASE f.type # "select"
  <2>1. QueryLimit(fs, d) = fs
    BY <1>3 DEF QueryLimit
  <2>2. \A pos \in {"main", "join"} : ~Concerns(p, f, pos)
    BY <1>3 DEF Concerns
  <2>3. Does(p, f, f)
    BY <1>1, <2>2, GrowsSelf DEF Does
  <2> QED
    BY <2>1, <2>3, IdleEffect
<1> QED
  BY <1>2, <1>3

LEMMA WithSchemaEffect ==
  ASSUME NEW p, p.class = "with-schema", NEW fs, NEW d, Framed(fs, d)
  PROVE  Effect(p, fs, d, WithSchema(fs, d))
<1> DEFINE f == fs[d]
           g == [f EXCEPT !.schema = Prefixed(f)]
<1>1. /\ d \in DOMAIN fs /\ FrameOK(f) /\ DOMAIN f = FrameFields
      /\ f.type \in {"select", "insert", "update", "delete", "merge"}
  BY FrameDomain DEF Framed, FrameOK, Expressions
<1>2. /\ DOMAIN g = DOMAIN f /\ g.type = f.type /\ g.table = f.table /\ g.join = f.join /\ g.mode = f.mode
      /\ g.slot = f.slot /\ g.field = f.field /\ g.guards = f.guards /\ g.limited = f.limited
      /\ g.schema = Prefixed(f) /\ g.flags = f.flags
  BY <1>1 DEF FrameFields
<1>3. WithSchema(fs, d) = Put(fs, d, g)
  BY DEF WithSchema
<1> HIDE DEF g
<1>4. Grows(f, g)
  BY <1>1, <1>2, AsideGrows
\* INSERT joins nothing.
<1>5. f.type = "insert" => f.join.table = NoTable
  <2>1. f.type = "insert" => f.join = NoJoin
    BY <1>1 DEF FrameOK
  <2>2. NoJoin.table = NoTable
    BY DEF NoJoin
  <2> QED
    BY <2>1, <2>2
<1>6. ASSUME NEW pos \in {"main", "join"}, Concerns(p, f, pos), ~Overlooked(p, f, pos)
      PROVE  Treated(p, g, pos)
  BY <1>1, <1>2, <1>5, <1>6 DEF Concerns, TableAt, Treated, Overlooked, Prefixed
<1>7. Does(p, f, g)
  BY <1>2, <1>4, <1>6 DEF Does
<1> QED
  BY <1>3, <1>7, PutEffect

\* The tables of a SELECT that soft-delete filters.
Filtered(p, f) == (IF FiltersJoin(p, f) THEN {"join"} ELSE {}) \cup (IF f.table \in p.tables THEN {"main"} ELSE {})

LEMMA AliveFor ==
  ASSUME NEW p, NEW f
  PROVE  GuardsFor(AliveGuards(p, f), "soft-delete", Filtered(p, f))
<1> DEFINE c == "soft-delete"
<1>1. c \in Classes
  BY DEF Classes
<1>2. /\ GuardsFor(<<>>, c, {}) /\ GuardsFor(<<Guard(c, "main", FALSE)>>, c, {"main"})
      /\ GuardsFor(<<Guard(c, "join", FALSE)>>, c, {"join"})
      /\ GuardsFor(<<Guard(c, "join", FALSE)>> \o <<Guard(c, "main", FALSE)>>, c, {"main", "join"})
      /\ \A gs \in Seq(Guards) : <<>> \o gs = gs /\ gs \o <<>> = gs
      /\ <<Guard(c, "main", FALSE)>> \in Seq(Guards) /\ <<Guard(c, "join", FALSE)>> \in Seq(Guards)
  BY <1>1, GuardLists
<1>a. /\ <<>> \o <<>> = <<>>
      /\ <<>> \o <<Guard(c, "main", FALSE)>> = <<Guard(c, "main", FALSE)>>
      /\ <<Guard(c, "join", FALSE)>> \o <<>> = <<Guard(c, "join", FALSE)>>
  <2>1. <<>> \in Seq(Guards)
    OBVIOUS
  <2> QED
    BY <1>2, <2>1
<1>3. CASE FiltersJoin(p, f) /\ f.table \in p.tables
  <2>1. /\ AliveGuards(p, f) = <<Guard(c, "join", FALSE)>> \o <<Guard(c, "main", FALSE)>>
        /\ Filtered(p, f) = {"main", "join"}
    BY <1>3 DEF AliveGuards, Filtered
  <2> QED
    BY <1>2, <2>1
<1>4. CASE FiltersJoin(p, f) /\ f.table \notin p.tables
  <2>1. AliveGuards(p, f) = <<Guard(c, "join", FALSE)>> /\ Filtered(p, f) = {"join"}
    BY <1>a, <1>4 DEF AliveGuards, Filtered
  <2> QED
    BY <1>2, <2>1
<1>5. CASE ~FiltersJoin(p, f) /\ f.table \in p.tables
  <2>1. AliveGuards(p, f) = <<Guard(c, "main", FALSE)>> /\ Filtered(p, f) = {"main"}
    BY <1>a, <1>5 DEF AliveGuards, Filtered
  <2> QED
    BY <1>2, <2>1
<1>6. CASE ~FiltersJoin(p, f) /\ f.table \notin p.tables
  <2>1. AliveGuards(p, f) = <<>> /\ Filtered(p, f) = {}
    BY <1>a, <1>6 DEF AliveGuards, Filtered
  <2> QED
    BY <1>2, <2>1
<1> QED
  BY <1>3, <1>4, <1>5, <1>6

\* An outer join is left alone.
LEMMA FilteredOrLeft ==
  ASSUME NEW p, p.class = "soft-delete", NEW f, NEW pos \in {"main", "join"},
         Concerns(p, f, pos), pos \notin Filtered(p, f)
  PROVE  OptedOut(p, f, pos)
BY DEF Concerns, Filtered, FiltersJoin, OptedOut, TableAt

LEMMA AliveDoes ==
  ASSUME NEW p, p.class = "soft-delete", NEW f, FrameOK(f), "soft-delete" \notin f.flags
  PROVE  Does(p, f, Marked(f, "soft-delete", AliveGuards(p, f)))
<1> DEFINE g == Marked(f, "soft-delete", AliveGuards(p, f))
<1>1. "soft-delete" \in Classes
  BY DEF Classes
<1>2. GuardsFor(AliveGuards(p, f), "soft-delete", Filtered(p, f))
  BY AliveFor
<1>3. /\ Grows(f, g) /\ g.flags = f.flags \cup {"soft-delete"}
      /\ \A pos \in Filtered(p, f) : GuardedAt(g, "soft-delete", pos)
  BY <1>1, <1>2, MarkedFor
<1> HIDE DEF g
<1>4. ASSUME NEW pos \in {"main", "join"}, Concerns(p, f, pos)
      PROVE  Treated(p, g, pos) \/ OptedOut(p, f, pos)
  BY <1>3, <1>4, FilteredOrLeft, TreatedIs
<1>5. Does(p, f, g)
  BY <1>3, <1>4 DEF Does
<1> QED
  BY <1>5 DEF g

\* What a plugin does to the path of statements when it is applied to statement d.
Moves(p, fs, d, r) ==
  /\ DOMAIN r = DOMAIN fs
  /\ \A e \in DOMAIN fs : Does(p, fs[e], r[e]) \/ (e # d /\ r[e] = fs[e])
  /\ \A e \in DOMAIN fs : e # d /\ r[e] # fs[e] =>
       p.class = "soft-delete" /\ fs[d].type = "select" /\ e \in Entered(fs, d)
  /\ p.class = "soft-delete" /\ fs[d].type = "select" =>
       /\ \A e \in Entered(fs, d) : "soft-delete" \in r[e].flags \/ Filtered(p, fs[e]) = {}
       /\ "soft-delete" \in r[d].flags => "soft-delete" \in fs[d].flags \/ d \in Entered(fs, d)

LEMMA EffectMoves ==
  ASSUME NEW p, NEW fs, NEW d, Framed(fs, d), NEW r, Effect(p, fs, d, r),
         p.class # "soft-delete" \/ fs[d].type # "select"
  PROVE  Moves(p, fs, d, r)
BY DEF Effect, Moves, Does

LEMMA SoftDeleteSelectMoves ==
  ASSUME NEW p, p.class = "soft-delete", NEW fs, DOMAIN fs = 1 .. Len(fs), Len(fs) \in Nat, NEW d, Framed(fs, d),
         fs[d].type = "select"
  PROVE  Moves(p, fs, d, SoftDeleteSelect(p, fs, d))
<1> DEFINE E == Entered(fs, d)
           changed == {e \in E : \E k \in E : k >= e /\ (fs[k].table \in p.tables \/ FiltersJoin(p, fs[k]))}
           r == SoftDeleteSelect(p, fs, d)
<1>1. /\ E \subseteq DOMAIN fs /\ (d \in E <=> Unfiltered(fs[d])) /\ d \in DOMAIN fs
      /\ \A e \in E : Unfiltered(fs[e]) /\ e \in Nat
      /\ \A e \in DOMAIN fs : FrameOK(fs[e])
  BY DEF Entered, Framed
<1>2. /\ DOMAIN r = DOMAIN fs
      /\ \A e \in changed : r[e] = Marked(fs[e], "soft-delete", AliveGuards(p, fs[e]))
      /\ \A e \in DOMAIN fs \ changed : r[e] = fs[e]
  BY <1>1 DEF SoftDeleteSelect
<1>3. \A e \in E : e \in changed \/ Filtered(p, fs[e]) = {}
  BY <1>1 DEF Filtered
<1>4. changed \subseteq E
  OBVIOUS
<1> HIDE DEF E, changed, r
<1>5. \A e \in changed : Does(p, fs[e], r[e])
  BY <1>1, <1>2, <1>4, AliveDoes DEF Unfiltered
<1>6. ASSUME d \notin changed
      PROVE  Does(p, fs[d], fs[d])
  <2>1. ASSUME NEW pos \in {"main", "join"}, Concerns(p, fs[d], pos), "soft-delete" \notin fs[d].flags
        PROVE  OptedOut(p, fs[d], pos)
    <3>1. CASE d \in E
      BY <1>3, <1>6, <2>1, <3>1, FilteredOrLeft
    <3>2. CASE d \notin E
      BY <1>1, <2>1, <3>2 DEF Unfiltered, OptedOut
    <3> QED
      BY <3>1, <3>2
  <2> QED
    BY <1>1, <2>1, GrowsSelf DEF Does
<1>7. \A e \in DOMAIN fs : Does(p, fs[e], r[e]) \/ (e # d /\ r[e] = fs[e])
  BY <1>2, <1>5, <1>6
<1>8. \A e \in E : "soft-delete" \in r[e].flags \/ Filtered(p, fs[e]) = {}
  <2>1. ASSUME NEW e \in changed
        PROVE  "soft-delete" \in r[e].flags
    <3>1. r[e] = Marked(fs[e], "soft-delete", AliveGuards(p, fs[e]))
      BY <1>2
    <3>2. DOMAIN fs[e] = FrameFields
      BY <1>1, <1>4, FrameDomain DEF FrameOK
    <3> QED
      BY <3>1, <3>2 DEF Marked, FrameFields
  <2> QED
    BY <1>3, <2>1
<1>9. Moves(p, fs, d, r)
  BY <1>1, <1>2, <1>4, <1>7, <1>8 DEF Moves, E
<1> QED
  BY <1>9 DEF r

LEMMA SoftDeleteMoves ==
  ASSUME NEW p, p.class = "soft-delete", NEW fs, DOMAIN fs = 1 .. Len(fs), Len(fs) \in Nat, NEW d, Framed(fs, d)
  PROVE  Moves(p, fs, d, SoftDelete(p, fs, d))
<1> DEFINE f == fs[d]
           c == "soft-delete"
<1>1. /\ d \in DOMAIN fs /\ FrameOK(f)
      /\ f.type \in {"select", "insert", "update", "delete", "merge"}
  BY DEF Framed, FrameOK, Expressions
<1>2. CASE f.type = "select"
  BY <1>2, SoftDeleteSelectMoves DEF SoftDelete
<1>3. CASE /\ f.type \in {"update", "merge"} /\ f.table \in p.tables /\ c \notin f.flags
           /\ f.type = "update" => f.mode # "include"
  <2>1. SoftDelete(p, fs, d) = Put(fs, d, Marked(f, c, <<Guard(c, "main", f.type = "merge")>>))
    BY <1>3 DEF SoftDelete
  <2>2. Overlooked(p, f, "join") /\ (f.type = "merge") \in BOOLEAN
    BY <1>3 DEF Overlooked
  <2>3. Does(p, f, Marked(f, c, <<Guard(c, "main", f.type = "merge")>>))
    BY <1>1, <1>3, <2>2, MainMarkedDoes
  <2>4. Effect(p, fs, d, SoftDelete(p, fs, d))
    BY <2>1, <2>3, PutEffect
  <2> QED
    BY <1>3, <2>4, EffectMoves
<1>4. CASE /\ f.type # "select"
           /\ \/ f.type \notin {"update", "merge"} \/ f.table \notin p.tables \/ c \in f.flags
              \/ f.type = "update" /\ f.mode = "include"
  <2>1. SoftDelete(p, fs, d) = fs
    BY <1>4 DEF SoftDelete
  <2>2. ASSUME NEW pos \in {"main", "join"}, Concerns(p, f, pos), c \notin f.flags
        PROVE  OptedOut(p, f, pos) \/ Overlooked(p, f, pos)
    BY <1>4, <2>2 DEF Concerns, TableAt, OptedOut, Overlooked
  <2>3. Does(p, f, f)
    BY <1>1, <2>2, GrowsSelf DEF Does
  <2>4. Effect(p, fs, d, SoftDelete(p, fs, d))
    BY <2>1, <2>3, IdleEffect
  <2> QED
    BY <1>4, <2>4, EffectMoves
<1> QED
  BY <1>2, <1>3, <1>4

\* Whatever the plugin.
LEMMA TransformMoves ==
  ASSUME NEW p, p.class \in Classes, NEW fs, DOMAIN fs = 1 .. Len(fs), Len(fs) \in Nat, NEW d, Framed(fs, d),
         TransformNode(p, fs, d) # Thrown
  PROVE  Moves(p, fs, d, TransformNode(p, fs, d))
<1> DEFINE r == TransformNode(p, fs, d)
<1>0. fs[d].type \notin {"explain", "create_view"}
  BY DEF Framed
<1>1. CASE p.class = "soft-delete"
  BY <1>0, <1>1, SoftDeleteMoves DEF TransformNode
<1>2. CASE p.class = "multi-tenant"
  BY <1>0, <1>2, MultiTenantEffect, EffectMoves DEF TransformNode
<1>3. CASE p.class = "casl"
  BY <1>0, <1>3, CaslEffect, EffectMoves DEF TransformNode
<1>4. CASE p.class = "optimistic-lock"
  BY <1>0, <1>4, OptimisticLockEffect, EffectMoves DEF TransformNode
<1>5. CASE p.class = "audit"
  BY <1>0, <1>5, AuditTimestampEffect, EffectMoves DEF TransformNode
<1>6. CASE p.class = "defaults"
  BY <1>0, <1>6, DefaultsEffect, EffectMoves DEF TransformNode
<1>7. CASE p.class = "query-limit"
  BY <1>0, <1>7, QueryLimitEffect, EffectMoves DEF TransformNode
<1>8. CASE p.class = "with-schema"
  BY <1>0, <1>8, WithSchemaEffect, EffectMoves DEF TransformNode
<1> QED
  BY <1>1, <1>2, <1>3, <1>4, <1>5, <1>6, <1>7, <1>8 DEF Classes

-----------------------------------------------------------------------------
(* What a plugin has done stays done *)

LEMMA UpheldGrows ==
  ASSUME NEW p, NEW f, NEW g, NEW pos \in {"main", "join"}, Grows(f, g), Upheld(p, f, pos)
  PROVE  Upheld(p, g, pos)
<1>1. /\ g.type = f.type /\ g.table = f.table /\ g.join = f.join /\ g.mode = f.mode
      /\ f.flags \subseteq g.flags /\ f.schema \subseteq g.schema /\ (f.limited => g.limited)
      /\ \A i \in DOMAIN f.guards : i \in DOMAIN g.guards /\ g.guards[i] = f.guards[i]
  BY DEF Grows
<1>2. Concerns(p, g, pos) => Concerns(p, f, pos)
  BY <1>1 DEF Concerns, TableAt
<1>3. Treated(p, f, pos) => Treated(p, g, pos)
  BY <1>1 DEF Treated
<1>4. OptedOut(p, f, pos) => OptedOut(p, g, pos)
  BY <1>1 DEF OptedOut
<1>5. Shadowed(p, f) => Shadowed(p, g)
  BY <1>1 DEF Shadowed
<1>6. Overlooked(p, f, pos) => Overlooked(p, g, pos)
  BY <1>1 DEF Overlooked
<1> QED
  BY <1>2, <1>3, <1>4, <1>5, <1>6 DEF Upheld

\* A plugin upholds what it is about, unless the flag of its class stops it.
LEMMA DoesUpheld ==
  ASSUME NEW p, NEW f, NEW g, NEW pos \in {"main", "join"}, Does(p, f, g),
         p.class \in {"soft-delete", "multi-tenant", "casl"} /\ p.class \in f.flags => Upheld(p, f, pos)
  PROVE  Upheld(p, g, pos)
<1>1. Grows(f, g)
  BY DEF Does
<1>2. /\ g.type = f.type /\ g.table = f.table /\ g.join = f.join /\ g.mode = f.mode
  BY <1>1 DEF Grows
<1>3. Concerns(p, g, pos) => Concerns(p, f, pos)
  BY <1>2 DEF Concerns, TableAt
<1>4. OptedOut(p, f, pos) => OptedOut(p, g, pos)
  BY <1>2 DEF OptedOut
<1>5. Overlooked(p, f, pos) => Overlooked(p, g, pos)
  BY <1>2 DEF Overlooked
<1>6. CASE p.class \in {"soft-delete", "multi-tenant", "casl"} /\ p.class \in f.flags
  BY <1>1, <1>6, UpheldGrows
<1>7. CASE ~(p.class \in {"soft-delete", "multi-tenant", "casl"} /\ p.class \in f.flags)
  <2>1. Concerns(p, f, pos) => Treated(p, g, pos) \/ OptedOut(p, f, pos) \/ Overlooked(p, f, pos)
    BY <1>7 DEF Does
  <2> QED
    BY <1>3, <1>4, <1>5, <2>1 DEF Upheld
<1> QED
  BY <1>6, <1>7

\* What is upheld of a new statement, with the plugins as they were, is upheld.
LEMMA UpheldNext ==
  ASSUME plugins' = plugins, NEW CONSTANT i, NEW CONSTANT d, NEW CONSTANT pos,
         Upheld(plugins[i], frames'[d], pos)
  PROVE  Upheld(plugins[i], frames[d], pos)'
BY DEF Upheld, Shadowed

\* Explained statements and views are not touched, and nothing is about them.
LEMMA WalkMoves ==
  ASSUME NEW p, p.class \in Classes, NEW fs, DOMAIN fs = 1 .. Len(fs), Len(fs) \in Nat, NEW d \in DOMAIN fs,
         \A e \in DOMAIN fs : FrameOK(fs[e]), TransformNode(p, fs, d) # Thrown
  PROVE  Moves(p, fs, d, TransformNode(p, fs, d))
<1>1. CASE fs[d].type \notin {"explain", "create_view"}
  BY <1>1, TransformMoves DEF Framed
<1>2. CASE fs[d].type \in {"explain", "create_view"}
  <2>1. TransformNode(p, fs, d) = fs
    BY <1>2 DEF TransformNode
  <2>2. fs[d].table = NoTable /\ fs[d].join = NoJoin /\ NoJoin.table = NoTable
    BY <1>2 DEF FrameOK, NoJoin
  <2>3. \A pos \in {"main", "join"} : ~Concerns(p, fs[d], pos)
    BY <2>2 DEF Concerns, TableAt
  <2>4. Does(p, fs[d], fs[d])
    BY <1>2, <2>3, GrowsSelf DEF Does
  <2> QED
    BY <1>2, <2>1, <2>4 DEF Moves
<1> QED
  BY <1>1, <1>2

\* A statement a builder made: nothing is flagged but db.softDelete and db.restore.
LEMMA FreshFacts ==
  ASSUME NEW f, Fresh(f)
  PROVE  /\ FrameOK(f) /\ "multi-tenant" \notin f.flags /\ "casl" \notin f.flags
         /\ "soft-delete" \in f.flags =>
              \A p : \A pos \in {"main", "join"} : p.class = "soft-delete" => Upheld(p, f, pos)
<1> DEFINE g == Guard("soft-delete", "main", FALSE)
<1>1. g \in Guards /\ g.by = "soft-delete" /\ g.at = "main"
  BY DEF Guard, Guards, Classes
<1> HIDE DEF g
<1>2. <<g>> \in Seq(Guards) /\ DOMAIN <<g>> = 1 .. 1 /\ <<g>>[1] = g
  BY <1>1
<1>3. f.guards = <<>> \/ (f.guards = <<g>> /\ "soft-delete" \in f.flags)
  BY DEF Fresh, g
<1>4. f.guards \in Seq(Guards) /\ IsInjective(f.guards) /\ \A i \in DOMAIN f.guards : f.guards[i].by \in f.flags
  <2>1. CASE f.guards = <<>>
    BY <2>1 DEF IsInjective
  <2>2. CASE f.guards = <<g>> /\ "soft-delete" \in f.flags
    <3>1. \A i \in DOMAIN f.guards : i = 1
      BY <1>2, <2>2
    <3> QED
      BY <1>1, <1>2, <2>2, <3>1 DEF IsInjective
  <2> QED
    BY <1>3, <2>1, <2>2
<1>5. FrameOK(f)
  BY <1>4 DEF FrameOK, Fresh
<1>6. "multi-tenant" \notin f.flags /\ "casl" \notin f.flags
  BY DEF Fresh
<1>7. ASSUME "soft-delete" \in f.flags, NEW p, NEW pos \in {"main", "join"}, p.class = "soft-delete"
      PROVE  Upheld(p, f, pos)
  <2>1. f.type = "update" /\ (f.guards # <<>> \/ f.mode = "include")
    BY <1>7 DEF Fresh
  <2>2. CASE f.mode = "include"
    BY <1>7, <2>2 DEF Upheld, OptedOut
  <2>3. CASE pos = "join"
    BY <1>7, <2>1, <2>3 DEF Upheld, Overlooked
  <2>4. CASE f.guards # <<>> /\ pos = "main"
    <3>1. 1 \in DOMAIN f.guards /\ f.guards[1].by = "soft-delete" /\ f.guards[1].at = "main"
      BY <1>1, <1>2, <1>3, <2>4
    <3>2. Treated(p, f, pos)
      BY <1>7, <2>4, <3>1 DEF Treated
    <3> QED
      BY <3>2 DEF Upheld
  <2> QED
    BY <2>1, <2>2, <2>3, <2>4
<1> QED
  BY <1>5, <1>6, <1>7

\* Before the walk nothing is applied.
LEMMA BuiltInv == PathOK /\ frames = built /\ at = 1 /\ next = 1 => PolicyInv
<1> SUFFICES ASSUME PathOK, frames = built, at = 1, next = 1
             PROVE  PolicyInv
  OBVIOUS
<1>1. \A d \in DOMAIN frames : Fresh(frames[d]) /\ d \in Nat /\ d >= 1
  BY DEF PathOK
<1>2. ASSUME NEW d \in DOMAIN frames
      PROVE  FrameOK(frames[d]) /\ FlagEarned("multi-tenant", d) /\ FlagEarned("casl", d) /\ SoftDeleteDone(d)
  <2>1. /\ FrameOK(frames[d]) /\ "multi-tenant" \notin frames[d].flags /\ "casl" \notin frames[d].flags
        /\ "soft-delete" \in frames[d].flags =>
             \A p : \A pos \in {"main", "join"} : p.class = "soft-delete" => Upheld(p, frames[d], pos)
    BY <1>1, FreshFacts
  <2>2. FlagEarned("multi-tenant", d) /\ FlagEarned("casl", d)
    BY <2>1 DEF FlagEarned
  <2>3. SoftDeleteDone(d)
    BY <2>1 DEF SoftDeleteDone
  <2> QED
    BY <2>1, <2>2, <2>3
<1>3. PassedOver
  BY DEF PassedOver
<1>4. AppliedUpheld
  <2>1. \A d \in DOMAIN frames, i \in DOMAIN plugins : ~Applied(i, d)
    <3>1. \A i \in DOMAIN plugins : i \in Nat /\ i >= 1
      BY PathIndices
    <3> QED
      BY <1>1, <3>1 DEF Applied
  <2> QED
    BY <2>1 DEF AppliedUpheld
<1> QED
  BY <1>2, <1>3, <1>4 DEF PolicyInv, FlagsOK

LEMMA PolicyInit == Init => PolicyInv
<1> SUFFICES ASSUME Init
             PROVE  PolicyInv
  OBVIOUS
<1>1. PICK root \in Roots : built = <<root>>
  BY DEF Init
<1>2. Fresh(root)
  BY PipelineAssumption
<1>3. Len(plugins) \in Nat
  BY ListFacts DEF Init
<1>4. DOMAIN built = 1 .. 1 /\ Len(built) = 1 /\ built[1] = root
  BY <1>1
<1>5. PathOK
  BY <1>2, <1>3, <1>4 DEF PathOK, Init
<1> QED
  BY <1>5, BuiltInv DEF Init

\* Where a statement is nested, and what it joins if it joins anything, is not
\* what makes it fresh.
LEMMA FreshLike ==
  ASSUME NEW f, NEW g, Fresh(f), DOMAIN g = FrameFields,
         g.type = f.type, g.table = f.table, g.mode = f.mode, g.flags = f.flags, g.guards = f.guards,
         g.columns = f.columns, g.set = f.set, g.rows = f.rows, g.schema = f.schema,
         g.join = f.join \/ f.type \notin {"explain", "create_view", "insert"}
  PROVE  Fresh(g)
<1>1. g.type \in {"explain", "create_view", "insert"} => g.join = NoJoin
  BY DEF Fresh
<1> QED
  BY <1>1, FrameDomain DEF Fresh

\* A nested SELECT makes no join of an INSERT or a view.
LEMMA JoinSlots ==
  ASSUME NEW type \in DOMAIN Expressions, NEW slot \in SlotsOf(type), slot \in {"joinTable", "joinValues"}
  PROVE  type \notin {"explain", "create_view", "insert"}
BY DEF SlotsOf, Expressions, Statements, Unvisited

LEMMA NestKeeps == PolicyInv /\ Nest => PolicyInv'
<1> SUFFICES ASSUME PolicyInv, Nest
             PROVE  PolicyInv'
  OBVIOUS
<1> DEFINE n == Len(built)
<1>1. /\ PathOK /\ phase = "build" /\ frames = built /\ at = 1 /\ next = 1
      /\ plugins' = plugins /\ phase' = phase /\ at' = at /\ next' = next /\ frames' = built'
  BY DEF PolicyInv, PathOK, Nest
<1>2. PICK inner, slot, field, join :
        /\ inner \in Inners /\ slot \in SlotsOf(built[n].type)
        /\ built' = Append([built EXCEPT ![n].join = join], [inner EXCEPT !.slot = slot, !.field = field])
        /\ join = built[n].join \/ slot \in {"joinTable", "joinValues"}
  BY DEF Nest
<1>3. /\ n \in Nat \ {0} /\ DOMAIN built = 1 .. n /\ Fresh(built[n]) /\ Fresh(inner) /\ inner.type = "select"
      /\ n \in DOMAIN built /\ \A d \in DOMAIN built : Fresh(built[d]) /\ (d > 1 => built[d].type = "select")
      /\ Len(plugins) \in Nat
  <2>1. inner \in Inners
    BY <1>2
  <2>2. Fresh(inner) /\ inner.type = "select"
    BY <2>1, PipelineAssumption
  <2>3. Len(plugins) \in Nat
    BY <1>1, ListFacts DEF PathOK
  <2>4. n \in Nat \ {0} /\ DOMAIN built = 1 .. n
    BY <1>1 DEF PathOK
  <2>5. n \in DOMAIN built
    BY <2>4
  <2> QED
    BY <1>1, <2>2, <2>3, <2>4, <2>5 DEF PathOK
<1> DEFINE outer == [built[n] EXCEPT !.join = join]
           nested == [inner EXCEPT !.slot = slot, !.field = field]
<1>4. Fresh(outer) /\ outer.type = built[n].type
  <2>1. /\ DOMAIN built[n] = FrameFields
    BY <1>3, FrameDomain DEF Fresh
  <2>2. /\ DOMAIN outer = FrameFields /\ outer.type = built[n].type /\ outer.table = built[n].table
        /\ outer.join = join /\ outer.mode = built[n].mode /\ outer.flags = built[n].flags
        /\ outer.guards = built[n].guards /\ outer.schema = built[n].schema
        /\ outer.columns = built[n].columns /\ outer.set = built[n].set /\ outer.rows = built[n].rows
    BY <2>1 DEF FrameFields
  <2>3. join = built[n].join \/ built[n].type \notin {"explain", "create_view", "insert"}
    BY <1>2, <1>3, JoinSlots DEF Fresh
  <2> HIDE DEF outer
  <2>4. Fresh(outer)
    BY <1>3, <2>2, <2>3, FreshLike
  <2> QED
    BY <2>2, <2>4
<1>5. Fresh(nested) /\ nested.type = "select"
  <2>1. /\ DOMAIN inner = FrameFields
    BY <1>3, FrameDomain DEF Fresh
  <2>2. /\ DOMAIN nested = FrameFields /\ nested.type = inner.type /\ nested.table = inner.table
        /\ nested.join = inner.join /\ nested.mode = inner.mode /\ nested.flags = inner.flags
        /\ nested.guards = inner.guards /\ nested.schema = inner.schema
        /\ nested.columns = inner.columns /\ nested.set = inner.set /\ nested.rows = inner.rows
    BY <2>1 DEF FrameFields
  <2> HIDE DEF nested
  <2>3. Fresh(nested)
    BY <1>3, <2>2, FreshLike
  <2> QED
    BY <1>3, <2>2, <2>3
<1>6. /\ DOMAIN built' = 1 .. n + 1 /\ Len(built') = n + 1
      /\ \A d \in 1 .. n - 1 : built'[d] = built[d]
      /\ built'[n] = outer /\ built'[n + 1] = nested
  <2> DEFINE front == [built EXCEPT ![n] = outer]
  <2>1. DOMAIN front = 1 .. n /\ front[n] = outer /\ \A d \in 1 .. n - 1 : front[d] = built[d]
    BY <1>3
  <2>2. front = [d \in 1 .. n |-> front[d]]
    BY <1>3
  <2>3. built' = Append(front, nested)
    BY <1>2
  <2> HIDE DEF front, outer, nested
  <2> DEFINE S == {front[d] : d \in 1 .. n} \cup {nested}
  <2>4. front \in Seq(S) /\ nested \in S
    BY <1>3, <2>2
  <2>5. Len(front) = n
    BY <1>3, <2>1, <2>4
  <2> HIDE DEF S
  <2>6. /\ Append(front, nested) \in Seq(S) /\ Len(Append(front, nested)) = n + 1
        /\ \A d \in 1 .. n : Append(front, nested)[d] = front[d]
        /\ Append(front, nested)[n + 1] = nested
    BY <2>4, <2>5, AppendProperties
  <2>7. DOMAIN Append(front, nested) = 1 .. n + 1
    BY <1>3, <2>6
  <2>8. \A d \in 1 .. n - 1 : d \in 1 .. n
    BY <1>3
  <2>9. n \in 1 .. n
    BY <1>3
  <2> QED
    BY <2>1, <2>3, <2>6, <2>7, <2>8, <2>9
<1> HIDE DEF outer, nested
<1>7. \A d \in DOMAIN built' : Fresh(built'[d]) /\ (d > 1 => built'[d].type = "select")
  <2> SUFFICES ASSUME NEW d \in 1 .. n + 1
               PROVE  Fresh(built'[d]) /\ (d > 1 => built'[d].type = "select")
    BY <1>6
  <2>1. CASE d \in 1 .. n - 1
    <3>1. d \in DOMAIN built /\ built'[d] = built[d]
      BY <1>3, <1>6, <2>1
    <3> QED
      BY <1>3, <3>1
  <2>2. CASE d = n
    BY <1>3, <1>4, <1>6, <2>2
  <2>3. CASE d = n + 1
    BY <1>5, <1>6, <2>3
  <2>4. d \in 1 .. n - 1 \/ d = n \/ d = n + 1
    <3>1. n \in Nat
      BY <1>3
    <3> HIDE DEF n
    <3> QED
      BY <3>1
  <2> QED
    BY <2>1, <2>2, <2>3, <2>4
<1>8. PathOK'
  BY <1>1, <1>3, <1>6, <1>7 DEF PathOK
<1>9. (PathOK /\ frames = built /\ at = 1 /\ next = 1)'
  BY <1>1, <1>8
<1> QED
  BY <1>9, BuiltInv, PTL

LEMMA CompileKeeps == PolicyInv /\ Compile => PolicyInv'
<1> SUFFICES ASSUME PolicyInv, Compile
             PROVE  PolicyInv'
  OBVIOUS
<1>1. /\ PathOK /\ frames = built /\ at = 1 /\ next = 1
      /\ plugins' = plugins /\ phase' = "walk" /\ at' = at /\ next' = next /\ frames' = frames /\ built' = built
  BY DEF PolicyInv, PathOK, Compile
<1>2. PathOK'
  BY <1>1 DEF PathOK
<1>3. (PathOK /\ frames = built /\ at = 1 /\ next = 1)'
  BY <1>1, <1>2
<1> QED
  BY <1>3, BuiltInv, PTL

\* The walk goes on to the next statement: all plugins have been applied to this one.
LEMMA DescendKeeps == PolicyInv /\ Descend => PolicyInv'
<1> SUFFICES ASSUME PolicyInv, Descend
             PROVE  PolicyInv'
  OBVIOUS
<1>1. /\ PathOK /\ FlagsOK /\ PassedOver /\ AppliedUpheld
      /\ plugins' = plugins /\ frames' = frames /\ built' = built /\ phase = "walk" /\ next > Len(plugins)
  BY DEF PolicyInv, Descend
<1>2. /\ Len(plugins) \in Nat /\ DOMAIN plugins = 1 .. Len(plugins) /\ next = Len(plugins) + 1
      /\ at \in 1 .. Len(frames) /\ Len(frames) \in Nat /\ DOMAIN frames = 1 .. Len(frames)
  BY <1>1, PathIndices
<1>3. \/ at < Len(frames) /\ at' = at + 1 /\ next' = 1 /\ phase' = "walk"
      \/ at' = at /\ next' = next /\ phase' = "print" /\ (at < Len(frames) => ~Reaches(frames, at + 1))
  BY <1>1 DEF Descend
<1>4. PathOK'
  BY <1>1, <1>2, <1>3 DEF PathOK, Reaches
<1>5. \A i \in DOMAIN plugins, d \in DOMAIN frames : Applied(i, d)' <=> Applied(i, d)
  BY <1>2, <1>3 DEF Applied
<1>6. FlagsOK'
  <2> SUFFICES ASSUME NEW d \in DOMAIN frames
               PROVE  (FrameOK(frames[d]) /\ FlagEarned("multi-tenant", d)
                       /\ FlagEarned("casl", d) /\ SoftDeleteDone(d))'
    BY <1>1 DEF FlagsOK
  <2>1. FrameOK(frames[d])' /\ FlagEarned("multi-tenant", d)' /\ FlagEarned("casl", d)'
    BY <1>1, <1>5 DEF FlagsOK, FlagEarned
  <2>2. SoftDeleteDone(d)'
    BY <1>1 DEF FlagsOK, SoftDeleteDone, Upheld, Shadowed
  <2> QED
    BY <2>1, <2>2
<1>7. AppliedUpheld'
  BY <1>1, <1>5 DEF AppliedUpheld, Upheld, Shadowed
<1>8. PassedOver'
  BY <1>1, <1>3 DEF PassedOver
<1> QED
  BY <1>4, <1>6, <1>7, <1>8 DEF PolicyInv

\* A plugin of the chain.  What moves is decided by Moves; what was upheld stays so.
LEMMA ApplyKeeps == PolicyInv /\ ApplyPlugin => PolicyInv'
<1> SUFFICES ASSUME PolicyInv, ApplyPlugin
             PROVE  PolicyInv'
  OBVIOUS
<1> DEFINE p == plugins[next]
           r == TransformNode(p, frames, at)
<1>1. /\ PathOK /\ FlagsOK /\ PassedOver /\ AppliedUpheld
      /\ plugins' = plugins /\ built' = built /\ at' = at /\ next' = next + 1
      /\ phase = "walk" /\ next <= Len(plugins)
  BY DEF PolicyInv, ApplyPlugin
<1>2. /\ Len(plugins) \in Nat /\ DOMAIN plugins = 1 .. Len(plugins) /\ next \in DOMAIN plugins
      /\ at \in 1 .. Len(frames) /\ Len(frames) \in Nat /\ DOMAIN frames = 1 .. Len(frames)
      /\ p.class \in Classes
  BY <1>1, PathIndices
<1>3. /\ \A i \in DOMAIN plugins, d \in DOMAIN frames : Applied(i, d) => Applied(i, d)'
      /\ \A i \in DOMAIN plugins, d \in DOMAIN frames : Applied(i, d)' => Applied(i, d) \/ (i = next /\ d = at)
      /\ \A i \in DOMAIN plugins, d \in DOMAIN frames : i = next /\ d = at => Applied(i, d)'
      /\ \A i \in DOMAIN plugins : Applied(i, at) <=> i < next
  <2>1. ASSUME NEW i \in DOMAIN plugins, NEW d \in DOMAIN frames
        PROVE  /\ Applied(i, d) => Applied(i, d)'
               /\ Applied(i, d)' => Applied(i, d) \/ (i = next /\ d = at)
               /\ i = next /\ d = at => Applied(i, d)'
    <3>1. i \in Int /\ d \in Int /\ at \in Int /\ next \in Int /\ next' = next + 1 /\ at' = at
      BY <1>1, <1>2
    <3> QED
      BY <3>1 DEF Applied
  <2>2. \A i \in DOMAIN plugins : Applied(i, at) <=> i < next
    BY <1>1, <1>2 DEF Applied
  <2> QED
    BY <2>1, <2>2
<1>4. CASE r = Thrown
  <2>1. frames' = frames /\ phase' = "thrown"
    BY <1>4 DEF ApplyPlugin
  <2>2. PathOK'
    BY <1>1, <1>2, <2>1 DEF PathOK
  <2>3. FlagsOK'
    <3> SUFFICES ASSUME NEW d \in DOMAIN frames
                 PROVE  (FrameOK(frames[d]) /\ FlagEarned("multi-tenant", d)
                         /\ FlagEarned("casl", d) /\ SoftDeleteDone(d))'
      BY <2>1 DEF FlagsOK
    <3>1. FrameOK(frames[d])' /\ FlagEarned("multi-tenant", d)' /\ FlagEarned("casl", d)'
      BY <1>1, <1>3, <2>1 DEF FlagsOK, FlagEarned
    <3>2. SoftDeleteDone(d)'
      BY <1>1, <2>1 DEF FlagsOK, SoftDeleteDone, Upheld, Shadowed
    <3> QED
      BY <3>1, <3>2
  <2> QED
    BY <2>1, <2>2, <2>3 DEF PolicyInv
<1>5. CASE r # Thrown
  <2>1. frames' = r /\ phase' = "walk"
    BY <1>1, <1>5 DEF ApplyPlugin
  <2>2. Moves(p, frames, at, frames')
    BY <1>1, <1>2, <1>5, <2>1, WalkMoves DEF FlagsOK
  <2> HIDE DEF r
  <2>3. /\ DOMAIN frames' = DOMAIN frames
        /\ \A d \in DOMAIN frames : Does(p, frames[d], frames'[d]) \/ (d # at /\ frames'[d] = frames[d])
    BY <2>2 DEF Moves
  <2>4. \A d \in DOMAIN frames : /\ Grows(frames[d], frames'[d])
                                 /\ frames'[d].flags \subseteq frames[d].flags \cup {p.class}
    BY <1>1, <2>3, GrowsSelf DEF Does, FlagsOK
  <2>5. PathOK'
    <3>1. Len(frames') = Len(frames)
      BY <1>1, <1>2, <2>1, <2>3
    <3> QED
      BY <1>1, <1>2, <2>1, <2>3, <3>1 DEF PathOK
  <2>p. p = plugins[next]
    OBVIOUS
  <2> HIDE DEF p
  <2>6. ASSUME NEW CONSTANT d \in DOMAIN frames
        PROVE  FrameOK(frames[d])'
    BY <2>4 DEF Grows
  <2>7. ASSUME NEW CONSTANT d \in DOMAIN frames, NEW CONSTANT c \in {"multi-tenant", "casl"}
        PROVE  FlagEarned(c, d)'
    <3> SUFFICES ASSUME c \in frames'[d].flags
                 PROVE  \E k \in DOMAIN plugins : /\ plugins[k].class = c /\ Applied(k, d)'
                                                  /\ c = "multi-tenant" => frames[d].table \in plugins[k].tables
      BY <1>1, <2>4 DEF FlagEarned, Grows
    <3>1. CASE c \in frames[d].flags
      <4>1. FlagEarned(c, d)
        BY <1>1 DEF FlagsOK
      <4>2. PICK k \in DOMAIN plugins : /\ plugins[k].class = c /\ Applied(k, d)
                                        /\ c = "multi-tenant" => frames[d].table \in plugins[k].tables
        BY <3>1, <4>1 DEF FlagEarned
      <4> QED
        BY <1>3, <4>2
    <3>2. CASE c \notin frames[d].flags
      <4>1. p.class = c /\ frames'[d] # frames[d]
        BY <2>4, <3>2
      <4>2. d = at /\ Does(p, frames[d], frames'[d])
        BY <2>2, <2>3, <4>1 DEF Moves
      <4>3. c = "multi-tenant" => frames[d].table \in p.tables
        BY <3>2, <4>1, <4>2 DEF Does
      <4> QED
        <5>1. PICK k \in DOMAIN plugins : k = next
          BY <1>2
        <5>2. plugins[k].class = c /\ Applied(k, d)' /\ (c = "multi-tenant" => frames[d].table \in plugins[k].tables)
          BY <1>3, <2>p, <4>1, <4>2, <4>3, <5>1
        <5> QED
          BY <5>2
    <3> QED
      BY <3>1, <3>2
  <2>8. ASSUME NEW CONSTANT d \in DOMAIN frames
        PROVE  SoftDeleteDone(d)'
    <3> SUFFICES ASSUME "soft-delete" \in frames'[d].flags, NEW CONSTANT i \in DOMAIN plugins,
                        NEW CONSTANT pos \in {"main", "join"}, plugins[i].class = "soft-delete"
                 PROVE  Upheld(plugins[i], frames'[d], pos)
      BY <1>1, UpheldNext DEF SoftDeleteDone
    <3>1. CASE "soft-delete" \in frames[d].flags
      <4>1. Upheld(plugins[i], frames[d], pos)
        BY <1>1, <3>1 DEF FlagsOK, SoftDeleteDone
      <4> QED
        BY <2>4, <4>1, UpheldGrows
    <3>2. CASE "soft-delete" \notin frames[d].flags
      <4>1. p.class = "soft-delete" /\ frames'[d] # frames[d]
        BY <2>4, <3>2
      <4>2. Does(p, frames[d], frames'[d])
        BY <2>3, <4>1
      <4>3. d = at \/ (frames[at].type = "select" /\ d \in Entered(frames, at))
        BY <2>2, <4>1 DEF Moves
      <4>4. CASE i = next
        BY <2>p, <3>2, <4>1, <4>2, <4>4, DoesUpheld
      <4>5. CASE i > next
        <5>1. Shadowed(plugins[i], frames'[d])
          BY <1>2, <2>p, <4>1, <4>5 DEF Shadowed
        <5> QED
          BY <5>1 DEF Upheld
      <4>6. CASE i < next
        <5>1. Upheld(plugins[i], frames[d], pos)
          <6>1. CASE d = at
            BY <1>1, <1>3, <4>6, <6>1 DEF AppliedUpheld
          <6>2. CASE frames[at].type = "select" /\ d \in Entered(frames, at)
            <7>1. i \in 1 .. next - 1
              BY <1>2, <4>6
            <7>2. frames[d].table \notin plugins[i].tables /\ ~FiltersJoin(plugins[i], frames[d])
              BY <1>1, <6>2, <7>1 DEF PassedOver
            <7>3. pos \notin Filtered(plugins[i], frames[d])
              BY <7>2 DEF Filtered
            <7>4. Concerns(plugins[i], frames[d], pos) => OptedOut(plugins[i], frames[d], pos)
              BY <7>3, FilteredOrLeft
            <7> QED
              BY <7>4 DEF Upheld
          <6> QED
            BY <4>3, <6>1, <6>2
        <5> QED
          BY <2>4, <5>1, UpheldGrows
      <4>7. i = next \/ i > next \/ i < next
        BY <1>2
      <4> QED
        BY <4>4, <4>5, <4>6, <4>7
    <3> QED
      BY <3>1, <3>2
  <2>9. FlagsOK'
    BY <2>3, <2>6, <2>7, <2>8 DEF FlagsOK
  <2>10. Entered(frames', at) \subseteq Entered(frames, at)
    BY <1>2, <2>1, <2>3, <2>4 DEF Entered, Unfiltered, Grows
  <2>11. PassedOver'
    <3> SUFFICES ASSUME NEW CONSTANT i \in 1 .. next, plugins[i].class = "soft-delete", frames'[at].type = "select",
                        NEW CONSTANT e \in Entered(frames', at)
                 PROVE  frames'[e].table \notin plugins[i].tables /\ ~FiltersJoin(plugins[i], frames'[e])
      BY <1>1, <1>2 DEF PassedOver
    <3>1. e \in Entered(frames, at) /\ e \in DOMAIN frames /\ Unfiltered(frames'[e])
      BY <1>2, <2>10, SMTT(30) DEF Entered
    <3>2. frames[at].type = "select" /\ frames'[e].table = frames[e].table /\ frames'[e].join = frames[e].join
      BY <1>2, <2>4, <3>1 DEF Grows
    <3>3. CASE i \in 1 .. next - 1
      BY <1>1, <3>1, <3>2, <3>3 DEF PassedOver, FiltersJoin
    <3>4. CASE i = next
      <4>1. Filtered(p, frames[e]) = {}
        BY <2>2, <2>p, <3>1, <3>2, <3>4 DEF Moves, Unfiltered
      <4> QED
        BY <2>p, <3>2, <3>4, <4>1 DEF Filtered, FiltersJoin
    <3> QED
      BY <1>2, <3>3, <3>4
  <2>12. AppliedUpheld'
    <3> SUFFICES ASSUME NEW CONSTANT d \in DOMAIN frames, NEW CONSTANT i \in DOMAIN plugins,
                        NEW CONSTANT pos \in {"main", "join"}, Applied(i, d)'
                 PROVE  Upheld(plugins[i], frames'[d], pos)
      BY <1>1, <2>3, UpheldNext DEF AppliedUpheld
    <3>1. CASE Applied(i, d)
      <4>1. Upheld(plugins[i], frames[d], pos)
        BY <1>1, <3>1 DEF AppliedUpheld
      <4> QED
        BY <2>4, <4>1, UpheldGrows
    <3>2. CASE i = next /\ d = at
      <4>1. Does(p, frames[at], frames'[at])
        BY <2>3, <3>2
      <4>2. ASSUME p.class \in {"soft-delete", "multi-tenant", "casl"}, p.class \in frames[at].flags
            PROVE  Upheld(p, frames[at], pos)
        <5>1. CASE p.class = "soft-delete"
          BY <1>1, <1>2, <2>p, <4>2, <5>1 DEF FlagsOK, SoftDeleteDone
        <5>2. CASE p.class \in {"multi-tenant", "casl"}
          <6>1. FlagEarned(p.class, at)
            BY <1>1, <1>2, <5>2 DEF FlagsOK
          <6>2. PICK k \in DOMAIN plugins :
                  /\ plugins[k].class = p.class /\ Applied(k, at)
                  /\ p.class = "multi-tenant" => frames[at].table \in plugins[k].tables
            BY <4>2, <6>1 DEF FlagEarned
          <6>3. k < next
            BY <1>3, <6>2
          <6>4. Shadowed(p, frames[at])
            BY <1>2, <2>p, <5>2, <6>2, <6>3 DEF Shadowed
          <6> QED
            BY <6>4 DEF Upheld
        <5> QED
          BY <4>2, <5>1, <5>2
      <4>3. Upheld(p, frames'[at], pos)
        BY <4>1, <4>2, DoesUpheld
      <4> QED
        BY <2>p, <3>2, <4>3
    <3> QED
      BY <1>3, <3>1, <3>2
  <2> QED
    BY <2>5, <2>9, <2>11, <2>12 DEF PolicyInv
<1> QED
  BY <1>4, <1>5

LEMMA PolicyAlways == Spec => []PolicyInv
<1>1. PolicyInv /\ [Next]_vars => PolicyInv'
  <2> SUFFICES ASSUME PolicyInv, [Next]_vars
               PROVE  PolicyInv'
    OBVIOUS
  <2>1. CASE UNCHANGED vars
    <3>1. /\ plugins' = plugins /\ built' = built /\ frames' = frames
          /\ phase' = phase /\ at' = at /\ next' = next
      BY <2>1 DEF vars
    <3>2. PathOK'
      BY <3>1 DEF PolicyInv, PathOK, Reaches
    <3>3. FlagsOK'
      BY <3>1 DEF PolicyInv, FlagsOK, FlagEarned, SoftDeleteDone, Applied, Upheld, Shadowed
    <3>4. phase # "thrown" => PassedOver' /\ AppliedUpheld'
      <4>1. phase # "thrown" => PassedOver'
        BY <3>1 DEF PolicyInv, PassedOver
      <4>2. phase # "thrown" => AppliedUpheld'
        BY <3>1 DEF PolicyInv, AppliedUpheld, Applied, Upheld, Shadowed
      <4> QED
        BY <4>1, <4>2
    <3> QED
      BY <3>1, <3>2, <3>3, <3>4 DEF PolicyInv
  <2> QED
    BY <2>1, NestKeeps, CompileKeeps, ApplyKeeps, DescendKeeps DEF Next
<1> QED
  BY <1>1, PolicyInit, PTL DEF Spec

\* Policies hold for all of a statement that is printed: of every table in it, at
\* any depth and in any slot, every plugin that is configured for the table has
\* added its predicate, prefix or limit, once, unless it leaves the table alone or
\* is shadowed (PluginManager.transformNode and the plugins it applies).
THEOREM PoliciesHold == Spec => []PolicyHolds
<1>1. PolicyInv => PolicyHolds
  <2> SUFFICES ASSUME PolicyInv, phase = "print", NEW d \in 1 .. at
               PROVE  /\ IsInjective(frames[d].guards)
                      /\ \A i \in DOMAIN plugins, pos \in {"main", "join"} : Upheld(plugins[i], frames[d], pos)
    BY DEF PolicyHolds, Printed
  <2>1. /\ Len(plugins) \in Nat /\ DOMAIN plugins = 1 .. Len(plugins) /\ next = Len(plugins) + 1
        /\ at \in 1 .. Len(frames) /\ Len(frames) \in Nat /\ DOMAIN frames = 1 .. Len(frames)
    BY PathIndices DEF PolicyInv, PathOK
  <2>2. d \in DOMAIN frames /\ \A i \in DOMAIN plugins : Applied(i, d)
    BY <2>1 DEF Applied
  <2>3. FrameOK(frames[d])
    BY <2>2 DEF PolicyInv, FlagsOK
  <2>4. \A i \in DOMAIN plugins, pos \in {"main", "join"} : Upheld(plugins[i], frames[d], pos)
    BY <2>2 DEF PolicyInv, AppliedUpheld
  <2> QED
    BY <2>3, <2>4 DEF FrameOK
<1> QED
  BY <1>1, PolicyAlways, PTL

\* The walk ends only where no plugin can go on: in a slot or in a field that
\* ASTWalker does not descend into.
THEOREM WalkReachesSelects == Spec => []EverySelectReached
<1>1. PolicyInv => EverySelectReached
  BY DEF PolicyInv, PathOK, EverySelectReached, Printed, Reaches, Visits, Unvisited
<1> QED
  BY <1>1, PolicyAlways, PTL

-----------------------------------------------------------------------------
(* What plugins add to a statement *)

LEMMA ContainsIs ==
  ASSUME NEW names \in Seq(Columns), NEW name
  PROVE  Contains(names, name) <=> \E i \in DOMAIN names : names[i] = name
BY DEF Contains

LEMMA ConcatParts ==
  ASSUME NEW S, NEW a \in Seq(S), NEW b \in Seq(S)
  PROVE  /\ a \o b \in Seq(S)
         /\ \A i \in DOMAIN a : i \in DOMAIN (a \o b) /\ (a \o b)[i] = a[i]
         /\ \A i \in DOMAIN (a \o b) \ DOMAIN a : \E j \in DOMAIN b : i = Len(a) + j /\ (a \o b)[i] = b[j]
<1> DEFINE c == a \o b
<1>1. /\ c \in Seq(S) /\ Len(a) \in Nat /\ Len(b) \in Nat
      /\ DOMAIN a = 1 .. Len(a) /\ DOMAIN b = 1 .. Len(b) /\ DOMAIN c = 1 .. Len(a) + Len(b)
      /\ \A i \in DOMAIN a : c[i] = a[i]
      /\ \A j \in DOMAIN b : c[Len(a) + j] = b[j]
  OBVIOUS
<1> HIDE DEF c
<1>2. ASSUME NEW i \in DOMAIN c \ DOMAIN a
      PROVE  \E j \in DOMAIN b : i = Len(a) + j /\ c[i] = b[j]
  <2>1. i - Len(a) \in DOMAIN b /\ i = Len(a) + (i - Len(a))
    BY <1>1
  <2> QED
    BY <1>1, <2>1
<1>3. \A i \in DOMAIN a : i \in DOMAIN c
  BY <1>1
<1> QED
  BY <1>1, <1>2, <1>3 DEF c

\* A column that is added is about the plugin that adds it.
Earned(p, f, g, name) ==
  \/ name = "tenant_id" /\ "multi-tenant" \in g.flags
  \/ name = "tenant_id" /\ f.rows = "values" /\ p.class = "defaults" /\ f.table \in p.tables
  \/ name = "version" /\ "optimistic-lock" \in g.flags
  \/ name \in {"created_at", "updated_at"} /\ p.class = "audit" /\ f.table \in p.tables

\* The plugins that do not look at the columns there are.
Doubles(p, f, name) ==
  /\ f.table \in p.tables
  /\ \/ name = "tenant_id" /\ p.class = "multi-tenant" /\ "multi-tenant" \notin f.flags /\ f.type = "insert"
     \/ name = "version" /\ p.class = "optimistic-lock" /\ "optimistic-lock" \notin f.flags /\ f.type = "update"
     \/ name = "created_at" /\ p.class = "audit" /\ f.type = "insert"
     \/ name = "updated_at" /\ p.class = "audit"

Adds(p, f, g, names, more, type) ==
  /\ more \in Seq(Columns) /\ IsInjective(more)
  /\ \A i \in DOMAIN more : /\ Earned(p, f, g, more[i])
                            /\ Contains(names, more[i]) => f.type = type /\ Doubles(p, f, more[i])

\* The plugins that add columns to an INSERT without VALUES.
Spoils(p, f) ==
  /\ f.table \in p.tables
  /\ \/ p.class \in {"multi-tenant", "audit"}
     \/ p.class = "optimistic-lock" /\ f.rows = "select" /\ ~Contains(f.columns, "version")

Announces(p, g, f) ==
  \/ g.qualified
  \/ /\ f.type # "merge" /\ g.by = p.class /\ TableAt(f, g.at) \in p.tables
     /\ \/ g.by \in {"soft-delete", "casl"}
        \/ g.by \in {"multi-tenant", "optimistic-lock"} /\ f.type # "select"
        \/ g.at = "main" /\ f.join = NoJoin

\* Plugin p makes statement g of f.
Writes(p, f, g) ==
  /\ g.rows = f.rows
  /\ \E more : g.columns = f.columns \o more /\ Adds(p, f, g, f.columns, more, "insert")
  /\ \E more : g.set = f.set \o more /\ Adds(p, f, g, f.set, more, "update")
  /\ f.type = "insert" /\ f.rows \in {"select", "default"} /\ g.columns # f.columns => Spoils(p, f)
  /\ \A i \in DOMAIN g.guards : i \in DOMAIN f.guards \/ Announces(p, g.guards[i], f)

Named(f) == FrameOK(f) /\ f.columns \in Seq(Columns) /\ f.set \in Seq(Columns)

LEMMA AddsNothing ==
  ASSUME NEW p, NEW f, NEW g, NEW names \in Seq(Columns), NEW type
  PROVE  names = names \o <<>> /\ Adds(p, f, g, names, <<>>, type)
<1>1. names = names \o <<>>
  BY ConcatEmptySeq
<1>2. <<>> \in Seq(Columns) /\ IsInjective(<<>>)
  BY DEF IsInjective
<1> QED
  BY <1>1, <1>2 DEF Adds

\* One column, and one that is lacking.
LEMMA AddsOne ==
  ASSUME NEW p, NEW f, NEW g, NEW names \in Seq(Columns), NEW name \in Columns, NEW type, Earned(p, f, g, name),
         Contains(names, name) => f.type = type /\ Doubles(p, f, name)
  PROVE  Adds(p, f, g, names, <<name>>, type)
<1>1. <<name>> \in Seq(Columns) /\ \A i \in DOMAIN <<name>> : i = 1 /\ <<name>>[i] = name
  OBVIOUS
<1>2. IsInjective(<<name>>)
  BY <1>1 DEF IsInjective
<1> QED
  BY <1>1, <1>2 DEF Adds

LEMMA AddsLacking ==
  ASSUME NEW p, NEW f, NEW g, NEW names \in Seq(Columns), NEW name \in Columns, NEW type, Earned(p, f, g, name)
  PROVE  Adds(p, f, g, names, Lacking(name, names), type)
BY AddsNothing, AddsOne DEF Lacking

\* Two columns that are different.
LEMMA AddsBoth ==
  ASSUME NEW p, NEW f, NEW g, NEW names, NEW a, NEW b, NEW type,
         Adds(p, f, g, names, a, type), Adds(p, f, g, names, b, type),
         \A i \in DOMAIN a, j \in DOMAIN b : a[i] # b[j]
  PROVE  Adds(p, f, g, names, a \o b, type)
<1> DEFINE c == a \o b
<1>1. a \in Seq(Columns) /\ b \in Seq(Columns) /\ IsInjective(a) /\ IsInjective(b)
  BY DEF Adds
<1>2. /\ c \in Seq(Columns)
      /\ \A i \in DOMAIN a : i \in DOMAIN c /\ c[i] = a[i]
      /\ \A i \in DOMAIN c \ DOMAIN a : \E j \in DOMAIN b : i = Len(a) + j /\ c[i] = b[j]
  BY <1>1, ConcatParts
<1> HIDE DEF c
<1>3. IsInjective(c)
  <2> SUFFICES ASSUME NEW i \in DOMAIN c, NEW k \in DOMAIN c, c[i] = c[k]
               PROVE  i = k
    BY DEF IsInjective
  <2>1. CASE i \in DOMAIN a /\ k \in DOMAIN a
    BY <1>1, <1>2, <2>1 DEF IsInjective
  <2>2. CASE i \in DOMAIN a /\ k \notin DOMAIN a
    BY <1>2, <2>2
  <2>3. CASE i \notin DOMAIN a /\ k \in DOMAIN a
    BY <1>2, <2>3
  <2>4. CASE i \notin DOMAIN a /\ k \notin DOMAIN a
    BY <1>1, <1>2, <2>4 DEF IsInjective
  <2> QED
    BY <2>1, <2>2, <2>3, <2>4
<1>4. ASSUME NEW i \in DOMAIN c
      PROVE  /\ Earned(p, f, g, c[i])
             /\ Contains(names, c[i]) => f.type = type /\ Doubles(p, f, c[i])
  BY <1>2 DEF Adds
<1> QED
  BY <1>2, <1>3, <1>4 DEF Adds, c

\* Flags, limits and prefixes: no column, no assignment.
LEMMA WritesNone ==
  ASSUME NEW p, NEW f, Named(f), NEW g, g.columns = f.columns, g.set = f.set, g.rows = f.rows,
         \A i \in DOMAIN g.guards : i \in DOMAIN f.guards \/ Announces(p, g.guards[i], f)
  PROVE  Writes(p, f, g)
BY AddsNothing DEF Writes, Named

\* Predicates that are all announced.
AllAnnounced(p, gs, f) == gs \in Seq(Guards) /\ \A i \in DOMAIN gs : Announces(p, gs[i], f)

LEMMA OneAnnounced ==
  ASSUME NEW p, NEW f, NEW g \in Guards, Announces(p, g, f)
  PROVE  AllAnnounced(p, <<g>>, f)
<1>1. <<g>> \in Seq(Guards) /\ \A i \in DOMAIN <<g>> : <<g>>[i] = g
  OBVIOUS
<1> QED
  BY <1>1 DEF AllAnnounced

LEMMA BothAnnounced ==
  ASSUME NEW p, NEW f, NEW a, NEW b, AllAnnounced(p, a, f), AllAnnounced(p, b, f)
  PROVE  AllAnnounced(p, a \o b, f)
<1>1. a \in Seq(Guards) /\ b \in Seq(Guards)
  BY DEF AllAnnounced
<1>2. /\ a \o b \in Seq(Guards)
      /\ \A i \in DOMAIN a : i \in DOMAIN (a \o b) /\ (a \o b)[i] = a[i]
      /\ \A i \in DOMAIN (a \o b) \ DOMAIN a : \E j \in DOMAIN b : i = Len(a) + j /\ (a \o b)[i] = b[j]
  BY <1>1, ConcatParts
<1> QED
  BY <1>2 DEF AllAnnounced

LEMMA NoneAnnounced ==
  ASSUME NEW p, NEW f
  PROVE  AllAnnounced(p, <<>>, f)
BY DEF AllAnnounced

LEMMA GuardFields ==
  ASSUME NEW c \in Classes, NEW a \in {"main", "join"}, NEW q \in BOOLEAN
  PROVE  /\ Guard(c, a, q) \in Guards
         /\ Guard(c, a, q).by = c /\ Guard(c, a, q).at = a /\ Guard(c, a, q).qualified = q
BY DEF Guard, Guards

\* What marking a statement changes.
LEMMA MarkedFields ==
  ASSUME NEW f, Named(f), NEW c, NEW gs
  PROVE  /\ DOMAIN Marked(f, c, gs) = FrameFields
         /\ Marked(f, c, gs).guards = f.guards \o gs /\ Marked(f, c, gs).flags = f.flags \cup {c}
         /\ Marked(f, c, gs).columns = f.columns /\ Marked(f, c, gs).set = f.set
         /\ Marked(f, c, gs).rows = f.rows
<1>1. DOMAIN f = FrameFields
  BY FrameDomain DEF Named, FrameOK
<1> QED
  BY <1>1 DEF Marked, FrameFields

LEMMA MarkedWrites ==
  ASSUME NEW p, NEW f, Named(f), NEW c, NEW gs, AllAnnounced(p, gs, f)
  PROVE  Writes(p, f, Marked(f, c, gs))
<1> DEFINE g == Marked(f, c, gs)
<1>1. f.guards \in Seq(Guards) /\ gs \in Seq(Guards)
  BY DEF Named, FrameOK, AllAnnounced
<1>2. g.guards = f.guards \o gs /\ g.columns = f.columns /\ g.set = f.set /\ g.rows = f.rows
  BY MarkedFields
<1> HIDE DEF g
<1>3. \A i \in DOMAIN g.guards : i \in DOMAIN f.guards \/ \E j \in DOMAIN gs : g.guards[i] = gs[j]
  BY <1>1, <1>2, ConcatParts
<1>4. \A i \in DOMAIN g.guards : i \in DOMAIN f.guards \/ Announces(p, g.guards[i], f)
  BY <1>3 DEF AllAnnounced
<1>5. Writes(p, f, g)
  BY <1>2, <1>4, WritesNone
<1> QED
  BY <1>5 DEF g

LEMMA WritesSelf ==
  ASSUME NEW p, NEW f, Named(f)
  PROVE  Writes(p, f, f)
BY WritesNone

\* The plugin changes statement d, by what it writes, and no other.
Written(p, fs, d, r) ==
  \A e \in DOMAIN fs : /\ Writes(p, fs[e], r[e])
                       /\ e # d => r[e].columns = fs[e].columns /\ r[e].set = fs[e].set

AllNamed(fs) == \A e \in DOMAIN fs : Named(fs[e])

LEMMA PutWritten ==
  ASSUME NEW p, NEW fs, AllNamed(fs), NEW d \in DOMAIN fs, NEW g, Writes(p, fs[d], g)
  PROVE  Written(p, fs, d, Put(fs, d, g))
BY PutFacts, WritesSelf DEF Written, AllNamed

LEMMA IdleWritten ==
  ASSUME NEW p, NEW fs, AllNamed(fs), NEW d \in DOMAIN fs
  PROVE  Written(p, fs, d, fs)
BY WritesSelf DEF Written, AllNamed

LEMMA CaslWrites ==
  ASSUME NEW p, p.class = "casl", NEW fs, AllNamed(fs), NEW d \in DOMAIN fs, Casl(p, fs, d) # Thrown
  PROVE  Written(p, fs, d, Casl(p, fs, d))
<1> DEFINE f == fs[d]
           g == Guard("casl", "main", FALSE)
<1>1. Named(f)
  BY DEF AllNamed
<1>2. CASE Casl(p, fs, d) = fs
  BY <1>2, IdleWritten
<1>3. CASE Casl(p, fs, d) = Put(fs, d, Marked(f, "casl", <<>>))
  BY <1>1, <1>3, NoneAnnounced, MarkedWrites, PutWritten
<1>4. CASE Casl(p, fs, d) = Put(fs, d, Marked(f, "casl", <<g>>)) /\ f.type # "merge" /\ f.table \in p.tables
  <2>1. "casl" \in Classes
    BY DEF Classes
  <2>2. g \in Guards /\ g.by = "casl" /\ g.at = "main"
    BY <2>1, GuardFields
  <2> HIDE DEF g
  <2>3. Announces(p, g, f)
    BY <1>4, <2>2 DEF Announces, TableAt
  <2>4. AllAnnounced(p, <<g>>, f)
    BY <2>2, <2>3, OneAnnounced
  <2>5. Writes(p, f, Marked(f, "casl", <<g>>))
    BY <1>1, <2>4, MarkedWrites
  <2> QED
    BY <1>4, <2>5, PutWritten
<1> QED
  BY <1>2, <1>3, <1>4 DEF Casl

LEMMA AsideWrites ==
  ASSUME NEW p, NEW fs, AllNamed(fs), NEW d \in DOMAIN fs
  PROVE  Written(p, fs, d, QueryLimit(fs, d)) /\ Written(p, fs, d, WithSchema(fs, d))
<1> DEFINE f == fs[d]
<1>1. Named(f) /\ DOMAIN f = FrameFields
  BY FrameDomain DEF AllNamed, Named, FrameOK
<1>2. ASSUME NEW value
      PROVE  Writes(p, f, [f EXCEPT !.limited = value]) /\ Writes(p, f, [f EXCEPT !.schema = value])
  <2>1. /\ [f EXCEPT !.limited = value].columns = f.columns /\ [f EXCEPT !.limited = value].set = f.set
        /\ [f EXCEPT !.limited = value].rows = f.rows /\ [f EXCEPT !.limited = value].guards = f.guards
    BY <1>1 DEF FrameFields
  <2>2. /\ [f EXCEPT !.schema = value].columns = f.columns /\ [f EXCEPT !.schema = value].set = f.set
        /\ [f EXCEPT !.schema = value].rows = f.rows /\ [f EXCEPT !.schema = value].guards = f.guards
    BY <1>1 DEF FrameFields
  <2> QED
    BY <1>1, <2>1, <2>2, WritesNone
<1>3. Written(p, fs, d, WithSchema(fs, d))
  BY <1>2, PutWritten DEF WithSchema
<1>4. QueryLimit(fs, d) \in {fs, Put(fs, d, [f EXCEPT !.limited = TRUE])}
  BY DEF QueryLimit, Put
<1>5. Written(p, fs, d, QueryLimit(fs, d))
  BY <1>2, <1>4, PutWritten, IdleWritten
<1> QED
  BY <1>3, <1>5

\* A statement that gets columns or assignments, or both.
LEMMA NamesWrite ==
  ASSUME NEW p, NEW f, Named(f), NEW g, g.rows = f.rows, NEW columns, NEW set,
         g.columns = f.columns \o columns, g.set = f.set \o set,
         Adds(p, f, g, f.columns, columns, "insert"), Adds(p, f, g, f.set, set, "update"),
         f.type = "insert" /\ f.rows \in {"select", "default"} /\ g.columns # f.columns => Spoils(p, f),
         \A i \in DOMAIN g.guards : i \in DOMAIN f.guards \/ Announces(p, g.guards[i], f)
  PROVE  Writes(p, f, g)
BY DEF Writes

LEMMA ColumnsWrite ==
  ASSUME NEW p, NEW f, Named(f), NEW g, g.rows = f.rows, g.set = f.set, NEW columns,
         g.columns = f.columns \o columns, Adds(p, f, g, f.columns, columns, "insert"),
         f.type = "insert" /\ f.rows \in {"select", "default"} /\ g.columns # f.columns => Spoils(p, f),
         \A i \in DOMAIN g.guards : i \in DOMAIN f.guards \/ Announces(p, g.guards[i], f)
  PROVE  Writes(p, f, g)
BY AddsNothing, NamesWrite DEF Named

LEMMA SetWrites ==
  ASSUME NEW p, NEW f, Named(f), NEW g, g.rows = f.rows, g.columns = f.columns, NEW set,
         g.set = f.set \o set, Adds(p, f, g, f.set, set, "update"),
         \A i \in DOMAIN g.guards : i \in DOMAIN f.guards \/ Announces(p, g.guards[i], f)
  PROVE  Writes(p, f, g)
BY AddsNothing, NamesWrite DEF Named

LEMMA NamesAreColumns ==
  "tenant_id" \in Columns /\ "version" \in Columns /\ "created_at" \in Columns /\ "updated_at" \in Columns
BY PipelineAssumption

LEMMA TwoNames ==
  ASSUME NEW a \in Columns, NEW b \in Columns
  PROVE  /\ <<a, b>> \in Seq(Columns) /\ DOMAIN <<a, b>> = {1, 2}
         /\ <<a, b>>[1] = a /\ <<a, b>>[2] = b
<1>1. <<a, b>> \in Seq(Columns)
  OBVIOUS
<1>2. DOMAIN <<a, b>> = {1, 2}
  OBVIOUS
<1>3. <<a, b>>[1] = a /\ <<a, b>>[2] = b
  OBVIOUS
<1> QED
  BY <1>1, <1>2, <1>3

LEMMA ThreeParts ==
  ASSUME NEW a \in Seq(Columns), NEW b \in Seq(Columns), NEW c \in Seq(Columns), NEW names, names = a \o b \o c
  PROVE  names = a \o (b \o c)
BY ConcatAssociative

LEMMA DefaultsWrites ==
  ASSUME NEW p, p.class = "defaults", NEW fs, AllNamed(fs), NEW d \in DOMAIN fs
  PROVE  Written(p, fs, d, Defaults(p, fs, d))
<1> DEFINE f == fs[d]
           more == Lacking("tenant_id", f.columns)
           g == [f EXCEPT !.columns = f.columns \o more]
<1>1. Named(f) /\ DOMAIN f = FrameFields
  BY FrameDomain DEF AllNamed, Named, FrameOK
<1>2. CASE ~(f.type = "insert" /\ f.table \in p.tables /\ f.rows = "values")
  BY <1>2, IdleWritten DEF Defaults
<1>3. CASE f.type = "insert" /\ f.table \in p.tables /\ f.rows = "values"
  <2>1. Defaults(p, fs, d) = Put(fs, d, g)
    BY <1>3 DEF Defaults
  <2>2. g.columns = f.columns \o more /\ g.set = f.set /\ g.rows = f.rows /\ g.guards = f.guards
    BY <1>1 DEF FrameFields
  <2> HIDE DEF g
  <2>3. Earned(p, f, g, "tenant_id")
    BY <1>3 DEF Earned
  <2>4. Adds(p, f, g, f.columns, more, "insert")
    <3> HIDE DEF f
    <3> QED
      BY <1>1, <2>3, NamesAreColumns, AddsLacking DEF Named
  <2> HIDE DEF more
  <2>5. Writes(p, f, g)
    BY <1>1, <1>3, <2>2, <2>4, ColumnsWrite
  <2> QED
    BY <2>1, <2>5, PutWritten
<1> QED
  BY <1>2, <1>3

LEMMA AuditTimestampWrites ==
  ASSUME NEW p, p.class = "audit", NEW fs, AllNamed(fs), NEW d \in DOMAIN fs
  PROVE  Written(p, fs, d, AuditTimestamp(p, fs, d))
<1> DEFINE f == fs[d]
<1>1. Named(f) /\ DOMAIN f = FrameFields /\ f.columns \in Seq(Columns) /\ f.set \in Seq(Columns)
  BY FrameDomain DEF AllNamed, Named, FrameOK
<1>2. CASE f.table \notin p.tables \/ f.type \notin {"insert", "update", "merge"}
  <2>1. AuditTimestamp(p, fs, d) = fs
    BY <1>2 DEF AuditTimestamp
  <2> QED
    BY <2>1, IdleWritten
<1>3. ASSUME f.table \in p.tables
      PROVE  \A g : Earned(p, f, g, "created_at") /\ Earned(p, f, g, "updated_at")
  BY <1>3 DEF Earned
<1>4. CASE f.table \in p.tables /\ f.type = "insert"
  <2> DEFINE more == <<"created_at", "updated_at">>
             g == [f EXCEPT !.columns = f.columns \o more]
  <2>1. AuditTimestamp(p, fs, d) = Put(fs, d, g)
    BY <1>4 DEF AuditTimestamp
  <2>2. g.columns = f.columns \o more /\ g.set = f.set /\ g.rows = f.rows /\ g.guards = f.guards
    BY <1>1 DEF FrameFields
  <2> HIDE DEF g
  <2>3. /\ more \in Seq(Columns) /\ DOMAIN more = {1, 2}
        /\ more[1] = "created_at" /\ more[2] = "updated_at"
    BY NamesAreColumns, TwoNames
  <2> HIDE DEF more
  <2>4. IsInjective(more)
    BY <2>3 DEF IsInjective
  <2>5. Doubles(p, f, "created_at") /\ Doubles(p, f, "updated_at")
    BY <1>4 DEF Doubles
  <2>6. Adds(p, f, g, f.columns, more, "insert")
    BY <1>3, <1>4, <2>3, <2>4, <2>5 DEF Adds
  <2>7. Spoils(p, f)
    BY <1>4 DEF Spoils
  <2>8. Writes(p, f, g)
    BY <1>1, <2>2, <2>6, <2>7, ColumnsWrite
  <2> QED
    BY <2>1, <2>8, PutWritten
<1>5. CASE f.table \in p.tables /\ f.type = "update"
  <2> DEFINE g == [f EXCEPT !.set = Append(f.set, "updated_at")]
  <2>1. AuditTimestamp(p, fs, d) = Put(fs, d, g)
    BY <1>5 DEF AuditTimestamp
  <2>2. g.columns = f.columns /\ g.set = Append(f.set, "updated_at") /\ g.rows = f.rows /\ g.guards = f.guards
    BY <1>1 DEF FrameFields
  <2> HIDE DEF g
  <2>3. g.set = f.set \o <<"updated_at">>
    <3> HIDE DEF f
    <3> QED
      BY <1>1, <2>2, NamesAreColumns, AppendIsConcat
  <2>4. Doubles(p, f, "updated_at")
    BY <1>5 DEF Doubles
  <2>5. Adds(p, f, g, f.set, <<"updated_at">>, "update")
    <3> HIDE DEF f
    <3> QED
      BY <1>1, <1>3, <1>5, <2>4, NamesAreColumns, AddsOne
  <2>6. Writes(p, f, g)
    BY <1>1, <2>2, <2>3, <2>5, SetWrites
  <2> QED
    BY <2>1, <2>6, PutWritten
<1>6. CASE f.table \in p.tables /\ f.type = "merge"
  <2> DEFINE created == Lacking("created_at", f.columns)
             updated == Lacking("updated_at", f.columns)
             set == Lacking("updated_at", f.set)
             g == [f EXCEPT !.columns = f.columns \o created \o updated, !.set = f.set \o set]
  <2>1. AuditTimestamp(p, fs, d) = Put(fs, d, g)
    BY <1>6 DEF AuditTimestamp
  <2>2. g.columns = f.columns \o created \o updated /\ g.set = f.set \o set /\ g.rows = f.rows /\ g.guards = f.guards
    BY <1>1 DEF FrameFields
  <2> HIDE DEF g
  <2>3. /\ Adds(p, f, g, f.columns, created, "insert") /\ Adds(p, f, g, f.columns, updated, "insert")
        /\ Adds(p, f, g, f.set, set, "update")
    <3> HIDE DEF f
    <3> QED
      BY <1>1, <1>3, <1>6, NamesAreColumns, AddsLacking
  <2>4. \A i \in DOMAIN created, j \in DOMAIN updated : created[i] # updated[j]
    <3>1. \A i \in DOMAIN created : created[i] = "created_at"
      BY DEF Lacking
    <3>2. \A j \in DOMAIN updated : updated[j] = "updated_at"
      BY DEF Lacking
    <3> QED
      BY <3>1, <3>2
  <2> HIDE DEF created, updated, set
  <2>5. Adds(p, f, g, f.columns, created \o updated, "insert")
    BY <2>3, <2>4, AddsBoth
  <2>6. g.columns = f.columns \o (created \o updated)
    <3>1. created \in Seq(Columns) /\ updated \in Seq(Columns)
      BY <2>3 DEF Adds
    <3>2. f.columns \in Seq(Columns) /\ g.columns = f.columns \o created \o updated
      BY <1>1, <2>2
    <3> DEFINE a == f.columns
               b == g.columns
    <3>3. a \in Seq(Columns) /\ b = a \o created \o updated
      BY <3>2
    <3> HIDE DEF a, b
    <3>4. b = a \o (created \o updated)
      BY <3>1, <3>3, ThreeParts, SMTT(30)
    <3> QED
      BY <3>4 DEF a, b
  <2>7. Writes(p, f, g)
    BY <1>1, <1>6, <2>2, <2>3, <2>5, <2>6, NamesWrite
  <2> QED
    BY <2>1, <2>7, PutWritten
<1> QED
  BY <1>2, <1>4, <1>5, <1>6

LEMMA OptimisticLockWrites ==
  ASSUME NEW p, p.class = "optimistic-lock", NEW fs, AllNamed(fs), NEW d \in DOMAIN fs
  PROVE  Written(p, fs, d, OptimisticLock(p, fs, d))
<1> DEFINE f == fs[d]
           c == "optimistic-lock"
           r == OptimisticLock(p, fs, d)
<1>1. Named(f) /\ DOMAIN f = FrameFields /\ f.columns \in Seq(Columns) /\ f.set \in Seq(Columns) /\ c \in Classes
  BY FrameDomain DEF AllNamed, Named, FrameOK, Classes
<1>2. CASE r = fs
  BY <1>2, IdleWritten
<1>3. CASE f.table \in p.tables /\ c \notin f.flags /\ f.type = "update"
  <2> DEFINE h == Guard(c, "main", FALSE)
             m == Marked(f, c, <<h>>)
             g == [m EXCEPT !.set = Append(m.set, "version")]
  <2>1. r = Put(fs, d, g)
    BY <1>3 DEF OptimisticLock
  <2>2. h \in Guards /\ h.by = c /\ h.at = "main"
    BY <1>1, GuardFields
  <2> HIDE DEF h
  <2>3. AllAnnounced(p, <<h>>, f)
    BY <1>3, <2>2, OneAnnounced DEF Announces, TableAt
  <2>4. Writes(p, f, m)
    BY <1>1, <2>3, MarkedWrites
  <2>5. /\ DOMAIN m = FrameFields /\ m.flags = f.flags \cup {c}
        /\ m.columns = f.columns /\ m.set = f.set /\ m.rows = f.rows
    BY <1>1, MarkedFields
  <2> HIDE DEF m
  <2>6. /\ g.columns = f.columns /\ g.rows = f.rows /\ g.set = Append(f.set, "version")
        /\ g.guards = m.guards /\ g.flags = m.flags
    BY <2>5 DEF FrameFields
  <2> HIDE DEF g
  <2>7. g.set = f.set \o <<"version">>
    <3> HIDE DEF f
    <3> QED
      BY <1>1, <2>6, NamesAreColumns, AppendIsConcat
  <2>8. Doubles(p, f, "version") /\ Earned(p, f, g, "version")
    BY <1>3, <2>5, <2>6 DEF Doubles, Earned
  <2>9. Adds(p, f, g, f.set, <<"version">>, "update")
    <3> HIDE DEF f
    <3> QED
      BY <1>1, <1>3, <2>8, NamesAreColumns, AddsOne
  <2>10. Writes(p, f, g)
    BY <1>1, <2>4, <2>6, <2>7, <2>9, SetWrites DEF Writes
  <2> QED
    BY <2>1, <2>10, PutWritten
<1>4. CASE /\ f.table \in p.tables /\ c \notin f.flags /\ f.type = "insert"
           /\ f.rows # "default" /\ ~Contains(f.columns, "version")
  <2> DEFINE g == [f EXCEPT !.columns = Append(f.columns, "version"), !.flags = f.flags \cup {"optimistic-lock"}]
  <2>1. r = Put(fs, d, g)
    BY <1>4 DEF OptimisticLock
  <2>2. /\ g.columns = Append(f.columns, "version") /\ g.set = f.set /\ g.rows = f.rows /\ g.guards = f.guards
        /\ c \in g.flags
    BY <1>1 DEF FrameFields
  <2> HIDE DEF g
  <2>3. g.columns = f.columns \o <<"version">>
    <3> HIDE DEF f
    <3> QED
      BY <1>1, <2>2, NamesAreColumns, AppendIsConcat
  <2>4. Adds(p, f, g, f.columns, <<"version">>, "insert")
    <3>1. Earned(p, f, g, "version")
      BY <2>2 DEF Earned
    <3> HIDE DEF f
    <3> QED
      BY <1>1, <1>4, <3>1, NamesAreColumns, AddsOne
  <2>5. f.rows \in {"select", "default"} => Spoils(p, f)
    BY <1>4 DEF Spoils
  <2>6. Writes(p, f, g)
    BY <1>1, <2>2, <2>3, <2>4, <2>5, ColumnsWrite
  <2> QED
    BY <2>1, <2>6, PutWritten
<1>5. CASE \/ f.table \notin p.tables \/ c \in f.flags \/ f.type \notin {"insert", "update"}
           \/ f.type = "insert" /\ (f.rows = "default" \/ Contains(f.columns, "version"))
  <2>1. r = fs
    BY <1>5 DEF OptimisticLock
  <2> QED
    BY <1>2, <2>1
<1> QED
  BY <1>3, <1>4, <1>5

LEMMA TenantSelectWrites ==
  ASSUME NEW p, p.class = "multi-tenant", NEW f, Named(f), f.type = "select"
  PROVE  Writes(p, f, TenantSelect(p, f))
<1> DEFINE c == "multi-tenant"
           joined == Guard(c, "join", TRUE)
           main == Guard(c, "main", f.join # NoJoin)
<1>1. c \in Classes
  BY DEF Classes
<1>2. joined \in Guards /\ joined.qualified
  BY <1>1, GuardFields
<1>3. main \in Guards /\ main.by = c /\ main.at = "main" /\ main.qualified = (f.join # NoJoin)
  BY <1>1, GuardFields
<1> HIDE DEF joined, main
<1>4. AllAnnounced(p, <<joined>>, f)
  BY <1>2, OneAnnounced DEF Announces
<1>5. CASE c \in f.flags \/ f.table \notin p.tables
  BY <1>5, WritesSelf DEF TenantSelect
<1>6. CASE c \notin f.flags /\ f.table \in p.tables
  <2>1. Announces(p, main, f)
    BY <1>3, <1>6 DEF Announces, TableAt
  <2>2. AllAnnounced(p, <<main>>, f)
    BY <1>3, <2>1, OneAnnounced
  <2>3. AllAnnounced(p, (IF f.join.table \in p.tables THEN <<joined>> ELSE <<>>) \o <<main>>, f)
    BY <1>4, <2>2, NoneAnnounced, BothAnnounced
  <2>4. TenantSelect(p, f) = Marked(f, c, (IF f.join.table \in p.tables THEN <<joined>> ELSE <<>>) \o <<main>>)
    BY <1>6 DEF TenantSelect, joined, main
  <2> QED
    BY <2>3, <2>4, MarkedWrites
<1> QED
  BY <1>5, <1>6

LEMMA TenantMergeWrites ==
  ASSUME NEW p, p.class = "multi-tenant", NEW f, Named(f), f.type = "merge"
  PROVE  Writes(p, f, TenantMerge(p, f))
<1> DEFINE c == "multi-tenant"
           joined == Guard(c, "join", TRUE)
           main == Guard(c, "main", TRUE)
           gs == <<main>> \o (IF f.join.table \in p.tables THEN <<joined>> ELSE <<>>)
           m == Marked(f, c, gs)
           more == Lacking("tenant_id", m.columns)
           g == [m EXCEPT !.columns = m.columns \o more]
<1>1. TenantMerge(p, f) = g
  BY DEF TenantMerge
<1>2. c \in Classes
  BY DEF Classes
<1>3. joined \in Guards /\ joined.qualified /\ main \in Guards /\ main.qualified
  BY <1>2, GuardFields
<1> HIDE DEF joined, main
<1>4. AllAnnounced(p, <<joined>>, f) /\ AllAnnounced(p, <<main>>, f)
  BY <1>3, OneAnnounced DEF Announces
<1>5. AllAnnounced(p, gs, f)
  BY <1>4, NoneAnnounced, BothAnnounced
<1> HIDE DEF gs
<1>6. Writes(p, f, m)
  BY <1>5, MarkedWrites
<1>7. /\ DOMAIN m = FrameFields /\ m.flags = f.flags \cup {c}
      /\ m.columns = f.columns /\ m.set = f.set /\ m.rows = f.rows
  BY MarkedFields
<1> HIDE DEF m
<1>8. /\ g.columns = f.columns \o more /\ g.set = f.set /\ g.rows = f.rows /\ g.guards = m.guards
      /\ c \in g.flags
  BY <1>7 DEF FrameFields
<1> HIDE DEF g
<1>9. Adds(p, f, g, f.columns, more, "insert")
  <2>1. Earned(p, f, g, "tenant_id")
    BY <1>8 DEF Earned
  <2>2. f.columns \in Seq(Columns)
    BY DEF Named
  <2> QED
    BY <1>7, <2>1, <2>2, NamesAreColumns, AddsLacking
<1> HIDE DEF more
<1>10. Writes(p, f, g)
  BY <1>6, <1>8, <1>9, ColumnsWrite DEF Writes
<1> QED
  BY <1>1, <1>10

LEMMA MultiTenantWrites ==
  ASSUME NEW p, p.class = "multi-tenant", NEW fs, AllNamed(fs), NEW d \in DOMAIN fs, MultiTenant(p, fs, d) # Thrown,
         fs[d].type \in {"select", "insert", "update", "delete", "merge"}
  PROVE  Written(p, fs, d, MultiTenant(p, fs, d))
<1> DEFINE f == fs[d]
           c == "multi-tenant"
<1>1. Named(f) /\ DOMAIN f = FrameFields /\ f.columns \in Seq(Columns) /\ c \in Classes
  BY FrameDomain DEF AllNamed, Named, FrameOK, Classes
<1>2. ~CrossesTenants(p, f)
  BY DEF MultiTenant
<1>3. CASE f.type = "select"
  <2>1. MultiTenant(p, fs, d) = Put(fs, d, TenantSelect(p, f))
    BY <1>2, <1>3 DEF MultiTenant
  <2>2. Writes(p, f, TenantSelect(p, f))
    BY <1>1, <1>3, TenantSelectWrites
  <2> QED
    BY <2>1, <2>2, PutWritten
<1>4. CASE f.type # "select" /\ (c \in f.flags \/ f.table \notin p.tables)
  BY <1>2, <1>4, IdleWritten DEF MultiTenant
<1>5. CASE f.type \in {"update", "delete"} /\ c \notin f.flags /\ f.table \in p.tables
  <2> DEFINE h == Guard(c, "main", FALSE)
  <2>1. MultiTenant(p, fs, d) = Put(fs, d, Marked(f, c, <<h>>))
    BY <1>2, <1>5 DEF MultiTenant
  <2>2. h \in Guards /\ h.by = c /\ h.at = "main"
    BY <1>1, GuardFields
  <2> HIDE DEF h
  <2>3. AllAnnounced(p, <<h>>, f)
    BY <1>5, <2>2, OneAnnounced DEF Announces, TableAt
  <2>4. Writes(p, f, Marked(f, c, <<h>>))
    BY <1>1, <2>3, MarkedWrites
  <2> QED
    BY <2>1, <2>4, PutWritten
<1>6. CASE f.type = "insert" /\ c \notin f.flags /\ f.table \in p.tables
  <2> DEFINE g == [f EXCEPT !.columns = Append(f.columns, "tenant_id"), !.flags = f.flags \cup {"multi-tenant"}]
  <2>1. MultiTenant(p, fs, d) = Put(fs, d, g)
    BY <1>2, <1>6 DEF MultiTenant
  <2>2. /\ g.columns = Append(f.columns, "tenant_id") /\ g.set = f.set /\ g.rows = f.rows /\ g.guards = f.guards
        /\ c \in g.flags
    BY <1>1 DEF FrameFields
  <2> HIDE DEF g
  <2>3. g.columns = f.columns \o <<"tenant_id">>
    <3> HIDE DEF f
    <3> QED
      BY <1>1, <2>2, NamesAreColumns, AppendIsConcat
  <2>4. Adds(p, f, g, f.columns, <<"tenant_id">>, "insert")
    <3>1. Earned(p, f, g, "tenant_id") /\ Doubles(p, f, "tenant_id")
      BY <1>6, <2>2 DEF Earned, Doubles
    <3> HIDE DEF f
    <3> QED
      BY <1>1, <1>6, <3>1, NamesAreColumns, AddsOne
  <2>5. Spoils(p, f)
    BY <1>6 DEF Spoils
  <2>6. Writes(p, f, g)
    BY <1>1, <2>2, <2>3, <2>4, <2>5, ColumnsWrite
  <2> QED
    BY <2>1, <2>6, PutWritten
<1>7. CASE f.type = "merge" /\ c \notin f.flags /\ f.table \in p.tables
  <2>1. MultiTenant(p, fs, d) = Put(fs, d, TenantMerge(p, f))
    BY <1>2, <1>7 DEF MultiTenant
  <2>2. Writes(p, f, TenantMerge(p, f))
    BY <1>1, <1>7, TenantMergeWrites
  <2> QED
    BY <2>1, <2>2, PutWritten
<1> QED
  BY <1>3, <1>4, <1>5, <1>6, <1>7

LEMMA AliveWrites ==
  ASSUME NEW p, p.class = "soft-delete", NEW f, Named(f), f.type # "merge"
  PROVE  Writes(p, f, Marked(f, "soft-delete", AliveGuards(p, f)))
<1> DEFINE joined == Guard("soft-delete", "join", FALSE)
           main == Guard("soft-delete", "main", FALSE)
<1>1. "soft-delete" \in Classes
  BY DEF Classes
<1>2. /\ joined \in Guards /\ joined.by = "soft-delete" /\ joined.at = "join"
      /\ main \in Guards /\ main.by = "soft-delete" /\ main.at = "main"
  BY <1>1, GuardFields
<1> HIDE DEF joined, main
<1>3. FiltersJoin(p, f) => AllAnnounced(p, <<joined>>, f)
  <2>1. FiltersJoin(p, f) => Announces(p, joined, f)
    BY <1>2 DEF FiltersJoin, Announces, TableAt
  <2> QED
    BY <1>2, <2>1, OneAnnounced
<1>4. f.table \in p.tables => AllAnnounced(p, <<main>>, f)
  <2>1. f.table \in p.tables => Announces(p, main, f)
    BY <1>2 DEF Announces, TableAt
  <2> QED
    BY <1>2, <2>1, OneAnnounced
<1>5. AliveGuards(p, f) = (IF FiltersJoin(p, f) THEN <<joined>> ELSE <<>>) \o (IF f.table \in p.tables THEN <<main>> ELSE <<>>)
  BY DEF AliveGuards, joined, main
<1>6. AllAnnounced(p, AliveGuards(p, f), f)
  BY <1>3, <1>4, <1>5, NoneAnnounced, BothAnnounced
<1> QED
  BY <1>6, MarkedWrites

LEMMA SoftDeleteWrites ==
  ASSUME NEW p, p.class = "soft-delete", NEW fs, AllNamed(fs), DOMAIN fs = 1 .. Len(fs), Len(fs) \in Nat,
         NEW d \in DOMAIN fs, \A e \in DOMAIN fs : e > 1 => fs[e].type = "select"
  PROVE  Written(p, fs, d, SoftDelete(p, fs, d))
<1> DEFINE f == fs[d]
           c == "soft-delete"
<1>1. Named(f) /\ c \in Classes
  BY DEF AllNamed, Classes
<1>2. CASE f.type = "select"
  <2> DEFINE r == SoftDeleteSelect(p, fs, d)
  <2>1. \A e \in DOMAIN fs : r[e] = fs[e] \/ (e \in Entered(fs, d) /\ r[e] = Marked(fs[e], c, AliveGuards(p, fs[e])))
    BY DEF SoftDeleteSelect
  <2> HIDE DEF r
  <2>2. ASSUME NEW e \in DOMAIN fs
        PROVE  Writes(p, fs[e], r[e]) /\ r[e].columns = fs[e].columns /\ r[e].set = fs[e].set
    <3>1. CASE r[e] = fs[e]
      BY <3>1, WritesSelf DEF AllNamed
    <3>2. CASE e \in Entered(fs, d) /\ r[e] = Marked(fs[e], c, AliveGuards(p, fs[e]))
      <4>1. Named(fs[e])
        BY DEF AllNamed
      <4>2. fs[e].type = "select"
        <5>1. e = d \/ e > 1
          BY <3>2 DEF Entered
        <5> QED
          BY <1>2, <5>1
      <4> QED
        BY <3>2, <4>1, <4>2, AliveWrites, MarkedFields
    <3> QED
      BY <2>1, <3>1, <3>2
  <2>3. SoftDelete(p, fs, d) = r
    BY <1>2 DEF SoftDelete, r
  <2> QED
    BY <2>2, <2>3 DEF Written
<1>3. CASE /\ f.type \in {"update", "merge"} /\ f.table \in p.tables /\ c \notin f.flags
           /\ f.type = "update" => f.mode # "include"
  <2> DEFINE h == Guard(c, "main", f.type = "merge")
  <2>1. SoftDelete(p, fs, d) = Put(fs, d, Marked(f, c, <<h>>))
    BY <1>3 DEF SoftDelete
  <2>2. (f.type = "merge") \in BOOLEAN
    OBVIOUS
  <2>3. h \in Guards /\ h.by = c /\ h.at = "main" /\ h.qualified = (f.type = "merge")
    BY <1>1, <2>2, GuardFields, ZenonT(30)
  <2> HIDE DEF h
  <2>4. Announces(p, h, f)
    BY <1>3, <2>3 DEF Announces, TableAt
  <2>5. AllAnnounced(p, <<h>>, f)
    BY <2>3, <2>4, OneAnnounced
  <2>6. Writes(p, f, Marked(f, c, <<h>>))
    BY <1>1, <2>5, MarkedWrites
  <2> QED
    BY <2>1, <2>6, PutWritten
<1>4. CASE /\ f.type # "select"
           /\ \/ f.type \notin {"update", "merge"} \/ f.table \notin p.tables \/ c \in f.flags
              \/ f.type = "update" /\ f.mode = "include"
  <2>1. SoftDelete(p, fs, d) = fs
    BY <1>4 DEF SoftDelete
  <2> QED
    BY <2>1, IdleWritten
<1> QED
  BY <1>2, <1>3, <1>4

LEMMA TransformWrites ==
  ASSUME NEW p, p.class \in Classes, NEW fs, AllNamed(fs), DOMAIN fs = 1 .. Len(fs), Len(fs) \in Nat,
         NEW d \in DOMAIN fs, \A e \in DOMAIN fs : e > 1 => fs[e].type = "select", TransformNode(p, fs, d) # Thrown
  PROVE  Written(p, fs, d, TransformNode(p, fs, d))
<1>1. CASE fs[d].type \in {"explain", "create_view"}
  BY <1>1, IdleWritten DEF TransformNode
<1>2. CASE fs[d].type \notin {"explain", "create_view"}
  <2>0. fs[d].type \in {"select", "insert", "update", "delete", "merge"}
    BY <1>2 DEF AllNamed, Named, FrameOK, Expressions
  <2>1. CASE p.class = "soft-delete"
    BY <1>2, <2>1, SoftDeleteWrites DEF TransformNode
  <2>2. CASE p.class = "multi-tenant"
    BY <1>2, <2>0, <2>2, MultiTenantWrites DEF TransformNode
  <2>3. CASE p.class = "casl"
    BY <1>2, <2>3, CaslWrites DEF TransformNode
  <2>4. CASE p.class = "optimistic-lock"
    BY <1>2, <2>4, OptimisticLockWrites DEF TransformNode
  <2>5. CASE p.class = "audit"
    BY <1>2, <2>5, AuditTimestampWrites DEF TransformNode
  <2>6. CASE p.class = "defaults"
    BY <1>2, <2>6, DefaultsWrites DEF TransformNode
  <2>7. CASE p.class = "query-limit"
    BY <1>2, <2>7, AsideWrites DEF TransformNode
  <2>8. CASE p.class = "with-schema"
    BY <1>2, <2>8, AsideWrites DEF TransformNode
  <2> QED
    BY <2>1, <2>2, <2>3, <2>4, <2>5, <2>6, <2>7, <2>8 DEF Classes
<1> QED
  BY <1>1, <1>2

-----------------------------------------------------------------------------
(* Statements stay executable *)

\* A statement that is refused after more columns were added was refused
\* before, or has a column that one of them repeats.
LEMMA RepeatsGrow ==
  ASSUME NEW names \in Seq(Columns), NEW more \in Seq(Columns), IsInjective(more), NEW before,
         Repeats(names \o more, before)
  PROVE  Repeats(names, before) \/ \E j \in DOMAIN more : Contains(names, more[j])
<1> DEFINE c == names \o more
<1>1. /\ \A i \in DOMAIN names : i \in DOMAIN c /\ c[i] = names[i]
      /\ \A i \in DOMAIN c \ DOMAIN names : \E j \in DOMAIN more : i = Len(names) + j /\ c[i] = more[j]
  BY ConcatParts
<1>2. PICK i \in DOMAIN c \ DOMAIN before, k \in DOMAIN c : i # k /\ c[i] = c[k]
  BY DEF Repeats, Added
<1> HIDE DEF c
<1>3. CASE i \in DOMAIN names /\ k \in DOMAIN names
  BY <1>1, <1>2, <1>3 DEF Repeats, Added
<1>4. CASE i \in DOMAIN names /\ k \notin DOMAIN names
  <2>1. PICK j \in DOMAIN more : c[k] = more[j]
    BY <1>1, <1>2, <1>4
  <2>2. names[i] = more[j]
    BY <1>1, <1>2, <1>4, <2>1
  <2> QED
    BY <1>4, <2>2, ContainsIs
<1>5. CASE i \notin DOMAIN names /\ k \in DOMAIN names
  <2>1. PICK j \in DOMAIN more : c[i] = more[j]
    BY <1>1, <1>2, <1>5
  <2>2. names[k] = more[j]
    BY <1>1, <1>2, <1>5, <2>1
  <2> QED
    BY <1>5, <2>2, ContainsIs
<1>6. CASE i \notin DOMAIN names /\ k \notin DOMAIN names
  <2>1. PICK j \in DOMAIN more, l \in DOMAIN more :
          i = Len(names) + j /\ c[i] = more[j] /\ k = Len(names) + l /\ c[k] = more[l]
    BY <1>1, <1>2, <1>6
  <2> QED
    BY <1>2, <2>1 DEF IsInjective
<1> QED
  BY <1>3, <1>4, <1>5, <1>6

\* What NamesOK asks, of the names that N allows.
Allowed(names, before, N) ==
  /\ names \in Seq(Columns) /\ DOMAIN before \subseteq DOMAIN names
  /\ \A i \in DOMAIN names : IF i \in DOMAIN before THEN names[i] = before[i] ELSE names[i] \in N

LEMMA AllowedGrows ==
  ASSUME NEW names, NEW more \in Seq(Columns), NEW before, NEW N, Allowed(names, before, N),
         \A j \in DOMAIN more : more[j] \in N
  PROVE  Allowed(names \o more, before, N)
<1>1. names \in Seq(Columns)
  BY DEF Allowed
<1>2. /\ names \o more \in Seq(Columns)
      /\ \A i \in DOMAIN names : i \in DOMAIN (names \o more) /\ (names \o more)[i] = names[i]
      /\ \A i \in DOMAIN (names \o more) \ DOMAIN names :
           \E j \in DOMAIN more : i = Len(names) + j /\ (names \o more)[i] = more[j]
  BY <1>1, ConcatParts
<1> QED
  BY <1>2 DEF Allowed

LEMMA AllowedMore ==
  ASSUME NEW names, NEW before, NEW N, NEW M, N \subseteq M, Allowed(names, before, N)
  PROVE  Allowed(names, before, M)
BY DEF Allowed

\* Predicates that are announced are ambiguous only when Breaks says so.
LEMMA AnnouncedBreaks ==
  ASSUME NEW f, NEW before, f.guards \in Seq(Guards),
         \A k \in DOMAIN plugins : NoTable \notin plugins[k].tables,
         \A i \in Added(f.guards, before.guards) : Announced(f.guards[i], f),
         Ambiguous(f, before)
  PROVE  Breaks(f, before)
<1>1. PICK i \in Added(f.guards, before.guards), k \in DOMAIN plugins :
        /\ ~f.guards[i].qualified /\ plugins[k].class = f.guards[i].by
        /\ TableAt(f, IF f.guards[i].at = "main" THEN "join" ELSE "main") \in plugins[k].tables
  BY DEF Ambiguous
<1> DEFINE g == f.guards[i]
<1>2. g \in Guards
  BY <1>1 DEF Added
<1>3. g.at \in {"main", "join"}
  BY <1>2 DEF Guards
<1> HIDE DEF g
<1>4. Announced(g, f) /\ ~g.qualified
  BY <1>1 DEF g
<1>5. PICK j \in DOMAIN plugins : plugins[j].class = g.by /\ TableAt(f, g.at) \in plugins[j].tables
  BY <1>4 DEF Announced
<1>6. plugins[k].class = g.by /\ TableAt(f, IF g.at = "main" THEN "join" ELSE "main") \in plugins[k].tables
  BY <1>1 DEF g
<1>7. ~(g.at = "main" /\ f.join = NoJoin)
  BY <1>6 DEF TableAt, NoJoin
<1>8. /\ f.type # "merge"
      /\ g.by \in {"soft-delete", "casl"} \cup (IF f.type = "select" THEN {} ELSE {"multi-tenant", "optimistic-lock"})
  BY <1>4, <1>7 DEF Announced
<1>9. \E i1, k1 \in DOMAIN plugins :
        /\ plugins[i1].class = g.by /\ plugins[k1].class = g.by
        /\ f.table \in plugins[i1].tables /\ f.join.table \in plugins[k1].tables
  <2>1. CASE g.at = "main"
    BY <1>5, <1>6, <2>1 DEF TableAt
  <2>2. CASE g.at = "join"
    BY <1>5, <1>6, <2>2 DEF TableAt
  <2> QED
    BY <1>3, <2>1, <2>2
<1> QED
  BY <1>8, <1>9 DEF Breaks

\* What Breaks looks at, plugins do not change.
LEMMA BreaksSame ==
  ASSUME NEW f, NEW g, NEW before, g.type = f.type, g.rows = f.rows, g.table = f.table, g.join = f.join,
         Breaks(f, before)
  PROVE  Breaks(g, before)
BY DEF Breaks, Has, Twice

NamesOf(d) == {name \in Columns : NamedBySome(name, d)}

LEMMA NamesAllowed ==
  ASSUME NEW names, NEW before, NEW d
  PROVE  NamesOK(names, before, d) <=> Allowed(names, before, NamesOf(d))
<1>1. names \in Seq(Columns) => \A i \in DOMAIN names : names[i] \in Columns
  OBVIOUS
<1> QED
  BY <1>1 DEF NamesOK, Allowed, NamesOf

\* The statement as built.
LEMMA BuiltExecutable == PathOK /\ frames = built => ExecutableInv
<1> SUFFICES ASSUME PathOK, frames = built, NEW d \in DOMAIN frames
             PROVE  ExecutableAt(d)
  BY DEF ExecutableInv
<1> DEFINE b == built[d]
<1>1. Fresh(b)
  BY DEF PathOK
<1>2. b.columns \in Seq(Columns) /\ b.set \in Seq(Columns)
  BY <1>1 DEF Fresh
<1>3. NamesOK(b.columns, b.columns, d) /\ NamesOK(b.set, b.set, d)
  BY <1>2 DEF NamesOK
<1>4. Added(b.columns, b.columns) = {} /\ Added(b.set, b.set) = {} /\ Added(b.guards, b.guards) = {}
  BY DEF Added
<1>5. ~Refused(b, b)
  BY <1>4 DEF Refused, Repeats, Ambiguous
<1> QED
  BY <1>3, <1>4, <1>5 DEF ExecutableAt

\* Steps that change no statement.
LEMMA KeptExecutable ==
  ASSUME ExecutableInv, frames' = frames, built' = built, plugins' = plugins,
         \A i \in DOMAIN plugins, d \in DOMAIN frames : Applied(i, d) => Applied(i, d)'
  PROVE  ExecutableInv'
<1> SUFFICES ASSUME NEW CONSTANT d \in DOMAIN frames
             PROVE  ExecutableAt(d)'
  BY DEF ExecutableInv
<1>1. ExecutableAt(d)
  BY DEF ExecutableInv
<1>2. \A class : Done(class, d) => Done(class, d)'
  BY DEF Done
<1>3. \A name : NamedBySome(name, d) => NamedBySome(name, d)'
  BY <1>2 DEF NamedBySome
<1>4. NamesOK(frames[d].columns, built[d].columns, d)' /\ NamesOK(frames[d].set, built[d].set, d)'
  BY <1>1, <1>3 DEF ExecutableAt, NamesOK
<1>5. (\A i \in Added(frames[d].guards, built[d].guards) : Announced(frames[d].guards[i], frames[d]))'
  BY <1>1 DEF ExecutableAt, Announced
<1>6. (Refused(frames[d], built[d]) => Breaks(frames[d], built[d]))'
  BY <1>1 DEF ExecutableAt, Refused, Ambiguous, Breaks, Has, Twice
<1> QED
  BY <1>1, <1>4, <1>5, <1>6 DEF ExecutableAt

\* A column that is there already.
LEMMA RepeatedIsBuilt ==
  ASSUME NEW d, NEW names, NEW before, NamesOK(names, before, d), NEW name, Contains(names, name),
         before \in Seq(Columns)
  PROVE  Contains(before, name) \/ NamedBySome(name, d)
<1>1. PICK i \in DOMAIN names : names[i] = name
  BY ContainsIs DEF NamesOK
<1>2. CASE i \in DOMAIN before
  BY <1>1, <1>2, ContainsIs DEF NamesOK
<1>3. CASE i \notin DOMAIN before
  BY <1>1, <1>3 DEF NamesOK
<1> QED
  BY <1>2, <1>3

\* A plugin of the class that was applied to the statement the walk is at comes
\* before the one that is applied now.
LEMMA DoneBefore ==
  ASSUME NEW class, PathOK, next \in DOMAIN plugins, Done(class, at)
  PROVE  \E k \in DOMAIN plugins : /\ k < next /\ plugins[k].class = class
                                   /\ frames[at].table \in plugins[k].tables
<1>1. DOMAIN plugins = 1 .. Len(plugins) /\ Len(plugins) \in Nat /\ at \in Nat
  BY PathIndices
<1>2. PICK k \in DOMAIN plugins : plugins[k].class = class /\ Applied(k, at) /\ frames[at].table \in plugins[k].tables
  BY DEF Done
<1>3. k < next
  BY <1>1, <1>2 DEF Applied
<1> QED
  BY <1>2, <1>3

\* Breaks says so of an INSERT that gets a column it has.
LEMMA ColumnBreaks ==
  ASSUME PathOK, next \in DOMAIN plugins, ExecutableAt(at), frames[at].type = "insert",
         NEW name, Contains(frames[at].columns, name), Doubles(plugins[next], frames[at], name)
  PROVE  Breaks(frames[at], built[at])
<1> DEFINE f == frames[at]
           b == built[at]
           p == plugins[next]
<1>1. b.columns \in Seq(Columns) /\ next \in Nat
  <2>1. at \in DOMAIN built
    BY PathIndices DEF PathOK
  <2>2. Fresh(b)
    BY <2>1 DEF PathOK
  <2>3. next \in Nat
    BY PathIndices
  <2> QED
    BY <2>2, <2>3 DEF Fresh
<1>2. NamesOK(f.columns, b.columns, at)
  BY DEF ExecutableAt
<1>3. f.type = "insert" /\ Doubles(p, f, name) /\ Contains(f.columns, name)
  OBVIOUS
<1>4. Contains(b.columns, name) \/ NamedBySome(name, at)
  BY <1>1, <1>2, <1>3, RepeatedIsBuilt
<1>5. CASE name = "tenant_id" /\ p.class = "multi-tenant" /\ "multi-tenant" \notin f.flags /\ f.table \in p.tables
  <2>1. CASE Contains(b.columns, name)
    <3>1. Has("multi-tenant", f)
      BY <1>5 DEF Has
    <3> QED
      BY <1>3, <1>5, <2>1, <3>1 DEF Breaks
  <2>2. CASE NamedBySome(name, at)
    <3>1. f.rows = "values" /\ Done("defaults", at)
      BY <1>5, <2>2 DEF NamedBySome
    <3>2. PICK k \in DOMAIN plugins : k < next /\ plugins[k].class = "defaults" /\ f.table \in plugins[k].tables
      BY <3>1, DoneBefore
    <3> QED
      BY <1>3, <1>5, <3>1, <3>2 DEF Breaks
  <2> QED
    BY <1>4, <2>1, <2>2
<1>6. CASE name \in {"created_at", "updated_at"} /\ p.class = "audit" /\ f.table \in p.tables
  <2>1. CASE Contains(b.columns, name)
    <3>1. Has("audit", f)
      BY <1>6 DEF Has
    <3> QED
      BY <1>3, <1>6, <2>1, <3>1 DEF Breaks
  <2>2. CASE NamedBySome(name, at)
    <3>1. Done("audit", at)
      BY <1>6, <2>2 DEF NamedBySome
    <3>2. PICK k \in DOMAIN plugins : k < next /\ plugins[k].class = "audit" /\ f.table \in plugins[k].tables
      BY <3>1, DoneBefore
    <3>3. k # next
      BY <1>1, <3>2
    <3>4. Twice("audit", f)
      BY <1>6, <3>2, <3>3 DEF Twice
    <3> QED
      BY <1>3, <3>4 DEF Breaks
  <2> QED
    BY <1>4, <2>1, <2>2
<1> QED
  BY <1>3, <1>5, <1>6 DEF Doubles

\* And of an UPDATE that gets an assignment it has.
LEMMA AssignmentBreaks ==
  ASSUME PathOK, next \in DOMAIN plugins, ExecutableAt(at), frames[at].type = "update",
         NEW name, Contains(frames[at].set, name), Doubles(plugins[next], frames[at], name)
  PROVE  Breaks(frames[at], built[at])
<1> DEFINE f == frames[at]
           b == built[at]
           p == plugins[next]
<1>1. b.set \in Seq(Columns) /\ next \in Nat
  <2>1. at \in DOMAIN built
    BY PathIndices DEF PathOK
  <2>2. Fresh(b)
    BY <2>1 DEF PathOK
  <2>3. next \in Nat
    BY PathIndices
  <2> QED
    BY <2>2, <2>3 DEF Fresh
<1>2. NamesOK(f.set, b.set, at)
  BY DEF ExecutableAt
<1>3. f.type = "update" /\ Doubles(p, f, name) /\ Contains(f.set, name)
  OBVIOUS
<1>4. Contains(b.set, name) \/ NamedBySome(name, at)
  BY <1>1, <1>2, <1>3, RepeatedIsBuilt
<1>5. CASE name = "version" /\ p.class = "optimistic-lock" /\ "optimistic-lock" \notin f.flags /\ f.table \in p.tables
  <2>1. Contains(b.set, name)
    BY <1>4, <1>5 DEF NamedBySome
  <2>2. Has("optimistic-lock", f)
    BY <1>5 DEF Has
  <2> QED
    BY <1>3, <1>5, <2>1, <2>2 DEF Breaks
<1>6. CASE name = "updated_at" /\ p.class = "audit" /\ f.table \in p.tables
  <2>1. CASE Contains(b.set, name)
    <3>1. Has("audit", f)
      BY <1>6 DEF Has
    <3> QED
      BY <1>3, <1>6, <2>1, <3>1 DEF Breaks
  <2>2. CASE NamedBySome(name, at)
    <3>1. Done("audit", at)
      BY <1>6, <2>2 DEF NamedBySome
    <3>2. PICK k \in DOMAIN plugins : k < next /\ plugins[k].class = "audit" /\ f.table \in plugins[k].tables
      BY <3>1, DoneBefore
    <3>3. k # next
      BY <1>1, <3>2
    <3>4. Twice("audit", f)
      BY <1>6, <3>2, <3>3 DEF Twice
    <3> QED
      BY <1>3, <3>4 DEF Breaks
  <2> QED
    BY <1>4, <2>1, <2>2
<1> QED
  BY <1>3, <1>5, <1>6 DEF Doubles

\* And of an INSERT without VALUES that gets columns.
LEMMA RowsBreak ==
  ASSUME NEW d, d \in DOMAIN built, PathOK, next \in DOMAIN plugins, frames[d].rows \in {"select", "default"},
         frames[d].type = "insert", frames[d].columns = built[d].columns, Spoils(plugins[next], frames[d])
  PROVE  Breaks(frames[d], built[d])
<1>1. CASE plugins[next].class \in {"multi-tenant", "audit"}
  <2>1. Has("multi-tenant", frames[d]) \/ Has("audit", frames[d])
    BY <1>1 DEF Has, Spoils
  <2> QED
    BY <2>1 DEF Breaks
<1>2. CASE /\ plugins[next].class = "optimistic-lock" /\ frames[d].rows = "select"
           /\ ~Contains(frames[d].columns, "version")
  <2>1. Has("optimistic-lock", frames[d])
    BY <1>2 DEF Has, Spoils
  <2> QED
    BY <1>2, <2>1 DEF Breaks
<1> QED
  BY <1>1, <1>2 DEF Spoils

\* Names of a statement after plugin n has been applied to it.
LEMMA NamesKept ==
  ASSUME NEW CONSTANT d \in DOMAIN frames, NEW CONSTANT n \in DOMAIN plugins, plugins' = plugins,
         \A i \in DOMAIN plugins : Applied(i, d) => Applied(i, d)', Applied(n, d)',
         frames'[d].table = frames[d].table, frames'[d].rows = frames[d].rows, frames[d].flags \subseteq frames'[d].flags
  PROVE  /\ NamesOf(d) \subseteq NamesOf(d)'
         /\ \A name \in Columns : Earned(plugins[n], frames[d], frames'[d], name) => name \in NamesOf(d)'
<1>1. \A class : Done(class, d) => Done(class, d)'
  BY DEF Done
<1>2. \A class : plugins[n].class = class /\ frames[d].table \in plugins[n].tables => Done(class, d)'
  BY DEF Done
<1>3. ASSUME NEW CONSTANT name, NamedBySome(name, d)
      PROVE  NamedBySome(name, d)'
  BY <1>1, <1>3 DEF NamedBySome
<1>4. ASSUME NEW CONSTANT name, Earned(plugins[n], frames[d], frames'[d], name)
      PROVE  NamedBySome(name, d)'
  BY <1>2, <1>4 DEF NamedBySome, Earned
<1> QED
  BY <1>3, <1>4 DEF NamesOf

\* What is refused of a statement that a plugin has changed.
LEMMA WritesBreak ==
  ASSUME PathOK, NEW CONSTANT d \in DOMAIN frames, NEW CONSTANT n \in DOMAIN plugins, n = next, ExecutableAt(d),
         Writes(plugins[n], frames[d], frames'[d]), Grows(frames[d], frames'[d]),
         d # at => frames'[d].columns = frames[d].columns /\ frames'[d].set = frames[d].set,
         \A i \in Added(frames'[d].guards, built[d].guards) : Announced(frames'[d].guards[i], frames'[d]),
         Refused(frames'[d], built[d])
  PROVE  Breaks(frames'[d], built[d])
<1> DEFINE f == frames[d]
           g == frames'[d]
           b == built[d]
           p == plugins[n]
<1>1. /\ g.type = f.type /\ g.table = f.table /\ g.join = f.join /\ g.rows = f.rows /\ FrameOK(g)
      /\ f.columns \in Seq(Columns) /\ f.set \in Seq(Columns)
  BY DEF Grows, Writes, ExecutableAt, NamesOK
<1>2. Breaks(f, b) => Breaks(g, b)
  BY <1>1, BreaksSame
<1>3. Refused(f, b) => Breaks(f, b)
  BY DEF ExecutableAt
<1>4. CASE Repeats(g.columns, b.columns)
  <2>1. PICK more : g.columns = f.columns \o more /\ Adds(p, f, g, f.columns, more, "insert")
    BY DEF Writes
  <2>2. more \in Seq(Columns) /\ IsInjective(more)
    BY <2>1 DEF Adds
  <2>3. CASE Repeats(f.columns, b.columns)
    BY <1>2, <1>3, <2>3 DEF Refused
  <2>4. CASE ~Repeats(f.columns, b.columns)
    <3>1. PICK j \in DOMAIN more : Contains(f.columns, more[j])
      BY <1>1, <1>4, <2>1, <2>2, <2>4, RepeatsGrow
    <3>2. f.type = "insert" /\ Doubles(p, f, more[j])
      BY <2>1, <3>1 DEF Adds
    <3>3. d = at
      BY <1>4, <2>4
    <3>4. Breaks(f, b)
      BY <3>1, <3>2, <3>3, ColumnBreaks
    <3> QED
      BY <1>2, <3>4
  <2> QED
    BY <2>3, <2>4
<1>5. CASE Repeats(g.set, b.set)
  <2>1. PICK more : g.set = f.set \o more /\ Adds(p, f, g, f.set, more, "update")
    BY DEF Writes
  <2>2. more \in Seq(Columns) /\ IsInjective(more)
    BY <2>1 DEF Adds
  <2>3. CASE Repeats(f.set, b.set)
    BY <1>2, <1>3, <2>3 DEF Refused
  <2>4. CASE ~Repeats(f.set, b.set)
    <3>1. PICK j \in DOMAIN more : Contains(f.set, more[j])
      BY <1>1, <1>5, <2>1, <2>2, <2>4, RepeatsGrow
    <3>2. f.type = "update" /\ Doubles(p, f, more[j])
      BY <2>1, <3>1 DEF Adds
    <3>3. d = at
      BY <1>5, <2>4
    <3>4. Breaks(f, b)
      BY <3>1, <3>2, <3>3, AssignmentBreaks
    <3> QED
      BY <1>2, <3>4
  <2> QED
    BY <2>3, <2>4
<1>6. CASE g.rows \in {"select", "default"} /\ g.columns # b.columns
  <2>1. CASE f.columns # b.columns
    BY <1>1, <1>2, <1>3, <1>6, <2>1 DEF Refused
  <2>2. CASE f.columns = b.columns
    <3>1. d \in DOMAIN built /\ Fresh(b)
      BY DEF PathOK
    <3>2. f.type = "insert"
      BY <1>1, <1>6, <3>1 DEF ExecutableAt, Fresh
    <3>3. Spoils(p, f)
      BY <1>1, <1>6, <2>2, <3>2 DEF Writes
    <3>4. Breaks(f, b)
      BY <1>1, <1>6, <2>2, <3>1, <3>2, <3>3, RowsBreak
    <3> QED
      BY <1>2, <3>4
  <2> QED
    BY <2>1, <2>2
<1>7. CASE Ambiguous(g, b)
  <2>1. g.guards \in Seq(Guards) /\ \A k \in DOMAIN plugins : NoTable \notin plugins[k].tables
    BY <1>1, PathIndices DEF FrameOK
  <2> QED
    BY <1>7, <2>1, AnnouncedBreaks
<1> QED
  BY <1>4, <1>5, <1>6, <1>7 DEF Refused

LEMMA ApplyExecutable == PolicyInv /\ ExecutableInv /\ ApplyPlugin => ExecutableInv'
<1> SUFFICES ASSUME PolicyInv, ExecutableInv, ApplyPlugin
             PROVE  ExecutableInv'
  OBVIOUS
<1> DEFINE p == plugins[next]
           r == TransformNode(p, frames, at)
<1>1. /\ PathOK /\ plugins' = plugins /\ built' = built /\ at' = at /\ next' = next + 1
      /\ \A d \in DOMAIN frames : FrameOK(frames[d])
  BY DEF PolicyInv, FlagsOK, ApplyPlugin
<1>2. /\ next \in DOMAIN plugins /\ p.class \in Classes /\ next \in Nat
      /\ at \in DOMAIN frames /\ Len(frames) \in Nat /\ DOMAIN frames = 1 .. Len(frames) /\ at \in Nat
  <2>1. next <= Len(plugins)
    BY DEF ApplyPlugin
  <2> QED
    BY <1>1, <2>1, PathIndices
<1>3. \A i \in DOMAIN plugins, d \in DOMAIN frames : Applied(i, d) => Applied(i, d)'
  <2>1. ASSUME NEW i \in DOMAIN plugins, NEW d \in DOMAIN frames, Applied(i, d)
        PROVE  Applied(i, d)'
    <3>1. i \in Int /\ d \in Int
      BY <1>1, <1>2, PathIndices
    <3> QED
      BY <1>1, <1>2, <2>1, <3>1 DEF Applied
  <2> QED
    BY <2>1
<1>4. CASE r = Thrown
  <2>1. frames' = frames
    BY <1>4 DEF ApplyPlugin
  <2> QED
    BY <1>1, <1>3, <2>1, KeptExecutable
<1>5. CASE r # Thrown
  <2>1. frames' = r
    BY <1>5 DEF ApplyPlugin
  <2>2. \A d \in DOMAIN frames : ExecutableAt(d) /\ d \in Nat
    BY <1>2 DEF ExecutableInv
  <2>3. AllNamed(frames)
    BY <1>1, <2>2 DEF AllNamed, Named, ExecutableAt, NamesOK
  <2>4. \A d \in DOMAIN frames : d > 1 => frames[d].type = "select"
    BY <1>1, <2>2 DEF PathOK, ExecutableAt
  <2>5. Moves(p, frames, at, frames')
    BY <1>1, <1>2, <1>5, <2>1, WalkMoves
  <2>6. Written(p, frames, at, frames')
    BY <1>2, <1>5, <2>1, <2>3, <2>4, TransformWrites
  <2> HIDE DEF r
  <2>7. /\ DOMAIN frames' = DOMAIN frames
        /\ \A d \in DOMAIN frames : Grows(frames[d], frames'[d])
    BY <1>1, <2>5, GrowsSelf DEF Moves, Does
  <2>8. PICK n \in DOMAIN plugins : n = next
    BY <1>2
  <2> SUFFICES ASSUME NEW CONSTANT d \in DOMAIN frames
               PROVE  ExecutableAt(d)'
    BY <2>7 DEF ExecutableInv
  <2> DEFINE f == frames[d]
             g == frames'[d]
             b == built[d]
  <2>9. /\ Writes(p, f, g) /\ Grows(f, g) /\ ExecutableAt(d)
        /\ d # at => g.columns = f.columns /\ g.set = f.set
    BY <2>2, <2>6, <2>7 DEF Written
  <2>10. /\ g.type = f.type /\ g.table = f.table /\ g.join = f.join /\ g.rows = f.rows /\ f.flags \subseteq g.flags
         /\ f.type = b.type /\ f.rows = b.rows
    BY <2>9 DEF Writes, Grows, ExecutableAt
  <2>11. NamesOf(d) \subseteq NamesOf(d)'
         /\ (d = at => \A name \in Columns : Earned(p, f, g, name) => name \in NamesOf(d)')
    <3>1. \A i \in DOMAIN plugins : Applied(i, d) => Applied(i, d)'
      BY <1>3
    <3>2. CASE d = at
      <4>1. Applied(n, d)'
        BY <1>1, <1>2, <2>8, <3>2 DEF Applied
      <4> QED
        BY <1>1, <2>8, <2>10, <3>1, <4>1, NamesKept
    <3>3. CASE d # at
      <4>1. \A class : Done(class, d) => Done(class, d)'
        BY <1>1, <2>10, <3>1 DEF Done
      <4>2. ASSUME NEW CONSTANT name, NamedBySome(name, d)
            PROVE  NamedBySome(name, d)'
        BY <2>10, <4>1, <4>2 DEF NamedBySome
      <4> QED
        BY <3>3, <4>2 DEF NamesOf
    <3> QED
      BY <3>2, <3>3
  <2>12. Allowed(f.columns, b.columns, NamesOf(d)) /\ Allowed(f.set, b.set, NamesOf(d))
    BY <2>9, NamesAllowed DEF ExecutableAt
  <2>13. Allowed(g.columns, b.columns, NamesOf(d)')
    <3>1. PICK more : g.columns = f.columns \o more /\ Adds(p, f, g, f.columns, more, "insert")
      BY <2>9 DEF Writes
    <3>2. Allowed(f.columns, b.columns, NamesOf(d)')
      BY <2>11, <2>12, AllowedMore
    <3>3. CASE d # at
      BY <2>9, <3>2, <3>3
    <3>4. CASE d = at
      <4>1. more \in Seq(Columns) /\ \A j \in DOMAIN more : Earned(p, f, g, more[j])
        BY <3>1 DEF Adds
      <4>2. \A j \in DOMAIN more : more[j] \in Columns
        BY <4>1
      <4>3. \A j \in DOMAIN more : more[j] \in NamesOf(d)'
        BY <2>11, <3>4, <4>1, <4>2
      <4> QED
        BY <3>1, <3>2, <4>1, <4>3, AllowedGrows
    <3> QED
      BY <3>3, <3>4
  <2>14. Allowed(g.set, b.set, NamesOf(d)')
    <3>1. PICK more : g.set = f.set \o more /\ Adds(p, f, g, f.set, more, "update")
      BY <2>9 DEF Writes
    <3>2. Allowed(f.set, b.set, NamesOf(d)')
      BY <2>11, <2>12, AllowedMore
    <3>3. CASE d # at
      BY <2>9, <3>2, <3>3
    <3>4. CASE d = at
      <4>1. more \in Seq(Columns) /\ \A j \in DOMAIN more : Earned(p, f, g, more[j])
        BY <3>1 DEF Adds
      <4>2. \A j \in DOMAIN more : more[j] \in Columns
        BY <4>1
      <4>3. \A j \in DOMAIN more : more[j] \in NamesOf(d)'
        BY <2>11, <3>4, <4>1, <4>2
      <4> QED
        BY <3>1, <3>2, <4>1, <4>3, AllowedGrows
    <3> QED
      BY <3>3, <3>4
  <2>15. (NamesOK(frames[d].columns, built[d].columns, d) /\ NamesOK(frames[d].set, built[d].set, d))'
    <3>1. ASSUME NEW CONSTANT names, NEW CONSTANT before, Allowed(names, before, NamesOf(d)')
          PROVE  NamesOK(names, before, d)'
      <4>1. \A i \in DOMAIN names : names[i] \in Columns
        BY <3>1 DEF Allowed
      <4> QED
        BY <3>1, <4>1 DEF NamesOK, Allowed, NamesOf
    <3>2. PICK columns, set, columnsBefore, setBefore :
            columns = g.columns /\ set = g.set /\ columnsBefore = b.columns /\ setBefore = b.set
      OBVIOUS
    <3>3. NamesOK(columns, columnsBefore, d)' /\ NamesOK(set, setBefore, d)'
      BY <2>13, <2>14, <3>1, <3>2
    <3> QED
      BY <1>1, <3>2, <3>3 DEF NamesOK
  <2>16. \A i \in Added(g.guards, b.guards) : Announced(g.guards[i], g)
    <3> SUFFICES ASSUME NEW i \in Added(g.guards, b.guards)
                 PROVE  Announced(g.guards[i], g)
      OBVIOUS
    <3>1. CASE i \in DOMAIN f.guards
      <4>1. i \in Added(f.guards, b.guards) /\ g.guards[i] = f.guards[i]
        BY <2>9, <3>1 DEF Added, Grows
      <4>2. Announced(f.guards[i], f)
        BY <2>9, <4>1 DEF ExecutableAt
      <4> QED
        BY <2>10, <4>1, <4>2 DEF Announced, TableAt
    <3>2. CASE i \notin DOMAIN f.guards
      <4>1. Announces(p, g.guards[i], f)
        BY <2>9, <3>2 DEF Writes, Added
      <4> QED
        BY <1>2, <2>10, <4>1 DEF Announced, Announces, TableAt
    <3> QED
      BY <3>1, <3>2
  <2>17. Refused(g, b) => Breaks(g, b)
    BY <1>1, <2>8, <2>9, <2>16, WritesBreak
  <2>18. (\A i \in Added(frames[d].guards, built[d].guards) : Announced(frames[d].guards[i], frames[d]))'
    BY <1>1, <2>16 DEF Announced
  <2>19. (Refused(frames[d], built[d]) => Breaks(frames[d], built[d]))'
    BY <1>1, <2>17 DEF Refused, Ambiguous, Breaks, Has, Twice
  <2>20. (frames[d].type = built[d].type /\ frames[d].rows = built[d].rows)'
    BY <1>1, <2>10
  <2> QED
    BY <2>15, <2>18, <2>19, <2>20 DEF ExecutableAt
<1> QED
  BY <1>4, <1>5

\* The other steps change no statement.
LEMMA DescendExecutable == PolicyInv /\ ExecutableInv /\ Descend => ExecutableInv'
<1> SUFFICES ASSUME PolicyInv, ExecutableInv, Descend
             PROVE  ExecutableInv'
  OBVIOUS
<1>1. /\ PathOK /\ frames' = frames /\ built' = built /\ plugins' = plugins /\ next > Len(plugins)
      /\ (at' = at /\ next' = next) \/ at' = at + 1
  BY DEF PolicyInv, Descend
<1>2. \A i \in DOMAIN plugins, d \in DOMAIN frames : Applied(i, d) => Applied(i, d)'
  <2>1. at \in Nat /\ next \in Nat /\ Len(plugins) \in Nat /\ \A i \in DOMAIN plugins : i \in Nat /\ i <= Len(plugins)
    BY <1>1, PathIndices
  <2>2. \A d \in DOMAIN frames : d \in Nat
    BY <1>1, PathIndices
  <2> QED
    BY <1>1, <2>1, <2>2 DEF Applied
<1> QED
  BY <1>1, <1>2, KeptExecutable

LEMMA CompileExecutable == ExecutableInv /\ Compile => ExecutableInv'
<1> SUFFICES ASSUME ExecutableInv, Compile
             PROVE  ExecutableInv'
  OBVIOUS
<1>1. frames' = frames /\ built' = built /\ plugins' = plugins /\ at' = at /\ next' = next
  BY DEF Compile
<1>2. \A i \in DOMAIN plugins, d \in DOMAIN frames : Applied(i, d) => Applied(i, d)'
  BY <1>1 DEF Applied
<1> QED
  BY <1>1, <1>2, KeptExecutable

LEMMA ExecutableAlways == Spec => []ExecutableInv
<1>1. Init => ExecutableInv
  BY PolicyInit, BuiltExecutable DEF Init, PolicyInv
<1>2. PolicyInv /\ PolicyInv' /\ ExecutableInv /\ [Next]_vars => ExecutableInv'
  <2> SUFFICES ASSUME PolicyInv, PolicyInv', ExecutableInv, [Next]_vars
               PROVE  ExecutableInv'
    OBVIOUS
  <2>1. CASE Nest
    <3>1. (PathOK /\ frames = built)'
      BY <2>1 DEF Nest, PolicyInv
    <3> QED
      BY <3>1, BuiltExecutable, PTL
  <2>2. CASE UNCHANGED vars
    <3>1. frames' = frames /\ built' = built /\ plugins' = plugins /\ at' = at /\ next' = next
      BY <2>2 DEF vars
    <3>2. \A i \in DOMAIN plugins, d \in DOMAIN frames : Applied(i, d) => Applied(i, d)'
      BY <3>1 DEF Applied
    <3> QED
      BY <3>1, <3>2, KeptExecutable
  <2> QED
    BY <2>1, <2>2, CompileExecutable, ApplyExecutable, DescendExecutable DEF Next
<1> QED
  BY <1>1, <1>2, PolicyAlways, PTL DEF Spec

\* What plugins add leaves a statement that a server can take, whatever the plugins,
\* their number, order and tables, except when Breaks says so: no column is named
\* twice, no column is added to an INSERT whose rows have none, and no predicate
\* names a column that both tables have (transformNode of the plugins).
THEOREM PluginsKeepExecutable == Spec => []StillExecutable
<1>1. PolicyInv /\ ExecutableInv => StillExecutable
  <2> SUFFICES ASSUME PolicyInv, ExecutableInv, NEW d \in 1 .. at
               PROVE  Refused(frames[d], built[d]) => Breaks(frames[d], built[d])
    BY DEF StillExecutable
  <2>1. d \in DOMAIN frames
    BY PathIndices DEF PolicyInv
  <2> QED
    BY <2>1 DEF ExecutableInv, ExecutableAt
<1> QED
  BY <1>1, PolicyAlways, ExecutableAlways, PTL

=============================================================================
