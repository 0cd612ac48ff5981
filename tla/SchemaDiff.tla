------------------------------ MODULE SchemaDiff ------------------------------
(***************************************************************************)
(* diffSchemas of migrate/diff.ts: the DDL that brings one schema to       *)
(* another.                                                                *)
(*                                                                         *)
(* A schema is a function from the names of its tables to                  *)
(*   [cols |-> function to [type, notNull, hasDefault, ref, comment],      *)
(*    cons |-> set of [name, kind, cols, ref, flag],                       *)
(*    idx  |-> function to [cols, body],                                   *)
(*    comment |-> text].                                                   *)
(* ref is the table a foreign key points to; flag is nullsNotDistinct.     *)
(*                                                                         *)
(* A plan is a set of nodes, each with its place at = <<group, rank,       *)
(* part>>: the groups in the order the code pushes them, the rank of the   *)
(* table among the keys of its schema, the part of that table's diff.      *)
(***************************************************************************)
EXTENDS Naturals, Sequences, SequencesExt

CONSTANTS
  Tables,   \* names of tables
  Columns,  \* names of columns
  None

-----------------------------------------------------------------------------
(* Keys and order *)

InOrder(order, S) == SelectSeq(order, LAMBDA t : t \in S)
Rank(seq, t) == CHOOSE i \in DOMAIN seq : seq[i] = t

Earlier(p, q) ==
  \/ p[1] < q[1]
  \/ p[1] = q[1] /\ p[2] < q[2]
  \/ p[1] = q[1] /\ p[2] = q[2] /\ p[3] < q[3]

IsTable(r) == r = [cols |-> r.cols, cons |-> r.cons, idx |-> r.idx, comment |-> r.comment]
Refs(table) == {table.cols[c].ref : c \in DOMAIN table.cols} \cup {k.ref : k \in table.cons}

-----------------------------------------------------------------------------
(* Creation order *)

\* Faulty: tables in the order of their keys.
TopoSortForCreation_Keys(order, tables, schema) == InOrder(order, tables)

\* Depth first along foreign keys between new tables; a cycle is broken where
\* it is met.
TopoSortForCreation(order, tables, schema) ==
  LET deps(t) == InOrder(order, (Refs(schema[t]) \cap tables) \ {t})
      Search == [visited : SUBSET Tables, visiting : SUBSET Tables, ordered : Seq(Tables)]
      visit[t \in Tables, s \in Search] ==
        IF t \in s.visited \cup s.visiting THEN s
        ELSE LET below == FoldLeft(LAMBDA x, u : visit[u, x],
                                   [s EXCEPT !.visiting = @ \cup {t}], deps(t))
             IN [visited |-> below.visited \cup {t},
                 visiting |-> below.visiting \ {t},
                 ordered |-> Append(below.ordered, t)]
      start == [visited |-> {}, visiting |-> {}, ordered |-> <<>>]
  IN FoldLeft(LAMBDA s, t : visit[t, s], start, InOrder(order, tables)).ordered

-----------------------------------------------------------------------------
(* Tables: declared renames *)

\* A rename that is out of date is ignored.
NewName(moves, after, t) ==
  IF t \in DOMAIN moves /\ moves[t] \in DOMAIN after /\ t \notin DOMAIN after
  THEN moves[t] ELSE t

\* The old schema under the new names; of two tables with one name the later wins.
AfterRename(order, before, after, moves) ==
  [n \in {NewName(moves, after, t) : t \in DOMAIN before} |->
     LET named == {t \in DOMAIN before : NewName(moves, after, t) = n}
     IN before[CHOOSE t \in named : \A u \in named : Rank(order, u) <= Rank(order, t)]]

-----------------------------------------------------------------------------
(* One table *)

\* "Named constraints key on the name; unnamed ones key on their body".
SignConstraint(k) ==
  IF k.name # None THEN <<k.kind, k.name, k.flag>> ELSE <<k.kind, k.cols, k.ref, k.flag>>

Without(old, new) == {k \in old : \A m \in new : SignConstraint(m) # SignConstraint(k)}

\* A default is only ever dropped.
AlterActionsForColumn(c, b, a) ==
  LET changed == {x \in {"type", "notNull", "hasDefault"} : a[x] # b[x]}
      sets == IF a.hasDefault THEN changed \ {"hasDefault"} ELSE changed
  IN {[column |-> c, attr |-> x, value |-> a[x]] : x \in sets}

\* The keys name the table as it is called in the new schema.
ColumnRenames(name, b, a, moves) ==
  {<<m.from, m.to>> : m \in {m \in moves :
     /\ m.table = name
     /\ m.from \in DOMAIN b.cols /\ m.to \in DOMAIN a.cols /\ m.from \notin DOMAIN a.cols}}

\* Faulty: indexes are matched by name only.
DiffIndexes_ByName(b, a) == [dropped |-> DOMAIN b.idx \ DOMAIN a.idx,
                             added |-> DOMAIN a.idx \ DOMAIN b.idx]

\* A changed index is dropped and created again.
DiffIndexes(b, a) ==
  LET changed == {i \in DOMAIN b.idx \cap DOMAIN a.idx : b.idx[i] # a.idx[i]}
  IN [dropped |-> (DOMAIN b.idx \ DOMAIN a.idx) \cup changed,
      added |-> (DOMAIN a.idx \ DOMAIN b.idx) \cup changed]

NoColumns == [c \in {} |-> None]

Alter(at, t) ==
  [at |-> at, type |-> "alter_table", table |-> t, dropCols |-> {}, dropCons |-> {},
   renames |-> {}, adds |-> NoColumns, sets |-> {}, addCons |-> {}]

DropIndex(at, i) == [at |-> at, type |-> "drop_index", index |-> i]
CreateIndex(at, t, i, def) ==
  [at |-> at, type |-> "create_index", index |-> i, table |-> t, def |-> def]
CommentOn(at, t, c, text) ==
  [at |-> at, type |-> "comment_on", table |-> t, column |-> c, comment |-> text]

\* Comments of a new table, or those of a shared one that changed; a column on
\* one side only has none.
NewTableComments(at, t, a) ==
  (IF a.comment = None THEN {} ELSE {CommentOn(at, t, None, a.comment)})
  \cup {CommentOn(at, t, c, a.cols[c].comment) :
          c \in {c \in DOMAIN a.cols : a.cols[c].comment # None}}

ChangedComments(at, t, b, a) ==
  (IF a.comment = b.comment THEN {} ELSE {CommentOn(at, t, None, a.comment)})
  \cup {CommentOn(at, t, c, a.cols[c].comment) :
          c \in {c \in DOMAIN a.cols \cap DOMAIN b.cols :
                   a.cols[c].comment # b.cols[c].comment}}

\* Faulty: a renamed column is dropped as well.
DiffTableDrops_Renamed(rank, t, b, a, moves) ==
  LET alter == [Alter(<<3, rank, 1>>, t) EXCEPT
                  !.dropCols = DOMAIN b.cols \ DOMAIN a.cols,
                  !.dropCons = {k.name : k \in Without(b.cons, a.cons)} \ {None}]
  IN (IF alter = Alter(<<3, rank, 1>>, t) THEN {} ELSE {alter})
     \cup {DropIndex(<<3, rank, 2>>, i) : i \in DiffIndexes(b, a).dropped}

DiffTableDrops(rank, t, b, a, moves) ==
  LET renamedFrom == {r[1] : r \in ColumnRenames(t, b, a, moves)}
      alter == [Alter(<<3, rank, 1>>, t) EXCEPT
                  !.dropCols = (DOMAIN b.cols \ DOMAIN a.cols) \ renamedFrom,
                  !.dropCons = {k.name : k \in Without(b.cons, a.cons)} \ {None}]
  IN (IF alter = Alter(<<3, rank, 1>>, t) THEN {} ELSE {alter})
     \cup {DropIndex(<<3, rank, 2>>, i) : i \in DiffIndexes(b, a).dropped}

DiffTableAdds(rank, t, b, a, moves) ==
  LET renames == ColumnRenames(t, b, a, moves)
      renamedTo == {r[2] : r \in renames}
      old(c) == IF c \in renamedTo THEN (CHOOSE r \in renames : r[2] = c)[1] ELSE c
      added == (DOMAIN a.cols \ DOMAIN b.cols) \ renamedTo
      alter == [Alter(<<8, rank, 1>>, t) EXCEPT
                  !.renames = renames,
                  !.adds = [c \in added |-> a.cols[c]],
                  !.sets = UNION {AlterActionsForColumn(c, b.cols[old(c)], a.cols[c]) :
                                    c \in DOMAIN a.cols \ added},
                  !.addCons = Without(a.cons, b.cons)]
  IN (IF alter = Alter(<<8, rank, 1>>, t) THEN {} ELSE {alter})
     \cup {CreateIndex(<<8, rank, 2>>, t, i, a.idx[i]) : i \in DiffIndexes(b, a).added}
     \cup ChangedComments(<<8, rank, 3>>, t, b, a)

-----------------------------------------------------------------------------
(* The whole schema *)

Destructive(order, before, after, tableMoves, columnMoves) ==
  LET old == AfterRename(order, before, after, tableMoves)
      removed == DOMAIN old \ DOMAIN after
      rank(t) == Rank(order, t)
  IN (UNION {{DropIndex(<<1, rank(t), 1>>, i) : i \in DOMAIN old[t].idx} : t \in removed})
     \cup {[at |-> <<2, rank(t), 1>>, type |-> "drop_table", table |-> t] : t \in removed}
     \cup (UNION {DiffTableDrops(rank(t), t, old[t], after[t], columnMoves) :
                    t \in DOMAIN old \cap DOMAIN after})

Additive(order, before, after, tableMoves, columnMoves) ==
  LET old == AfterRename(order, before, after, tableMoves)
      moved == {t \in DOMAIN before : NewName(tableMoves, after, t) # t}
      added == DOMAIN after \ DOMAIN old
      created == TopoSortForCreation(order, added, after)
      rank(t) == Rank(created, t)
  IN {[at |-> <<4, Rank(order, t), 1>>, type |-> "rename_table", table |-> t,
       to |-> NewName(tableMoves, after, t)] : t \in moved}
     \cup {[at |-> <<5, rank(t), 1>>, type |-> "create_table", table |-> t,
            cols |-> after[t].cols, cons |-> after[t].cons] : t \in added}
     \cup (UNION {{CreateIndex(<<6, rank(t), 1>>, t, i, after[t].idx[i]) :
                     i \in DOMAIN after[t].idx} : t \in added})
     \cup (UNION {NewTableComments(<<7, rank(t), 1>>, t, after[t]) : t \in added})
     \cup (UNION {DiffTableAdds(Rank(order, t), t, old[t], after[t], columnMoves) :
                    t \in DOMAIN old \cap DOMAIN after})

\* Faulty: the gate lets everything through.
DiffSchemas_NoGate(order, before, after, opts) ==
  [thrown |-> FALSE,
   nodes |-> Destructive(order, before, after, opts.tables, opts.columns)
             \cup Additive(order, before, after, opts.tables, opts.columns)]

\* allowDestructive: "allow" is true, "ignore" skips the drops, "ask" throws.
DiffSchemas(order, before, after, opts) ==
  LET destructive == Destructive(order, before, after, opts.tables, opts.columns)
      additive == Additive(order, before, after, opts.tables, opts.columns)
  IN IF destructive = {} \/ opts.mode = "allow"
     THEN [thrown |-> FALSE, nodes |-> destructive \cup additive]
     ELSE [thrown |-> opts.mode = "ask",
           nodes |-> IF opts.mode = "ask" THEN {} ELSE additive]

\* planMigration: "destructive:" in the plan, as shown to the caller.
HasDestructiveSteps(nodes) ==
  \E n \in nodes : \/ n.type \in {"drop_table", "drop_index"}
                   \/ n.type = "alter_table" /\ n.dropCols # {}
=============================================================================
