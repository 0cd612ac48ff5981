----------------------- MODULE SchemaMigration_proofs -----------------------
(* Theorems about the schema diff and the migrations it plans. *)
EXTENDS SchemaMigration, TLAPS

-----------------------------------------------------------------------------
(* The diff of a schema with itself *)

\* An ALTER TABLE to which nothing is added stays empty.
LEMMA AlterStaysEmpty ==
  ASSUME NEW at, NEW t
  PROVE /\ [Alter(at, t) EXCEPT !.dropCols = {}, !.dropCons = {}] = Alter(at, t)
        /\ [Alter(at, t) EXCEPT !.renames = {}, !.adds = NoColumns, !.sets = {}, !.addCons = {}]
             = Alter(at, t)
<1>1. PICK a : a = Alter(at, t)
  OBVIOUS
<1>2. /\ a.dropCols = {} /\ a.dropCons = {} /\ a.renames = {} /\ a.adds = NoColumns
      /\ a.sets = {} /\ a.addCons = {}
  BY <1>1 DEF Alter
<1>3. a = [x \in DOMAIN a |-> a[x]]
  BY <1>1 DEF Alter
<1>4. [a EXCEPT !.dropCols = {}] = a /\ [a EXCEPT !.dropCons = {}] = a
  BY <1>2, <1>3
<1>5. [a EXCEPT !.renames = {}] = a /\ [a EXCEPT !.adds = NoColumns] = a
  BY <1>2, <1>3
<1>6. [a EXCEPT !.sets = {}] = a /\ [a EXCEPT !.addCons = {}] = a
  BY <1>2, <1>3
<1> QED BY <1>1, <1>4, <1>5, <1>6

\* A schema that has not changed has no steps, whatever renames are declared and
\* whether drops are allowed: a deploy that plans again after a migration does
\* nothing.
THEOREM NoChangeNoSteps ==
  ASSUME NEW order, NEW schema, NEW opts,
         \A t \in DOMAIN schema : Rank(order, t) \in Nat
  PROVE DiffSchemas(order, schema, schema, opts) = [thrown |-> FALSE, nodes |-> {}]
<1> DEFINE moves == opts.tables
           old == AfterRename(order, schema, schema, moves)
<1>1. \A t \in DOMAIN schema : NewName(moves, schema, t) = t
  BY DEF NewName
<1>2. DOMAIN old = DOMAIN schema
  BY <1>1 DEF AfterRename
<1>3. ASSUME NEW n \in DOMAIN schema PROVE old[n] = schema[n]
  <2> DEFINE named == {t \in DOMAIN schema : NewName(moves, schema, t) = n}
  <2>1. named = {n}
    BY <1>1
  <2>2. old[n] = schema[CHOOSE t \in named : \A u \in named : Rank(order, u) <= Rank(order, t)]
    BY <1>1 DEF AfterRename
  <2>3. Rank(order, n) <= Rank(order, n)
    BY SMT
  <2>4. (CHOOSE t \in named : \A u \in named : Rank(order, u) <= Rank(order, t)) = n
    <3>1. \A t \in named : (\A u \in named : Rank(order, u) <= Rank(order, t)) <=> TRUE
      BY <2>1, <2>3
    <3>2. \E t \in named : \A u \in named : Rank(order, u) <= Rank(order, t)
      BY <2>1, <3>1
    <3> QED BY <3>2, <2>1
  <2> QED BY <2>2, <2>4
<1>4. ASSUME NEW rank, NEW t, NEW k, NEW m
      PROVE /\ DiffTableDrops(rank, t, k, k, m) = {}
            /\ DiffTableAdds(rank, t, k, k, m) = {}
  <2>1. ColumnRenames(t, k, k, m) = {}
    BY DEF ColumnRenames
  <2>2. Without(k.cons, k.cons) = {}
    BY DEF Without
  <2>3. DiffIndexes(k, k).dropped = {} /\ DiffIndexes(k, k).added = {}
    BY DEF DiffIndexes
  <2>4. \A c, col : AlterActionsForColumn(c, col, col) = {}
    BY DEF AlterActionsForColumn
  <2>5. ChangedComments(<<8, rank, 3>>, t, k, k) = {}
    BY DEF ChangedComments
  <2>6. DiffTableDrops(rank, t, k, k, m) = {}
    <3> DEFINE cols == (DOMAIN k.cols \ DOMAIN k.cols) \ {r[1] : r \in ColumnRenames(t, k, k, m)}
               cons == {c.name : c \in Without(k.cons, k.cons)} \ {None}
               none == Alter(<<3, rank, 1>>, t)
               alter == [none EXCEPT !.dropCols = cols, !.dropCons = cons]
    <3>1. cols = {} /\ cons = {}
      BY <2>2
    <3>2. DiffTableDrops(rank, t, k, k, m) =
            (IF alter = none THEN {} ELSE {alter})
            \cup {DropIndex(<<3, rank, 2>>, i) : i \in DiffIndexes(k, k).dropped}
      BY DEF DiffTableDrops
    <3>3. alter = none
      <4> HIDE DEF cols, cons
      <4> QED BY <3>1, AlterStaysEmpty
    <3> HIDE DEF alter, none
    <3> QED BY <3>2, <3>3, <2>3
  <2>7. DiffTableAdds(rank, t, k, k, m) = {}
    <3> DEFINE renames == ColumnRenames(t, k, k, m)
               renamedTo == {r[2] : r \in renames}
               former(c) == IF c \in renamedTo THEN (CHOOSE r \in renames : r[2] = c)[1] ELSE c
               added == (DOMAIN k.cols \ DOMAIN k.cols) \ renamedTo
               adds == [c \in added |-> k.cols[c]]
               sets == UNION {AlterActionsForColumn(c, k.cols[former(c)], k.cols[c]) :
                                c \in DOMAIN k.cols \ added}
               cons == Without(k.cons, k.cons)
               none == Alter(<<8, rank, 1>>, t)
               alter == [none EXCEPT !.renames = renames, !.adds = adds, !.sets = sets,
                                     !.addCons = cons]
    <3>1. renames = {} /\ adds = NoColumns /\ cons = {}
      BY <2>1, <2>2 DEF NoColumns
    <3>2. sets = {}
      <4>1. \A c : former(c) = c
        BY <2>1
      <4> HIDE DEF former
      <4> QED BY <4>1, <2>4
    <3>3. DiffTableAdds(rank, t, k, k, m) =
            (IF alter = none THEN {} ELSE {alter})
            \cup {CreateIndex(<<8, rank, 2>>, t, i, k.idx[i]) : i \in DiffIndexes(k, k).added}
            \cup ChangedComments(<<8, rank, 3>>, t, k, k)
      BY DEF DiffTableAdds
    <3>4. alter = none
      <4> HIDE DEF renames, adds, sets, cons
      <4> QED BY <3>1, <3>2, AlterStaysEmpty
    <3> HIDE DEF alter, none
    <3> QED BY <3>3, <3>4, <2>3, <2>5
  <2> QED BY <2>6, <2>7
<1>5. Destructive(order, schema, schema, opts.tables, opts.columns) = {}
  BY <1>2, <1>3, <1>4 DEF Destructive
<1>6. Additive(order, schema, schema, opts.tables, opts.columns) = {}
  BY <1>1, <1>2, <1>3, <1>4 DEF Additive
<1> QED BY <1>5, <1>6 DEF DiffSchemas

-----------------------------------------------------------------------------
(* What a plan may contain *)

LEMMA TableAddsKeep ==
  ASSUME NEW rank, NEW t, NEW b, NEW a, NEW moves, NEW n \in DiffTableAdds(rank, t, b, a, moves)
  PROVE n.type \in NodeTypes /\ ~Destroys(n)
<1>1. ASSUME NEW r, NEW d, NEW e, NEW f,
             n = [Alter(<<8, rank, 1>>, t) EXCEPT !.renames = r, !.adds = d, !.sets = e, !.addCons = f]
      PROVE n.type = "alter_table" /\ n.dropCols = {}
  BY <1>1 DEF Alter
<1>2. ASSUME NEW i, NEW def, n = CreateIndex(<<8, rank, 2>>, t, i, def)
      PROVE n.type = "create_index"
  BY <1>2 DEF CreateIndex
<1>3. ASSUME n \in ChangedComments(<<8, rank, 3>>, t, b, a)
      PROVE n.type = "comment_on"
  BY <1>3 DEF ChangedComments, CommentOn
<1>4. \/ n.type = "alter_table" /\ n.dropCols = {}
      \/ n.type \in {"create_index", "comment_on"}
  BY <1>1, <1>2, <1>3 DEF DiffTableAdds
<1> QED BY <1>4 DEF NodeTypes, Destroys

LEMMA AdditiveKeeps ==
  ASSUME NEW order, NEW before, NEW after, NEW tables, NEW columns,
         NEW n \in Additive(order, before, after, tables, columns)
  PROVE n.type \in NodeTypes /\ ~Destroys(n)
<1>1. ASSUME NEW at, NEW t, NEW a, n \in NewTableComments(at, t, a)
      PROVE n.type = "comment_on"
  BY <1>1 DEF NewTableComments, CommentOn
<1>2. ASSUME NEW at, NEW t, NEW i, NEW def, n = CreateIndex(at, t, i, def)
      PROVE n.type = "create_index"
  BY <1>2 DEF CreateIndex
<1> DEFINE old == AfterRename(order, before, after, tables)
           moved == {t \in DOMAIN before : NewName(tables, after, t) # t}
           added == DOMAIN after \ DOMAIN old
           created == TopoSortForCreation(order, added, after)
           renames == {[at |-> <<4, Rank(order, t), 1>>, type |-> "rename_table", table |-> t,
                        to |-> NewName(tables, after, t)] : t \in moved}
           creates == {[at |-> <<5, Rank(created, t), 1>>, type |-> "create_table", table |-> t,
                        cols |-> after[t].cols, cons |-> after[t].cons] : t \in added}
           indexes == UNION {{CreateIndex(<<6, Rank(created, t), 1>>, t, i, after[t].idx[i]) :
                                i \in DOMAIN after[t].idx} : t \in added}
           comments == UNION {NewTableComments(<<7, Rank(created, t), 1>>, t, after[t]) :
                                t \in added}
           shared == UNION {DiffTableAdds(Rank(order, t), t, old[t], after[t], columns) :
                              t \in DOMAIN old \cap DOMAIN after}
<1>3. Additive(order, before, after, tables, columns) =
        renames \cup creates \cup indexes \cup comments \cup shared
  BY DEF Additive
<1>4. n \in renames => n.type = "rename_table"
  OBVIOUS
<1>5. n \in creates => n.type = "create_table"
  <2> HIDE DEF created
  <2> QED OBVIOUS
<1>6. n \in indexes => n.type = "create_index"
  <2> HIDE DEF created
  <2> QED BY <1>2
<1>7. n \in comments => n.type = "comment_on"
  <2> HIDE DEF created
  <2> SUFFICES ASSUME n \in comments PROVE n.type = "comment_on"
    OBVIOUS
  <2>1. PICK t \in added : n \in NewTableComments(<<7, Rank(created, t), 1>>, t, after[t])
    OBVIOUS
  <2> HIDE DEF comments, added
  <2> QED BY <1>1, <2>1
<1>8. n \in shared => n.type \in NodeTypes /\ ~Destroys(n)
  <2> HIDE DEF old
  <2> QED BY TableAddsKeep
<1>9. n.type \in {"rename_table", "create_table", "create_index", "comment_on"} \/ n \in shared
  <2> HIDE DEF renames, creates, indexes, comments, shared
  <2> QED BY <1>3, <1>4, <1>5, <1>6, <1>7
<1> QED BY <1>8, <1>9 DEF NodeTypes, Destroys

LEMMA DestructiveTypes ==
  ASSUME NEW order, NEW before, NEW after, NEW tables, NEW columns,
         NEW n \in Destructive(order, before, after, tables, columns)
  PROVE n.type \in NodeTypes
<1>1. ASSUME NEW at, NEW i, n = DropIndex(at, i) PROVE n.type = "drop_index"
  BY <1>1 DEF DropIndex
<1>2. ASSUME NEW rank, NEW t, NEW c, NEW k,
             n = [Alter(<<3, rank, 1>>, t) EXCEPT !.dropCols = c, !.dropCons = k]
      PROVE n.type = "alter_table"
  BY <1>2 DEF Alter
<1>3. ASSUME NEW rank, NEW t, NEW b, NEW a, n \in DiffTableDrops(rank, t, b, a, columns)
      PROVE n.type \in {"alter_table", "drop_index"}
  BY <1>1, <1>2, <1>3 DEF DiffTableDrops
<1> DEFINE old == AfterRename(order, before, after, tables)
           removed == DOMAIN old \ DOMAIN after
           indexes == UNION {{DropIndex(<<1, Rank(order, t), 1>>, i) : i \in DOMAIN old[t].idx} :
                               t \in removed}
           drops == {[at |-> <<2, Rank(order, t), 1>>, type |-> "drop_table", table |-> t] :
                       t \in removed}
           shared == UNION {DiffTableDrops(Rank(order, t), t, old[t], after[t], columns) :
                              t \in DOMAIN old \cap DOMAIN after}
<1>4. Destructive(order, before, after, tables, columns) = indexes \cup drops \cup shared
  BY DEF Destructive
<1>5. n \in indexes => n.type = "drop_index"
  BY <1>1
<1>6. n \in drops => n.type = "drop_table"
  OBVIOUS
<1>7. n \in shared => n.type \in {"alter_table", "drop_index"}
  <2> HIDE DEF old
  <2> QED BY <1>3
<1>8. n.type \in {"drop_index", "drop_table", "alter_table"}
  <2> HIDE DEF indexes, drops, shared
  <2> QED BY <1>4, <1>5, <1>6, <1>7
<1> QED BY <1>8 DEF NodeTypes

\* Whatever the schemas: a plan contains a drop of a table or column only if drops
\* are allowed, and it is then flagged as destructive.
THEOREM DropsAreGated ==
  ASSUME NEW order, NEW before, NEW after, NEW opts,
         NEW n \in DiffSchemas(order, before, after, opts).nodes
  PROVE /\ n.type \in NodeTypes
        /\ Destroys(n) => /\ opts.mode = "allow"
                          /\ HasDestructiveSteps(DiffSchemas(order, before, after, opts).nodes)
<1> DEFINE nodes == DiffSchemas(order, before, after, opts).nodes
           destructive == Destructive(order, before, after, opts.tables, opts.columns)
           additive == Additive(order, before, after, opts.tables, opts.columns)
<1>1. nodes = IF destructive = {} \/ opts.mode = "allow" THEN destructive \cup additive
              ELSE IF opts.mode = "ask" THEN {} ELSE additive
  BY DEF DiffSchemas
<1>2. n \in destructive => \/ n.type \in NodeTypes /\ opts.mode = "allow"
                           \/ n \in additive
  <2> HIDE DEF additive
  <2> QED BY <1>1, DestructiveTypes
<1>3. n \in additive => n.type \in NodeTypes /\ ~Destroys(n)
  BY AdditiveKeeps
<1>4. n \in destructive \/ n \in additive
  <2> HIDE DEF destructive, additive
  <2> QED BY <1>1
<1>5. n.type \in NodeTypes /\ (Destroys(n) => opts.mode = "allow")
  <2> HIDE DEF destructive, additive
  <2> QED BY <1>2, <1>3, <1>4
<1>6. Destroys(n) => HasDestructiveSteps(nodes)
  BY DEF Destroys, HasDestructiveSteps
<1> QED BY <1>5, <1>6

-----------------------------------------------------------------------------
(* What a statement of a plan does to a database *)

LEMMA TableUpdate ==
  ASSUME NEW r, IsTable(r), NEW q, NEW v,
         \/ q = [r EXCEPT !.idx = v]
         \/ q = [r EXCEPT !.cons = v]
         \/ q = [r EXCEPT !.comment = v]
  PROVE IsTable(q) /\ q.cols = r.cols
<1>1. PICK c, k, i, m : r = [cols |-> c, cons |-> k, idx |-> i, comment |-> m]
  BY DEF IsTable
<1> QED BY <1>1 DEF IsTable

LEMMA ColumnsUpdate ==
  ASSUME NEW r, IsTable(r), NEW q, NEW v, q = [r EXCEPT !.cols = v]
  PROVE IsTable(q) /\ q.cols = v
<1>1. PICK c, k, i, m : r = [cols |-> c, cons |-> k, idx |-> i, comment |-> m]
  BY DEF IsTable
<1> QED BY <1>1 DEF IsTable

LEMMA ColumnUpdate ==
  ASSUME NEW col, IsStored(col), NEW new, NEW v,
         new = [col EXCEPT !.ref = v] \/ new = [col EXCEPT !.comment = v]
  PROVE IsStored(new) /\ new.data = col.data
<1>1. PICK t, n, h, r, m, d :
        col = [type |-> t, notNull |-> n, hasDefault |-> h, ref |-> r, comment |-> m, data |-> d]
  BY DEF IsStored, Stored
<1> QED BY <1>1 DEF IsStored, Stored

LEMMA StoredIsStored ==
  ASSUME NEW col, NEW comment, NEW data
  PROVE IsStored(Stored(col, comment, data)) /\ Stored(col, comment, data).data = data
BY DEF IsStored, Stored

LEMMA FollowKeeps ==
  ASSUME NEW r, IsStoredTable(r), NEW from, NEW to
  PROVE /\ IsStoredTable(Follow(r, from, to))
        /\ DOMAIN Follow(r, from, to).cols = DOMAIN r.cols
        /\ \A c \in DOMAIN r.cols : Follow(r, from, to).cols[c].data = r.cols[c].data
<1> DEFINE ref(x) == IF x = from THEN to ELSE x
           cols == [c \in DOMAIN r.cols |-> [r.cols[c] EXCEPT !.ref = ref(r.cols[c].ref)]]
           cons == {[k EXCEPT !.ref = ref(k.ref)] : k \in r.cons}
<1>1. Follow(r, from, to) = [[r EXCEPT !.cols = cols] EXCEPT !.cons = cons]
  BY DEF Follow
<1>2. ASSUME NEW c \in DOMAIN r.cols
      PROVE IsStored(cols[c]) /\ cols[c].data = r.cols[c].data
  <2>1. PICK x : x = r.cols[c]
    OBVIOUS
  <2>2. PICK y : y = ref(x.ref)
    OBVIOUS
  <2>3. IsStored(x)
    BY <2>1 DEF IsStoredTable
  <2>4. cols[c] = [x EXCEPT !.ref = y]
    BY <2>1, <2>2
  <2> HIDE DEF cols
  <2> QED BY <2>1, <2>3, <2>4, ColumnUpdate
<1>3. DOMAIN cols = DOMAIN r.cols
  OBVIOUS
<1> HIDE DEF cols, cons
<1>4. PICK q : q = [r EXCEPT !.cols = cols]
  OBVIOUS
<1>5. IsTable(q) /\ q.cols = cols
  BY <1>4, ColumnsUpdate DEF IsStoredTable
<1>6. Follow(r, from, to) = [q EXCEPT !.cons = cons]
  BY <1>1, <1>4
<1>7. IsTable(Follow(r, from, to)) /\ Follow(r, from, to).cols = cols
  BY <1>5, <1>6, TableUpdate
<1> QED BY <1>2, <1>3, <1>7 DEF IsStoredTable

LEMMA SetKeeps ==
  ASSUME NEW col, IsStored(col), NEW sets, NEW c
  PROVE IsStored(Set(col, sets, c)) /\ Set(col, sets, c).data = col.data
<1>1. PICK t, n, h : Set(col, sets, c) = [col EXCEPT !.type = t, !.notNull = n, !.hasDefault = h]
  BY DEF Set
<1>2. PICK ot, on, oh, r, m, d :
        col = [type |-> ot, notNull |-> on, hasDefault |-> oh, ref |-> r, comment |-> m, data |-> d]
  BY DEF IsStored, Stored
<1>3. Set(col, sets, c) =
        [type |-> t, notNull |-> n, hasDefault |-> h, ref |-> r, comment |-> m, data |-> d]
  BY <1>1, <1>2
<1> QED BY <1>2, <1>3 DEF IsStored, Stored

\* The columns of r go on, under whatever name, in q.
ColumnsGoOn(r, q) ==
  \A c \in DOMAIN r.cols : \E e \in DOMAIN q.cols : q.cols[e].data = r.cols[c].data

\* A rename of one column to a new name gives no two columns one name.
LEMMA RenamesAreInjective ==
  ASSUME NEW base, NEW n, AlterAccepted(base, n),
         NEW b \in DOMAIN base[n.table].cols, NEW c \in DOMAIN base[n.table].cols,
         Renamed(n.renames, b) = Renamed(n.renames, c)
  PROVE b = c
<1>1. CASE n.renames = {}
  BY <1>1 DEF Renamed
<1>2. CASE n.renames # {}
  <2>1. PICK r \in n.renames : TRUE
    BY <1>2
  <2>2. r[2] \notin DOMAIN base[n.table].cols /\ \A s \in n.renames : s = r
    BY <1>2 DEF AlterAccepted, OnlyRename
  <2>3. \A x : Renamed(n.renames, x) = IF r[1] = x THEN r[2] ELSE x
    BY <2>2 DEF Renamed
  <2> QED BY <2>2, <2>3
<1> QED BY <1>1, <1>2

LEMMA DroppedKeeps ==
  ASSUME NEW r, IsStoredTable(r), NEW n
  PROVE /\ IsStoredTable(Dropped(r, n))
        /\ DOMAIN Dropped(r, n).cols = DOMAIN r.cols \ n.dropCols
        /\ \A c \in DOMAIN Dropped(r, n).cols : Dropped(r, n).cols[c] = r.cols[c]
<1> DEFINE cols == [c \in DOMAIN r.cols \ n.dropCols |-> r.cols[c]]
<1>1. PICK k, i : Dropped(r, n) = [r EXCEPT !.cols = cols, !.cons = k, !.idx = i]
  BY DEF Dropped
<1>2. PICK oc, ok, oi, m : r = [cols |-> oc, cons |-> ok, idx |-> oi, comment |-> m]
  BY DEF IsStoredTable, IsTable
<1>3. PICK x : x = cols
  OBVIOUS
<1>4. Dropped(r, n) = [cols |-> x, cons |-> k, idx |-> i, comment |-> m]
  <2> HIDE DEF cols
  <2> QED BY <1>1, <1>2, <1>3
<1>5. IsTable(Dropped(r, n)) /\ Dropped(r, n).cols = cols
  BY <1>3, <1>4 DEF IsTable
<1> QED BY <1>5 DEF IsStoredTable

LEMMA AlterKeeps ==
  ASSUME NEW base, IsDatabase(base), NEW n, n.table \in DOMAIN base, AlterAccepted(base, n)
  PROVE /\ IsStoredTable(AlterResult(base[n.table], n))
        /\ \A c \in DOMAIN base[n.table].cols \ n.dropCols :
             \E e \in DOMAIN AlterResult(base[n.table], n).cols :
               AlterResult(base[n.table], n).cols[e].data = base[n.table].cols[c].data
        /\ \A e \in DOMAIN AlterResult(base[n.table], n).cols :
             AlterResult(base[n.table], n).cols[e].data # None =>
               \E c \in DOMAIN base[n.table].cols :
                 /\ base[n.table].cols[c].data = AlterResult(base[n.table], n).cols[e].data
                 /\ e = Renamed(n.renames, c)
<1> DEFINE table == base[n.table]
           left == Dropped(table, n)
           new(c) == Renamed(n.renames, c)
           old == {new(c) : c \in DOMAIN left.cols}
           from(c) == CHOOSE b \in DOMAIN left.cols : new(b) = c
           col(c) == IF c \in old THEN left.cols[from(c)] ELSE Fresh(n.adds[c])
           cols == [c \in old \cup DOMAIN n.adds |-> Set(col(c), n.sets, c)]
<1>1. /\ IsStoredTable(left) /\ DOMAIN left.cols = DOMAIN table.cols \ n.dropCols
      /\ \A c \in DOMAIN left.cols : left.cols[c] = table.cols[c]
  BY DroppedKeeps DEF IsDatabase
<1>2. ASSUME NEW c \in old
      PROVE from(c) \in DOMAIN left.cols /\ new(from(c)) = c
  <2> HIDE DEF left, new
  <2> QED OBVIOUS
<1>3. ASSUME NEW c PROVE IsStored(col(c))
  <2>1. CASE c \in old
    BY <2>1, <1>1, <1>2 DEF IsStoredTable
  <2>2. CASE c \notin old
    BY <2>2, StoredIsStored DEF Fresh
  <2> QED BY <2>1, <2>2
<1>4. ASSUME NEW c \in DOMAIN cols
      PROVE IsStored(cols[c]) /\ cols[c].data = col(c).data
  <2> HIDE DEF col
  <2> QED BY <1>3, SetKeeps
<1>5. IsTable(AlterResult(table, n)) /\ AlterResult(table, n).cols = cols
  <2>1. PICK k, i : AlterResult(table, n) = [left EXCEPT !.cols = cols, !.cons = k, !.idx = i]
    BY DEF AlterResult
  <2>2. PICK oc, ok, oi, m : left = [cols |-> oc, cons |-> ok, idx |-> oi, comment |-> m]
    BY <1>1 DEF IsStoredTable, IsTable
  <2>3. PICK x : x = cols
    OBVIOUS
  <2>4. AlterResult(table, n) = [cols |-> x, cons |-> k, idx |-> i, comment |-> m]
    <3> HIDE DEF cols, left
    <3> QED BY <2>1, <2>2, <2>3
  <2> QED BY <2>3, <2>4 DEF IsTable
<1>6. ASSUME NEW c \in DOMAIN table.cols \ n.dropCols
      PROVE \E e \in DOMAIN cols : cols[e].data = table.cols[c].data
  <2>1. c \in DOMAIN left.cols
    BY <1>1
  <2>2. new(c) \in old
    BY <2>1
  <2>3. from(new(c)) = c
    <3>1. from(new(c)) \in DOMAIN table.cols /\ new(from(new(c))) = new(c)
      BY <1>1, <1>2, <2>2
    <3> QED BY <3>1, RenamesAreInjective
  <2>4. col(new(c)) = table.cols[c]
    BY <1>1, <2>1, <2>2, <2>3
  <2>5. new(c) \in DOMAIN cols
    BY <2>2
  <2> HIDE DEF cols, col
  <2> QED BY <1>4, <2>4, <2>5
<1>7. IsStoredTable(AlterResult(table, n))
  <2> HIDE DEF cols
  <2> QED BY <1>4, <1>5 DEF IsStoredTable
<1>8. ASSUME NEW e \in DOMAIN cols, cols[e].data # None
      PROVE \E c \in DOMAIN table.cols : table.cols[c].data = cols[e].data /\ e = new(c)
  <2>1. e \in old
    <3>1. e \notin old => col(e).data = None
      BY StoredIsStored DEF Fresh
    <3> HIDE DEF cols, col, old
    <3> QED BY <1>4, <1>8, <3>1
  <2>2. col(e) = table.cols[from(e)] /\ from(e) \in DOMAIN table.cols /\ new(from(e)) = e
    BY <1>1, <1>2, <2>1
  <2> HIDE DEF cols, col, from, new
  <2> QED BY <1>4, <2>2
<1>9. AlterResult(table, n).cols = cols
  BY <1>5
<1> HIDE DEF cols
<1> QED BY <1>6, <1>7, <1>8, <1>9

\* The tables of one database go on, under whatever name, in another.
LEMMA DataGoOn ==
  ASSUME NEW base, NEW next,
         \A t \in DOMAIN base : \E u \in DOMAIN next : ColumnsGoOn(base[t], next[u])
  PROVE Data(base) \subseteq Data(next)
<1> SUFFICES ASSUME NEW t \in DOMAIN base, NEW c \in DOMAIN base[t].cols
             PROVE \E u \in DOMAIN next : \E e \in DOMAIN next[u].cols :
                     next[u].cols[e].data = base[t].cols[c].data
  BY DEF Data
<1> QED BY DEF ColumnsGoOn

LEMMA SameColumnsGoOn ==
  ASSUME NEW r, NEW q, q.cols = r.cols
  PROVE ColumnsGoOn(r, q) /\ (IsStoredTable(r) /\ IsTable(q) => IsStoredTable(q))
BY DEF ColumnsGoOn, IsStoredTable

\* What a table is changed to keeps it a table, and its columns.
LEMMA OneTableKeeps ==
  ASSUME NEW base, IsDatabase(base), NEW t \in DOMAIN base, NEW q, IsStoredTable(q),
         NEW next, next = [base EXCEPT ![t] = q]
  PROVE /\ IsDatabase(next)
        /\ ColumnsGoOn(base[t], q) => Data(base) \subseteq Data(next)
<1>1. DOMAIN next = DOMAIN base /\ next[t] = q /\ \A u \in DOMAIN base \ {t} : next[u] = base[u]
  OBVIOUS
<1>2. IsDatabase(next)
  BY <1>1 DEF IsDatabase
<1>3. ASSUME ColumnsGoOn(base[t], q) PROVE Data(base) \subseteq Data(next)
  <2>1. \A u \in DOMAIN base : ColumnsGoOn(base[u], next[u])
    BY <1>1, <1>3, SameColumnsGoOn
  <2> QED BY <1>1, <2>1, DataGoOn
<1> QED BY <1>2, <1>3

\* A statement leaves a database, and all data unless it drops a table or column.
LEMMA StatementKeeps ==
  ASSUME NEW base, IsDatabase(base), NEW n, n.type \in NodeTypes, Accepts(base, n)
  PROVE /\ IsDatabase(After(base, n))
        /\ ~Destroys(n) => Data(base) \subseteq Data(After(base, n))
<1> DEFINE next == After(base, n)
<1>1. CASE n.type = "drop_index"
  <2> DEFINE table(t) == [base[t] EXCEPT !.idx = [i \in DOMAIN base[t].idx \ {n.index} |->
                                                    base[t].idx[i]]]
  <2>1. next = [t \in DOMAIN base |-> table(t)]
    BY <1>1 DEF After
  <2>2. ASSUME NEW t \in DOMAIN base
        PROVE IsStoredTable(table(t)) /\ ColumnsGoOn(base[t], table(t))
    <3>1. PICK r : r = base[t]
      OBVIOUS
    <3>2. PICK v : table(t) = [r EXCEPT !.idx = v]
      BY <3>1
    <3>3. IsStoredTable(r)
      BY <3>1 DEF IsDatabase
    <3> HIDE DEF table
    <3>4. IsTable(table(t)) /\ table(t).cols = r.cols
      BY <3>2, <3>3, TableUpdate DEF IsStoredTable
    <3> QED BY <3>1, <3>3, <3>4, SameColumnsGoOn
  <2> HIDE DEF table
  <2>3. IsDatabase(next)
    BY <2>1, <2>2 DEF IsDatabase
  <2>4. Data(base) \subseteq Data(next)
    BY <2>1, <2>2, DataGoOn
  <2> QED BY <2>3, <2>4
<1>2. CASE n.type = "drop_table"
  <2>1. next = [t \in DOMAIN base \ {n.table} |-> base[t]]
    BY <1>2 DEF After
  <2>2. IsDatabase(next)
    BY <2>1 DEF IsDatabase
  <2> QED BY <1>2, <2>2 DEF Destroys
<1>3. CASE n.type = "rename_table"
  <2> DEFINE was(t) == IF t = n.to THEN n.table ELSE t
  <2>1. next = [t \in (DOMAIN base \ {n.table}) \cup {n.to} |-> Follow(base[was(t)], n.table, n.to)]
    BY <1>3 DEF After
  <2>2. n.table \in DOMAIN base /\ n.to \notin DOMAIN base
    BY <1>3 DEF Accepts
  <2>3. ASSUME NEW t \in DOMAIN base
        PROVE /\ IsStoredTable(Follow(base[t], n.table, n.to))
              /\ ColumnsGoOn(base[t], Follow(base[t], n.table, n.to))
    <3>1. IsStoredTable(base[t])
      BY DEF IsDatabase
    <3> QED BY <3>1, FollowKeeps DEF ColumnsGoOn
  <2>4. \A t \in DOMAIN next : was(t) \in DOMAIN base /\ next[t] = Follow(base[was(t)], n.table, n.to)
    BY <2>1, <2>2
  <2>5. \A t \in DOMAIN base : \E u \in DOMAIN next : was(u) = t
    <3>1. \A t \in DOMAIN base \ {n.table} : t \in DOMAIN next /\ was(t) = t
      BY <2>1, <2>2
    <3>2. n.to \in DOMAIN next /\ was(n.to) = n.table
      BY <2>1
    <3> QED BY <3>1, <3>2
  <2> HIDE DEF next, was
  <2>6. IsDatabase(next)
    BY <2>3, <2>4 DEF IsDatabase
  <2>7. Data(base) \subseteq Data(next)
    BY <2>3, <2>4, <2>5, DataGoOn
  <2> QED BY <2>6, <2>7 DEF next
<1>4. CASE n.type = "create_table"
  <2> DEFINE created == [cols |-> [c \in DOMAIN n.cols |-> Fresh(n.cols[c])],
                         cons |-> n.cons, idx |-> <<>>, comment |-> None]
  <2>1. next = [t \in DOMAIN base \cup {n.table} |-> IF t = n.table THEN created ELSE base[t]]
    BY <1>4 DEF After
  <2>2. n.table \notin DOMAIN base
    BY <1>4 DEF Accepts
  <2>3. IsStoredTable(created)
    BY StoredIsStored DEF IsStoredTable, IsTable, Fresh
  <2> HIDE DEF created
  <2>4. IsDatabase(next)
    BY <2>1, <2>3 DEF IsDatabase
  <2>5. \A t \in DOMAIN base : t \in DOMAIN next /\ next[t] = base[t]
    BY <2>1, <2>2
  <2>6. Data(base) \subseteq Data(next)
    <3> HIDE DEF next
    <3> QED BY <2>5, DataGoOn, SameColumnsGoOn
  <2> QED BY <2>4, <2>6
<1>5. CASE n.type = "create_index"
  <2>1. n.table \in DOMAIN base
    BY <1>5 DEF Accepts
  <2>2. PICK r : r = base[n.table]
    OBVIOUS
  <2>3. PICK v : next = [base EXCEPT ![n.table] = [r EXCEPT !.idx = v]]
    BY <1>5, <2>1, <2>2 DEF After
  <2>4. IsStoredTable(r)
    BY <2>1, <2>2 DEF IsDatabase
  <2>5. PICK q : q = [r EXCEPT !.idx = v]
    OBVIOUS
  <2>6. IsTable(q) /\ q.cols = r.cols
    BY <2>4, <2>5, TableUpdate DEF IsStoredTable
  <2>7. IsStoredTable(q) /\ ColumnsGoOn(r, q)
    BY <2>4, <2>6, SameColumnsGoOn
  <2>8. next = [base EXCEPT ![n.table] = q]
    BY <2>3, <2>5
  <2> HIDE DEF next
  <2> QED BY <2>1, <2>2, <2>7, <2>8, OneTableKeeps DEF next
<1>6. CASE n.type = "comment_on"
  <2>1. n.table \in DOMAIN base /\ n.column \in DOMAIN base[n.table].cols \cup {None}
    BY <1>6 DEF Accepts
  <2>2. PICK r : r = base[n.table]
    OBVIOUS
  <2>3. IsStoredTable(r)
    BY <2>1, <2>2 DEF IsDatabase
  <2>4. CASE n.column = None
    <3>1. next = [base EXCEPT ![n.table] = [r EXCEPT !.comment = n.comment]]
      BY <1>6, <2>1, <2>2, <2>4 DEF After
    <3>2. PICK q : q = [r EXCEPT !.comment = n.comment]
      OBVIOUS
    <3>3. IsTable(q) /\ q.cols = r.cols
      BY <2>3, <3>2, TableUpdate DEF IsStoredTable
    <3>4. IsStoredTable(q) /\ ColumnsGoOn(r, q)
      BY <2>3, <3>3, SameColumnsGoOn
    <3>5. next = [base EXCEPT ![n.table] = q]
      BY <3>1, <3>2
    <3> HIDE DEF next
    <3> QED BY <2>1, <2>2, <3>4, <3>5, OneTableKeeps DEF next
  <2>5. CASE n.column # None
    <3>1. n.column \in DOMAIN r.cols
      BY <2>1, <2>2, <2>5
    <3>2. PICK col : col = r.cols[n.column]
      OBVIOUS
    <3>3. PICK new : new = [col EXCEPT !.comment = n.comment]
      OBVIOUS
    <3>4. IsStored(new) /\ new.data = col.data
      BY <2>3, <3>1, <3>2, <3>3, ColumnUpdate DEF IsStoredTable
    <3>5. PICK cols : cols = [r.cols EXCEPT ![n.column] = new]
      OBVIOUS
    <3>6. /\ DOMAIN cols = DOMAIN r.cols
          /\ \A c \in DOMAIN cols : IsStored(cols[c]) /\ cols[c].data = r.cols[c].data
      BY <2>3, <3>1, <3>2, <3>4, <3>5 DEF IsStoredTable
    <3>7. PICK q : q = [r EXCEPT !.cols = cols]
      OBVIOUS
    <3>8. IsTable(q) /\ q.cols = cols
      BY <2>3, <3>7, ColumnsUpdate DEF IsStoredTable
    <3>9. IsStoredTable(q) /\ ColumnsGoOn(r, q)
      BY <3>6, <3>8 DEF IsStoredTable, ColumnsGoOn
    <3>10. next = [base EXCEPT ![n.table].cols[n.column].comment = n.comment]
      BY <1>6, <2>5 DEF After
    <3>11. next = [base EXCEPT ![n.table] = q]
      BY <3>10, <2>1, <2>2, <3>1, <3>2, <3>3, <3>5, <3>7
    <3> HIDE DEF next
    <3> QED BY <2>1, <2>2, <3>9, <3>11, OneTableKeeps DEF next
  <2> QED BY <2>4, <2>5
<1>7. CASE n.type = "alter_table"
  <2>1. n.table \in DOMAIN base /\ AlterAccepted(base, n)
    BY <1>7 DEF Accepts
  <2>2. next = [base EXCEPT ![n.table] = AlterResult(base[n.table], n)]
    BY <1>7, <2>1 DEF After
  <2>3. /\ IsStoredTable(AlterResult(base[n.table], n))
        /\ n.dropCols = {} => ColumnsGoOn(base[n.table], AlterResult(base[n.table], n))
    BY <2>1, AlterKeeps DEF ColumnsGoOn
  <2>4. ~Destroys(n) => n.dropCols = {}
    BY <1>7 DEF Destroys
  <2>5. PICK q : q = AlterResult(base[n.table], n)
    OBVIOUS
  <2>6. next = [base EXCEPT ![n.table] = q]
    BY <2>2, <2>5
  <2> HIDE DEF next
  <2>7. IsStoredTable(q) /\ (n.dropCols = {} => ColumnsGoOn(base[n.table], q))
    BY <2>3, <2>5
  <2>8. IsDatabase(next) /\ (ColumnsGoOn(base[n.table], q) => Data(base) \subseteq Data(next))
    BY <2>1, <2>6, <2>7, OneTableKeeps, ZenonT(30)
  <2> QED BY <2>4, <2>7, <2>8 DEF next
<1> QED BY <1>1, <1>2, <1>3, <1>4, <1>5, <1>6, <1>7 DEF NodeTypes

-----------------------------------------------------------------------------
(* The invariant of migrations *)

Inv == TypeOK /\ ConsentInv /\ DropsNeedConsent

LEMMA InitInv == Init => Inv
<1> SUFFICES ASSUME Init PROVE Inv
  OBVIOUS
<1> USE DEF Init
<1>1. TypeOK
  BY MigrationAssumption DEF TypeOK
<1>2. IsDatabase(db)
  <2> DEFINE before == change.before
             cols(t) == [c \in DOMAIN before[t].cols |->
                           Stored(before[t].cols[c], before[t].cols[c].comment, <<t, c>>)]
  <2>1. db = [t \in DOMAIN before |-> [before[t] EXCEPT !.cols = cols(t)]]
    BY DEF Populated
  <2>2. ASSUME NEW t \in DOMAIN before PROVE IsStoredTable(db[t])
    <3>1. IsTable(before[t])
      BY MigrationAssumption
    <3>2. \A c \in DOMAIN cols(t) : IsStored(cols(t)[c])
      BY StoredIsStored
    <3>3. PICK x : x = cols(t)
      OBVIOUS
    <3>4. db[t] = [before[t] EXCEPT !.cols = x]
      BY <2>1, <3>3
    <3> HIDE DEF cols, before
    <3>5. IsTable(db[t]) /\ db[t].cols = x
      BY <3>1, <3>4, ColumnsUpdate
    <3> QED BY <3>2, <3>3, <3>5 DEF IsStoredTable
  <2> QED BY <2>1, <2>2 DEF IsDatabase
<1>3. ConsentInv
  BY <1>2, MigrationAssumption DEF ConsentInv
<1>4. DropsNeedConsent
  BY DEF DropsNeedConsent
<1> QED BY <1>1, <1>3, <1>4 DEF Inv

\* Each step leaves the types alone.
LEMMA NextTypes == Inv /\ [Next]_vars => TypeOK'
<1> SUFFICES ASSUME Inv, [Next]_vars PROVE TypeOK'
  OBVIOUS
<1> USE MigrationAssumption DEF Inv, TypeOK
<1>1. ASSUME NEW d \in Deploys, Plan(d) PROVE TypeOK'
  <2>1. attempts[d] < MaxAttempts
    BY <1>1 DEF Plan, ConsentInv
  <2>2. PICK diff, before :
          /\ flagged' = [flagged EXCEPT ![d] = @ \/ HasDestructiveSteps(diff.nodes)]
          /\ stage' = [stage EXCEPT ![d] = IF diff.thrown THEN "thrown"
                                           ELSE IF diff.nodes = {} THEN "done" ELSE "waiting"]
          /\ fresh' = [fresh EXCEPT ![d] = before = Schema(db)]
    BY <1>1 DEF Plan
  <2>3. stage' \in [Deploys -> {"idle", "waiting", "running", "done", "thrown", "failed"}]
    BY <2>2
  <2>4. fresh' \in [Deploys -> BOOLEAN]
    BY <2>2
  <2>5. HasDestructiveSteps(diff.nodes) \in BOOLEAN
    BY DEF HasDestructiveSteps
  <2>6. flagged' \in [Deploys -> BOOLEAN]
    <3> HIDE DEF TypeOK
    <3>1. PICK b : b = HasDestructiveSteps(diff.nodes)
      OBVIOUS
    <3>2. flagged \in [Deploys -> BOOLEAN]
      BY DEF TypeOK
    <3> QED BY <2>2, <2>5, <3>1, <3>2
  <2>7. attempts' \in [Deploys -> 0..MaxAttempts]
    BY <1>1, <2>1 DEF Plan
  <2> QED BY <1>1, <2>3, <2>4, <2>6, <2>7 DEF Plan
<1>2. ASSUME NEW d \in Deploys, Begin(d) PROVE TypeOK'
  <2>1. fresh' \in [Deploys -> BOOLEAN]
    BY <1>2 DEF Begin
  <2> QED BY <1>2, <2>1 DEF Begin
<1>3. ASSUME NEW d \in Deploys, NEW n, Step(d, n) PROVE TypeOK'
  BY <1>3 DEF Step
<1>4. ASSUME NEW d \in Deploys, NEW n, StepRefused(d, n) PROVE TypeOK'
  BY <1>4 DEF StepRefused, Fails
<1>5. ASSUME NEW d \in Deploys, Fault(d) PROVE TypeOK'
  BY <1>5 DEF Fault, Fails
<1>6. ASSUME NEW d \in Deploys, Finish(d) PROVE TypeOK'
  BY <1>6 DEF Finish
<1>7. ASSUME NEW d \in Deploys, Again(d) PROVE TypeOK'
  BY <1>7 DEF Again
<1>8. ASSUME UNCHANGED vars PROVE TypeOK'
  BY <1>8 DEF vars, deployVars
<1> QED BY <1>1, <1>2, <1>3, <1>4, <1>5, <1>6, <1>7, <1>8 DEF Next, Done

\* Each step keeps the invariant of plans.  A plan is made of what DropsAreGated
\* says, and a statement leaves a database (StatementKeeps).
LEMMA NextConsent == Inv /\ [Next]_vars => ConsentInv'
<1> SUFFICES ASSUME Inv, [Next]_vars PROVE ConsentInv'
  OBVIOUS
<1> USE DEF Inv, TypeOK, ConsentInv, Drops
<1>1. ASSUME NEW d \in Deploys, Plan(d) PROVE ConsentInv'
  <2> DEFINE diff == DiffSchemas(change.order, Schema(Committed), change.after, change.opts)
  <2>1. /\ stage[d] = "idle" /\ stage'[d] # "idle"
        /\ \A e \in Deploys \ {d} : stage'[e] = stage[e] /\ attempts'[e] = attempts[e]
        /\ UNCHANGED <<change, db, saved, lost>>
    BY <1>1 DEF Plan
  <2>2. PICK nodes, consent :
          /\ plan' = [plan EXCEPT ![d] = nodes]
          /\ flagged' = [flagged EXCEPT ![d] = @ \/ consent]
          /\ nodes = diff.nodes /\ consent = HasDestructiveSteps(diff.nodes)
          /\ consent \in BOOLEAN
    BY <1>1 DEF Plan, HasDestructiveSteps
  <2>3. ASSUME NEW n \in nodes
        PROVE n.type \in NodeTypes /\ (Destroys(n) => Drops /\ consent)
    BY <2>2, DropsAreGated
  <2> HIDE DEF diff
  <2>4. /\ plan'[d] = nodes /\ \A e \in Deploys \ {d} : plan'[e] = plan[e]
        /\ consent => flagged'[d]
        /\ \A e \in Deploys \ {d} : flagged'[e] = flagged[e]
    BY <2>2
  <2>5. ASSUME NEW e \in Deploys, NEW n \in plan'[e]
        PROVE n.type \in NodeTypes /\ (Destroys(n) => Drops' /\ flagged'[e])
    <3>1. Drops' <=> Drops
      BY <2>1
    <3>2. CASE e = d
      BY <2>3, <2>4, <3>1, <3>2
    <3>3. CASE e # d
      <4>1. n \in plan[e] /\ flagged'[e] = flagged[e]
        BY <2>4, <3>3
      <4> QED BY <3>1, <4>1
    <3> QED BY <3>2, <3>3
  <2>6. DOMAIN plan' = Deploys /\ DOMAIN lost' = Deploys
    BY <2>1, <2>2
  <2>7. \A e \in Deploys : stage'[e] = "idle" => attempts'[e] < MaxAttempts
    BY <2>1
  <2> QED BY <2>1, <2>5, <2>6, <2>7
<1>2. ASSUME NEW d \in Deploys, Begin(d) PROVE ConsentInv'
  BY <1>2 DEF Begin
<1>3. ASSUME NEW d \in Deploys, NEW n \in plan[d], Step(d, n) PROVE ConsentInv'
  <2>1. IsDatabase(db')
    BY <1>3, StatementKeeps DEF Step
  <2>2. \A e \in Deploys : plan'[e] \subseteq plan[e]
    BY <1>3 DEF Step
  <2>3. DOMAIN plan' = Deploys /\ DOMAIN lost' = Deploys
    BY <1>3 DEF Step
  <2> QED BY <1>3, <2>1, <2>2, <2>3 DEF Step
<1>4. ASSUME NEW d \in Deploys, NEW n, StepRefused(d, n) PROVE ConsentInv'
  BY <1>4 DEF StepRefused, Fails
<1>5. ASSUME NEW d \in Deploys, Fault(d) PROVE ConsentInv'
  BY <1>5 DEF Fault, Fails
<1>6. ASSUME NEW d \in Deploys, Finish(d) PROVE ConsentInv'
  BY <1>6 DEF Finish
<1>7. ASSUME NEW d \in Deploys, Again(d) PROVE ConsentInv'
  BY <1>7 DEF Again
<1>8. ASSUME UNCHANGED vars PROVE ConsentInv'
  BY <1>8 DEF vars, deployVars
<1> QED BY <1>1, <1>2, <1>3, <1>4, <1>5, <1>6, <1>7, <1>8 DEF Next, Done

\* Only a step removes data, and one that does is in the plan with consent.
LEMMA NextDrops == Inv /\ [Next]_vars => DropsNeedConsent'
<1> SUFFICES ASSUME Inv, [Next]_vars PROVE DropsNeedConsent'
  OBVIOUS
<1> USE DEF Inv, TypeOK, ConsentInv, DropsNeedConsent, Drops
<1>1. ASSUME NEW d \in Deploys, Plan(d) PROVE DropsNeedConsent'
  <2>1. \A e \in Deploys : flagged[e] => flagged'[e]
    BY <1>1 DEF Plan
  <2> QED BY <1>1, <2>1 DEF Plan
<1>2. ASSUME NEW d \in Deploys, Begin(d) PROVE DropsNeedConsent'
  BY <1>2 DEF Begin
<1>3. ASSUME NEW d \in Deploys, NEW n \in plan[d], Step(d, n) PROVE DropsNeedConsent'
  <2>1. n.type \in NodeTypes /\ (Destroys(n) => Drops /\ flagged[d])
    OBVIOUS
  <2>2. ~Destroys(n) => Data(db) \subseteq Data(db')
    BY <1>3, <2>1, StatementKeeps DEF Step
  <2>3. lost'[d] = lost[d] \cup (Data(db) \ Data(db'))
    BY <1>3 DEF Step
  <2>4. \A e \in Deploys \ {d} : lost'[e] = lost[e]
    BY <1>3 DEF Step
  <2>5. lost'[d] # {} => lost[d] # {} \/ Destroys(n)
    BY <2>2, <2>3
  <2>6. UNCHANGED <<change, flagged>>
    BY <1>3 DEF Step
  <2> QED BY <2>1, <2>4, <2>5, <2>6
<1>4. ASSUME NEW d \in Deploys, NEW n, StepRefused(d, n) PROVE DropsNeedConsent'
  BY <1>4 DEF StepRefused, Fails
<1>5. ASSUME NEW d \in Deploys, Fault(d) PROVE DropsNeedConsent'
  BY <1>5 DEF Fault, Fails
<1>6. ASSUME NEW d \in Deploys, Finish(d) PROVE DropsNeedConsent'
  BY <1>6 DEF Finish
<1>7. ASSUME NEW d \in Deploys, Again(d) PROVE DropsNeedConsent'
  BY <1>7 DEF Again
<1>8. ASSUME UNCHANGED vars PROVE DropsNeedConsent'
  BY <1>8 DEF vars, deployVars
<1> QED BY <1>1, <1>2, <1>3, <1>4, <1>5, <1>6, <1>7, <1>8 DEF Next, Done

THEOREM InvHolds == Spec => []Inv
<1>1. Inv /\ [Next]_vars => Inv'
  BY NextTypes, NextConsent, NextDrops DEF Inv
<1> QED BY InitInv, <1>1, PTL DEF Spec

\* Every variable of a migration keeps its type, for any schemas and deploys.
THEOREM TypeCorrect == Spec => []TypeOK
<1>1. Inv => TypeOK
  BY DEF Inv
<1> QED BY InvHolds, <1>1, PTL

\* For any schemas, whatever the database has become since a plan was made and
\* whatever fails: data are removed only by a migration that was allowed to drop
\* and that was flagged as destructive.
THEOREM NoLossWithoutConsent == Spec => []DropsNeedConsent
<1>1. Inv => DropsNeedConsent
  BY DEF Inv
<1> QED BY InvHolds, <1>1, PTL

-----------------------------------------------------------------------------
(* What is lost *)

LEMMA TableDropsOK ==
  ASSUME NEW rank, NEW t, NEW b, NEW a, NEW moves, NEW n \in DiffTableDrops(rank, t, b, a, moves)
  PROVE \/ n.type = "drop_index"
        \/ /\ n.type = "alter_table" /\ n.table = t /\ n.renames = {}
           /\ \A c \in n.dropCols :
                /\ c \notin DOMAIN a.cols
                /\ \A m \in moves : m.table = t /\ m.from = c => m.to \notin DOMAIN a.cols
<1> DEFINE renamedFrom == {r[1] : r \in ColumnRenames(t, b, a, moves)}
           cols == (DOMAIN b.cols \ DOMAIN a.cols) \ renamedFrom
           cons == {k.name : k \in Without(b.cons, a.cons)} \ {None}
           alter == [Alter(<<3, rank, 1>>, t) EXCEPT !.dropCols = cols, !.dropCons = cons]
<1>1. DiffTableDrops(rank, t, b, a, moves) =
        (IF alter = Alter(<<3, rank, 1>>, t) THEN {} ELSE {alter})
        \cup {DropIndex(<<3, rank, 2>>, i) : i \in DiffIndexes(b, a).dropped}
  BY DEF DiffTableDrops
<1>2. ASSUME NEW c \in cols
      PROVE /\ c \notin DOMAIN a.cols
            /\ \A m \in moves : m.table = t /\ m.from = c => m.to \notin DOMAIN a.cols
  <2>1. c \in DOMAIN b.cols /\ c \notin DOMAIN a.cols /\ c \notin renamedFrom
    OBVIOUS
  <2>2. ASSUME NEW m \in moves, m.table = t, m.from = c, m.to \in DOMAIN a.cols PROVE FALSE
    <3>1. <<m.from, m.to>> \in ColumnRenames(t, b, a, moves)
      BY <2>1, <2>2 DEF ColumnRenames
    <3>2. <<m.from, m.to>>[1] \in renamedFrom
      BY <3>1
    <3> QED BY <2>1, <2>2, <3>2
  <2> QED BY <2>1, <2>2
<1>3. ASSUME NEW i, n = DropIndex(<<3, rank, 2>>, i) PROVE n.type = "drop_index"
  BY <1>3 DEF DropIndex
<1>4. ASSUME NEW x, NEW y, n = [Alter(<<3, rank, 1>>, t) EXCEPT !.dropCols = x, !.dropCons = y]
      PROVE n.type = "alter_table" /\ n.table = t /\ n.renames = {} /\ n.dropCols = x
  BY <1>4 DEF Alter
<1>5. n = alter \/ \E i : n = DropIndex(<<3, rank, 2>>, i)
  <2> HIDE DEF alter
  <2> QED BY <1>1
<1>6. n = alter => n.type = "alter_table" /\ n.table = t /\ n.renames = {} /\ n.dropCols = cols
  <2> HIDE DEF cols, cons
  <2> QED BY <1>4
<1> HIDE DEF cols, alter
<1> QED BY <1>2, <1>3, <1>5, <1>6

LEMMA TableAddsOK ==
  ASSUME NEW rank, NEW t, NEW b, NEW a, NEW moves, NEW n \in DiffTableAdds(rank, t, b, a, moves)
  PROVE \/ n.type \in {"create_index", "comment_on"}
        \/ /\ n.type = "alter_table" /\ n.table = t /\ n.dropCols = {}
           /\ \A r \in n.renames :
                /\ r[1] \notin DOMAIN a.cols
                /\ \E m \in moves : m.table = t /\ m.from = r[1] /\ m.to = r[2]
                                    /\ m.to \in DOMAIN a.cols
<1> DEFINE renames == ColumnRenames(t, b, a, moves)
<1>1. ASSUME NEW r, NEW d, NEW e, NEW f,
             n = [Alter(<<8, rank, 1>>, t) EXCEPT !.renames = r, !.adds = d, !.sets = e, !.addCons = f]
      PROVE n.type = "alter_table" /\ n.table = t /\ n.dropCols = {} /\ n.renames = r
  BY <1>1 DEF Alter
<1>2. ASSUME NEW i, NEW def, n = CreateIndex(<<8, rank, 2>>, t, i, def)
      PROVE n.type = "create_index"
  BY <1>2 DEF CreateIndex
<1>3. ASSUME n \in ChangedComments(<<8, rank, 3>>, t, b, a)
      PROVE n.type = "comment_on"
  BY <1>3 DEF ChangedComments, CommentOn
<1>4. ASSUME NEW r \in renames
      PROVE /\ r[1] \notin DOMAIN a.cols
            /\ \E m \in moves : m.table = t /\ m.from = r[1] /\ m.to = r[2] /\ m.to \in DOMAIN a.cols
  BY DEF ColumnRenames
<1>5. \/ n.type \in {"create_index", "comment_on"}
      \/ \E d, e, f : n = [Alter(<<8, rank, 1>>, t) EXCEPT !.renames = renames, !.adds = d,
                                                           !.sets = e, !.addCons = f]
  <2> DEFINE renamedTo == {r[2] : r \in renames}
             former(c) == IF c \in renamedTo THEN (CHOOSE r \in renames : r[2] = c)[1] ELSE c
             new == (DOMAIN a.cols \ DOMAIN b.cols) \ renamedTo
             adds == [c \in new |-> a.cols[c]]
             sets == UNION {AlterActionsForColumn(c, b.cols[former(c)], a.cols[c]) :
                              c \in DOMAIN a.cols \ new}
             cons == Without(a.cons, b.cons)
             none == Alter(<<8, rank, 1>>, t)
             alter == [none EXCEPT !.renames = renames, !.adds = adds, !.sets = sets,
                                   !.addCons = cons]
  <2>1. DiffTableAdds(rank, t, b, a, moves) =
          (IF alter = none THEN {} ELSE {alter})
          \cup {CreateIndex(<<8, rank, 2>>, t, i, a.idx[i]) : i \in DiffIndexes(b, a).added}
          \cup ChangedComments(<<8, rank, 3>>, t, b, a)
    BY DEF DiffTableAdds
  <2>2. n = alter \/ n.type \in {"create_index", "comment_on"}
    <3> HIDE DEF alter, none
    <3> QED BY <1>2, <1>3, <2>1
  <2> HIDE DEF renames, adds, sets, cons
  <2> QED BY <2>2
<1>6. CASE n.type \in {"create_index", "comment_on"}
  BY <1>6
<1>7. CASE n.type \notin {"create_index", "comment_on"}
  <2>1. PICK d, e, f : n = [Alter(<<8, rank, 1>>, t) EXCEPT !.renames = renames, !.adds = d,
                                                           !.sets = e, !.addCons = f]
    BY <1>5, <1>7
  <2> HIDE DEF renames
  <2>2. n.type = "alter_table" /\ n.table = t /\ n.dropCols = {} /\ n.renames = renames
    BY <1>1, <2>1
  <2> QED BY <1>4, <2>2
<1> QED BY <1>6, <1>7

\* Each step of a plan agrees with the new schema, whatever it was planned from.
LEMMA StepsAreOK ==
  ASSUME NEW before,
         NEW n \in DiffSchemas(change.order, before, change.after, change.opts).nodes
  PROVE StepOK(n)
<1> DEFINE order == change.order
           after == change.after
           tables == change.opts.tables
           columns == change.opts.columns
           old == AfterRename(order, before, after, tables)
           shared == DOMAIN old \cap DOMAIN after
           removed == DOMAIN old \ DOMAIN after
           moved == {t \in DOMAIN before : NewName(tables, after, t) # t}
           added == DOMAIN after \ DOMAIN old
           created == TopoSortForCreation(order, added, after)
<1>1. n \in Destructive(order, before, after, tables, columns)
      \/ n \in Additive(order, before, after, tables, columns)
  <2> HIDE DEF order, after, tables, columns
  <2>1. PICK des, add :
          /\ des = Destructive(order, before, after, tables, columns)
          /\ add = Additive(order, before, after, tables, columns)
    OBVIOUS
  <2>2. DiffSchemas(order, before, after, change.opts).nodes \subseteq des \cup add
    BY <2>1 DEF DiffSchemas, tables, columns
  <2> QED BY <2>1, <2>2 DEF order, after
<1>2. ASSUME NEW t \in shared, n \in DiffTableDrops(Rank(order, t), t, old[t], after[t], columns)
      PROVE StepOK(n)
  <2>1. t \in DOMAIN after
    OBVIOUS
  <2> HIDE DEF order, old
  <2> QED BY <1>2, <2>1, TableDropsOK DEF StepOK
<1>3. ASSUME NEW t \in shared, n \in DiffTableAdds(Rank(order, t), t, old[t], after[t], columns)
      PROVE StepOK(n)
  <2>1. t \in DOMAIN after
    OBVIOUS
  <2> HIDE DEF order, old
  <2> QED BY <1>3, <2>1, TableAddsOK DEF StepOK
<1>4. ASSUME NEW t \in removed, n = [at |-> <<2, Rank(order, t), 1>>, type |-> "drop_table", table |-> t]
      PROVE StepOK(n)
  <2>1. PICK u \in DOMAIN before : NewName(tables, after, u) = t
    BY DEF AfterRename
  <2>2. t \notin DOMAIN after
    OBVIOUS
  <2>3. NewName(tables, after, t) = t
    BY <2>1, <2>2 DEF NewName
  <2>4. n.type = "drop_table" /\ n.table = t
    BY <1>4
  <2> QED BY <2>2, <2>3, <2>4 DEF StepOK
<1>5. ASSUME NEW t \in moved,
             n = [at |-> <<4, Rank(order, t), 1>>, type |-> "rename_table", table |-> t,
                  to |-> NewName(tables, after, t)]
      PROVE StepOK(n)
  <2>1. n.type = "rename_table" /\ n.table = t /\ n.to = NewName(tables, after, t)
    BY <1>5
  <2> QED BY <2>1 DEF StepOK
<1>6. ASSUME n.type \in {"drop_index", "create_index", "create_table", "comment_on"} PROVE StepOK(n)
  BY <1>6 DEF StepOK
<1>7. ASSUME NEW at, NEW t, NEW i, NEW def, n = DropIndex(at, i) \/ n = CreateIndex(at, t, i, def)
      PROVE n.type \in {"drop_index", "create_index", "create_table", "comment_on"}
  BY <1>7 DEF DropIndex, CreateIndex
<1>8. ASSUME NEW at, NEW t, NEW a, n \in NewTableComments(at, t, a)
      PROVE n.type \in {"drop_index", "create_index", "create_table", "comment_on"}
  BY <1>8 DEF NewTableComments, CommentOn
<1>9. CASE n \in Destructive(order, before, after, tables, columns)
  <2> DEFINE A == UNION {{DropIndex(<<1, Rank(order, t), 1>>, i) : i \in DOMAIN old[t].idx} : t \in removed}
             B == {[at |-> <<2, Rank(order, t), 1>>, type |-> "drop_table", table |-> t] : t \in removed}
             C == UNION {DiffTableDrops(Rank(order, t), t, old[t], after[t], columns) : t \in shared}
  <2>1. Destructive(order, before, after, tables, columns) = A \cup B \cup C
    BY DEF Destructive
  <2>2. n \in A => StepOK(n)
    <3> HIDE DEF order, old, removed
    <3> QED BY <1>6, <1>7
  <2>3. n \in B => StepOK(n)
    <3> HIDE DEF order, removed
    <3> QED BY <1>4
  <2>4. n \in C => StepOK(n)
    <3> HIDE DEF order, old, after, columns, shared
    <3> QED BY <1>2
  <2> HIDE DEF A, B, C
  <2> QED BY <1>9, <2>1, <2>2, <2>3, <2>4
<1>10. CASE n \in Additive(order, before, after, tables, columns)
  <2> DEFINE A == {[at |-> <<4, Rank(order, t), 1>>, type |-> "rename_table", table |-> t,
                    to |-> NewName(tables, after, t)] : t \in moved}
             B == {[at |-> <<5, Rank(created, t), 1>>, type |-> "create_table", table |-> t,
                    cols |-> after[t].cols, cons |-> after[t].cons] : t \in added}
             C == UNION {{CreateIndex(<<6, Rank(created, t), 1>>, t, i, after[t].idx[i]) :
                            i \in DOMAIN after[t].idx} : t \in added}
             D == UNION {NewTableComments(<<7, Rank(created, t), 1>>, t, after[t]) : t \in added}
             F == UNION {DiffTableAdds(Rank(order, t), t, old[t], after[t], columns) : t \in shared}
  <2>1. Additive(order, before, after, tables, columns) = A \cup B \cup C \cup D \cup F
    BY DEF Additive
  <2>2. n \in A => StepOK(n)
    <3> HIDE DEF order, moved, tables, after
    <3> QED BY <1>5
  <2>3. n \in B => n.type = "create_table"
    <3> HIDE DEF created, added, after
    <3> QED OBVIOUS
  <2>4. n \in C => StepOK(n)
    <3> HIDE DEF created, added, after
    <3> SUFFICES ASSUME n \in C PROVE StepOK(n)
      OBVIOUS
    <3>1. PICK t \in added : \E i \in DOMAIN after[t].idx :
            n = CreateIndex(<<6, Rank(created, t), 1>>, t, i, after[t].idx[i])
      OBVIOUS
    <3>2. n.type \in {"drop_index", "create_index", "create_table", "comment_on"}
      <4> HIDE DEF C
      <4> QED BY <1>7, <3>1
    <3> QED BY <1>6, <3>2
  <2>5. n \in D => StepOK(n)
    <3> HIDE DEF created, added, after
    <3> SUFFICES ASSUME n \in D PROVE StepOK(n)
      OBVIOUS
    <3>1. PICK t \in added : n \in NewTableComments(<<7, Rank(created, t), 1>>, t, after[t])
      OBVIOUS
    <3>2. n.type \in {"drop_index", "create_index", "create_table", "comment_on"}
      <4> HIDE DEF D
      <4> QED BY <1>8, <3>1
    <3> QED BY <1>6, <3>2
  <2>6. n \in F => StepOK(n)
    <3> HIDE DEF order, old, after, columns, shared
    <3> QED BY <1>3
  <2> HIDE DEF A, B, C, D, F
  <2> QED BY <1>6, <1>10, <2>1, <2>2, <2>3, <2>4, <2>5, <2>6
<1> QED BY <1>1, <1>9, <1>10

\* Where a column of the next database with data comes from.
Comes(base, n, next) ==
  \A u \in DOMAIN next : \A e \in DOMAIN next[u].cols :
    next[u].cols[e].data # None =>
      \E t \in DOMAIN base : \E c \in DOMAIN base[t].cols :
        /\ base[t].cols[c].data = next[u].cols[e].data
        /\ u = t \/ (n.type = "rename_table" /\ t = n.table /\ u = n.to)
        /\ e = c \/ (n.type = "alter_table" /\ t = n.table /\ u = t /\ e = Renamed(n.renames, c))

\* What a statement removes.
Removes(n, t, c) ==
  /\ t = n.table
  /\ n.type = "drop_table" \/ (n.type = "alter_table" /\ c \in n.dropCols)

Stays(base, n, next) ==
  \A t \in DOMAIN base : \A c \in DOMAIN base[t].cols :
    ~Removes(n, t, c) =>
      \E u \in DOMAIN next : \E e \in DOMAIN next[u].cols :
        next[u].cols[e].data = base[t].cols[c].data

SameData(r, q) ==
  DOMAIN q.cols = DOMAIN r.cols /\ \A c \in DOMAIN r.cols : q.cols[c].data = r.cols[c].data

LEMMA SameTables ==
  ASSUME NEW base, NEW n, NEW next,
         \A u \in DOMAIN next : u \in DOMAIN base => SameData(base[u], next[u]),
         \A u \in DOMAIN next \ DOMAIN base :
           \A e \in DOMAIN next[u].cols : next[u].cols[e].data = None,
         \A t \in DOMAIN base \ DOMAIN next : \A c \in DOMAIN base[t].cols : Removes(n, t, c)
  PROVE Comes(base, n, next) /\ Stays(base, n, next)
BY DEF Comes, Stays, SameData

\* A statement moves columns as its renames say, and takes away what it drops.
LEMMA StatementMoves ==
  ASSUME NEW base, IsDatabase(base), NEW n, n.type \in NodeTypes, Accepts(base, n)
  PROVE Comes(base, n, After(base, n)) /\ Stays(base, n, After(base, n))
<1> DEFINE next == After(base, n)
<1>1. CASE n.type = "drop_index"
  <2> DEFINE table(t) == [base[t] EXCEPT !.idx = [i \in DOMAIN base[t].idx \ {n.index} |->
                                                    base[t].idx[i]]]
  <2>1. next = [t \in DOMAIN base |-> table(t)]
    BY <1>1 DEF After
  <2>2. ASSUME NEW t \in DOMAIN base PROVE SameData(base[t], table(t))
    <3>1. PICK r : r = base[t]
      OBVIOUS
    <3>2. PICK v : table(t) = [r EXCEPT !.idx = v]
      BY <3>1
    <3>3. IsStoredTable(r)
      BY <3>1 DEF IsDatabase
    <3> HIDE DEF table
    <3>4. table(t).cols = r.cols
      BY <3>2, <3>3, TableUpdate DEF IsStoredTable
    <3> QED BY <3>1, <3>4 DEF SameData
  <2> HIDE DEF table, next
  <2> QED BY <2>1, <2>2, SameTables DEF next
<1>2. CASE n.type = "drop_table"
  <2>1. next = [t \in DOMAIN base \ {n.table} |-> base[t]]
    BY <1>2 DEF After
  <2>2. \A t, c : t \in DOMAIN base \ DOMAIN next => Removes(n, t, c)
    BY <1>2, <2>1 DEF Removes
  <2>3. \A t \in DOMAIN next : t \in DOMAIN base /\ SameData(base[t], next[t])
    BY <2>1 DEF SameData
  <2> HIDE DEF next
  <2> QED BY <2>2, <2>3, SameTables DEF next
<1>3. CASE n.type = "rename_table"
  <2> DEFINE was(t) == IF t = n.to THEN n.table ELSE t
  <2>1. next = [t \in (DOMAIN base \ {n.table}) \cup {n.to} |-> Follow(base[was(t)], n.table, n.to)]
    BY <1>3 DEF After
  <2>2. n.table \in DOMAIN base /\ n.to \notin DOMAIN base
    BY <1>3 DEF Accepts
  <2>3. ASSUME NEW t \in DOMAIN base PROVE SameData(base[t], Follow(base[t], n.table, n.to))
    <3>1. IsStoredTable(base[t])
      BY DEF IsDatabase
    <3> QED BY <3>1, FollowKeeps DEF SameData
  <2>4. \A u \in DOMAIN next : /\ was(u) \in DOMAIN base
                               /\ next[u] = Follow(base[was(u)], n.table, n.to)
                               /\ u = was(u) \/ (was(u) = n.table /\ u = n.to)
    BY <2>1, <2>2
  <2>5. \A t \in DOMAIN base : \E u \in DOMAIN next : was(u) = t
    <3>1. \A t \in DOMAIN base \ {n.table} : t \in DOMAIN next /\ was(t) = t
      BY <2>1, <2>2
    <3>2. n.to \in DOMAIN next /\ was(n.to) = n.table
      BY <2>1
    <3> QED BY <3>1, <3>2
  <2> HIDE DEF next, was
  <2>6. Comes(base, n, next)
    <3> SUFFICES ASSUME NEW u \in DOMAIN next, NEW e \in DOMAIN next[u].cols
                 PROVE \E t \in DOMAIN base : \E c \in DOMAIN base[t].cols :
                         /\ base[t].cols[c].data = next[u].cols[e].data
                         /\ u = t \/ (t = n.table /\ u = n.to)
                         /\ e = c
      BY <1>3 DEF Comes
    <3>1. SameData(base[was(u)], next[u])
      BY <2>3, <2>4
    <3>2. e \in DOMAIN base[was(u)].cols /\ base[was(u)].cols[e].data = next[u].cols[e].data
      BY <3>1 DEF SameData
    <3> QED BY <2>4, <3>2
  <2>7. Stays(base, n, next)
    <3> SUFFICES ASSUME NEW t \in DOMAIN base, NEW c \in DOMAIN base[t].cols
                 PROVE \E u \in DOMAIN next : \E e \in DOMAIN next[u].cols :
                         next[u].cols[e].data = base[t].cols[c].data
      BY DEF Stays
    <3>1. PICK u \in DOMAIN next : was(u) = t
      BY <2>5
    <3>2. SameData(base[t], next[u])
      BY <2>3, <2>4, <3>1
    <3> QED BY <3>2 DEF SameData
  <2> QED BY <2>6, <2>7 DEF next
<1>4. CASE n.type = "create_table"
  <2> DEFINE created == [cols |-> [c \in DOMAIN n.cols |-> Fresh(n.cols[c])],
                         cons |-> n.cons, idx |-> <<>>, comment |-> None]
  <2>1. next = [t \in DOMAIN base \cup {n.table} |-> IF t = n.table THEN created ELSE base[t]]
    BY <1>4 DEF After
  <2>2. n.table \notin DOMAIN base
    BY <1>4 DEF Accepts
  <2>3. \A c \in DOMAIN created.cols : created.cols[c].data = None
    BY StoredIsStored DEF Fresh
  <2> HIDE DEF created
  <2>4. \A t \in DOMAIN base : t \in DOMAIN next /\ SameData(base[t], next[t])
    BY <2>1, <2>2 DEF SameData
  <2>5. \A t \in DOMAIN next \ DOMAIN base : next[t] = created
    BY <2>1
  <2> HIDE DEF next
  <2> QED BY <2>3, <2>4, <2>5, SameTables DEF next
<1>5. CASE n.type = "create_index"
  <2>1. n.table \in DOMAIN base
    BY <1>5 DEF Accepts
  <2>2. PICK r : r = base[n.table]
    OBVIOUS
  <2>3. PICK v : next = [base EXCEPT ![n.table] = [r EXCEPT !.idx = v]]
    BY <1>5, <2>1, <2>2 DEF After
  <2>4. IsStoredTable(r)
    BY <2>1, <2>2 DEF IsDatabase
  <2>5. PICK q : q = [r EXCEPT !.idx = v]
    OBVIOUS
  <2>6. SameData(r, q)
    BY <2>4, <2>5, TableUpdate DEF IsStoredTable, SameData
  <2>7. DOMAIN next = DOMAIN base /\ \A t \in DOMAIN base : next[t] = IF t = n.table THEN q ELSE base[t]
    BY <2>1, <2>3, <2>5
  <2> HIDE DEF next
  <2>8. \A t \in DOMAIN base : SameData(base[t], next[t])
    BY <2>2, <2>6, <2>7 DEF SameData
  <2> QED BY <2>7, <2>8, SameTables DEF next
<1>6. CASE n.type = "comment_on"
  <2>1. n.table \in DOMAIN base /\ n.column \in DOMAIN base[n.table].cols \cup {None}
    BY <1>6 DEF Accepts
  <2>2. PICK r : r = base[n.table]
    OBVIOUS
  <2>3. IsStoredTable(r)
    BY <2>1, <2>2 DEF IsDatabase
  <2>4. \E q : next = [base EXCEPT ![n.table] = q] /\ SameData(r, q)
    <3>1. CASE n.column = None
      <4>1. PICK q : q = [r EXCEPT !.comment = n.comment]
        OBVIOUS
      <4>2. next = [base EXCEPT ![n.table] = q]
        BY <1>6, <2>1, <2>2, <3>1, <4>1 DEF After
      <4>3. SameData(r, q)
        BY <2>3, <4>1, TableUpdate DEF IsStoredTable, SameData
      <4> QED BY <4>2, <4>3
    <3>2. CASE n.column # None
      <4>1. n.column \in DOMAIN r.cols
        BY <2>1, <2>2, <3>2
      <4>2. PICK col : col = r.cols[n.column]
        OBVIOUS
      <4>3. PICK new : new = [col EXCEPT !.comment = n.comment]
        OBVIOUS
      <4>4. new.data = col.data
        BY <2>3, <4>1, <4>2, <4>3, ColumnUpdate DEF IsStoredTable
      <4>5. PICK cols : cols = [r.cols EXCEPT ![n.column] = new]
        OBVIOUS
      <4>6. DOMAIN cols = DOMAIN r.cols /\ \A c \in DOMAIN cols : cols[c].data = r.cols[c].data
        BY <4>1, <4>2, <4>4, <4>5
      <4>7. PICK q : q = [r EXCEPT !.cols = cols]
        OBVIOUS
      <4>8. q.cols = cols
        BY <2>3, <4>7, ColumnsUpdate DEF IsStoredTable
      <4>9. SameData(r, q)
        BY <4>6, <4>8 DEF SameData
      <4>10. next = [base EXCEPT ![n.table].cols[n.column].comment = n.comment]
        BY <1>6, <3>2 DEF After
      <4>11. next = [base EXCEPT ![n.table] = q]
        BY <4>10, <2>1, <2>2, <4>1, <4>2, <4>3, <4>5, <4>7
      <4> QED BY <4>9, <4>11
    <3> QED BY <3>1, <3>2
  <2>5. PICK q : next = [base EXCEPT ![n.table] = q] /\ SameData(r, q)
    BY <2>4
  <2>6. DOMAIN next = DOMAIN base /\ \A t \in DOMAIN base : next[t] = IF t = n.table THEN q ELSE base[t]
    BY <2>1, <2>5
  <2> HIDE DEF next
  <2>7. \A t \in DOMAIN base : SameData(base[t], next[t])
    BY <2>2, <2>5, <2>6 DEF SameData
  <2> QED BY <2>6, <2>7, SameTables DEF next
<1>7. CASE n.type = "alter_table"
  <2>1. n.table \in DOMAIN base /\ AlterAccepted(base, n)
    BY <1>7 DEF Accepts
  <2>2. PICK q : q = AlterResult(base[n.table], n)
    OBVIOUS
  <2>3. next = [base EXCEPT ![n.table] = q]
    BY <1>7, <2>1, <2>2 DEF After
  <2>4. DOMAIN next = DOMAIN base /\ \A t \in DOMAIN base : next[t] = IF t = n.table THEN q ELSE base[t]
    BY <2>1, <2>3
  <2>5. /\ \A c \in DOMAIN base[n.table].cols \ n.dropCols :
             \E e \in DOMAIN q.cols : q.cols[e].data = base[n.table].cols[c].data
        /\ \A e \in DOMAIN q.cols : q.cols[e].data # None =>
             \E c \in DOMAIN base[n.table].cols :
               base[n.table].cols[c].data = q.cols[e].data /\ e = Renamed(n.renames, c)
    BY <2>1, <2>2, AlterKeeps
  <2> HIDE DEF next
  <2>6. Comes(base, n, next)
    BY <1>7, <2>1, <2>4, <2>5 DEF Comes
  <2>7. Stays(base, n, next)
    BY <1>7, <2>1, <2>4, <2>5 DEF Stays, Removes
  <2> QED BY <2>6, <2>7 DEF next
<1> QED BY <1>1, <1>2, <1>3, <1>4, <1>5, <1>6, <1>7 DEF NodeTypes

\* A step that agrees with the new schema leaves data in place, and removes only
\* what has no place in it.
LEMMA StepGivesUp ==
  ASSUME NEW base, IsDatabase(base), NEW n, n.type \in NodeTypes, Accepts(base, n),
         StepOK(n), AllInPlace(base)
  PROVE /\ AllInPlace(After(base, n))
        /\ \A x \in Data(base) \ Data(After(base, n)) : GivenUp(x)
<1> DEFINE next == After(base, n)
           after == change.after
           Name(t) == NewName(change.opts.tables, after, t)
<1>1. Comes(base, n, next) /\ Stays(base, n, next)
  BY StatementMoves
<1>2. \A t : Name(t) # t => Name(t) \in DOMAIN after /\ t \notin DOMAIN after
  BY DEF NewName
<1>3. \A t : t \in DOMAIN after => Name(t) = t
  BY <1>2
<1>4. ASSUME NEW u \in DOMAIN next, NEW e \in DOMAIN next[u].cols, next[u].cols[e].data # None
      PROVE InPlace(u, e, next[u].cols[e].data)
  <2>1. PICK t \in DOMAIN base : \E c \in DOMAIN base[t].cols :
          /\ base[t].cols[c].data = next[u].cols[e].data
          /\ u = t \/ (n.type = "rename_table" /\ t = n.table /\ u = n.to)
          /\ e = c \/ (n.type = "alter_table" /\ t = n.table /\ u = t /\ e = Renamed(n.renames, c))
    BY <1>1, <1>4 DEF Comes
  <2>9. PICK c \in DOMAIN base[t].cols :
          /\ base[t].cols[c].data = next[u].cols[e].data
          /\ u = t \/ (n.type = "rename_table" /\ t = n.table /\ u = n.to)
          /\ e = c \/ (n.type = "alter_table" /\ t = n.table /\ u = t /\ e = Renamed(n.renames, c))
    BY <2>1
  <2>2. PICK x : x = next[u].cols[e].data
    OBVIOUS
  <2>3. InPlace(t, c, x)
    BY <1>4, <2>9, <2>2 DEF AllInPlace
  <2>4. CASE u = t /\ e = c
    BY <2>2, <2>3, <2>4
  <2>5. CASE u # t
    <3>1. n.type = "rename_table" /\ t = n.table /\ u = n.to /\ e = c
      BY <2>9, <2>5
    <3>2. u = Name(t) /\ Name(t) # t
      BY <3>1 DEF StepOK
    <3>3. t = x[1] \/ t = Name(x[1])
      BY <2>3 DEF InPlace
    <3>4. t = x[1]
      BY <1>2, <1>3, <3>2, <3>3
    <3> QED BY <2>2, <2>3, <3>1, <3>2, <3>4 DEF InPlace
  <2>6. CASE u = t /\ e # c
    <3>1. n.type = "alter_table" /\ t = n.table /\ e = Renamed(n.renames, c)
      BY <2>9, <2>6
    <3>2. PICK r \in n.renames : r[1] = c /\ r[2] = e
      BY <3>1, <2>6 DEF Renamed
    <3>3. /\ t \in DOMAIN after /\ c \notin DOMAIN after[t].cols
          /\ \E m \in change.opts.columns :
               m.table = t /\ m.from = c /\ m.to = e /\ e \in DOMAIN after[t].cols
      BY <3>1, <3>2 DEF StepOK
    <3>4. t = Name(x[1])
      BY <1>3, <2>3, <3>3 DEF InPlace
    <3>5. c = x[2]
      BY <2>3, <3>3, <3>4 DEF InPlace
    <3> QED BY <2>2, <2>6, <3>3, <3>4, <3>5 DEF InPlace
  <2> QED BY <2>4, <2>5, <2>6
<1>5. ASSUME NEW x \in Data(base) \ Data(next) PROVE GivenUp(x)
  <2>1. PICK t, c : /\ t \in DOMAIN base /\ c \in DOMAIN base[t].cols
                    /\ base[t].cols[c].data = x /\ x # None
    BY DEF Data
  <2>2. InPlace(t, c, x)
    BY <2>1 DEF AllInPlace
  <2>3. Removes(n, t, c)
    <3>1. ASSUME NEW u \in DOMAIN next, NEW e \in DOMAIN next[u].cols
          PROVE next[u].cols[e].data # x
      BY <2>1 DEF Data
    <3> HIDE DEF next
    <3> QED BY <1>1, <2>1, <3>1 DEF Stays
  <2>4. t = x[1] \/ t = Name(x[1])
    BY <2>2 DEF InPlace
  <2>5. CASE n.type = "drop_table"
    <3>1. t \notin DOMAIN after /\ Name(t) = t
      BY <2>3, <2>5 DEF StepOK, Removes
    <3>2. Name(x[1]) = t
      BY <2>4, <3>1
    <3> QED BY <3>1, <3>2 DEF GivenUp
  <2>6. CASE n.type = "alter_table"
    <3>1. /\ t \in DOMAIN after /\ c \notin DOMAIN after[t].cols
          /\ \A m \in change.opts.columns : m.table = t /\ m.from = c => m.to \notin DOMAIN after[t].cols
      BY <2>3, <2>6 DEF StepOK, Removes
    <3>2. Name(x[1]) = t
      BY <1>3, <2>4, <3>1
    <3>3. c = x[2]
      BY <2>2, <3>1, <3>2 DEF InPlace
    <3> QED BY <3>1, <3>2, <3>3 DEF GivenUp
  <2> QED BY <2>3, <2>5, <2>6 DEF Removes
<1> HIDE DEF next
<1> QED BY <1>4, <1>5 DEF next, AllInPlace

LEMMA InitLoss == Init => LossInv
<1> SUFFICES ASSUME Init PROVE LossInv
  OBVIOUS
<1> DEFINE before == change.before
           cols(t) == [c \in DOMAIN before[t].cols |->
                         Stored(before[t].cols[c], before[t].cols[c].comment, <<t, c>>)]
<1>1. db = [t \in DOMAIN before |-> [before[t] EXCEPT !.cols = cols(t)]] /\ saved = db
  BY DEF Init, Populated
<1>2. ASSUME NEW t \in DOMAIN db, NEW c \in DOMAIN db[t].cols PROVE db[t].cols[c].data = <<t, c>>
  <2>1. IsTable(before[t])
    BY <1>1, MigrationAssumption DEF Init
  <2>2. PICK x : x = cols(t)
    OBVIOUS
  <2>3. db[t] = [before[t] EXCEPT !.cols = x]
    BY <1>1, <2>2
  <2>4. db[t].cols = x
    <3> HIDE DEF cols, before
    <3> QED BY <2>1, <2>3, ColumnsUpdate
  <2>5. x[c] = Stored(before[t].cols[c], before[t].cols[c].comment, <<t, c>>)
    BY <2>2, <2>4
  <2>6. \A col, note, data : Stored(col, note, data).data = data
    BY StoredIsStored, Zenon
  <2> HIDE DEF cols, before
  <2>7. x[c].data = <<t, c>>
    BY <2>5, <2>6
  <2> QED BY <2>4, <2>7
<1>3. AllInPlace(db) /\ AllInPlace(saved)
  <2>1. \A t, c : <<t, c>>[1] = t /\ <<t, c>>[2] = c
    OBVIOUS
  <2>2. \A t, c : InPlace(t, c, <<t, c>>)
    BY <2>1 DEF InPlace
  <2>3. saved = db
    BY <1>1
  <2> HIDE DEF cols
  <2> QED BY <1>2, <2>2, <2>3 DEF AllInPlace
<1>4. (\A d \in Deploys : \A n \in plan[d] : StepOK(n)) /\ NothingLost
  BY DEF Init, NothingLost
<1> QED BY <1>3, <1>4 DEF LossInv

LEMMA NextLoss == Inv /\ LossInv /\ [Next]_vars => LossInv'
<1> SUFFICES ASSUME Inv, LossInv, [Next]_vars PROVE LossInv'
  OBVIOUS
<1> USE DEF Inv, TypeOK, ConsentInv, LossInv
<1>1. UNCHANGED change
  BY DEF Next, Plan, Begin, Step, StepRefused, Fault, Fails, Finish, Again, Done, vars
<1>2. /\ \A n : StepOK(n)' <=> StepOK(n)
      /\ \A x : GivenUp(x)' <=> GivenUp(x)
      /\ \A t, c, x : InPlace(t, c, x)' <=> InPlace(t, c, x)
  BY <1>1 DEF StepOK, GivenUp, InPlace
<1>3. AllInPlace(db)' <=> AllInPlace(db')
  BY <1>2 DEF AllInPlace
<1>4. AllInPlace(saved)' <=> AllInPlace(saved')
  BY <1>2 DEF AllInPlace
<1>5. SUFFICES /\ AllInPlace(db') /\ AllInPlace(saved')
               /\ \A d \in Deploys : \A n \in plan'[d] : StepOK(n)
               /\ \A d \in Deploys : \A x \in lost'[d] : GivenUp(x)
  BY <1>2, <1>3, <1>4 DEF NothingLost
<1>6. \A d \in Deploys : \A x \in lost[d] : GivenUp(x)
  BY DEF NothingLost
<1>7. ASSUME NEW d \in Deploys, Plan(d) PROVE \A e \in Deploys : \A n \in plan'[e] : StepOK(n)
  <2>1. PICK nodes : /\ nodes = DiffSchemas(change.order, Schema(Committed), change.after, change.opts).nodes
                     /\ plan' = [plan EXCEPT ![d] = nodes]
    BY <1>7 DEF Plan
  <2>2. \A n \in nodes : StepOK(n)
    BY <2>1, StepsAreOK
  <2>3. plan'[d] = nodes /\ \A e \in Deploys \ {d} : plan'[e] = plan[e]
    BY <2>1
  <2> QED BY <2>2, <2>3
<1>8. ASSUME NEW d \in Deploys, Plan(d) PROVE UNCHANGED <<db, saved, lost>>
  BY <1>8 DEF Plan
<1>9. ASSUME NEW d \in Deploys, Begin(d) PROVE saved' = db /\ UNCHANGED <<db, plan, lost>>
  BY <1>9 DEF Begin
<1>10. ASSUME NEW d \in Deploys, NEW n \in plan[d], Step(d, n)
       PROVE /\ AllInPlace(db') /\ saved' = saved
             /\ \A e \in Deploys : plan'[e] \subseteq plan[e]
             /\ \A e \in Deploys : \A x \in lost'[e] : GivenUp(x)
  <2>1. n.type \in NodeTypes /\ StepOK(n) /\ Accepts(db, n) /\ db' = After(db, n)
    BY <1>10 DEF Step
  <2>2. AllInPlace(db') /\ \A x \in Data(db) \ Data(db') : GivenUp(x)
    BY <2>1, StepGivesUp
  <2>3. PICK gone : gone = Data(db) \ Data(db')
    OBVIOUS
  <2>4. lost' = [lost EXCEPT ![d] = @ \cup gone]
    BY <1>10, <2>3 DEF Step
  <2>5. \A e \in Deploys : \A x \in lost'[e] : x \in lost[e] \/ x \in gone
    BY <2>4
  <2>6. saved' = saved /\ \A e \in Deploys : plan'[e] \subseteq plan[e]
    BY <1>10 DEF Step
  <2> QED BY <1>6, <2>2, <2>3, <2>5, <2>6
<1>11. ASSUME NEW d \in Deploys, NEW why, Fails(d, why)
       PROVE /\ db' = db \/ db' = saved
             /\ \A e \in Deploys : lost'[e] \subseteq lost[e]
             /\ UNCHANGED <<saved, plan>>
  BY <1>11 DEF Fails
<1>12. ASSUME NEW d \in Deploys, \/ \E n \in plan[d] : StepRefused(d, n)
                                 \/ Fault(d)
       PROVE \E why : Fails(d, why)
  BY <1>12 DEF StepRefused, Fault
<1>13. ASSUME NEW d \in Deploys, Finish(d) \/ Again(d) PROVE UNCHANGED <<db, saved, plan, lost>>
  BY <1>13 DEF Finish, Again
<1>14. ASSUME UNCHANGED vars PROVE UNCHANGED <<db, saved, plan, lost>>
  BY <1>14 DEF vars, deployVars
<1> QED
  <2>1. CASE \E d \in Deploys : Plan(d)
    BY <1>6, <1>7, <1>8, <2>1
  <2>2. CASE \E d \in Deploys : Begin(d)
    BY <1>6, <1>9, <2>2
  <2>3. CASE \E d \in Deploys : \E n \in plan[d] : Step(d, n)
    BY <1>10, <2>3
  <2>4. CASE \E d \in Deploys : (\E n \in plan[d] : StepRefused(d, n)) \/ Fault(d)
    BY <1>6, <1>11, <1>12, <2>4
  <2>5. CASE \E d \in Deploys : Finish(d) \/ Again(d)
    BY <1>6, <1>13, <2>5
  <2>6. CASE UNCHANGED vars
    BY <1>6, <1>14, <2>6
  <2> QED BY <2>1, <2>2, <2>3, <2>4, <2>5, <2>6 DEF Next, Done

\* For any schemas, renames and deploys, whatever the database has become since a
\* plan was made and wherever a migration fails: it removes only data whose table
\* or column the new schema does not have, under its own name or under the one an
\* entry of the options gives it.  A stale plan is no danger, because each of its
\* steps was made for the new schema, which the deploys agree on.
THEOREM OnlyGivenUpIsLost == Spec => []NothingLost
<1>1. Inv /\ LossInv /\ [Next]_vars => (Inv /\ LossInv)'
  BY NextTypes, NextConsent, NextDrops, NextLoss DEF Inv
<1>2. LossInv => NothingLost
  BY DEF LossInv
<1> QED BY InitInv, InitLoss, <1>1, <1>2, PTL DEF Spec

=============================================================================
