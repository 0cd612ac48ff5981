------------------------ MODULE SchemaReached_proofs ------------------------
(***************************************************************************)
(* A migration that is executed to its end on the schema it was planned    *)
(* for reaches the schema asked for, for any real schemas, renames and     *)
(* modes, and what others planned before does not undo it.                 *)
(***************************************************************************)
EXTENDS SchemaMigration_proofs, WellFoundedInduction

-----------------------------------------------------------------------------
(* What the plan of a change c from the schema B consists of *)

Target(c, t) == NewName(c.opts.tables, c.after, t)
OldOf(c, B) == AfterRename(c.order, B, c.after, c.opts.tables)
NodesOf(c, B) == DiffSchemas(c.order, B, c.after, c.opts).nodes
Thrown(c, B) == DiffSchemas(c.order, B, c.after, c.opts).thrown
Allowed(c) == c.opts.mode = "allow"
Group(n) == n.at[1]

RenamesOf(c, B, t) == ColumnRenames(t, OldOf(c, B)[t], c.after[t], c.opts.columns)
DropsOf(c, B, t) ==
  (DOMAIN OldOf(c, B)[t].cols \ DOMAIN c.after[t].cols) \ {r[1] : r \in RenamesOf(c, B, t)}
AddsOf(c, B, t) ==
  (DOMAIN c.after[t].cols \ DOMAIN OldOf(c, B)[t].cols) \ {r[2] : r \in RenamesOf(c, B, t)}
FromOf(c, B, t, x) ==
  IF x \in {r[2] : r \in RenamesOf(c, B, t)}
  THEN (CHOOSE r \in RenamesOf(c, B, t) : r[2] = x)[1] ELSE x
SetsOf(c, B, t) ==
  UNION {AlterActionsForColumn(x, OldOf(c, B)[t].cols[FromOf(c, B, t, x)], c.after[t].cols[x]) :
           x \in DOMAIN c.after[t].cols \ AddsOf(c, B, t)}

DropConsOf(c, B, t) == {k.name : k \in Without(OldOf(c, B)[t].cons, c.after[t].cons)} \ {None}
AddColsOf(c, B, t) == [x \in AddsOf(c, B, t) |-> c.after[t].cols[x]]
AddConsOf(c, B, t) == Without(c.after[t].cons, OldOf(c, B)[t].cons)

\* The ALTER TABLE that drops, and the one that renames, adds and changes.
DropAlter(c, B, t) ==
  [Alter(<<3, Rank(c.order, t), 1>>, t) EXCEPT
     !.dropCols = DropsOf(c, B, t), !.dropCons = DropConsOf(c, B, t)]
AddAlter(c, B, t) ==
  [Alter(<<8, Rank(c.order, t), 1>>, t) EXCEPT
     !.renames = RenamesOf(c, B, t), !.adds = AddColsOf(c, B, t),
     !.sets = SetsOf(c, B, t), !.addCons = AddConsOf(c, B, t)]

SharedOf(c, B) == DOMAIN OldOf(c, B) \cap DOMAIN c.after
AddedOf(c, B) == DOMAIN c.after \ DOMAIN OldOf(c, B)

\* A node of the plan, by its type.
NodeOK(c, B, n) ==
  /\ n.type \in NodeTypes
  /\ n.type = "drop_index" =>
       /\ Group(n) \in {1, 3} /\ Allowed(c)
       /\ \E t \in DOMAIN OldOf(c, B) :
            /\ n.index \in DOMAIN OldOf(c, B)[t].idx
            /\ t \in DOMAIN c.after =>
                 n.index \in DiffIndexes(OldOf(c, B)[t], c.after[t]).dropped
  /\ n.type = "drop_table" =>
       /\ Group(n) = 2 /\ Allowed(c)
       /\ n.table \in DOMAIN OldOf(c, B) \ DOMAIN c.after
  /\ n.type = "rename_table" =>
       /\ n.table \in DOMAIN B /\ Target(c, n.table) # n.table
       /\ n = [at |-> <<4, Rank(c.order, n.table), 1>>, type |-> "rename_table",
               table |-> n.table, to |-> Target(c, n.table)]
  /\ n.type = "create_table" =>
       /\ Group(n) = 5 /\ n.table \in AddedOf(c, B)
       /\ n.cols = c.after[n.table].cols /\ n.cons = c.after[n.table].cons
  /\ n.type = "create_index" =>
       /\ Group(n) \in {6, 8} /\ n.table \in DOMAIN c.after
       /\ n.index \in DOMAIN c.after[n.table].idx /\ n.def = c.after[n.table].idx[n.index]
  /\ n.type = "comment_on" =>
       /\ Group(n) \in {7, 8} /\ n.table \in DOMAIN c.after
       /\ \/ n.column = None /\ n.comment = c.after[n.table].comment
          \/ n.column \in DOMAIN c.after[n.table].cols
  /\ n.type = "alter_table" =>
       /\ n.table \in SharedOf(c, B)
       /\ \/ n = DropAlter(c, B, n.table) /\ Allowed(c)
          \/ n = AddAlter(c, B, n.table)
-----------------------------------------------------------------------------
(* How far a migration is: R is what is left of the plan from the schema B *)

Ordered(P, R) == R \subseteq P /\ \A n \in P \ R : \A m \in R : ~(Group(m) < Group(n))

Renames(R, s) == \E n \in R : n.type = "rename_table" /\ n.table = s
Creates(R, t) == \E n \in R : n.type = "create_table" /\ n.table = t
DropsTable(R, t) == \E n \in R : n.type = "drop_table" /\ n.table = t
CreatesIndex(R, t, i) == \E n \in R : n.type = "create_index" /\ n.table = t /\ n.index = i
DropsIndex(R, i) == \E n \in R : n.type = "drop_index" /\ n.index = i
Comments(R, t) == \E n \in R : n.type = "comment_on" /\ n.table = t /\ n.column = None
Alters(R, g, t) == \E n \in R : n.type = "alter_table" /\ n.table = t /\ Group(n) = g

\* The name of the table s of B in the database.
Place(c, R, s) == IF Renames(R, s) THEN s ELSE Target(c, s)

\* Tables are where the renames, drops and creations that are left have them.
PlacesOK(c, B, R, base) ==
  /\ \A s \in DOMAIN B : Target(c, s) \in DOMAIN c.after => Place(c, R, s) \in DOMAIN base
  /\ \A s, u \in DOMAIN B :
       s # u /\ Target(c, s) = Target(c, u) => Renames(R, s) \/ Renames(R, u)
  /\ \A u \in DOMAIN base :
       \/ /\ u \in DOMAIN B /\ Target(c, u) = u
          /\ u \notin DOMAIN c.after /\ Allowed(c) => DropsTable(R, u)
       \/ u \in DOMAIN B /\ Renames(R, u)
       \/ \E s \in DOMAIN B : Target(c, s) = u /\ s # u /\ ~Renames(R, s)
       \/ u \in AddedOf(c, B)

SameColumn(x, y) == x.type = y.type /\ x.notNull = y.notNull /\ x.hasDefault = y.hasDefault

\* Indexes of the new schema are there for good, or still to be created; others
\* are still to be dropped.
IndexesOK(c, R, t, X) ==
  /\ \A i \in DOMAIN c.after[t].idx :
       \/ CreatesIndex(R, t, i)
       \/ i \in DOMAIN X.idx /\ X.idx[i] = c.after[t].idx[i] /\ ~DropsIndex(R, i)
  /\ Allowed(c) => \A i \in DOMAIN X.idx : i \in DOMAIN c.after[t].idx \/ DropsIndex(R, i)

CommentOK(c, R, t, X) == Comments(R, t) \/ X.comment = c.after[t].comment

\* A column is wanted so, but for a default that may be missing.
ColumnReached(X, want) ==
  X.type = want.type /\ X.notNull = want.notNull /\ (~want.hasDefault => ~X.hasDefault)

\* What Carried says of the columns of a table.
ColumnsReached(c, t, new, X) ==
  LET want == c.after[t].cols
  IN /\ DOMAIN want \subseteq DOMAIN X.cols
     /\ Allowed(c) => DOMAIN X.cols = DOMAIN want
     /\ \A x \in DOMAIN want : ColumnReached(X.cols[x], want[x])
     /\ \A x \in new : X.cols[x].ref = want[x].ref /\ X.cols[x].hasDefault = want[x].hasDefault

\* A table X of both schemas, called t in the new one.
SharedOK(c, B, P, R, t, X) ==
  LET old == OldOf(c, B)[t] want == c.after[t]
  IN /\ ~Alters(P \ R, 8, t) =>
          /\ DOMAIN X.cols = IF Allowed(c) /\ ~Alters(R, 3, t)
                             THEN DOMAIN old.cols \ DropsOf(c, B, t) ELSE DOMAIN old.cols
          /\ \A x \in DOMAIN X.cols : SameColumn(X.cols[x], old.cols[x])
     /\ Alters(P \ R, 8, t) =>
          /\ ColumnsReached(c, t, AddsOf(c, B, t), X)
          /\ AddConsOf(c, B, t) \subseteq X.cons
     /\ want.cons \cap old.cons \subseteq X.cons
     /\ IndexesOK(c, R, t, X) /\ CommentOK(c, R, t, X)

\* A table of the new schema only.
AddedOK(c, R, t, base) ==
  \/ /\ Creates(R, t)
     /\ \A i \in DOMAIN c.after[t].idx : CreatesIndex(R, t, i)
     /\ c.after[t].comment = None \/ Comments(R, t)
  \/ /\ t \in DOMAIN base
     /\ DOMAIN base[t].cols = DOMAIN c.after[t].cols
     /\ ColumnsReached(c, t, DOMAIN c.after[t].cols, base[t])
     /\ c.after[t].cons \subseteq base[t].cons
     /\ IndexesOK(c, R, t, base[t]) /\ CommentOK(c, R, t, base[t])

\* No two tables get one name.
Clean(c, B) == \A s, u \in DOMAIN B : s # u => Target(c, s) # Target(c, u)

OnTheWay(c, B, P, R, base) ==
  /\ PlacesOK(c, B, R, base)
  /\ Clean(c, B) => \A s \in DOMAIN B : Target(c, s) \in DOMAIN c.after =>
                      SharedOK(c, B, P, R, Target(c, s), base[Place(c, R, s)])
  /\ \A t \in AddedOf(c, B) : AddedOK(c, R, t, base)

\* The database, or what a deploy knows of it, while migrations are carried out.
RealBase(c, base) ==
  RealSchema(base) /\ DOMAIN base \subseteq DOMAIN c.before \cup DOMAIN c.after

\* What is known of a deploy that knew the schema B and has the steps R left.
OnPlan(c, B, R, where, isFresh, base) ==
  LET P == NodesOf(c, B)
  IN /\ RealBase(c, B) /\ R \subseteq P
     /\ where = "waiting" => R = P /\ ~Thrown(c, B)
     /\ where = "running" => Ordered(P, R) /\ ~Thrown(c, B)
     /\ where = "running" /\ isFresh => OnTheWay(c, B, P, R, base)

ReachInv ==
  /\ DOMAIN known = Deploys
  /\ RealBase(change, db) /\ RealBase(change, saved)
  /\ \A d \in Deploys : OnPlan(change, known[d], plan[d], stage[d], fresh[d], db)
  /\ \A d, e \in Deploys : stage[d] = "running" /\ stage[e] = "running" => d = e

-----------------------------------------------------------------------------
(* What others do to a schema that has been reached *)

AddsConstraint(R, t, k) ==
  \E n \in R : n.type = "alter_table" /\ n.table = t /\ k \in n.addCons

\* The new columns, and the constraints of the new schema that are carried, for
\* a migration from B.
NewColumns(c, B, t) == IF t \in SharedOf(c, B) THEN AddsOf(c, B, t) ELSE DOMAIN c.after[t].cols
CarriedCons(c, B, t) ==
  IF t \in SharedOf(c, B)
  THEN {k \in c.after[t].cons : k \in AddConsOf(c, B, t) \/ k \in OldOf(c, B)[t].cons}
  ELSE c.after[t].cons

\* A table X of the new schema is as a migration from B leaves it, but for what
\* the steps R of another deploy are about to restore.
TableKept(c, B, R, t, X) ==
  /\ ColumnsReached(c, t, NewColumns(c, B, t), X)
  /\ \A k \in CarriedCons(c, B, t) : k \in X.cons \/ AddsConstraint(R, t, k)
  /\ IndexesOK(c, R, t, X)
  /\ X.comment = c.after[t].comment

KeptOK(c, B, R, base) ==
  /\ Allowed(c) => DOMAIN base = DOMAIN c.after
  /\ \A t \in DOMAIN c.after : t \in DOMAIN base /\ TableKept(c, B, R, t, base[t])

StayInv ==
  \A d \in Deploys :
    fresh[d] /\ stage[d] = "done" /\ (\A e \in Deploys \ InTx : stopped[e] = "no") =>
      /\ Idle => KeptOK(change, known[d], {}, db)
      /\ \A e \in Deploys : stage[e] = "running" =>
           /\ KeptOK(change, known[d], plan[e], db)
           /\ e \in InTx => KeptOK(change, known[d], {}, saved)

-----------------------------------------------------------------------------
(* The nodes of a plan *)

DropNodesOf(c, B, t) ==
  DiffTableDrops(Rank(c.order, t), t, OldOf(c, B)[t], c.after[t], c.opts.columns)
AddNodesOf(c, B, t) ==
  DiffTableAdds(Rank(c.order, t), t, OldOf(c, B)[t], c.after[t], c.opts.columns)

\* What the diff of one table consists of, drops first.
LEMMA DropNodes ==
  ASSUME NEW c, NEW B, NEW t, NEW n
  PROVE n \in DropNodesOf(c, B, t) <=>
          \/ n = DropAlter(c, B, t) /\ n # Alter(<<3, Rank(c.order, t), 1>>, t)
          \/ \E i \in DiffIndexes(OldOf(c, B)[t], c.after[t]).dropped :
               n = DropIndex(<<3, Rank(c.order, t), 2>>, i)
<1> DEFINE none == Alter(<<3, Rank(c.order, t), 1>>, t)
           dropped == DiffIndexes(OldOf(c, B)[t], c.after[t]).dropped
<1>1. DropNodesOf(c, B, t) =
        (IF DropAlter(c, B, t) = none THEN {} ELSE {DropAlter(c, B, t)})
        \cup {DropIndex(<<3, Rank(c.order, t), 2>>, i) : i \in dropped}
  BY DEF DropNodesOf, DiffTableDrops, DropAlter, DropsOf, DropConsOf, RenamesOf
<1> HIDE DEF none, dropped
<1>2. n \in DropNodesOf(c, B, t) <=>
        \/ n = DropAlter(c, B, t) /\ n # none
        \/ \E i \in dropped : n = DropIndex(<<3, Rank(c.order, t), 2>>, i)
  BY <1>1
<1> QED BY <1>2 DEF none, dropped

LEMMA AddNodes ==
  ASSUME NEW c, NEW B, NEW t, NEW n
  PROVE n \in AddNodesOf(c, B, t) <=>
          \/ n = AddAlter(c, B, t) /\ n # Alter(<<8, Rank(c.order, t), 1>>, t)
          \/ \E i \in DiffIndexes(OldOf(c, B)[t], c.after[t]).added :
               n = CreateIndex(<<8, Rank(c.order, t), 2>>, t, i, c.after[t].idx[i])
          \/ n \in ChangedComments(<<8, Rank(c.order, t), 3>>, t, OldOf(c, B)[t], c.after[t])
<1> DEFINE none == Alter(<<8, Rank(c.order, t), 1>>, t)
           added == DiffIndexes(OldOf(c, B)[t], c.after[t]).added
           comments == ChangedComments(<<8, Rank(c.order, t), 3>>, t, OldOf(c, B)[t], c.after[t])
<1>1. AddNodesOf(c, B, t) =
        (IF AddAlter(c, B, t) = none THEN {} ELSE {AddAlter(c, B, t)})
        \cup {CreateIndex(<<8, Rank(c.order, t), 2>>, t, i, c.after[t].idx[i]) : i \in added}
        \cup comments
  BY DEF AddNodesOf, DiffTableAdds, AddAlter, SetsOf, FromOf, AddsOf, AddColsOf, AddConsOf,
         RenamesOf
<1> HIDE DEF none, added, comments
<1>2. n \in AddNodesOf(c, B, t) <=>
        \/ n = AddAlter(c, B, t) /\ n # none
        \/ \E i \in added : n = CreateIndex(<<8, Rank(c.order, t), 2>>, t, i, c.after[t].idx[i])
        \/ n \in comments
  BY <1>1
<1> QED BY <1>2 DEF none, added, comments

\* What the diff of the schemas consists of.
LEMMA DestructiveNodes ==
  ASSUME NEW c, NEW B, NEW n
  PROVE n \in Destructive(c.order, B, c.after, c.opts.tables, c.opts.columns) <=>
          \/ \E t \in DOMAIN OldOf(c, B) \ DOMAIN c.after :
               \/ \E i \in DOMAIN OldOf(c, B)[t].idx : n = DropIndex(<<1, Rank(c.order, t), 1>>, i)
               \/ n = [at |-> <<2, Rank(c.order, t), 1>>, type |-> "drop_table", table |-> t]
          \/ \E t \in SharedOf(c, B) : n \in DropNodesOf(c, B, t)
<1> DEFINE old == OldOf(c, B)
           removed == DOMAIN old \ DOMAIN c.after
           rank(t) == Rank(c.order, t)
           indexes(t) == {DropIndex(<<1, rank(t), 1>>, i) : i \in DOMAIN old[t].idx}
           I == UNION {indexes(t) : t \in removed}
           T == {[at |-> <<2, rank(t), 1>>, type |-> "drop_table", table |-> t] : t \in removed}
           S == UNION {DropNodesOf(c, B, t) : t \in SharedOf(c, B)}
<1>1. Destructive(c.order, B, c.after, c.opts.tables, c.opts.columns) = I \cup T \cup S
  BY DEF Destructive, OldOf, DropNodesOf, SharedOf
<1>2. n \in I <=> \E t \in removed : \E i \in DOMAIN old[t].idx : n = DropIndex(<<1, rank(t), 1>>, i)
  <2> HIDE DEF old, removed, rank
  <2> QED OBVIOUS
<1>3. n \in T <=> \E t \in removed :
                    n = [at |-> <<2, rank(t), 1>>, type |-> "drop_table", table |-> t]
  <2> HIDE DEF old, removed, rank
  <2> QED OBVIOUS
<1>4. n \in S <=> \E t \in SharedOf(c, B) : n \in DropNodesOf(c, B, t)
  OBVIOUS
<1> HIDE DEF I, T, S, removed
<1>5. n \in Destructive(c.order, B, c.after, c.opts.tables, c.opts.columns) <=>
        \/ \E t \in removed : \E i \in DOMAIN old[t].idx : n = DropIndex(<<1, rank(t), 1>>, i)
        \/ \E t \in removed : n = [at |-> <<2, rank(t), 1>>, type |-> "drop_table", table |-> t]
        \/ \E t \in SharedOf(c, B) : n \in DropNodesOf(c, B, t)
  BY <1>1, <1>2, <1>3, <1>4
<1> QED BY <1>5 DEF removed

LEMMA AdditiveNodes ==
  ASSUME NEW c, NEW B, NEW n,
         NEW created, created = TopoSortForCreation(c.order, AddedOf(c, B), c.after)
  PROVE n \in Additive(c.order, B, c.after, c.opts.tables, c.opts.columns) <=>
          \/ \E t \in DOMAIN B : /\ Target(c, t) # t
                                 /\ n = [at |-> <<4, Rank(c.order, t), 1>>, type |-> "rename_table",
                                         table |-> t, to |-> Target(c, t)]
          \/ \E t \in AddedOf(c, B) :
               \/ n = [at |-> <<5, Rank(created, t), 1>>, type |-> "create_table", table |-> t,
                       cols |-> c.after[t].cols, cons |-> c.after[t].cons]
               \/ \E i \in DOMAIN c.after[t].idx :
                    n = CreateIndex(<<6, Rank(created, t), 1>>, t, i, c.after[t].idx[i])
               \/ n \in NewTableComments(<<7, Rank(created, t), 1>>, t, c.after[t])
          \/ \E t \in SharedOf(c, B) : n \in AddNodesOf(c, B, t)
<1> DEFINE added == AddedOf(c, B)
           moved == {t \in DOMAIN B : Target(c, t) # t}
           rank(t) == Rank(created, t)
           indexes(t) == {CreateIndex(<<6, rank(t), 1>>, t, i, c.after[t].idx[i]) :
                            i \in DOMAIN c.after[t].idx}
           M == {[at |-> <<4, Rank(c.order, t), 1>>, type |-> "rename_table", table |-> t,
                  to |-> Target(c, t)] : t \in moved}
           T == {[at |-> <<5, rank(t), 1>>, type |-> "create_table", table |-> t,
                  cols |-> c.after[t].cols, cons |-> c.after[t].cons] : t \in added}
           I == UNION {indexes(t) : t \in added}
           N == UNION {NewTableComments(<<7, rank(t), 1>>, t, c.after[t]) : t \in added}
           S == UNION {AddNodesOf(c, B, t) : t \in SharedOf(c, B)}
<1>1. Additive(c.order, B, c.after, c.opts.tables, c.opts.columns) = M \cup T \cup I \cup N \cup S
  BY DEF Additive, OldOf, AddNodesOf, SharedOf, AddedOf, Target
<1> HIDE DEF added
<1>2. n \in M <=> \E t \in DOMAIN B : /\ Target(c, t) # t
                                      /\ n = [at |-> <<4, Rank(c.order, t), 1>>,
                                              type |-> "rename_table", table |-> t,
                                              to |-> Target(c, t)]
  OBVIOUS
<1> HIDE DEF rank
<1>3. n \in T <=> \E t \in added :
                    n = [at |-> <<5, rank(t), 1>>, type |-> "create_table", table |-> t,
                         cols |-> c.after[t].cols, cons |-> c.after[t].cons]
  OBVIOUS
<1>4. n \in I <=> \E t \in added : \E i \in DOMAIN c.after[t].idx :
                    n = CreateIndex(<<6, rank(t), 1>>, t, i, c.after[t].idx[i])
  OBVIOUS
<1>5. n \in N <=> \E t \in added : n \in NewTableComments(<<7, rank(t), 1>>, t, c.after[t])
  OBVIOUS
<1>6. n \in S <=> \E t \in SharedOf(c, B) : n \in AddNodesOf(c, B, t)
  OBVIOUS
<1> HIDE DEF M, T, I, N, S
<1>7. n \in Additive(c.order, B, c.after, c.opts.tables, c.opts.columns) <=>
        \/ \E t \in DOMAIN B : /\ Target(c, t) # t
                               /\ n = [at |-> <<4, Rank(c.order, t), 1>>, type |-> "rename_table",
                                       table |-> t, to |-> Target(c, t)]
        \/ \E t \in added :
             n = [at |-> <<5, rank(t), 1>>, type |-> "create_table", table |-> t,
                  cols |-> c.after[t].cols, cons |-> c.after[t].cons]
        \/ \E t \in added : \E i \in DOMAIN c.after[t].idx :
             n = CreateIndex(<<6, rank(t), 1>>, t, i, c.after[t].idx[i])
        \/ \E t \in added : n \in NewTableComments(<<7, rank(t), 1>>, t, c.after[t])
        \/ \E t \in SharedOf(c, B) : n \in AddNodesOf(c, B, t)
  BY <1>1, <1>2, <1>3, <1>4, <1>5, <1>6
<1> QED BY <1>7 DEF added, rank

\* Which of the two a plan contains.
LEMMA PlanNodes ==
  ASSUME NEW c, NEW B
  PROVE /\ \A n \in NodesOf(c, B) :
             \/ /\ n \in Destructive(c.order, B, c.after, c.opts.tables, c.opts.columns)
                /\ Allowed(c)
             \/ n \in Additive(c.order, B, c.after, c.opts.tables, c.opts.columns)
        /\ ~Thrown(c, B) =>
             Additive(c.order, B, c.after, c.opts.tables, c.opts.columns) \subseteq NodesOf(c, B)
        /\ Allowed(c) =>
             Destructive(c.order, B, c.after, c.opts.tables, c.opts.columns) \subseteq NodesOf(c, B)
<1>1. PICK des, add :
        /\ des = Destructive(c.order, B, c.after, c.opts.tables, c.opts.columns)
        /\ add = Additive(c.order, B, c.after, c.opts.tables, c.opts.columns)
  OBVIOUS
<1>2. DiffSchemas(c.order, B, c.after, c.opts) =
        IF des = {} \/ Allowed(c) THEN [thrown |-> FALSE, nodes |-> des \cup add]
        ELSE [thrown |-> c.opts.mode = "ask",
              nodes |-> IF c.opts.mode = "ask" THEN {} ELSE add]
  BY <1>1 DEF DiffSchemas, Allowed
<1>3. CASE des = {} \/ Allowed(c)
  <2>1. NodesOf(c, B) = des \cup add
    BY <1>2, <1>3 DEF NodesOf
  <2> QED BY <1>1, <1>3, <2>1
<1>4. CASE ~(des = {} \/ Allowed(c))
  <2>1. NodesOf(c, B) = IF c.opts.mode = "ask" THEN {} ELSE add
    BY <1>2, <1>4 DEF NodesOf
  <2>2. Thrown(c, B) = (c.opts.mode = "ask")
    BY <1>2, <1>4 DEF Thrown
  <2> QED BY <1>1, <1>4, <2>1, <2>2
<1> QED BY <1>3, <1>4

LEMMA IndexNodes ==
  ASSUME NEW at, NEW t, NEW i, NEW def
  PROVE /\ DropIndex(at, i).type = "drop_index" /\ DropIndex(at, i).at = at
        /\ DropIndex(at, i).index = i
        /\ CreateIndex(at, t, i, def).type = "create_index" /\ CreateIndex(at, t, i, def).at = at
        /\ CreateIndex(at, t, i, def).index = i /\ CreateIndex(at, t, i, def).table = t
        /\ CreateIndex(at, t, i, def).def = def
BY DEF DropIndex, CreateIndex

LEMMA NewCommentNodes ==
  ASSUME NEW at, NEW t, NEW a, NEW n \in NewTableComments(at, t, a)
  PROVE /\ n.type = "comment_on" /\ n.at = at /\ n.table = t
        /\ \/ n.column = None /\ n.comment = a.comment
           \/ n.column \in DOMAIN a.cols
BY DEF NewTableComments, CommentOn

LEMMA ChangedCommentNodes ==
  ASSUME NEW at, NEW t, NEW b, NEW a, NEW n \in ChangedComments(at, t, b, a)
  PROVE /\ n.type = "comment_on" /\ n.at = at /\ n.table = t
        /\ \/ n.column = None /\ n.comment = a.comment
           \/ n.column \in DOMAIN a.cols
BY DEF ChangedComments, CommentOn

\* The two ALTER TABLEs of a shared table.
LEMMA DropAlterFields ==
  ASSUME NEW c, NEW B, NEW t, NEW n, n = DropAlter(c, B, t)
  PROVE /\ n.type = "alter_table" /\ n.table = t /\ n.at = <<3, Rank(c.order, t), 1>>
        /\ n.dropCols = DropsOf(c, B, t) /\ n.dropCons = DropConsOf(c, B, t)
        /\ n.renames = {} /\ n.adds = NoColumns /\ n.sets = {} /\ n.addCons = {}
BY DEF DropAlter, Alter

LEMMA AddAlterFields ==
  ASSUME NEW c, NEW B, NEW t, NEW n, n = AddAlter(c, B, t)
  PROVE /\ n.type = "alter_table" /\ n.table = t /\ n.at = <<8, Rank(c.order, t), 1>>
        /\ n.dropCols = {} /\ n.dropCons = {} /\ n.renames = RenamesOf(c, B, t)
        /\ n.adds = AddColsOf(c, B, t) /\ n.sets = SetsOf(c, B, t) /\ n.addCons = AddConsOf(c, B, t)
BY DEF AddAlter, Alter

LEMMA AlterTypes ==
  ASSUME NEW c, NEW B, NEW t, NEW n, n = DropAlter(c, B, t) \/ n = AddAlter(c, B, t)
  PROVE /\ n.type = "alter_table" /\ n.table = t
        /\ Group(n) = IF n = DropAlter(c, B, t) THEN 3 ELSE 8
<1>1. CASE n = DropAlter(c, B, t)
  <2>1. n.type = "alter_table" /\ n.table = t /\ n.at = <<3, Rank(c.order, t), 1>>
    BY <1>1, DropAlterFields
  <2> QED BY <1>1, <2>1 DEF Group
<1>2. CASE n = AddAlter(c, B, t)
  <2>1. n.type = "alter_table" /\ n.table = t /\ n.at = <<8, Rank(c.order, t), 1>>
    BY <1>2, AddAlterFields
  <2>2. Group(n) = 8
    BY <2>1 DEF Group
  <2>3. n # DropAlter(c, B, t)
    <3> SUFFICES ASSUME n = DropAlter(c, B, t) PROVE FALSE
      OBVIOUS
    <3>1. n.at = <<3, Rank(c.order, t), 1>>
      BY DropAlterFields
    <3> QED BY <2>1, <3>1
  <2> QED BY <1>2, <2>1, <2>2, <2>3
<1> QED BY <1>1, <1>2

\* What the nodes of a plan are.
LEMMA NodesAreOK ==
  ASSUME NEW c, NEW B, NEW n \in NodesOf(c, B)
  PROVE NodeOK(c, B, n)
<1> DEFINE old == OldOf(c, B)
<1> USE DEF Group
<1>1. ASSUME NEW t \in SharedOf(c, B), n \in DropNodesOf(c, B, t), Allowed(c)
      PROVE NodeOK(c, B, n)
  <2>1. CASE n = DropAlter(c, B, t)
    <3>1. n.type = "alter_table" /\ n.table = t
      BY <2>1, AlterTypes
    <3> QED BY <1>1, <2>1, <3>1 DEF NodeOK, NodeTypes
  <2>2. ASSUME NEW i \in DiffIndexes(old[t], c.after[t]).dropped,
               n = DropIndex(<<3, Rank(c.order, t), 2>>, i)
        PROVE NodeOK(c, B, n)
    <3>1. n.type = "drop_index" /\ n.index = i /\ n.at = <<3, Rank(c.order, t), 2>>
      BY <2>2, IndexNodes
    <3>2. n.at[1] = 3
      BY <3>1
    <3>3. i \in DOMAIN old[t].idx /\ t \in DOMAIN old
      BY DEF DiffIndexes, SharedOf
    <3> QED BY <1>1, <3>1, <3>2, <3>3 DEF NodeOK, NodeTypes
  <2> QED BY <1>1, <2>1, <2>2, DropNodes
<1>2. ASSUME NEW t \in SharedOf(c, B), n \in AddNodesOf(c, B, t)
      PROVE NodeOK(c, B, n)
  <2>1. CASE n = AddAlter(c, B, t)
    <3>1. n.type = "alter_table" /\ n.table = t
      BY <2>1, AlterTypes
    <3> QED BY <1>2, <2>1, <3>1 DEF NodeOK, NodeTypes
  <2>2. ASSUME NEW i \in DiffIndexes(old[t], c.after[t]).added,
               n = CreateIndex(<<8, Rank(c.order, t), 2>>, t, i, c.after[t].idx[i])
        PROVE NodeOK(c, B, n)
    <3>1. /\ n.type = "create_index" /\ n.index = i /\ n.table = t /\ n.def = c.after[t].idx[i]
          /\ n.at = <<8, Rank(c.order, t), 2>>
      BY <2>2, IndexNodes
    <3>2. n.at[1] = 8
      BY <3>1
    <3>3. i \in DOMAIN c.after[t].idx /\ t \in DOMAIN c.after
      BY DEF DiffIndexes, SharedOf
    <3> QED BY <3>1, <3>2, <3>3 DEF NodeOK, NodeTypes
  <2>3. CASE n \in ChangedComments(<<8, Rank(c.order, t), 3>>, t, old[t], c.after[t])
    <3>1. /\ n.type = "comment_on" /\ n.table = t /\ n.at = <<8, Rank(c.order, t), 3>>
          /\ \/ n.column = None /\ n.comment = c.after[t].comment
             \/ n.column \in DOMAIN c.after[t].cols
      BY <2>3, ChangedCommentNodes
    <3>2. n.at[1] = 8 /\ t \in DOMAIN c.after
      BY <3>1 DEF SharedOf
    <3> QED BY <3>1, <3>2 DEF NodeOK, NodeTypes
  <2> QED BY <1>2, <2>1, <2>2, <2>3, AddNodes
<1>3. CASE n \in Destructive(c.order, B, c.after, c.opts.tables, c.opts.columns) /\ Allowed(c)
  <2>1. ASSUME NEW t \in DOMAIN old \ DOMAIN c.after, NEW i \in DOMAIN old[t].idx,
               n = DropIndex(<<1, Rank(c.order, t), 1>>, i)
        PROVE NodeOK(c, B, n)
    <3>1. n.type = "drop_index" /\ n.index = i /\ n.at = <<1, Rank(c.order, t), 1>>
      BY <2>1, IndexNodes
    <3>2. n.at[1] = 1
      BY <3>1
    <3> QED BY <1>3, <3>1, <3>2 DEF NodeOK, NodeTypes
  <2>2. ASSUME NEW t \in DOMAIN old \ DOMAIN c.after,
               n = [at |-> <<2, Rank(c.order, t), 1>>, type |-> "drop_table", table |-> t]
        PROVE NodeOK(c, B, n)
    <3>1. n.type = "drop_table" /\ n.table = t /\ n.at = <<2, Rank(c.order, t), 1>>
      BY <2>2
    <3>2. n.at[1] = 2
      BY <3>1
    <3> QED BY <1>3, <3>1, <3>2 DEF NodeOK, NodeTypes
  <2> QED BY <1>1, <1>3, <2>1, <2>2, DestructiveNodes
<1>4. CASE n \in Additive(c.order, B, c.after, c.opts.tables, c.opts.columns)
  <2>1. PICK created : created = TopoSortForCreation(c.order, AddedOf(c, B), c.after)
    OBVIOUS
  <2>2. ASSUME NEW t \in DOMAIN B, Target(c, t) # t,
               n = [at |-> <<4, Rank(c.order, t), 1>>, type |-> "rename_table",
                    table |-> t, to |-> Target(c, t)]
        PROVE NodeOK(c, B, n)
    <3>1. n.type = "rename_table" /\ n.table = t
      BY <2>2
    <3> QED BY <2>2, <3>1 DEF NodeOK, NodeTypes
  <2>3. ASSUME NEW t \in AddedOf(c, B),
               n = [at |-> <<5, Rank(created, t), 1>>, type |-> "create_table", table |-> t,
                    cols |-> c.after[t].cols, cons |-> c.after[t].cons]
        PROVE NodeOK(c, B, n)
    <3>1. /\ n.type = "create_table" /\ n.table = t /\ n.at = <<5, Rank(created, t), 1>>
          /\ n.cols = c.after[t].cols /\ n.cons = c.after[t].cons
      BY <2>3
    <3>2. n.at[1] = 5
      BY <3>1
    <3> QED BY <3>1, <3>2 DEF NodeOK, NodeTypes
  <2>4. ASSUME NEW t \in AddedOf(c, B), NEW i \in DOMAIN c.after[t].idx,
               n = CreateIndex(<<6, Rank(created, t), 1>>, t, i, c.after[t].idx[i])
        PROVE NodeOK(c, B, n)
    <3>1. /\ n.type = "create_index" /\ n.index = i /\ n.table = t /\ n.def = c.after[t].idx[i]
          /\ n.at = <<6, Rank(created, t), 1>>
      BY <2>4, IndexNodes
    <3>2. n.at[1] = 6 /\ t \in DOMAIN c.after
      BY <3>1 DEF AddedOf
    <3> QED BY <3>1, <3>2 DEF NodeOK, NodeTypes
  <2>5. ASSUME NEW t \in AddedOf(c, B),
               n \in NewTableComments(<<7, Rank(created, t), 1>>, t, c.after[t])
        PROVE NodeOK(c, B, n)
    <3>1. /\ n.type = "comment_on" /\ n.table = t /\ n.at = <<7, Rank(created, t), 1>>
          /\ \/ n.column = None /\ n.comment = c.after[t].comment
             \/ n.column \in DOMAIN c.after[t].cols
      BY <2>5, NewCommentNodes
    <3>2. n.at[1] = 7 /\ t \in DOMAIN c.after
      BY <3>1 DEF AddedOf
    <3> QED BY <3>1, <3>2 DEF NodeOK, NodeTypes
  <2> QED BY <1>2, <1>4, <2>1, <2>2, <2>3, <2>4, <2>5, AdditiveNodes
<1> QED BY <1>3, <1>4, PlanNodes

\* What a plan is bound to contain.
LEMMA PlanRenames ==
  ASSUME NEW c, NEW B, ~Thrown(c, B), NEW s \in DOMAIN B, Target(c, s) # s
  PROVE Renames(NodesOf(c, B), s)
<1>1. PICK created : created = TopoSortForCreation(c.order, AddedOf(c, B), c.after)
  OBVIOUS
<1>2. PICK n : n = [at |-> <<4, Rank(c.order, s), 1>>, type |-> "rename_table",
                    table |-> s, to |-> Target(c, s)]
  OBVIOUS
<1>3. n \in NodesOf(c, B)
  BY <1>1, <1>2, AdditiveNodes, PlanNodes
<1>4. n.type = "rename_table" /\ n.table = s
  BY <1>2
<1> QED BY <1>3, <1>4 DEF Renames

LEMMA PlanDropsTables ==
  ASSUME NEW c, NEW B, Allowed(c), NEW t \in DOMAIN OldOf(c, B) \ DOMAIN c.after
  PROVE DropsTable(NodesOf(c, B), t)
<1>1. PICK n : n = [at |-> <<2, Rank(c.order, t), 1>>, type |-> "drop_table", table |-> t]
  OBVIOUS
<1>2. n \in NodesOf(c, B)
  BY <1>1, DestructiveNodes, PlanNodes
<1>3. n.type = "drop_table" /\ n.table = t
  BY <1>1
<1> QED BY <1>2, <1>3 DEF DropsTable

LEMMA PlanCreates ==
  ASSUME NEW c, NEW B, ~Thrown(c, B), NEW t \in AddedOf(c, B)
  PROVE /\ Creates(NodesOf(c, B), t)
        /\ \A i \in DOMAIN c.after[t].idx : CreatesIndex(NodesOf(c, B), t, i)
        /\ c.after[t].comment # None => Comments(NodesOf(c, B), t)
<1>1. PICK created : created = TopoSortForCreation(c.order, AddedOf(c, B), c.after)
  OBVIOUS
<1>2. Creates(NodesOf(c, B), t)
  <2>1. PICK n : n = [at |-> <<5, Rank(created, t), 1>>, type |-> "create_table", table |-> t,
                      cols |-> c.after[t].cols, cons |-> c.after[t].cons]
    OBVIOUS
  <2>2. n \in NodesOf(c, B)
    BY <1>1, <2>1, AdditiveNodes, PlanNodes
  <2>3. n.type = "create_table" /\ n.table = t
    BY <2>1
  <2> QED BY <2>2, <2>3 DEF Creates
<1>3. ASSUME NEW i \in DOMAIN c.after[t].idx PROVE CreatesIndex(NodesOf(c, B), t, i)
  <2>1. PICK n : n = CreateIndex(<<6, Rank(created, t), 1>>, t, i, c.after[t].idx[i])
    OBVIOUS
  <2>2. n \in NodesOf(c, B)
    BY <1>1, <2>1, AdditiveNodes, PlanNodes
  <2>3. n.type = "create_index" /\ n.table = t /\ n.index = i
    BY <2>1, IndexNodes
  <2> QED BY <2>2, <2>3 DEF CreatesIndex
<1>4. ASSUME c.after[t].comment # None PROVE Comments(NodesOf(c, B), t)
  <2>1. PICK n : n = CommentOn(<<7, Rank(created, t), 1>>, t, None, c.after[t].comment)
    OBVIOUS
  <2>2. n \in NewTableComments(<<7, Rank(created, t), 1>>, t, c.after[t])
    BY <1>4, <2>1 DEF NewTableComments
  <2>3. n \in NodesOf(c, B)
    BY <1>1, <2>2, AdditiveNodes, PlanNodes
  <2>4. n.type = "comment_on" /\ n.table = t /\ n.column = None
    BY <2>1 DEF CommentOn
  <2> QED BY <2>3, <2>4 DEF Comments
<1> QED BY <1>2, <1>3, <1>4

LEMMA PlanAdds ==
  ASSUME NEW c, NEW B, ~Thrown(c, B), NEW t \in SharedOf(c, B)
  PROVE /\ \/ AddAlter(c, B, t) \in NodesOf(c, B)
           \/ AddAlter(c, B, t) = Alter(<<8, Rank(c.order, t), 1>>, t)
        /\ \A i \in DiffIndexes(OldOf(c, B)[t], c.after[t]).added : CreatesIndex(NodesOf(c, B), t, i)
        /\ c.after[t].comment # OldOf(c, B)[t].comment => Comments(NodesOf(c, B), t)
<1>1. PICK created : created = TopoSortForCreation(c.order, AddedOf(c, B), c.after)
  OBVIOUS
<1>2. \A n : n \in AddNodesOf(c, B, t) => n \in NodesOf(c, B)
  BY <1>1, AdditiveNodes, PlanNodes
<1>3. \/ AddAlter(c, B, t) \in NodesOf(c, B)
      \/ AddAlter(c, B, t) = Alter(<<8, Rank(c.order, t), 1>>, t)
  BY <1>2, AddNodes
<1>4. ASSUME NEW i \in DiffIndexes(OldOf(c, B)[t], c.after[t]).added
      PROVE CreatesIndex(NodesOf(c, B), t, i)
  <2>1. PICK n : n = CreateIndex(<<8, Rank(c.order, t), 2>>, t, i, c.after[t].idx[i])
    OBVIOUS
  <2>2. n \in NodesOf(c, B)
    BY <1>2, <2>1, AddNodes
  <2>3. n.type = "create_index" /\ n.table = t /\ n.index = i
    BY <2>1, IndexNodes
  <2> QED BY <2>2, <2>3 DEF CreatesIndex
<1>5. ASSUME c.after[t].comment # OldOf(c, B)[t].comment PROVE Comments(NodesOf(c, B), t)
  <2>1. PICK n : n = CommentOn(<<8, Rank(c.order, t), 3>>, t, None, c.after[t].comment)
    OBVIOUS
  <2>2. n \in ChangedComments(<<8, Rank(c.order, t), 3>>, t, OldOf(c, B)[t], c.after[t])
    BY <1>5, <2>1 DEF ChangedComments
  <2>3. n \in NodesOf(c, B)
    BY <1>2, <2>2, AddNodes
  <2>4. n.type = "comment_on" /\ n.table = t /\ n.column = None
    BY <2>1 DEF CommentOn
  <2> QED BY <2>3, <2>4 DEF Comments
<1> QED BY <1>3, <1>4, <1>5

LEMMA PlanDrops ==
  ASSUME NEW c, NEW B, Allowed(c), NEW t \in SharedOf(c, B)
  PROVE /\ \/ DropAlter(c, B, t) \in NodesOf(c, B)
           \/ DropAlter(c, B, t) = Alter(<<3, Rank(c.order, t), 1>>, t)
        /\ \A i \in DiffIndexes(OldOf(c, B)[t], c.after[t]).dropped : DropsIndex(NodesOf(c, B), i)
<1>1. \A n : n \in DropNodesOf(c, B, t) => n \in NodesOf(c, B)
  BY DestructiveNodes, PlanNodes
<1>2. \/ DropAlter(c, B, t) \in NodesOf(c, B)
      \/ DropAlter(c, B, t) = Alter(<<3, Rank(c.order, t), 1>>, t)
  BY <1>1, DropNodes
<1>3. ASSUME NEW i \in DiffIndexes(OldOf(c, B)[t], c.after[t]).dropped
      PROVE DropsIndex(NodesOf(c, B), i)
  <2>1. PICK n : n = DropIndex(<<3, Rank(c.order, t), 2>>, i)
    OBVIOUS
  <2>2. n \in NodesOf(c, B)
    BY <1>1, <2>1, DropNodes
  <2>3. n.type = "drop_index" /\ n.index = i
    BY <2>1, IndexNodes
  <2> QED BY <2>2, <2>3 DEF DropsIndex
<1> QED BY <1>2, <1>3

LEMMA NothingAltered ==
  ASSUME NEW c, NEW B, NEW t, NEW at
  PROVE /\ DropAlter(c, B, t) = Alter(at, t) => DropsOf(c, B, t) = {} /\ DropConsOf(c, B, t) = {}
        /\ AddAlter(c, B, t) = Alter(at, t) =>
             /\ RenamesOf(c, B, t) = {} /\ AddsOf(c, B, t) = {}
             /\ SetsOf(c, B, t) = {} /\ AddConsOf(c, B, t) = {}
<1>1. PICK n : n = Alter(at, t)
  OBVIOUS
<1>2. /\ n.dropCols = {} /\ n.dropCons = {} /\ n.renames = {} /\ n.sets = {} /\ n.addCons = {}
      /\ n.adds = NoColumns
  BY <1>1 DEF Alter
<1>3. AddColsOf(c, B, t) = NoColumns => AddsOf(c, B, t) = {}
  <2>1. DOMAIN AddColsOf(c, B, t) = AddsOf(c, B, t) /\ DOMAIN NoColumns = {}
    BY DEF AddColsOf, NoColumns
  <2> QED BY <2>1
<1>4. n = DropAlter(c, B, t) => n.dropCols = DropsOf(c, B, t) /\ n.dropCons = DropConsOf(c, B, t)
  BY DropAlterFields
<1>5. n = AddAlter(c, B, t) =>
        /\ n.renames = RenamesOf(c, B, t) /\ n.adds = AddColsOf(c, B, t)
        /\ n.sets = SetsOf(c, B, t) /\ n.addCons = AddConsOf(c, B, t)
  BY AddAlterFields
<1> QED BY <1>1, <1>2, <1>3, <1>4, <1>5

-----------------------------------------------------------------------------
(* The old schema under the new names *)

Listed(c, B) ==
  c.order \in Seq(Tables) /\ DOMAIN B \subseteq {c.order[i] : i \in DOMAIN c.order}

LEMMA RanksAreNumbers ==
  ASSUME NEW c, NEW B, Listed(c, B), NEW s \in DOMAIN B
  PROVE Rank(c.order, s) \in 1..Len(c.order) /\ Len(c.order) \in Nat
<1>1. DOMAIN c.order = 1..Len(c.order) /\ Len(c.order) \in Nat
  BY DEF Listed
<1>2. \E i \in DOMAIN c.order : c.order[i] = s
  BY DEF Listed
<1>3. Rank(c.order, s) \in DOMAIN c.order
  BY <1>2 DEF Rank
<1> QED BY <1>1, <1>3

\* Every table of it is one of the old tables, renamed.
LEMMA OldComes ==
  ASSUME NEW c, NEW B, Listed(c, B), NEW t \in DOMAIN OldOf(c, B)
  PROVE \E s \in DOMAIN B : Target(c, s) = t /\ OldOf(c, B)[t] = B[s]
<1> DEFINE named == {s \in DOMAIN B : Target(c, s) = t}
           last == CHOOSE s \in named : \A u \in named : Rank(c.order, u) <= Rank(c.order, s)
<1>1. OldOf(c, B)[t] = B[last] /\ named # {}
  BY DEF OldOf, AfterRename, Target
<1>2. \E s \in named : \A u \in named : Rank(c.order, u) <= Rank(c.order, s)
  <2> DEFINE back == {Len(c.order) - Rank(c.order, s) : s \in named}
  <2>1. \A s \in named : Rank(c.order, s) \in 1..Len(c.order) /\ Len(c.order) \in Nat
    BY RanksAreNumbers
  <2>2. \A s \in named : Len(c.order) - Rank(c.order, s) \in Nat
    BY <2>1
  <2> HIDE DEF named
  <2>3. back \subseteq Nat /\ back # {}
    BY <1>1, <2>2
  <2>4. \E x \in back : \A y \in back : ~ (<<y, x>> \in OpToRel(<, Nat))
    <3> HIDE DEF back
    <3> QED BY <2>3, NatLessThanWellFounded, WFMin
  <2>5. PICK x \in back : \A y \in back : ~ (<<y, x>> \in OpToRel(<, Nat))
    BY <2>4
  <2>6. \A y \in back : ~(y < x)
    BY <2>3, <2>5 DEF OpToRel
  <2>7. PICK s \in named : x = Len(c.order) - Rank(c.order, s)
    BY <2>5
  <2>8. \A u \in named : ~(Len(c.order) - Rank(c.order, u) < Len(c.order) - Rank(c.order, s))
    BY <2>6, <2>7
  <2>9. \A u \in named : Rank(c.order, u) <= Rank(c.order, s)
    <3> SUFFICES ASSUME NEW u \in named PROVE Rank(c.order, u) <= Rank(c.order, s)
      OBVIOUS
    <3>1. PICK l, x1, x2 : l = Len(c.order) /\ x1 = Rank(c.order, u) /\ x2 = Rank(c.order, s)
      OBVIOUS
    <3>2. l \in Nat /\ x1 \in 1..l /\ x2 \in 1..l /\ ~(l - x1 < l - x2)
      BY <2>1, <2>8, <3>1
    <3>3. x1 <= x2
      BY <3>2
    <3> QED BY <3>1, <3>3
  <2> QED BY <2>9
<1>3. last \in named
  <2> HIDE DEF named
  <2> QED BY <1>2
<1> QED BY <1>1, <1>3

LEMMA OldDomain ==
  ASSUME NEW c, NEW B
  PROVE \A t : t \in DOMAIN OldOf(c, B) <=> \E s \in DOMAIN B : Target(c, s) = t
BY DEF OldOf, AfterRename, Target

\* A table keeps its name, or gets one of the new schema that has not its own.
LEMMA Targets ==
  ASSUME NEW c, NEW s
  PROVE \/ Target(c, s) = s
        \/ s \notin DOMAIN c.after /\ Target(c, s) \in DOMAIN c.after
BY DEF Target, NewName

LEMMA OldIs ==
  ASSUME NEW c, NEW B, Listed(c, B), Clean(c, B), NEW s \in DOMAIN B
  PROVE OldOf(c, B)[Target(c, s)] = B[s] /\ Target(c, s) \in DOMAIN OldOf(c, B)
BY OldComes, OldDomain DEF Clean

-----------------------------------------------------------------------------
(* What each statement does *)

\* The parts of a table one of which is replaced.
LEMMA TableParts ==
  ASSUME NEW r, IsTable(r), NEW q, NEW v
  PROVE /\ q = [r EXCEPT !.cols = v] =>
             q.cols = v /\ q.cons = r.cons /\ q.idx = r.idx /\ q.comment = r.comment
        /\ q = [r EXCEPT !.cons = v] =>
             q.cols = r.cols /\ q.cons = v /\ q.idx = r.idx /\ q.comment = r.comment
        /\ q = [r EXCEPT !.idx = v] =>
             q.cols = r.cols /\ q.cons = r.cons /\ q.idx = v /\ q.comment = r.comment
        /\ q = [r EXCEPT !.comment = v] =>
             q.cols = r.cols /\ q.cons = r.cons /\ q.idx = r.idx /\ q.comment = v
<1>1. PICK c, k, i, m : r = [cols |-> c, cons |-> k, idx |-> i, comment |-> m]
  BY DEF IsTable
<1> QED BY <1>1

IndexDropped(base, n, next) ==
  /\ DOMAIN next = DOMAIN base
  /\ \A t \in DOMAIN base :
       /\ next[t].cols = base[t].cols /\ next[t].cons = base[t].cons
       /\ next[t].comment = base[t].comment
       /\ DOMAIN next[t].idx = DOMAIN base[t].idx \ {n.index} /\ AreIndexes(next[t].idx)
       /\ \A i \in DOMAIN next[t].idx : next[t].idx[i] = base[t].idx[i]

LEMMA DropIndexEffect ==
  ASSUME NEW base, IsDatabase(base), NEW n, n.type = "drop_index",
         NEW next, next = After(base, n)
  PROVE IndexDropped(base, n, next)
<1> DEFINE idx(t) == [i \in DOMAIN base[t].idx \ {n.index} |-> base[t].idx[i]]
<1>1. next = [t \in DOMAIN base |-> [base[t] EXCEPT !.idx = idx(t)]]
  BY DEF After
<1>2. ASSUME NEW t \in DOMAIN base
      PROVE /\ DOMAIN idx(t) = DOMAIN base[t].idx \ {n.index} /\ AreIndexes(idx(t))
            /\ \A i \in DOMAIN idx(t) : idx(t)[i] = base[t].idx[i]
  BY DEF AreIndexes
<1> HIDE DEF idx
<1>3. ASSUME NEW t \in DOMAIN base
      PROVE /\ next[t].cols = base[t].cols /\ next[t].cons = base[t].cons
            /\ next[t].comment = base[t].comment /\ next[t].idx = idx(t)
  <2>1. next[t] = [base[t] EXCEPT !.idx = idx(t)] /\ IsTable(base[t])
    BY <1>1 DEF IsDatabase, IsStoredTable
  <2> QED BY <2>1, TableParts
<1>4. DOMAIN next = DOMAIN base
  BY <1>1
<1>5. ASSUME NEW t \in DOMAIN base
      PROVE /\ DOMAIN next[t].idx = DOMAIN base[t].idx \ {n.index} /\ AreIndexes(next[t].idx)
            /\ \A i \in DOMAIN next[t].idx : next[t].idx[i] = base[t].idx[i]
  <2>1. PICK x : x = idx(t) /\ next[t].idx = x
    BY <1>3
  <2>2. /\ DOMAIN x = DOMAIN base[t].idx \ {n.index} /\ AreIndexes(x)
        /\ \A i \in DOMAIN x : x[i] = base[t].idx[i]
    BY <1>2, <2>1
  <2> QED BY <2>1, <2>2
<1> QED BY <1>3, <1>4, <1>5 DEF IndexDropped

TableDropped(base, n, next) ==
  DOMAIN next = DOMAIN base \ {n.table} /\ \A t \in DOMAIN next : next[t] = base[t]

LEMMA DropTableEffect ==
  ASSUME NEW base, NEW n, n.type = "drop_table", NEW next, next = After(base, n)
  PROVE TableDropped(base, n, next)
BY DEF After, TableDropped

\* Foreign keys follow; nothing else changes.
LEMMA FollowFacts ==
  ASSUME NEW r, IsStoredTable(r), NEW from, NEW to, NEW q, q = Follow(r, from, to)
  PROVE /\ DOMAIN q.cols = DOMAIN r.cols
        /\ \A x \in DOMAIN r.cols :
             /\ SameColumn(q.cols[x], r.cols[x])
             /\ r.cols[x].ref # from => q.cols[x].ref = r.cols[x].ref
        /\ q.cons = {[k EXCEPT !.ref = IF k.ref = from THEN to ELSE k.ref] : k \in r.cons}
        /\ q.idx = r.idx /\ q.comment = r.comment
<1> DEFINE ref(x) == IF x = from THEN to ELSE x
           cols == [x \in DOMAIN r.cols |-> [r.cols[x] EXCEPT !.ref = ref(r.cols[x].ref)]]
           cons == {[k EXCEPT !.ref = ref(k.ref)] : k \in r.cons}
<1>1. q = [r EXCEPT !.cols = cols, !.cons = cons]
  BY DEF Follow
<1>2. cons = {[k EXCEPT !.ref = IF k.ref = from THEN to ELSE k.ref] : k \in r.cons}
  OBVIOUS
<1>3. ASSUME NEW x \in DOMAIN r.cols
      PROVE /\ SameColumn(cols[x], r.cols[x])
            /\ r.cols[x].ref # from => cols[x].ref = r.cols[x].ref
  <2>1. PICK t, o, h, f, m, d :
          r.cols[x] = [type |-> t, notNull |-> o, hasDefault |-> h, ref |-> f, comment |-> m, data |-> d]
    BY DEF IsStoredTable, IsStored, Stored
  <2>2. cols[x] = [r.cols[x] EXCEPT !.ref = ref(f)]
    BY <2>1
  <2> QED BY <2>1, <2>2 DEF SameColumn
<1>4. DOMAIN cols = DOMAIN r.cols
  OBVIOUS
<1> HIDE DEF cols, cons
<1>5. q.cols = cols /\ q.cons = cons /\ q.idx = r.idx /\ q.comment = r.comment
  <2>1. PICK c, k, i, m : r = [cols |-> c, cons |-> k, idx |-> i, comment |-> m]
    BY DEF IsTable, IsStoredTable
  <2> QED BY <1>1, <2>1
<1> QED BY <1>2, <1>3, <1>4, <1>5

\* A set of constraints as a table has them.
ConsOK(S) ==
  /\ \A k \in S : IsConstraint(k)
  /\ \A k, m \in S : k.name = m.name /\ k.name # None => k = m

LEMMA RefUpdate ==
  ASSUME NEW k, IsConstraint(k), NEW v, NEW m, m = [k EXCEPT !.ref = v]
  PROVE IsConstraint(m) /\ m.name = k.name /\ (v = k.ref => m = k)
<1>1. PICK a, b, c, d, e : k = [name |-> a, kind |-> b, cols |-> c, ref |-> d, flag |-> e]
  BY DEF IsConstraint
<1> QED BY <1>1 DEF IsConstraint

LEMMA ColsUpdate ==
  ASSUME NEW k, IsConstraint(k), NEW v, NEW m, m = [k EXCEPT !.cols = v]
  PROVE IsConstraint(m) /\ m.name = k.name /\ (v = k.cols => m = k)
<1>1. PICK a, b, c, d, e : k = [name |-> a, kind |-> b, cols |-> c, ref |-> d, flag |-> e]
  BY DEF IsConstraint
<1> QED BY <1>1 DEF IsConstraint

LEMMA FollowCons ==
  ASSUME NEW r, IsStoredTable(r), ConsOK(r.cons), NEW from, NEW to, NEW q, q = Follow(r, from, to)
  PROVE /\ ConsOK(q.cons)
        /\ \A k \in r.cons : k.ref # from => k \in q.cons
<1> DEFINE ref(k) == IF k.ref = from THEN to ELSE k.ref
           new(k) == [k EXCEPT !.ref = ref(k)]
<1>1. q.cons = {new(k) : k \in r.cons}
  BY FollowFacts
<1>2. \A k \in r.cons : /\ IsConstraint(new(k)) /\ new(k).name = k.name
                        /\ k.ref # from => new(k) = k
  <2> SUFFICES ASSUME NEW k \in r.cons
               PROVE /\ IsConstraint(new(k)) /\ new(k).name = k.name
                     /\ k.ref # from => new(k) = k
    OBVIOUS
  <2>1. IsConstraint(k)
    BY DEF ConsOK
  <2>2. PICK v, m : v = ref(k) /\ m = [k EXCEPT !.ref = v]
    OBVIOUS
  <2>3. IsConstraint(m) /\ m.name = k.name /\ (v = k.ref => m = k)
    BY <2>1, <2>2, RefUpdate
  <2> QED BY <2>2, <2>3
<1> HIDE DEF new
<1>3. \A k \in q.cons : \E m \in r.cons : k = new(m)
  BY <1>1
<1>4. \A k \in r.cons : new(k) \in q.cons
  BY <1>1
<1>5. ASSUME NEW k \in q.cons, NEW m \in q.cons, k.name = m.name, k.name # None PROVE k = m
  <2>1. PICK x \in r.cons, y \in r.cons : k = new(x) /\ m = new(y)
    BY <1>3
  <2> QED BY <1>2, <1>5, <2>1 DEF ConsOK
<1> QED BY <1>2, <1>3, <1>4, <1>5 DEF ConsOK

TableRenamed(base, n, next) ==
  /\ DOMAIN next = (DOMAIN base \ {n.table}) \cup {n.to}
  /\ n.table \in DOMAIN base /\ n.to \notin DOMAIN base
  /\ next[n.to] = Follow(base[n.table], n.table, n.to)
  /\ \A t \in DOMAIN base \ {n.table} : next[t] = Follow(base[t], n.table, n.to)

LEMMA RenameEffect ==
  ASSUME NEW base, NEW n, n.type = "rename_table", Accepts(base, n),
         NEW next, next = After(base, n)
  PROVE TableRenamed(base, n, next)
BY DEF After, Accepts, TableRenamed

TableCreated(base, n, next) ==
  /\ DOMAIN next = DOMAIN base \cup {n.table} /\ n.table \notin DOMAIN base
  /\ \A t \in DOMAIN base : next[t] = base[t]
  /\ DOMAIN next[n.table].cols = DOMAIN n.cols
  /\ \A x \in DOMAIN n.cols :
       SameColumn(next[n.table].cols[x], n.cols[x]) /\ next[n.table].cols[x].ref = n.cols[x].ref
  /\ next[n.table].cons = n.cons
  /\ DOMAIN next[n.table].idx = {} /\ AreIndexes(next[n.table].idx)
  /\ next[n.table].comment = None

LEMMA CreateEffect ==
  ASSUME NEW base, NEW n, n.type = "create_table", Accepts(base, n),
         NEW next, next = After(base, n)
  PROVE TableCreated(base, n, next)
<1> DEFINE cols == [x \in DOMAIN n.cols |-> Fresh(n.cols[x])]
           table == [cols |-> cols, cons |-> n.cons, idx |-> <<>>, comment |-> None]
<1>1. n.table \notin DOMAIN base
  BY DEF Accepts
<1>2. next = [t \in DOMAIN base \cup {n.table} |-> IF t = n.table THEN table ELSE base[t]]
  BY DEF After
<1>3. /\ DOMAIN cols = DOMAIN n.cols
      /\ \A x \in DOMAIN n.cols : SameColumn(cols[x], n.cols[x]) /\ cols[x].ref = n.cols[x].ref
  BY DEF Fresh, Stored, SameColumn
<1> HIDE DEF cols
<1>4. /\ table.cols = cols /\ table.cons = n.cons /\ DOMAIN table.idx = {}
      /\ table.comment = None /\ AreIndexes(table.idx)
  BY DEF AreIndexes
<1> HIDE DEF table
<1>5. /\ DOMAIN next = DOMAIN base \cup {n.table} /\ next[n.table] = table
      /\ \A t \in DOMAIN base : next[t] = base[t]
  BY <1>1, <1>2
<1> QED BY <1>1, <1>3, <1>4, <1>5 DEF TableCreated

IndexCreated(base, n, next) ==
  /\ DOMAIN next = DOMAIN base /\ n.table \in DOMAIN base
  /\ n.index \notin IndexNames(base)
  /\ \A t \in DOMAIN base \ {n.table} : next[t] = base[t]
  /\ next[n.table].cols = base[n.table].cols /\ next[n.table].cons = base[n.table].cons
  /\ next[n.table].comment = base[n.table].comment
  /\ DOMAIN next[n.table].idx = DOMAIN base[n.table].idx \cup {n.index}
  /\ AreIndexes(next[n.table].idx)
  /\ next[n.table].idx[n.index] = n.def
  /\ \A i \in DOMAIN base[n.table].idx : next[n.table].idx[i] = base[n.table].idx[i]

LEMMA CreateIndexEffect ==
  ASSUME NEW base, IsDatabase(base), NEW n, n.type = "create_index", Accepts(base, n),
         NEW next, next = After(base, n)
  PROVE IndexCreated(base, n, next)
<1> DEFINE old == base[n.table].idx
           idx == [i \in DOMAIN old \cup {n.index} |-> IF i = n.index THEN n.def ELSE old[i]]
<1>1. n.table \in DOMAIN base /\ n.index \notin IndexNames(base)
  BY DEF Accepts
<1>2. next = [base EXCEPT ![n.table].idx = idx]
  BY DEF After
<1>3. n.index \notin DOMAIN old
  BY <1>1 DEF IndexNames
<1>4. /\ DOMAIN idx = DOMAIN old \cup {n.index} /\ idx[n.index] = n.def
      /\ \A i \in DOMAIN old : idx[i] = old[i]
      /\ AreIndexes(idx)
  BY <1>3 DEF AreIndexes
<1> HIDE DEF idx
<1>5. /\ DOMAIN next = DOMAIN base /\ next[n.table] = [base[n.table] EXCEPT !.idx = idx]
      /\ \A t \in DOMAIN base \ {n.table} : next[t] = base[t]
  BY <1>1, <1>2
<1>6. IsTable(base[n.table])
  BY <1>1 DEF IsDatabase, IsStoredTable
<1>7. /\ next[n.table].cols = base[n.table].cols /\ next[n.table].cons = base[n.table].cons
      /\ next[n.table].comment = base[n.table].comment /\ next[n.table].idx = idx
  BY <1>5, <1>6, TableParts
<1> QED BY <1>1, <1>4, <1>5, <1>7 DEF IndexCreated

Commented(base, n, next) ==
  /\ DOMAIN next = DOMAIN base /\ n.table \in DOMAIN base
  /\ \A t \in DOMAIN base \ {n.table} : next[t] = base[t]
  /\ DOMAIN next[n.table].cols = DOMAIN base[n.table].cols
  /\ \A x \in DOMAIN base[n.table].cols :
       /\ SameColumn(next[n.table].cols[x], base[n.table].cols[x])
       /\ next[n.table].cols[x].ref = base[n.table].cols[x].ref
  /\ next[n.table].cons = base[n.table].cons /\ next[n.table].idx = base[n.table].idx
  /\ next[n.table].comment = IF n.column = None THEN n.comment ELSE base[n.table].comment

LEMMA CommentEffect ==
  ASSUME NEW base, IsDatabase(base), NEW n, n.type = "comment_on", Accepts(base, n),
         NEW next, next = After(base, n)
  PROVE Commented(base, n, next)
<1> DEFINE r == base[n.table]
<1>1. n.table \in DOMAIN base /\ n.column \in DOMAIN r.cols \cup {None}
  BY DEF Accepts
<1>2. IsTable(r) /\ \A x \in DOMAIN r.cols : IsStored(r.cols[x])
  BY <1>1 DEF IsDatabase, IsStoredTable
<1>3. CASE n.column = None
  <2>1. next = [base EXCEPT ![n.table].comment = n.comment]
    BY <1>3 DEF After
  <2>2. /\ DOMAIN next = DOMAIN base /\ next[n.table] = [r EXCEPT !.comment = n.comment]
        /\ \A t \in DOMAIN base \ {n.table} : next[t] = base[t]
    BY <1>1, <2>1
  <2> HIDE DEF r
  <2>3. /\ next[n.table].cols = r.cols /\ next[n.table].cons = r.cons
        /\ next[n.table].idx = r.idx /\ next[n.table].comment = n.comment
    BY <1>2, <2>2, TableParts
  <2> QED BY <1>1, <1>3, <2>2, <2>3 DEF r, SameColumn, Commented
<1>4. CASE n.column # None
  <2> DEFINE col == r.cols[n.column]
             cols == [r.cols EXCEPT ![n.column] = [col EXCEPT !.comment = n.comment]]
  <2>1. next = [base EXCEPT ![n.table].cols[n.column].comment = n.comment]
    BY <1>4 DEF After
  <2>2. /\ DOMAIN next = DOMAIN base /\ next[n.table] = [r EXCEPT !.cols = cols]
        /\ \A t \in DOMAIN base \ {n.table} : next[t] = base[t]
    BY <1>1, <2>1
  <2> HIDE DEF r
  <2>3. n.column \in DOMAIN r.cols
    BY <1>1, <1>4
  <2>4. PICK t, o, h, f, m, d :
          col = [type |-> t, notNull |-> o, hasDefault |-> h, ref |-> f, comment |-> m, data |-> d]
    BY <1>2, <2>3 DEF IsStored, Stored
  <2>5. /\ cols[n.column].type = col.type /\ cols[n.column].notNull = col.notNull
        /\ cols[n.column].hasDefault = col.hasDefault /\ cols[n.column].ref = col.ref
    BY <2>3, <2>4
  <2>6. DOMAIN cols = DOMAIN r.cols /\ \A x \in DOMAIN r.cols \ {n.column} : cols[x] = r.cols[x]
    OBVIOUS
  <2> HIDE DEF cols
  <2>7. /\ next[n.table].cols = cols /\ next[n.table].cons = r.cons
        /\ next[n.table].idx = r.idx /\ next[n.table].comment = r.comment
    BY <1>2, <2>2, TableParts
  <2>8. \A x \in DOMAIN r.cols : SameColumn(cols[x], r.cols[x]) /\ cols[x].ref = r.cols[x].ref
    BY <2>5, <2>6 DEF SameColumn
  <2> QED BY <1>1, <1>4, <2>2, <2>6, <2>7, <2>8 DEF r, Commented
<1> QED BY <1>3, <1>4 DEF Commented

\* Columns take their indexes and constraints with them.
DroppedFrom(r, n, left) ==
  /\ DOMAIN left.cols = DOMAIN r.cols \ n.dropCols
  /\ \A x \in DOMAIN left.cols : left.cols[x] = r.cols[x]
  /\ left.cons = {k \in r.cons : k.cols \cap n.dropCols = {} /\ k.name \notin n.dropCons}
  /\ DOMAIN left.idx = {i \in DOMAIN r.idx : r.idx[i].cols \cap n.dropCols = {}}
  /\ \A i \in DOMAIN left.idx : left.idx[i] = r.idx[i]
  /\ left.comment = r.comment

LEMMA DroppedFacts ==
  ASSUME NEW r, IsStoredTable(r), NEW n, NEW left, left = Dropped(r, n)
  PROVE DroppedFrom(r, n, left)
<1> DEFINE cols == [x \in DOMAIN r.cols \ n.dropCols |-> r.cols[x]]
           cons == {k \in r.cons : k.cols \cap n.dropCols = {} /\ k.name \notin n.dropCons}
           kept == {i \in DOMAIN r.idx : r.idx[i].cols \cap n.dropCols = {}}
           idx == [i \in kept |-> r.idx[i]]
<1>1. left = [r EXCEPT !.cols = cols, !.cons = cons, !.idx = idx]
  BY DEF Dropped
<1>2. PICK oc, ok, oi, m : r = [cols |-> oc, cons |-> ok, idx |-> oi, comment |-> m]
  BY DEF IsStoredTable, IsTable
<1>3. PICK x, y, z : x = cols /\ y = cons /\ z = idx
  OBVIOUS
<1>4. left.cols = x /\ left.cons = y /\ left.idx = z /\ left.comment = r.comment
  <2> HIDE DEF cols, cons, idx
  <2> QED BY <1>1, <1>2, <1>3
<1>5. DOMAIN cols = DOMAIN r.cols \ n.dropCols /\ \A c \in DOMAIN cols : cols[c] = r.cols[c]
  OBVIOUS
<1>6. DOMAIN idx = kept /\ \A i \in DOMAIN idx : idx[i] = r.idx[i]
  OBVIOUS
<1> HIDE DEF cols, idx
<1> QED BY <1>3, <1>4, <1>5, <1>6 DEF DroppedFrom

\* A column that is renamed has its new name, the others theirs.
LEMMA RenamedIs ==
  ASSUME NEW base, NEW n, AlterAccepted(base, n)
  PROVE /\ \A r \in n.renames : Renamed(n.renames, r[1]) = r[2]
        /\ \A x : (\A r \in n.renames : r[1] # x) => Renamed(n.renames, x) = x
<1>1. \A r, s \in n.renames : r = s
  BY DEF AlterAccepted, OnlyRename
<1>2. ASSUME NEW r \in n.renames PROVE Renamed(n.renames, r[1]) = r[2]
  <2>1. (CHOOSE s \in n.renames : s[1] = r[1]) = r
    BY <1>1
  <2> QED BY <2>1 DEF Renamed
<1> QED BY <1>2 DEF Renamed

MovedBy(renames, S) == {Renamed(renames, x) : x \in S}

\* What is left of a table r under the new names of columns, and what is added.
Altered(r, left, n, q) ==
  /\ \A x \in DOMAIN q.cols :
       x \in DOMAIN n.adds \/ \E y \in DOMAIN left.cols : x = Renamed(n.renames, y)
  /\ DOMAIN n.adds \subseteq DOMAIN q.cols
  /\ \A x \in DOMAIN left.cols :
       /\ Renamed(n.renames, x) \in DOMAIN q.cols
       /\ q.cols[Renamed(n.renames, x)] = Set(r.cols[x], n.sets, Renamed(n.renames, x))
  /\ \A x \in DOMAIN n.adds :
       (\A y \in DOMAIN left.cols : Renamed(n.renames, y) # x) =>
         q.cols[x] = Set(Fresh(n.adds[x]), n.sets, x)
  /\ \A k \in left.cons : [k EXCEPT !.cols = MovedBy(n.renames, k.cols)] \in q.cons
  /\ \A m \in q.cons :
       \/ m \in n.addCons
       \/ \E k \in left.cons : m = [k EXCEPT !.cols = MovedBy(n.renames, k.cols)]
  /\ n.addCons \subseteq q.cons
  /\ DOMAIN q.idx = DOMAIN left.idx /\ AreIndexes(q.idx)
  /\ \A i \in DOMAIN q.idx :
       q.idx[i] = [r.idx[i] EXCEPT !.cols = MovedBy(n.renames, r.idx[i].cols)]
  /\ q.comment = r.comment

LEMMA AlterFacts ==
  ASSUME NEW base, IsDatabase(base), NEW n, n.table \in DOMAIN base, AlterAccepted(base, n),
         NEW r, r = base[n.table], NEW left, left = Dropped(r, n), NEW q, q = AlterResult(r, n)
  PROVE Altered(r, left, n, q)
<1>1. IsStoredTable(r)
  BY DEF IsDatabase
<1>2. /\ IsStoredTable(left) /\ DOMAIN left.cols = DOMAIN r.cols \ n.dropCols
      /\ \A x \in DOMAIN left.cols : left.cols[x] = r.cols[x]
  <2>1. IsStoredTable(left)
    BY <1>1, DroppedKeeps
  <2>2. DroppedFrom(r, n, left)
    BY <1>1, DroppedFacts
  <2> QED BY <2>1, <2>2 DEF DroppedFrom
<1>3. /\ \A i \in DOMAIN left.idx : left.idx[i] = r.idx[i]
      /\ left.comment = r.comment
  <2>1. DroppedFrom(r, n, left)
    BY <1>1, DroppedFacts
  <2> QED BY <2>1 DEF DroppedFrom
<1> DEFINE new(x) == Renamed(n.renames, x)
           moved(S) == {new(x) : x \in S}
           old == {new(x) : x \in DOMAIN left.cols}
           from(x) == CHOOSE b \in DOMAIN left.cols : new(b) = x
           col(x) == IF x \in old THEN left.cols[from(x)] ELSE Fresh(n.adds[x])
           cols == [x \in old \cup DOMAIN n.adds |-> Set(col(x), n.sets, x)]
           kept == {[k EXCEPT !.cols = moved(k.cols)] : k \in left.cons}
           idx == [i \in DOMAIN left.idx |-> [left.idx[i] EXCEPT !.cols = moved(left.idx[i].cols)]]
<1>4. q.cols = cols /\ q.cons = kept \cup n.addCons /\ q.idx = idx /\ q.comment = r.comment
  <2>1. q = [left EXCEPT !.cols = cols, !.cons = kept \cup n.addCons, !.idx = idx]
    BY DEF AlterResult
  <2>2. PICK oc, ok, oi, m : left = [cols |-> oc, cons |-> ok, idx |-> oi, comment |-> m]
    BY <1>2 DEF IsStoredTable, IsTable
  <2>3. PICK x, y, z : x = cols /\ y = kept \cup n.addCons /\ z = idx
    OBVIOUS
  <2> HIDE DEF cols, kept, idx
  <2> QED BY <1>3, <2>1, <2>2, <2>3
<1>5. /\ \A x \in DOMAIN cols : x \in DOMAIN n.adds \/ \E y \in DOMAIN left.cols : x = new(y)
      /\ DOMAIN n.adds \subseteq DOMAIN cols
      /\ \A x \in DOMAIN left.cols : new(x) \in DOMAIN cols
  <2>1. DOMAIN cols = old \cup DOMAIN n.adds
    OBVIOUS
  <2> HIDE DEF cols, new
  <2> QED BY <2>1
<1>6. ASSUME NEW x \in DOMAIN left.cols PROVE cols[new(x)] = Set(r.cols[x], n.sets, new(x))
  <2>1. new(x) \in old /\ new(x) \in DOMAIN cols
    OBVIOUS
  <2>2. from(new(x)) \in DOMAIN left.cols /\ new(from(new(x))) = new(x)
    <3> HIDE DEF new
    <3> QED OBVIOUS
  <2>3. from(new(x)) = x
    BY <1>2, <2>2, RenamesAreInjective
  <2>4. col(new(x)) = r.cols[x]
    BY <1>2, <2>1, <2>3
  <2>5. cols[new(x)] = Set(col(new(x)), n.sets, new(x))
    <3> HIDE DEF new, old, col
    <3> QED BY <2>1
  <2> QED BY <2>4, <2>5
<1>7. ASSUME NEW x \in DOMAIN n.adds, \A y \in DOMAIN left.cols : new(y) # x
      PROVE cols[x] = Set(Fresh(n.adds[x]), n.sets, x)
  <2>1. x \notin old
    BY <1>7
  <2>2. col(x) = Fresh(n.adds[x])
    BY <2>1
  <2> HIDE DEF col, old
  <2> QED BY <2>2
<1>8. \A S : moved(S) = MovedBy(n.renames, S)
  BY DEF MovedBy
<1> HIDE DEF moved
<1>9. /\ DOMAIN idx = DOMAIN left.idx
      /\ AreIndexes(idx)
      /\ \A i \in DOMAIN idx : idx[i] = [r.idx[i] EXCEPT !.cols = moved(r.idx[i].cols)]
  <2>1. \A i \in DOMAIN idx : idx[i] = [left.idx[i] EXCEPT !.cols = moved(left.idx[i].cols)]
    OBVIOUS
  <2> QED BY <1>3, <2>1 DEF AreIndexes
<1>10. /\ \A k \in left.cons : [k EXCEPT !.cols = moved(k.cols)] \in kept
       /\ \A m \in kept : \E k \in left.cons : m = [k EXCEPT !.cols = moved(k.cols)]
  OBVIOUS
<1> HIDE DEF cols, kept, idx
<1> QED BY <1>4, <1>5, <1>6, <1>7, <1>8, <1>9, <1>10 DEF Altered

-----------------------------------------------------------------------------
(* Columns that are changed *)

Writes(sets, x, attr) == \E s \in sets : s.column = x /\ s.attr = attr

\* An attribute of a column is the one of the schema asked for, or as it was.
LEMMA SetIs ==
  ASSUME NEW col, IsStored(col), NEW sets, NEW x, NEW q, q = Set(col, sets, x), NEW want,
         \A s \in sets : s.column = x => s.value = want[s.attr]
  PROVE /\ q.ref = col.ref
        /\ q.type = IF Writes(sets, x, "type") THEN want.type ELSE col.type
        /\ q.notNull = IF Writes(sets, x, "notNull") THEN want.notNull ELSE col.notNull
        /\ q.hasDefault = IF Writes(sets, x, "hasDefault") THEN want.hasDefault ELSE col.hasDefault
<1> DEFINE value(attr) == IF \E s \in sets : s.column = x /\ s.attr = attr
                          THEN (CHOOSE s \in sets : s.column = x /\ s.attr = attr).value
                          ELSE col[attr]
<1>1. q = [col EXCEPT !.type = value("type"), !.notNull = value("notNull"),
                      !.hasDefault = value("hasDefault")]
  BY DEF Set
<1>2. ASSUME NEW attr PROVE value(attr) = IF Writes(sets, x, attr) THEN want[attr] ELSE col[attr]
  BY DEF Writes
<1> HIDE DEF value
<1>3. PICK t, o, h, r, m, d :
        col = [type |-> t, notNull |-> o, hasDefault |-> h, ref |-> r, comment |-> m, data |-> d]
  BY DEF IsStored, Stored
<1>4. /\ q.ref = col.ref /\ q.type = value("type") /\ q.notNull = value("notNull")
      /\ q.hasDefault = value("hasDefault")
  BY <1>1, <1>3
<1> QED BY <1>2, <1>4

\* What the diff of one column changes.
LEMMA ActionsAre ==
  ASSUME NEW x, NEW b, NEW a
  PROVE /\ \A s \in AlterActionsForColumn(x, b, a) :
             /\ s.column = x /\ s.value = a[s.attr]
             /\ s.attr = "hasDefault" => ~a.hasDefault
        /\ a.type # b.type => Writes(AlterActionsForColumn(x, b, a), x, "type")
        /\ a.notNull # b.notNull => Writes(AlterActionsForColumn(x, b, a), x, "notNull")
        /\ ~a.hasDefault /\ a.hasDefault # b.hasDefault =>
             Writes(AlterActionsForColumn(x, b, a), x, "hasDefault")
<1> DEFINE changed == {y \in {"type", "notNull", "hasDefault"} : a[y] # b[y]}
           attrs == IF a.hasDefault THEN changed \ {"hasDefault"} ELSE changed
           action(y) == [column |-> x, attr |-> y, value |-> a[y]]
<1>1. AlterActionsForColumn(x, b, a) = {action(y) : y \in attrs}
  BY DEF AlterActionsForColumn
<1>2. /\ a.type # b.type => "type" \in attrs
      /\ a.notNull # b.notNull => "notNull" \in attrs
      /\ ~a.hasDefault /\ a.hasDefault # b.hasDefault => "hasDefault" \in attrs
      /\ "hasDefault" \in attrs => ~a.hasDefault
  OBVIOUS
<1>3. \A y : action(y).column = x /\ action(y).attr = y /\ action(y).value = a[y]
  OBVIOUS
<1> HIDE DEF attrs, action
<1>4. \A y \in attrs : Writes(AlterActionsForColumn(x, b, a), x, y)
  BY <1>1, <1>3 DEF Writes
<1>5. ASSUME NEW s \in AlterActionsForColumn(x, b, a)
      PROVE s.column = x /\ s.value = a[s.attr] /\ (s.attr = "hasDefault" => ~a.hasDefault)
  <2>1. PICK y \in attrs : s = action(y)
    BY <1>1
  <2>2. s.column = x /\ s.attr = y /\ s.value = a[y]
    BY <1>3, <2>1
  <2> QED BY <1>2, <2>2
<1> QED BY <1>2, <1>4, <1>5

\* What changes columns writes what the new schema says of them.
WritesWanted(c, t, sets) ==
  \A s \in sets :
    /\ s.column \in DOMAIN c.after[t].cols /\ s.value = c.after[t].cols[s.column][s.attr]
    /\ s.attr = "hasDefault" => ~c.after[t].cols[s.column].hasDefault

LEMMA SetsAre ==
  ASSUME NEW c, NEW B, NEW t
  PROVE /\ WritesWanted(c, t, SetsOf(c, B, t))
        /\ \A s \in SetsOf(c, B, t) : s.column \notin AddsOf(c, B, t)
        /\ \A x \in DOMAIN c.after[t].cols \ AddsOf(c, B, t) :
             AlterActionsForColumn(x, OldOf(c, B)[t].cols[FromOf(c, B, t, x)], c.after[t].cols[x])
               \subseteq SetsOf(c, B, t)
<1> DEFINE old == OldOf(c, B)[t].cols
           want == c.after[t].cols
           from(x) == FromOf(c, B, t, x)
           kept == DOMAIN want \ AddsOf(c, B, t)
           actions(x) == AlterActionsForColumn(x, old[from(x)], want[x])
<1>1. SetsOf(c, B, t) = UNION {actions(x) : x \in kept}
  BY DEF SetsOf
<1>2. \A x : \A s \in actions(x) : s.column = x /\ s.value = want[x][s.attr]
                                /\ (s.attr = "hasDefault" => ~want[x].hasDefault)
  BY ActionsAre
<1> HIDE DEF actions
<1>3. \A s \in SetsOf(c, B, t) : \E x \in kept : s \in actions(x)
  BY <1>1
<1>4. \A x \in kept : actions(x) \subseteq SetsOf(c, B, t)
  BY <1>1
<1>5. WritesWanted(c, t, SetsOf(c, B, t))
  BY <1>2, <1>3 DEF WritesWanted
<1>6. \A s \in SetsOf(c, B, t) : s.column \notin AddsOf(c, B, t)
  BY <1>2, <1>3
<1> QED BY <1>4, <1>5, <1>6 DEF actions

\* A column is as wanted after the changes if it is the old one before them ...
LEMMA SetReaches ==
  ASSUME NEW col, IsStored(col), NEW sets, NEW x, NEW q, q = Set(col, sets, x),
         NEW b, SameColumn(col, b), NEW want,
         \A s \in sets : s.column = x => s.value = want[s.attr],
         AlterActionsForColumn(x, b, want) \subseteq sets
  PROVE ColumnReached(q, want)
<1>1. /\ want.type # b.type => Writes(sets, x, "type")
      /\ want.notNull # b.notNull => Writes(sets, x, "notNull")
      /\ ~want.hasDefault /\ want.hasDefault # b.hasDefault => Writes(sets, x, "hasDefault")
  BY ActionsAre DEF Writes
<1>2. /\ q.type = IF Writes(sets, x, "type") THEN want.type ELSE col.type
      /\ q.notNull = IF Writes(sets, x, "notNull") THEN want.notNull ELSE col.notNull
      /\ q.hasDefault = IF Writes(sets, x, "hasDefault") THEN want.hasDefault ELSE col.hasDefault
  BY SetIs
<1>3. q.type = want.type /\ q.notNull = want.notNull
  BY <1>1, <1>2 DEF SameColumn
<1>4. ASSUME ~want.hasDefault PROVE ~q.hasDefault
  <2>1. q.hasDefault = want.hasDefault
    BY <1>1, <1>2, <1>4 DEF SameColumn
  <2> QED BY <1>4, <2>1
<1> QED BY <1>3, <1>4 DEF ColumnReached

\* ... or as wanted already.
LEMMA SetKeepsReached ==
  ASSUME NEW col, IsStored(col), NEW sets, NEW x, NEW q, q = Set(col, sets, x),
         NEW want, ColumnReached(col, want),
         \A s \in sets : s.column = x => /\ s.value = want[s.attr]
                                         /\ s.attr = "hasDefault" => ~want.hasDefault
  PROVE /\ ColumnReached(q, want) /\ q.ref = col.ref
        /\ col.hasDefault = want.hasDefault => q.hasDefault = want.hasDefault
<1>1. /\ q.ref = col.ref
      /\ q.type = IF Writes(sets, x, "type") THEN want.type ELSE col.type
      /\ q.notNull = IF Writes(sets, x, "notNull") THEN want.notNull ELSE col.notNull
      /\ q.hasDefault = IF Writes(sets, x, "hasDefault") THEN want.hasDefault ELSE col.hasDefault
  BY SetIs
<1>2. q.type = want.type /\ q.notNull = want.notNull
  BY <1>1 DEF ColumnReached
<1>3. ASSUME ~want.hasDefault PROVE ~q.hasDefault
  <2>1. q.hasDefault = want.hasDefault \/ q.hasDefault = col.hasDefault
    BY <1>1
  <2>2. ~col.hasDefault
    BY <1>3 DEF ColumnReached
  <2> QED BY <1>3, <2>1, <2>2
<1>4. col.hasDefault = want.hasDefault => q.hasDefault = want.hasDefault
  BY <1>1
<1> QED BY <1>1, <1>2, <1>3, <1>4 DEF ColumnReached

-----------------------------------------------------------------------------
(* The two ALTER TABLEs of a plan *)

LEMMA RenamesAre ==
  ASSUME NEW c, NEW B, NEW t, NEW r \in RenamesOf(c, B, t)
  PROVE /\ r[1] \in DOMAIN OldOf(c, B)[t].cols /\ r[2] \in DOMAIN c.after[t].cols
        /\ r[1] \notin DOMAIN c.after[t].cols
BY DEF RenamesOf, ColumnRenames

\* Where a column comes from that is not a new one.
LEMMA FromIs ==
  ASSUME NEW c, NEW B, NEW t, NEW base, NEW n, n = AddAlter(c, B, t), AlterAccepted(base, n),
         NEW x \in DOMAIN c.after[t].cols \ AddsOf(c, B, t)
  PROVE /\ FromOf(c, B, t, x) \in DOMAIN OldOf(c, B)[t].cols \ DropsOf(c, B, t)
        /\ Renamed(n.renames, FromOf(c, B, t, x)) = x
<1> DEFINE renames == RenamesOf(c, B, t)
           from == FromOf(c, B, t, x)
<1>1. n.renames = renames
  BY AddAlterFields
<1>2. CASE x \in {r[2] : r \in renames}
  <2>1. from = (CHOOSE r \in renames : r[2] = x)[1]
    BY <1>2 DEF FromOf
  <2>2. PICK r : r = CHOOSE m \in renames : m[2] = x
    OBVIOUS
  <2>3. r \in renames /\ r[2] = x /\ from = r[1]
    BY <1>2, <2>1, <2>2
  <2>4. from \in DOMAIN OldOf(c, B)[t].cols
    BY <2>3, RenamesAre
  <2>5. from \notin DropsOf(c, B, t)
    BY <2>3 DEF DropsOf
  <2>6. Renamed(n.renames, from) = x
    BY <1>1, <2>3, RenamedIs
  <2> QED BY <2>4, <2>5, <2>6
<1>3. CASE x \notin {r[2] : r \in renames}
  <2>1. from = x
    BY <1>3 DEF FromOf
  <2>2. x \in DOMAIN OldOf(c, B)[t].cols
    BY <1>3 DEF AddsOf
  <2>3. x \notin DropsOf(c, B, t)
    BY DEF DropsOf
  <2>4. \A r \in renames : r[1] # x
    BY RenamesAre
  <2>5. Renamed(n.renames, x) = x
    BY <1>1, <2>4, RenamedIs
  <2> QED BY <2>1, <2>2, <2>3, <2>5
<1> QED BY <1>2, <1>3

\* The one that renames, adds and changes leaves the columns asked for.
LEMMA AddsColumns ==
  ASSUME NEW c, NEW B, NEW t \in SharedOf(c, B), NEW base, IsDatabase(base), t \in DOMAIN base,
         NEW n, n = AddAlter(c, B, t), AlterAccepted(base, n),
         DOMAIN base[t].cols = IF Allowed(c) THEN DOMAIN OldOf(c, B)[t].cols \ DropsOf(c, B, t)
                               ELSE DOMAIN OldOf(c, B)[t].cols,
         \A x \in DOMAIN base[t].cols : SameColumn(base[t].cols[x], OldOf(c, B)[t].cols[x]),
         NEW q, q = AlterResult(base[t], n)
  PROVE ColumnsReached(c, t, AddsOf(c, B, t), q)
<1> DEFINE old == OldOf(c, B)[t].cols
           want == c.after[t].cols
           adds == AddsOf(c, B, t)
           from(x) == FromOf(c, B, t, x)
           new(x) == Renamed(n.renames, x)
<1>1. /\ n.table = t /\ n.dropCols = {} /\ n.renames = RenamesOf(c, B, t)
      /\ n.adds = AddColsOf(c, B, t) /\ n.sets = SetsOf(c, B, t)
  BY AddAlterFields
<1>2. PICK r, left : r = base[t] /\ left = Dropped(r, n)
  OBVIOUS
<1>3. IsStoredTable(r)
  BY <1>2 DEF IsDatabase
<1>4. DOMAIN left.cols = DOMAIN r.cols
  <2>1. DOMAIN left.cols = DOMAIN r.cols \ n.dropCols
    <3>1. DroppedFrom(r, n, left)
      BY <1>2, <1>3, DroppedFacts
    <3> QED BY <3>1 DEF DroppedFrom
  <2> QED BY <1>1, <2>1
<1>5. DOMAIN n.adds = adds /\ \A x \in adds : n.adds[x] = want[x]
  BY <1>1 DEF AddColsOf
<1>6. /\ \A x \in DOMAIN q.cols : x \in DOMAIN n.adds \/ \E y \in DOMAIN left.cols : x = new(y)
      /\ DOMAIN n.adds \subseteq DOMAIN q.cols
      /\ \A x \in DOMAIN left.cols :
           new(x) \in DOMAIN q.cols /\ q.cols[new(x)] = Set(r.cols[x], n.sets, new(x))
      /\ \A x \in DOMAIN n.adds :
           (\A y \in DOMAIN left.cols : new(y) # x) => q.cols[x] = Set(Fresh(n.adds[x]), n.sets, x)
  <2>1. n.table \in DOMAIN base /\ r = base[n.table] /\ q = AlterResult(r, n)
    BY <1>1, <1>2
  <2>2. Altered(r, left, n, q)
    BY <1>2, <2>1, AlterFacts
  <2> QED BY <2>2 DEF Altered
<1>7. /\ WritesWanted(c, t, n.sets) /\ \A s \in n.sets : s.column \notin adds
      /\ \A x \in DOMAIN want \ adds :
           AlterActionsForColumn(x, old[from(x)], want[x]) \subseteq n.sets
  BY <1>1, SetsAre
<1>8. \A x \in DOMAIN want \ adds :
        from(x) \in DOMAIN r.cols /\ new(from(x)) = x /\ SameColumn(r.cols[from(x)], old[from(x)])
  BY <1>2, FromIs
<1>9. ASSUME NEW x \in DOMAIN want \ adds
      PROVE x \in DOMAIN q.cols /\ ColumnReached(q.cols[x], want[x])
  <2>1. /\ from(x) \in DOMAIN r.cols /\ new(from(x)) = x
        /\ SameColumn(r.cols[from(x)], old[from(x)])
    BY <1>8
  <2>2. q.cols[x] = Set(r.cols[from(x)], n.sets, x) /\ x \in DOMAIN q.cols
    BY <1>4, <1>6, <2>1
  <2>3. IsStored(r.cols[from(x)])
    BY <1>3, <2>1 DEF IsStoredTable
  <2>4. \A s \in n.sets : s.column = x => s.value = want[x][s.attr]
    BY <1>7 DEF WritesWanted
  <2>5. PICK col, b, w : col = r.cols[from(x)] /\ b = old[from(x)] /\ w = want[x]
    OBVIOUS
  <2>6. AlterActionsForColumn(x, b, w) \subseteq n.sets
    BY <1>7, <2>5
  <2>7. ColumnReached(q.cols[x], w)
    BY <2>1, <2>2, <2>3, <2>4, <2>5, <2>6, SetReaches
  <2> QED BY <2>2, <2>5, <2>7
<1>10. ASSUME NEW x \in adds
       PROVE /\ x \in DOMAIN q.cols /\ ColumnReached(q.cols[x], want[x])
             /\ q.cols[x].ref = want[x].ref /\ q.cols[x].hasDefault = want[x].hasDefault
  <2>1. \A y \in DOMAIN left.cols : new(y) # x
    <3> SUFFICES ASSUME NEW y \in DOMAIN left.cols, new(y) = x PROVE FALSE
      OBVIOUS
    <3>1. x \notin DOMAIN left.cols
      BY <1>1, <1>2, <1>5 DEF AlterAccepted
    <3>2. PICK m \in n.renames : m[1] = y
      BY <1>1, <1>2, <3>1, RenamedIs
    <3>3. x = m[2]
      BY <1>1, <3>2, RenamedIs
    <3> QED BY <1>1, <3>3 DEF AddsOf
  <2>2. q.cols[x] = Set(Fresh(want[x]), n.sets, x) /\ x \in DOMAIN q.cols
    BY <1>5, <1>6, <2>1
  <2>3. \A attr : ~Writes(n.sets, x, attr)
    BY <1>7 DEF Writes
  <2>4. PICK col : col = Fresh(want[x])
    OBVIOUS
  <2>5. IsStored(col)
    BY <2>4, StoredIsStored DEF Fresh
  <2>6. /\ col.type = want[x].type /\ col.notNull = want[x].notNull
        /\ col.hasDefault = want[x].hasDefault /\ col.ref = want[x].ref
    BY <2>4 DEF Fresh, Stored
  <2>7. \A s \in n.sets : s.column = x => s.value = want[x][s.attr]
    BY <1>7 DEF WritesWanted
  <2>8. PICK w : w = want[x]
    OBVIOUS
  <2>9. PICK p : p = q.cols[x]
    OBVIOUS
  <2>10. p = Set(col, n.sets, x)
    BY <2>2, <2>4, <2>9
  <2>11. \A s \in n.sets : s.column = x => s.value = w[s.attr]
    BY <2>7, <2>8
  <2>12. /\ p.ref = col.ref
         /\ p.type = IF Writes(n.sets, x, "type") THEN w.type ELSE col.type
         /\ p.notNull = IF Writes(n.sets, x, "notNull") THEN w.notNull ELSE col.notNull
         /\ p.hasDefault = IF Writes(n.sets, x, "hasDefault") THEN w.hasDefault ELSE col.hasDefault
    BY <2>5, <2>10, <2>11, SetIs
  <2>13. p.type = col.type /\ p.notNull = col.notNull /\ p.hasDefault = col.hasDefault
    BY <2>3, <2>12
  <2> QED BY <2>2, <2>6, <2>9, <2>12, <2>13 DEF ColumnReached
<1>11. ASSUME Allowed(c) PROVE DOMAIN q.cols \subseteq DOMAIN want
  <2>1. adds \subseteq DOMAIN want
    BY DEF AddsOf
  <2>2. ASSUME NEW x \in DOMAIN left.cols PROVE new(x) \in DOMAIN want
    <3>1. x \in DOMAIN old \ DropsOf(c, B, t)
      BY <1>2, <1>4, <1>11
    <3>2. CASE \E m \in n.renames : m[1] = x
      <4>1. PICK m \in n.renames : m[1] = x
        BY <3>2
      <4>2. new(x) = m[2]
        BY <1>1, <4>1, RenamedIs
      <4> QED BY <1>1, <4>2, RenamesAre
    <3>3. CASE \A m \in n.renames : m[1] # x
      <4>1. new(x) = x
        BY <3>3, RenamedIs
      <4>2. x \in DOMAIN want
        BY <1>1, <3>1, <3>3 DEF DropsOf
      <4> QED BY <4>1, <4>2
    <3> QED BY <3>2, <3>3
  <2> QED BY <1>5, <1>6, <2>1, <2>2
<1> QED BY <1>9, <1>10, <1>11 DEF ColumnsReached

\* What else an ALTER TABLE n of r leaves in q.
RestAltered(r, n, q) ==
  /\ q.comment = r.comment
  /\ DOMAIN q.idx \subseteq DOMAIN r.idx /\ AreIndexes(q.idx)
  /\ \A i \in DOMAIN r.idx :
       /\ IsIndex(r.idx[i]) /\ r.idx[i].cols \cap n.dropCols = {}
       /\ \A m \in n.renames : m[1] \notin r.idx[i].cols
       => i \in DOMAIN q.idx /\ q.idx[i] = r.idx[i]
  /\ \A k \in r.cons :
       /\ k.cols \cap n.dropCols = {} /\ k.name \notin n.dropCons
       /\ \A m \in n.renames : m[1] \notin k.cols
       => k \in q.cons
  /\ n.addCons \subseteq q.cons
  /\ ConsOK(n.addCons) => ConsOK(q.cons)

LEMMA MovedSame ==
  ASSUME NEW base, NEW n, AlterAccepted(base, n), NEW S, \A m \in n.renames : m[1] \notin S
  PROVE MovedBy(n.renames, S) = S
<1>1. \A x \in S : Renamed(n.renames, x) = x
  BY RenamedIs
<1> QED BY <1>1 DEF MovedBy

LEMMA IndexUpdate ==
  ASSUME NEW x, IsIndex(x), NEW v, v = x.cols
  PROVE [x EXCEPT !.cols = v] = x
BY DEF IsIndex

LEMMA AlterLeavesRest ==
  ASSUME NEW base, IsDatabase(base), NEW n, n.table \in DOMAIN base, AlterAccepted(base, n),
         NEW r, r = base[n.table], ConsOK(r.cons), NEW q, q = AlterResult(r, n)
  PROVE RestAltered(r, n, q)
<1> DEFINE moved(S) == MovedBy(n.renames, S)
<1>1. PICK left : left = Dropped(r, n)
  OBVIOUS
<1>2. IsStoredTable(r)
  BY DEF IsDatabase
<1>3. /\ left.cons = {k \in r.cons : k.cols \cap n.dropCols = {} /\ k.name \notin n.dropCons}
      /\ DOMAIN left.idx = {i \in DOMAIN r.idx : r.idx[i].cols \cap n.dropCols = {}}
  <2>1. DroppedFrom(r, n, left)
    BY <1>1, <1>2, DroppedFacts
  <2> QED BY <2>1 DEF DroppedFrom
<1>4. Altered(r, left, n, q)
  BY <1>1, AlterFacts
<1>5. /\ \A k \in left.cons : [k EXCEPT !.cols = moved(k.cols)] \in q.cons
      /\ \A m \in q.cons : m \in n.addCons \/ \E k \in left.cons : m = [k EXCEPT !.cols = moved(k.cols)]
      /\ n.addCons \subseteq q.cons
      /\ DOMAIN q.idx = DOMAIN left.idx /\ AreIndexes(q.idx)
      /\ \A i \in DOMAIN q.idx : q.idx[i] = [r.idx[i] EXCEPT !.cols = moved(r.idx[i].cols)]
      /\ q.comment = r.comment
  BY <1>4 DEF Altered
<1>6. ASSUME NEW i \in DOMAIN r.idx, IsIndex(r.idx[i]), r.idx[i].cols \cap n.dropCols = {},
             \A m \in n.renames : m[1] \notin r.idx[i].cols
      PROVE i \in DOMAIN q.idx /\ q.idx[i] = r.idx[i]
  <2>1. i \in DOMAIN q.idx
    BY <1>3, <1>5, <1>6
  <2>2. moved(r.idx[i].cols) = r.idx[i].cols
    BY <1>6, MovedSame
  <2>3. PICK v, x : v = moved(r.idx[i].cols) /\ x = r.idx[i]
    OBVIOUS
  <2>4. q.idx[i] = [x EXCEPT !.cols = v]
    BY <1>5, <2>1, <2>3
  <2> QED BY <1>6, <2>1, <2>2, <2>3, <2>4, IndexUpdate
<1> DEFINE new(k) == [k EXCEPT !.cols = moved(k.cols)]
<1>7. \A k \in left.cons : /\ IsConstraint(new(k)) /\ new(k).name = k.name
                           /\ (\A m \in n.renames : m[1] \notin k.cols) => new(k) = k
  <2> SUFFICES ASSUME NEW k \in left.cons
               PROVE /\ IsConstraint(new(k)) /\ new(k).name = k.name
                     /\ (\A m \in n.renames : m[1] \notin k.cols) => new(k) = k
    OBVIOUS
  <2>1. IsConstraint(k)
    BY <1>3 DEF ConsOK
  <2>2. PICK v, m : v = moved(k.cols) /\ m = [k EXCEPT !.cols = v]
    OBVIOUS
  <2>3. IsConstraint(m) /\ m.name = k.name /\ (v = k.cols => m = k)
    BY <2>1, <2>2, ColsUpdate
  <2>4. (\A p \in n.renames : p[1] \notin k.cols) => v = k.cols
    BY <2>2, MovedSame
  <2> QED BY <2>2, <2>3, <2>4
<1>8. /\ \A k \in left.cons : new(k) \in q.cons
      /\ \A m \in q.cons : m \in n.addCons \/ \E k \in left.cons : m = new(k)
  BY <1>5
<1> HIDE DEF new
<1>9. ASSUME NEW k \in r.cons, k.cols \cap n.dropCols = {}, k.name \notin n.dropCons,
             \A m \in n.renames : m[1] \notin k.cols
      PROVE k \in q.cons
  <2>1. k \in left.cons
    BY <1>3, <1>9
  <2> QED BY <1>7, <1>8, <1>9, <2>1
<1>10. ASSUME ConsOK(n.addCons) PROVE ConsOK(q.cons)
  <2>1. \A k \in n.addCons : k.name = None \/ \A m \in left.cons : m.name # k.name
    <3>1. \A k \in n.addCons : k.name = None \/ k.name \notin {m.name : m \in left.cons}
      BY <1>1 DEF AlterAccepted
    <3> QED BY <3>1
  <2>2. ASSUME NEW k \in q.cons, NEW m \in q.cons, k.name = m.name, k.name # None PROVE k = m
    <3>1. CASE k \in n.addCons /\ m \in n.addCons
      BY <1>10, <2>2, <3>1 DEF ConsOK
    <3>2. ASSUME NEW x \in left.cons, k = new(x), m \in n.addCons PROVE FALSE
      BY <1>7, <2>1, <2>2, <3>2
    <3>3. ASSUME NEW x \in left.cons, m = new(x), k \in n.addCons PROVE FALSE
      BY <1>7, <2>1, <2>2, <3>3
    <3>4. ASSUME NEW x \in left.cons, NEW y \in left.cons, k = new(x), m = new(y) PROVE k = m
      <4>1. x.name = y.name /\ x.name # None
        BY <1>7, <2>2, <3>4
      <4>2. x \in r.cons /\ y \in r.cons
        BY <1>3
      <4> QED BY <3>4, <4>1, <4>2 DEF ConsOK
    <3> QED BY <1>8, <3>1, <3>2, <3>3, <3>4
  <2>3. \A k \in q.cons : IsConstraint(k)
    BY <1>7, <1>8, <1>10 DEF ConsOK
  <2> QED BY <2>2, <2>3 DEF ConsOK
<1>11. DOMAIN q.idx \subseteq DOMAIN r.idx
  BY <1>3, <1>5
<1> QED BY <1>5, <1>6, <1>9, <1>10, <1>11 DEF RestAltered

TableAltered(base, n, next) ==
  /\ n.table \in DOMAIN base /\ AlterAccepted(base, n) /\ DOMAIN next = DOMAIN base
  /\ next[n.table] = AlterResult(base[n.table], n)
  /\ \A t \in DOMAIN base \ {n.table} : next[t] = base[t]

LEMMA AlterEffect ==
  ASSUME NEW base, NEW n, n.type = "alter_table", Accepts(base, n),
         NEW next, next = After(base, n)
  PROVE TableAltered(base, n, next)
<1>1. n.table \in DOMAIN base /\ AlterAccepted(base, n)
  BY DEF Accepts
<1>2. PICK q : q = AlterResult(base[n.table], n)
  OBVIOUS
<1>3. next = [base EXCEPT ![n.table] = q]
  BY <1>2 DEF After
<1> QED BY <1>1, <1>2, <1>3 DEF TableAltered

\* The one that drops leaves the other columns as they are.
ColumnsDropped(c, B, t, r, q) ==
  /\ DOMAIN q.cols = DOMAIN r.cols \ DropsOf(c, B, t)
  /\ \A x \in DOMAIN q.cols : SameColumn(q.cols[x], r.cols[x]) /\ q.cols[x].ref = r.cols[x].ref

LEMMA DropsColumns ==
  ASSUME NEW c, NEW B, NEW t, NEW base, IsDatabase(base), t \in DOMAIN base,
         NEW n, n = DropAlter(c, B, t), AlterAccepted(base, n),
         NEW q, q = AlterResult(base[t], n)
  PROVE ColumnsDropped(c, B, t, base[t], q)
<1>1. /\ n.table = t /\ n.dropCols = DropsOf(c, B, t) /\ n.renames = {} /\ n.adds = NoColumns
      /\ n.sets = {}
  BY DropAlterFields
<1>2. PICK r, left : r = base[t] /\ left = Dropped(r, n)
  OBVIOUS
<1>3. IsStoredTable(r)
  BY <1>2 DEF IsDatabase
<1>4. DOMAIN left.cols = DOMAIN r.cols \ n.dropCols
  <2>1. DroppedFrom(r, n, left)
    BY <1>2, <1>3, DroppedFacts
  <2> QED BY <2>1 DEF DroppedFrom
<1>5. n.table \in DOMAIN base /\ r = base[n.table] /\ q = AlterResult(r, n)
  BY <1>1, <1>2
<1>6. Altered(r, left, n, q)
  BY <1>2, <1>5, AlterFacts
<1>7. \A x : Renamed(n.renames, x) = x
  BY <1>1 DEF Renamed
<1>8. DOMAIN n.adds = {}
  BY <1>1 DEF NoColumns
<1>9. DOMAIN q.cols = DOMAIN left.cols /\ \A x \in DOMAIN left.cols : q.cols[x] = Set(r.cols[x], n.sets, x)
  <2>1. /\ \A x \in DOMAIN q.cols :
             x \in DOMAIN n.adds \/ \E y \in DOMAIN left.cols : x = Renamed(n.renames, y)
        /\ \A x \in DOMAIN left.cols :
             /\ Renamed(n.renames, x) \in DOMAIN q.cols
             /\ q.cols[Renamed(n.renames, x)] = Set(r.cols[x], n.sets, Renamed(n.renames, x))
    BY <1>6 DEF Altered
  <2>2. \A x \in DOMAIN q.cols : x \in DOMAIN left.cols
    BY <1>7, <1>8, <2>1
  <2>3. \A x \in DOMAIN left.cols :
          x \in DOMAIN q.cols /\ q.cols[x] = Set(r.cols[x], n.sets, x)
    BY <1>7, <2>1
  <2> QED BY <2>2, <2>3
<1>10. ASSUME NEW x \in DOMAIN q.cols
       PROVE SameColumn(q.cols[x], r.cols[x]) /\ q.cols[x].ref = r.cols[x].ref
  <2>1. PICK col, p, want : col = r.cols[x] /\ p = q.cols[x] /\ want = col
    OBVIOUS
  <2>2. IsStored(col) /\ p = Set(col, n.sets, x)
    BY <1>3, <1>4, <1>9, <2>1 DEF IsStoredTable
  <2>3. \A s \in n.sets : s.column = x => s.value = want[s.attr]
    BY <1>1
  <2>4. p.ref = col.ref /\ p.type = col.type /\ p.notNull = col.notNull /\ p.hasDefault = col.hasDefault
    BY <2>1, <2>2, <2>3, SetIs
  <2> QED BY <2>1, <2>4 DEF SameColumn
<1> QED BY <1>1, <1>2, <1>4, <1>9, <1>10 DEF ColumnsDropped

-----------------------------------------------------------------------------
(* A database stays one that a server can have *)

LEMMA RealSchemaIs ==
  ASSUME NEW s
  PROVE RealSchema(s) <=>
          /\ \A t \in DOMAIN s : ConsOK(s[t].cons) /\ AreIndexes(s[t].idx)
          /\ \A t, u \in DOMAIN s : t # u => DOMAIN s[t].idx \cap DOMAIN s[u].idx = {}
BY DEF RealSchema, NamesUnique, ConsOK

LEMMA RealBaseKept ==
  ASSUME NEW c, RealSchema(c.after), NEW B, NEW n, NodeOK(c, B, n),
         NEW base, IsDatabase(base), RealBase(c, base), Accepts(base, n),
         NEW next, next = After(base, n)
  PROVE RealBase(c, next)
<1> DEFINE names == DOMAIN c.before \cup DOMAIN c.after
<1>1. /\ \A t \in DOMAIN base : ConsOK(base[t].cons) /\ AreIndexes(base[t].idx)
      /\ \A t, u \in DOMAIN base : t # u => DOMAIN base[t].idx \cap DOMAIN base[u].idx = {}
      /\ DOMAIN base \subseteq names
  BY RealSchemaIs DEF RealBase
<1> SUFFICES /\ \A t \in DOMAIN next : ConsOK(next[t].cons) /\ AreIndexes(next[t].idx)
             /\ \A t, u \in DOMAIN next : t # u => DOMAIN next[t].idx \cap DOMAIN next[u].idx = {}
             /\ DOMAIN next \subseteq names
  BY RealSchemaIs DEF RealBase
<1> HIDE DEF names
<1>2. CASE n.type = "drop_index"
  <2>1. /\ DOMAIN next = DOMAIN base
        /\ \A t \in DOMAIN base :
             /\ next[t].cons = base[t].cons
             /\ DOMAIN next[t].idx = DOMAIN base[t].idx \ {n.index} /\ AreIndexes(next[t].idx)
    <3>1. IndexDropped(base, n, next)
      BY <1>2, DropIndexEffect
    <3> QED BY <3>1 DEF IndexDropped
  <2> QED BY <1>1, <2>1
<1>3. CASE n.type = "drop_table"
  <2>1. DOMAIN next = DOMAIN base \ {n.table} /\ \A t \in DOMAIN next : next[t] = base[t]
    <3>1. TableDropped(base, n, next)
      BY <1>3, DropTableEffect
    <3> QED BY <3>1 DEF TableDropped
  <2> QED BY <1>1, <2>1
<1>4. CASE n.type = "rename_table"
  <2> DEFINE from(t) == IF t = n.to THEN n.table ELSE t
  <2>1. /\ DOMAIN next = (DOMAIN base \ {n.table}) \cup {n.to}
        /\ n.table \in DOMAIN base /\ n.to \notin DOMAIN base
        /\ next[n.to] = Follow(base[n.table], n.table, n.to)
        /\ \A t \in DOMAIN base \ {n.table} : next[t] = Follow(base[t], n.table, n.to)
    <3>1. TableRenamed(base, n, next)
      BY <1>4, RenameEffect
    <3> QED BY <3>1 DEF TableRenamed
  <2>2. \A t \in DOMAIN next : from(t) \in DOMAIN base /\ next[t] = Follow(base[from(t)], n.table, n.to)
    BY <2>1
  <2>3. \A t, u \in DOMAIN next : t # u => from(t) # from(u)
    BY <2>1
  <2> HIDE DEF from
  <2>4. ASSUME NEW t \in DOMAIN next
        PROVE ConsOK(next[t].cons) /\ next[t].idx = base[from(t)].idx
    <3>1. PICK r : r = base[from(t)]
      OBVIOUS
    <3>2. IsStoredTable(r) /\ ConsOK(r.cons)
      BY <1>1, <2>2, <3>1 DEF IsDatabase
    <3>3. next[t] = Follow(r, n.table, n.to)
      BY <2>2, <3>1
    <3>4. next[t].idx = r.idx
      BY <3>2, <3>3, FollowFacts
    <3>5. ConsOK(next[t].cons)
      BY <3>2, <3>3, FollowCons
    <3> QED BY <3>1, <3>4, <3>5
  <2>5. n.to \in names
    <3>1. n.to = Target(c, n.table) /\ Target(c, n.table) # n.table
      BY <1>4 DEF NodeOK
    <3> QED BY <3>1, Targets DEF names
  <2> QED BY <1>1, <2>1, <2>2, <2>3, <2>4, <2>5
<1>5. CASE n.type = "create_table"
  <2>1. n.table \in DOMAIN c.after /\ n.cons = c.after[n.table].cons
    BY <1>5 DEF NodeOK, AddedOf
  <2>2. ConsOK(n.cons)
    BY <2>1, RealSchemaIs
  <2>3. /\ DOMAIN next = DOMAIN base \cup {n.table}
        /\ \A t \in DOMAIN base : next[t] = base[t]
        /\ next[n.table].cons = n.cons
        /\ DOMAIN next[n.table].idx = {} /\ AreIndexes(next[n.table].idx)
    <3>1. TableCreated(base, n, next)
      BY <1>5, CreateEffect
    <3> QED BY <3>1 DEF TableCreated
  <2> QED BY <1>1, <2>1, <2>2, <2>3 DEF names
<1>6. CASE n.type = "create_index"
  <2>1. /\ DOMAIN next = DOMAIN base /\ n.table \in DOMAIN base
        /\ n.index \notin IndexNames(base)
        /\ \A t \in DOMAIN base \ {n.table} : next[t] = base[t]
        /\ next[n.table].cons = base[n.table].cons
        /\ DOMAIN next[n.table].idx = DOMAIN base[n.table].idx \cup {n.index}
        /\ AreIndexes(next[n.table].idx)
    <3>1. IndexCreated(base, n, next)
      BY <1>6, CreateIndexEffect
    <3> QED BY <3>1 DEF IndexCreated
  <2>2. \A t \in DOMAIN base : n.index \notin DOMAIN base[t].idx
    BY <2>1 DEF IndexNames
  <2> QED BY <1>1, <2>1, <2>2
<1>7. CASE n.type = "comment_on"
  <2>1. /\ DOMAIN next = DOMAIN base /\ n.table \in DOMAIN base
        /\ \A t \in DOMAIN base \ {n.table} : next[t] = base[t]
        /\ next[n.table].cons = base[n.table].cons /\ next[n.table].idx = base[n.table].idx
    <3>1. Commented(base, n, next)
      BY <1>7, CommentEffect
    <3> QED BY <3>1 DEF Commented
  <2> QED BY <1>1, <2>1
<1>8. CASE n.type = "alter_table"
  <2>1. /\ n.table \in DOMAIN base /\ AlterAccepted(base, n) /\ DOMAIN next = DOMAIN base
        /\ next[n.table] = AlterResult(base[n.table], n)
        /\ \A t \in DOMAIN base \ {n.table} : next[t] = base[t]
    <3>1. TableAltered(base, n, next)
      BY <1>8, AlterEffect
    <3> QED BY <3>1 DEF TableAltered
  <2>2. PICK r, q : r = base[n.table] /\ q = next[n.table]
    OBVIOUS
  <2>3. RestAltered(r, n, q)
    BY <1>1, <2>1, <2>2, AlterLeavesRest
  <2>4. ConsOK(n.addCons)
    <3>1. n.table \in DOMAIN c.after
      BY <1>8 DEF NodeOK, SharedOf
    <3>2. n.addCons \subseteq c.after[n.table].cons
      <4>1. n = DropAlter(c, B, n.table) \/ n = AddAlter(c, B, n.table)
        BY <1>8 DEF NodeOK
      <4>2. n.addCons = {} \/ n.addCons = AddConsOf(c, B, n.table)
        BY <4>1, DropAlterFields, AddAlterFields
      <4> QED BY <4>2 DEF AddConsOf, Without
    <3>3. ConsOK(c.after[n.table].cons)
      BY <3>1, RealSchemaIs
    <3> QED BY <3>2, <3>3 DEF ConsOK
  <2>5. ConsOK(q.cons) /\ DOMAIN q.idx \subseteq DOMAIN r.idx /\ AreIndexes(q.idx)
    BY <2>3, <2>4 DEF RestAltered
  <2> QED BY <1>1, <2>1, <2>2, <2>5
<1>9. n.type \in NodeTypes
  BY DEF NodeOK
<1> QED BY <1>2, <1>3, <1>4, <1>5, <1>6, <1>7, <1>8, <1>9 DEF NodeTypes

-----------------------------------------------------------------------------
(* A step of a migration *)

\* n is the next of the steps R that are left of a plan from the schema B.
Stepping(c, B, P, R, n, base, next) ==
  /\ RealChange(c) /\ RealBase(c, B) /\ RealBase(c, base) /\ IsDatabase(base)
  /\ \A m \in P : NodeOK(c, B, m)
  /\ R \subseteq P /\ n \in Firsts(R)
  /\ Accepts(base, n) /\ next = After(base, n)

LEMMA GroupsAre ==
  ASSUME NEW c, NEW B, NEW n, NodeOK(c, B, n)
  PROVE /\ n.type \in NodeTypes
        /\ n.type = "drop_index" => Group(n) \in {1, 3}
        /\ n.type = "drop_table" => Group(n) = 2
        /\ n.type = "rename_table" => Group(n) = 4
        /\ n.type = "create_table" => Group(n) = 5
        /\ n.type = "create_index" => Group(n) \in {6, 8}
        /\ n.type = "comment_on" => Group(n) \in {7, 8}
        /\ n.type = "alter_table" =>
             Group(n) = IF n = DropAlter(c, B, n.table) THEN 3 ELSE 8
<1>1. ASSUME n.type = "rename_table" PROVE Group(n) = 4
  <2>1. n.at = <<4, Rank(c.order, n.table), 1>>
    <3>1. PICK at, to : n = [at |-> at, type |-> "rename_table", table |-> n.table, to |-> to]
                        /\ at = <<4, Rank(c.order, n.table), 1>>
      BY <1>1 DEF NodeOK
    <3>2. n.at = at
      BY <3>1
    <3> QED BY <3>1, <3>2
  <2> QED BY <2>1 DEF Group
<1>2. ASSUME n.type = "alter_table"
      PROVE Group(n) = IF n = DropAlter(c, B, n.table) THEN 3 ELSE 8
  BY <1>2, AlterTypes DEF NodeOK
<1> QED BY <1>1, <1>2 DEF NodeOK

\* A rename is the only one of its table in a plan.
LEMMA RenameIs ==
  ASSUME NEW c, NEW B, NEW n, NodeOK(c, B, n), n.type = "rename_table",
         NEW m, NodeOK(c, B, m), m.type = "rename_table", m.table = n.table
  PROVE m = n /\ n.table \in DOMAIN B /\ n.to = Target(c, n.table) /\ n.to # n.table
<1> DEFINE rename(t) == [at |-> <<4, Rank(c.order, t), 1>>, type |-> "rename_table",
                         table |-> t, to |-> Target(c, t)]
<1>1. /\ n = rename(n.table) /\ m = rename(m.table)
      /\ n.table \in DOMAIN B /\ Target(c, n.table) # n.table
  BY DEF NodeOK
<1>2. \A t : rename(t).to = Target(c, t)
  OBVIOUS
<1> HIDE DEF rename
<1> QED BY <1>1, <1>2

\* The next step is of the first group that is left.
LEMMA FirstGroup ==
  ASSUME NEW R, NEW n \in Firsts(R), NEW m \in R
  PROVE ~(Group(m) < Group(n))
BY DEF Firsts, Earlier, Group

\* What is left after a step.
LEMMA LeftAfter ==
  ASSUME NEW R, NEW n
  PROVE /\ \A s : n.type # "rename_table" \/ n.table # s => (Renames(R \ {n}, s) <=> Renames(R, s))
        /\ \A t : n.type # "create_table" \/ n.table # t => (Creates(R \ {n}, t) <=> Creates(R, t))
        /\ \A t : n.type # "drop_table" \/ n.table # t => (DropsTable(R \ {n}, t) <=> DropsTable(R, t))
        /\ \A t, i : n.type # "create_index" \/ n.table # t \/ n.index # i =>
                       (CreatesIndex(R \ {n}, t, i) <=> CreatesIndex(R, t, i))
        /\ \A i : n.type # "drop_index" \/ n.index # i => (DropsIndex(R \ {n}, i) <=> DropsIndex(R, i))
        /\ \A t : n.type # "comment_on" \/ n.table # t \/ n.column # None =>
                    (Comments(R \ {n}, t) <=> Comments(R, t))
        /\ \A g, t : n.type # "alter_table" \/ n.table # t \/ Group(n) # g =>
                       (Alters(R \ {n}, g, t) <=> Alters(R, g, t))
<1>1. \A s : n.type # "rename_table" \/ n.table # s => (Renames(R \ {n}, s) <=> Renames(R, s))
  BY DEF Renames
<1>2. \A t : n.type # "create_table" \/ n.table # t => (Creates(R \ {n}, t) <=> Creates(R, t))
  BY DEF Creates
<1>3. \A t : n.type # "drop_table" \/ n.table # t => (DropsTable(R \ {n}, t) <=> DropsTable(R, t))
  BY DEF DropsTable
<1>4. \A t, i : n.type # "create_index" \/ n.table # t \/ n.index # i =>
                  (CreatesIndex(R \ {n}, t, i) <=> CreatesIndex(R, t, i))
  BY DEF CreatesIndex
<1>5. \A i : n.type # "drop_index" \/ n.index # i => (DropsIndex(R \ {n}, i) <=> DropsIndex(R, i))
  BY DEF DropsIndex
<1>6. \A t : n.type # "comment_on" \/ n.table # t \/ n.column # None =>
               (Comments(R \ {n}, t) <=> Comments(R, t))
  BY DEF Comments
<1>7. \A g, t : n.type # "alter_table" \/ n.table # t \/ Group(n) # g =>
                  (Alters(R \ {n}, g, t) <=> Alters(R, g, t))
  BY DEF Alters
<1> QED BY <1>1, <1>2, <1>3, <1>4, <1>5, <1>6, <1>7

\* Names of the new schema, which no table is renamed from.
NewNames(c) == DOMAIN c.after \cup {None}

LEMMA RenamedFrom ==
  ASSUME NEW c, NEW B, NEW P, NEW R, NEW n, NEW base, NEW next,
         Stepping(c, B, P, R, n, base, next), n.type = "rename_table"
  PROVE /\ n.table \notin NewNames(c) /\ n.to = Target(c, n.table) /\ n.to # n.table
        /\ n.table \in DOMAIN B /\ n.to \in DOMAIN c.after
<1>1. NodeOK(c, B, n)
  BY DEF Stepping, Firsts
<1>2. n.table \in DOMAIN B /\ n.to = Target(c, n.table) /\ n.to # n.table
  BY <1>1, RenameIs
<1>3. n.table \notin DOMAIN c.after /\ n.to \in DOMAIN c.after
  BY <1>2, Targets
<1>4. n.table \in Tables
  <2>1. n.table \in {c.order[i] : i \in DOMAIN c.order} /\ c.order \in Seq(Tables)
    BY <1>2 DEF Stepping, RealBase, RealChange
  <2>2. PICK i \in DOMAIN c.order : n.table = c.order[i]
    BY <2>1
  <2> QED BY <2>1, <2>2
<1> QED BY <1>2, <1>3, <1>4, SchemaAssumption DEF NewNames

\* A table X that a step leaves as Y, unless it is altered: foreign keys to
\* tables of the new schema stay.
KeepsTable(c, X, Y) ==
  /\ DOMAIN Y.cols = DOMAIN X.cols
  /\ \A x \in DOMAIN X.cols :
       /\ SameColumn(Y.cols[x], X.cols[x])
       /\ X.cols[x].ref \in NewNames(c) => Y.cols[x].ref = X.cols[x].ref
  /\ \A k \in X.cons : k.ref \in NewNames(c) => k \in Y.cons

Goes(n, p) == IF n.type = "rename_table" /\ n.table = p THEN n.to ELSE p

Leaves(c, n, p, X, Y) ==
  /\ KeepsTable(c, X, Y)
  /\ n.type # "drop_index" => DOMAIN X.idx \subseteq DOMAIN Y.idx
  /\ n.type = "drop_index" => DOMAIN Y.idx = DOMAIN X.idx \ {n.index}
  /\ \A i \in DOMAIN X.idx \cap DOMAIN Y.idx : Y.idx[i] = X.idx[i]
  /\ \A i \in DOMAIN Y.idx \ DOMAIN X.idx : n.type = "create_index" /\ n.table = p /\ n.index = i
  /\ n.type = "create_index" /\ n.table = p =>
       n.index \in DOMAIN Y.idx \ DOMAIN X.idx /\ Y.idx[n.index] = n.def
  /\ Y.comment = IF n.type = "comment_on" /\ n.table = p /\ n.column = None
                 THEN n.comment ELSE X.comment

LEMMA StatementLeaves ==
  ASSUME NEW c, NEW B, NEW P, NEW R, NEW n, NEW base, NEW next,
         Stepping(c, B, P, R, n, base, next), n.type # "alter_table",
         NEW p \in DOMAIN base, n.type = "drop_table" => n.table # p
  PROVE Goes(n, p) \in DOMAIN next /\ Leaves(c, n, p, base[p], next[Goes(n, p)])
<1> USE DEF Stepping
<1>1. n.type \in NodeTypes
  BY GroupsAre DEF Firsts
<1>2. PICK X, Y : X = base[p] /\ Y = next[Goes(n, p)]
  OBVIOUS
<1>3. CASE n.type = "drop_index"
  <2>1. IndexDropped(base, n, next)
    BY <1>3, DropIndexEffect
  <2>2. /\ Y.cols = X.cols /\ Y.cons = X.cons /\ Y.comment = X.comment
        /\ DOMAIN Y.idx = DOMAIN X.idx \ {n.index} /\ \A i \in DOMAIN Y.idx : Y.idx[i] = X.idx[i]
    BY <1>2, <1>3, <2>1 DEF IndexDropped, Goes
  <2>3. KeepsTable(c, X, Y)
    BY <2>2 DEF KeepsTable, SameColumn
  <2>4. p \in DOMAIN next
    BY <2>1 DEF IndexDropped
  <2> QED BY <1>2, <1>3, <2>2, <2>3, <2>4 DEF Leaves, Goes
<1>4. CASE n.type \in {"drop_table", "create_table"}
  <2>1. p \in DOMAIN next /\ next[p] = base[p]
    <3>1. CASE n.type = "drop_table"
      <4>1. TableDropped(base, n, next)
        BY <3>1, DropTableEffect
      <4> QED BY <3>1, <4>1 DEF TableDropped
    <3>2. CASE n.type = "create_table"
      <4>1. TableCreated(base, n, next)
        BY <3>2, CreateEffect
      <4> QED BY <3>2, <4>1 DEF TableCreated
    <3> QED BY <1>4, <3>1, <3>2
  <2>2. Y = X /\ KeepsTable(c, X, Y)
    BY <1>2, <1>4, <2>1 DEF KeepsTable, SameColumn, Goes
  <2> QED BY <1>2, <1>4, <2>1, <2>2 DEF Leaves, Goes
<1>5. CASE n.type = "rename_table"
  <2>1. TableRenamed(base, n, next)
    BY <1>5, RenameEffect
  <2>2. Y = Follow(X, n.table, n.to) /\ Goes(n, p) \in DOMAIN next
    BY <1>2, <1>5, <2>1 DEF TableRenamed, Goes
  <2>3. IsStoredTable(X) /\ ConsOK(X.cons)
    BY <1>2, RealSchemaIs DEF IsDatabase, RealBase
  <2>4. /\ DOMAIN Y.cols = DOMAIN X.cols
        /\ \A x \in DOMAIN X.cols :
             /\ SameColumn(Y.cols[x], X.cols[x])
             /\ X.cols[x].ref # n.table => Y.cols[x].ref = X.cols[x].ref
        /\ Y.idx = X.idx /\ Y.comment = X.comment
    BY <2>2, <2>3, FollowFacts
  <2>5. \A k \in X.cons : k.ref # n.table => k \in Y.cons
    BY <2>2, <2>3, FollowCons
  <2>6. n.table \notin NewNames(c)
    BY <1>5, RenamedFrom
  <2>7. KeepsTable(c, X, Y)
    BY <2>4, <2>5, <2>6 DEF KeepsTable
  <2> QED BY <1>2, <1>5, <2>2, <2>4, <2>7 DEF Leaves
<1>6. CASE n.type = "create_index"
  <2>1. IndexCreated(base, n, next)
    BY <1>6, CreateIndexEffect
  <2>2. p \in DOMAIN next /\ Goes(n, p) = p
    BY <1>6, <2>1 DEF IndexCreated, Goes
  <2>3. CASE n.table = p
    <3>1. /\ Y.cols = X.cols /\ Y.cons = X.cons /\ Y.comment = X.comment
          /\ DOMAIN Y.idx = DOMAIN X.idx \cup {n.index} /\ Y.idx[n.index] = n.def
          /\ \A i \in DOMAIN X.idx : Y.idx[i] = X.idx[i]
          /\ n.index \notin IndexNames(base)
      BY <1>2, <2>1, <2>2, <2>3 DEF IndexCreated
    <3>2. KeepsTable(c, X, Y) /\ n.index \notin DOMAIN X.idx
      BY <1>2, <3>1 DEF KeepsTable, SameColumn, IndexNames
    <3> QED BY <1>2, <1>6, <2>2, <2>3, <3>1, <3>2 DEF Leaves
  <2>4. CASE n.table # p
    <3>1. Y = X
      BY <1>2, <2>1, <2>2, <2>4 DEF IndexCreated
    <3>2. KeepsTable(c, X, Y)
      BY <3>1 DEF KeepsTable, SameColumn
    <3> QED BY <1>2, <1>6, <2>2, <2>4, <3>1, <3>2 DEF Leaves
  <2> QED BY <2>3, <2>4
<1>7. CASE n.type = "comment_on"
  <2>1. Commented(base, n, next)
    BY <1>7, CommentEffect
  <2>2. p \in DOMAIN next /\ Goes(n, p) = p
    BY <1>7, <2>1 DEF Commented, Goes
  <2>3. CASE n.table = p
    <3>1. /\ DOMAIN Y.cols = DOMAIN X.cols
          /\ \A x \in DOMAIN X.cols : SameColumn(Y.cols[x], X.cols[x]) /\ Y.cols[x].ref = X.cols[x].ref
          /\ Y.cons = X.cons /\ Y.idx = X.idx
          /\ Y.comment = IF n.column = None THEN n.comment ELSE X.comment
      BY <1>2, <2>1, <2>2, <2>3 DEF Commented
    <3>2. KeepsTable(c, X, Y)
      BY <3>1 DEF KeepsTable
    <3> QED BY <1>2, <1>7, <2>2, <2>3, <3>1, <3>2 DEF Leaves
  <2>4. CASE n.table # p
    <3>1. Y = X
      BY <1>2, <2>1, <2>2, <2>4 DEF Commented
    <3>2. KeepsTable(c, X, Y)
      BY <3>1 DEF KeepsTable, SameColumn
    <3> QED BY <1>2, <1>7, <2>2, <2>4, <3>1, <3>2 DEF Leaves
  <2> QED BY <2>3, <2>4
<1> QED BY <1>1, <1>3, <1>4, <1>5, <1>6, <1>7 DEF NodeTypes

-----------------------------------------------------------------------------
(* What is claimed of a table stays true under a step that alters no table *)

LEMMA ColumnsKept ==
  ASSUME NEW c, RealChange(c), NEW t \in DOMAIN c.after, NEW new, new \subseteq DOMAIN c.after[t].cols,
         NEW X, ColumnsReached(c, t, new, X), NEW Y, KeepsTable(c, X, Y)
  PROVE ColumnsReached(c, t, new, Y)
<1> DEFINE want == c.after[t].cols
<1>1. \A x \in DOMAIN want : want[x].ref \in NewNames(c)
  BY DEF RealChange, SelfContained, Refs, NewNames
<1>2. /\ DOMAIN want \subseteq DOMAIN X.cols /\ (Allowed(c) => DOMAIN X.cols = DOMAIN want)
      /\ \A x \in DOMAIN want : ColumnReached(X.cols[x], want[x])
      /\ \A x \in new : X.cols[x].ref = want[x].ref /\ X.cols[x].hasDefault = want[x].hasDefault
  BY DEF ColumnsReached
<1>3. /\ DOMAIN Y.cols = DOMAIN X.cols
      /\ \A x \in DOMAIN X.cols :
           /\ SameColumn(Y.cols[x], X.cols[x])
           /\ X.cols[x].ref \in NewNames(c) => Y.cols[x].ref = X.cols[x].ref
  BY DEF KeepsTable
<1>4. \A x \in DOMAIN want : ColumnReached(Y.cols[x], want[x])
  <2> SUFFICES ASSUME NEW x \in DOMAIN want PROVE ColumnReached(Y.cols[x], want[x])
    OBVIOUS
  <2>1. SameColumn(Y.cols[x], X.cols[x]) /\ ColumnReached(X.cols[x], want[x])
    BY <1>2, <1>3
  <2>2. PICK p, q, w : p = Y.cols[x] /\ q = X.cols[x] /\ w = want[x]
    OBVIOUS
  <2>3. p.type = q.type /\ p.notNull = q.notNull /\ p.hasDefault = q.hasDefault
    BY <2>1, <2>2 DEF SameColumn
  <2>4. q.type = w.type /\ q.notNull = w.notNull /\ (~w.hasDefault => ~q.hasDefault)
    BY <2>1, <2>2 DEF ColumnReached
  <2> QED BY <2>2, <2>3, <2>4 DEF ColumnReached
<1>5. \A x \in new : Y.cols[x].ref = want[x].ref /\ Y.cols[x].hasDefault = want[x].hasDefault
  <2> SUFFICES ASSUME NEW x \in new
               PROVE Y.cols[x].ref = want[x].ref /\ Y.cols[x].hasDefault = want[x].hasDefault
    OBVIOUS
  <2>1. /\ X.cols[x].ref = want[x].ref /\ X.cols[x].hasDefault = want[x].hasDefault
        /\ x \in DOMAIN X.cols /\ want[x].ref \in NewNames(c)
    BY <1>1, <1>2
  <2>2. SameColumn(Y.cols[x], X.cols[x]) /\ Y.cols[x].ref = X.cols[x].ref
    BY <1>3, <2>1
  <2> QED BY <2>1, <2>2 DEF SameColumn
<1> QED BY <1>2, <1>3, <1>4, <1>5 DEF ColumnsReached

LEMMA ConstraintsKept ==
  ASSUME NEW c, RealChange(c), NEW t \in DOMAIN c.after,
         NEW k \in c.after[t].cons, NEW X, k \in X.cons, NEW Y, KeepsTable(c, X, Y)
  PROVE k \in Y.cons
<1>1. k.ref \in NewNames(c)
  BY DEF RealChange, SelfContained, Refs, NewNames
<1> QED BY <1>1 DEF KeepsTable

\* Indexes and the comment, for a table in its place under the new name t.
LEMMA IndexesKept ==
  ASSUME NEW c, NEW B, NEW P, NEW R, NEW n, NEW base, NEW next,
         Stepping(c, B, P, R, n, base, next),
         NEW t \in DOMAIN c.after, NEW p, NEW X, NEW Y, Leaves(c, n, p, X, Y),
         n.type = "create_index" /\ (n.table = p \/ n.table = t) => p = t,
         IndexesOK(c, R, t, X)
  PROVE IndexesOK(c, R \ {n}, t, Y)
<1> DEFINE want == c.after[t].idx
<1>1. NodeOK(c, B, n) /\ n \in R /\ R \subseteq P
  BY DEF Stepping, Firsts
<1>2. ASSUME n.type = "create_index" PROVE \A i : ~DropsIndex(R, i)
  <2>1. ASSUME NEW m \in R, m.type = "drop_index" PROVE FALSE
    <3>1. Group(m) \in {1, 3} /\ Group(n) \in {6, 8}
      BY <1>1, <1>2, <2>1, GroupsAre DEF Stepping
    <3>2. ~(Group(m) < Group(n))
      BY FirstGroup DEF Stepping
    <3> QED BY <3>1, <3>2
  <2> QED BY <2>1 DEF DropsIndex
<1>3. ASSUME NEW i \in DOMAIN want
      PROVE \/ CreatesIndex(R \ {n}, t, i)
            \/ i \in DOMAIN Y.idx /\ Y.idx[i] = want[i] /\ ~DropsIndex(R \ {n}, i)
  <2>1. CASE n.type = "create_index" /\ n.table = t /\ n.index = i
    <3>1. n.def = want[i]
      BY <1>1, <2>1 DEF NodeOK
    <3>2. i \in DOMAIN Y.idx /\ Y.idx[i] = want[i]
      BY <2>1, <3>1 DEF Leaves
    <3>3. ~DropsIndex(R \ {n}, i)
      BY <1>2, <2>1 DEF DropsIndex
    <3> QED BY <3>2, <3>3
  <2>2. CASE ~(n.type = "create_index" /\ n.table = t /\ n.index = i)
    <3>1. CreatesIndex(R, t, i) => CreatesIndex(R \ {n}, t, i)
      BY <2>2, LeftAfter
    <3>2. ASSUME i \in DOMAIN X.idx, X.idx[i] = want[i], ~DropsIndex(R, i)
          PROVE i \in DOMAIN Y.idx /\ Y.idx[i] = want[i] /\ ~DropsIndex(R \ {n}, i)
      <4>1. ~(n.type = "drop_index" /\ n.index = i)
        BY <1>1, <3>2 DEF DropsIndex
      <4>2. i \in DOMAIN Y.idx
        BY <3>2, <4>1 DEF Leaves
      <4>3. Y.idx[i] = X.idx[i]
        BY <3>2, <4>2 DEF Leaves
      <4>4. ~DropsIndex(R \ {n}, i)
        BY <3>2 DEF DropsIndex
      <4> QED BY <3>2, <4>2, <4>3, <4>4
    <3> QED BY <3>1, <3>2 DEF IndexesOK
  <2> QED BY <2>1, <2>2
<1>4. ASSUME Allowed(c), NEW i \in DOMAIN Y.idx
      PROVE i \in DOMAIN want \/ DropsIndex(R \ {n}, i)
  <2>1. CASE i \in DOMAIN X.idx
    <3>1. i \in DOMAIN want \/ DropsIndex(R, i)
      BY <1>4, <2>1 DEF IndexesOK
    <3>2. ~(n.type = "drop_index" /\ n.index = i)
      BY <1>4 DEF Leaves
    <3> QED BY <3>1, <3>2, LeftAfter
  <2>2. CASE i \notin DOMAIN X.idx
    <3>1. n.type = "create_index" /\ n.table = p /\ n.index = i
      BY <1>4, <2>2 DEF Leaves
    <3> QED BY <1>1, <3>1 DEF NodeOK
  <2> QED BY <2>1, <2>2
<1> QED BY <1>3, <1>4 DEF IndexesOK

LEMMA CommentKept ==
  ASSUME NEW c, NEW B, NEW P, NEW R, NEW n, NEW base, NEW next,
         Stepping(c, B, P, R, n, base, next),
         NEW t \in DOMAIN c.after, NEW p, NEW X, NEW Y, Leaves(c, n, p, X, Y),
         n.type = "comment_on" /\ (n.table = p \/ n.table = t) => p = t,
         CommentOK(c, R, t, X)
  PROVE CommentOK(c, R \ {n}, t, Y)
<1>1. NodeOK(c, B, n)
  BY DEF Stepping, Firsts
<1>2. CASE n.type = "comment_on" /\ n.table = t /\ n.column = None
  <2>1. n.comment = c.after[t].comment
    <3>1. None \notin DOMAIN c.after[t].cols
      BY DEF Stepping, RealChange, SelfContained
    <3> QED BY <1>1, <1>2, <3>1 DEF NodeOK
  <2>2. Y.comment = n.comment
    BY <1>2 DEF Leaves
  <2> QED BY <2>1, <2>2 DEF CommentOK
<1>3. CASE ~(n.type = "comment_on" /\ n.table = t /\ n.column = None)
  <2>1. Comments(R, t) => Comments(R \ {n}, t)
    BY <1>3, LeftAfter
  <2>2. Y.comment = X.comment
    BY <1>3 DEF Leaves
  <2> QED BY <2>1, <2>2 DEF CommentOK
<1> QED BY <1>2, <1>3

-----------------------------------------------------------------------------
(* Tables stay where they belong *)

LEMMA NamesKept ==
  ASSUME NEW base, IsDatabase(base), NEW n, Accepts(base, n), NEW next, next = After(base, n)
  PROVE /\ n.type \in {"drop_index", "create_index", "comment_on", "alter_table"} =>
             DOMAIN next = DOMAIN base
        /\ n.type = "drop_table" => DOMAIN next = DOMAIN base \ {n.table}
        /\ n.type = "rename_table" =>
             /\ DOMAIN next = (DOMAIN base \ {n.table}) \cup {n.to}
             /\ n.table \in DOMAIN base /\ n.to \notin DOMAIN base
        /\ n.type = "create_table" =>
             DOMAIN next = DOMAIN base \cup {n.table} /\ n.table \notin DOMAIN base
<1>1. n.type = "drop_index" => DOMAIN next = DOMAIN base
  BY DropIndexEffect DEF IndexDropped
<1>2. n.type = "create_index" => DOMAIN next = DOMAIN base
  BY CreateIndexEffect DEF IndexCreated
<1>3. n.type = "comment_on" => DOMAIN next = DOMAIN base
  BY CommentEffect DEF Commented
<1>4. n.type = "alter_table" => DOMAIN next = DOMAIN base
  BY AlterEffect DEF TableAltered
<1>5. n.type = "drop_table" => TableDropped(base, n, next)
  BY DropTableEffect
<1>6. n.type = "rename_table" => TableRenamed(base, n, next)
  BY RenameEffect
<1>7. n.type = "create_table" => TableCreated(base, n, next)
  BY CreateEffect
<1> QED BY <1>1, <1>2, <1>3, <1>4, <1>5, <1>6, <1>7 DEF TableDropped, TableRenamed, TableCreated

LEMMA PlacesKept ==
  ASSUME NEW c, NEW B, NEW P, NEW R, NEW n, NEW base, NEW next,
         Stepping(c, B, P, R, n, base, next), PlacesOK(c, B, R, base)
  PROVE PlacesOK(c, B, R \ {n}, next)
<1> DEFINE S == R \ {n}
<1>1. NodeOK(c, B, n) /\ n \in R /\ \A m \in R : NodeOK(c, B, m)
  BY DEF Stepping, Firsts
<1>2. IsDatabase(base) /\ Accepts(base, n) /\ next = After(base, n)
  BY DEF Stepping
<1>3. /\ \A s \in DOMAIN B : Target(c, s) \in DOMAIN c.after => Place(c, R, s) \in DOMAIN base
      /\ \A s, u \in DOMAIN B :
           s # u /\ Target(c, s) = Target(c, u) => Renames(R, s) \/ Renames(R, u)
      /\ \A u \in DOMAIN base :
           \/ /\ u \in DOMAIN B /\ Target(c, u) = u
              /\ u \notin DOMAIN c.after /\ Allowed(c) => DropsTable(R, u)
           \/ u \in DOMAIN B /\ Renames(R, u)
           \/ \E s \in DOMAIN B : Target(c, s) = u /\ s # u /\ ~Renames(R, s)
           \/ u \in AddedOf(c, B)
  BY DEF PlacesOK
<1>4. ASSUME n.type # "rename_table" PROVE \A s : Renames(S, s) <=> Renames(R, s)
  BY <1>4, LeftAfter
<1>5. CASE n.type \notin {"drop_table", "rename_table", "create_table"}
  <2>1. DOMAIN next = DOMAIN base
    <3>1. n.type \in NodeTypes
      BY <1>1 DEF NodeOK
    <3>2. n.type \in {"drop_index", "create_index", "comment_on", "alter_table"}
      BY <1>5, <3>1 DEF NodeTypes
    <3> QED BY <1>2, <3>2, NamesKept
  <2>2. \A t : DropsTable(S, t) <=> DropsTable(R, t)
    BY <1>5, LeftAfter
  <2> QED BY <1>3, <1>4, <1>5, <2>1, <2>2 DEF PlacesOK, Place
<1>6. CASE n.type = "drop_table"
  <2>1. DOMAIN next = DOMAIN base \ {n.table}
    BY <1>2, <1>6, NamesKept
  <2>2. \A t : t # n.table => (DropsTable(S, t) <=> DropsTable(R, t))
    BY LeftAfter
  <2>3. n.table \notin DOMAIN c.after /\ Target(c, n.table) = n.table
    <3>1. n.table \in DOMAIN OldOf(c, B) \ DOMAIN c.after
      BY <1>1, <1>6 DEF NodeOK
    <3>2. PICK s \in DOMAIN B : Target(c, s) = n.table
      BY <3>1, OldDomain
    <3> QED BY <3>1, <3>2, Targets
  <2>4. ASSUME NEW s \in DOMAIN B, Target(c, s) \in DOMAIN c.after PROVE Place(c, S, s) \in DOMAIN next
    <3>1. Place(c, S, s) = Place(c, R, s) /\ Place(c, R, s) \in DOMAIN base
      BY <1>3, <1>4, <1>6, <2>4 DEF Place
    <3>2. Place(c, R, s) # n.table
      BY <2>3, <2>4 DEF Place
    <3> QED BY <2>1, <3>1, <3>2
  <2> QED BY <1>3, <1>4, <1>6, <2>1, <2>2, <2>4 DEF PlacesOK
<1>7. CASE n.type = "rename_table"
  <2> DEFINE from == n.table
  <2>1. /\ DOMAIN next = (DOMAIN base \ {from}) \cup {n.to}
        /\ from \in DOMAIN base /\ n.to \notin DOMAIN base
    BY <1>2, <1>7, NamesKept
  <2>2. /\ from \notin DOMAIN c.after /\ n.to = Target(c, from) /\ n.to # from
        /\ from \in DOMAIN B /\ n.to \in DOMAIN c.after
    BY <1>7, RenamedFrom DEF NewNames
  <2>3. ~Renames(S, from)
    <3>1. \A m \in R : m.type = "rename_table" /\ m.table = from => m = n
      BY <1>1, <1>7, RenameIs
    <3> QED BY <3>1 DEF Renames
  <2>4. \A s : s # from => (Renames(S, s) <=> Renames(R, s))
    BY LeftAfter
  <2>5. \A t : DropsTable(S, t) <=> DropsTable(R, t)
    BY <1>7, LeftAfter
  <2>6. ASSUME NEW s \in DOMAIN B, Target(c, s) \in DOMAIN c.after PROVE Place(c, S, s) \in DOMAIN next
    <3>1. CASE s = from
      BY <2>1, <2>2, <2>3, <3>1 DEF Place
    <3>2. CASE s # from
      <4>1. Place(c, S, s) = Place(c, R, s) /\ Place(c, R, s) \in DOMAIN base
        BY <1>3, <2>4, <2>6, <3>2 DEF Place
      <4>2. Place(c, R, s) # from
        BY <2>2, <2>6, <3>2 DEF Place
      <4> QED BY <2>1, <4>1, <4>2
    <3> QED BY <3>1, <3>2
  <2>7. ASSUME NEW u \in DOMAIN B, u # from, Target(c, u) = Target(c, from) PROVE Renames(S, u)
    <3> SUFFICES ASSUME ~Renames(R, u) PROVE FALSE
      BY <2>4, <2>7
    <3>1. Place(c, R, u) = n.to
      BY <2>2, <2>7 DEF Place
    <3>2. n.to \in DOMAIN base
      BY <1>3, <2>2, <2>7, <3>1
    <3> QED BY <2>1, <3>2
  <2>8. ASSUME NEW s \in DOMAIN B, NEW u \in DOMAIN B, s # u, Target(c, s) = Target(c, u)
        PROVE Renames(S, s) \/ Renames(S, u)
    <3>1. CASE s = from
      BY <2>7, <2>8, <3>1
    <3>2. CASE u = from
      BY <2>7, <2>8, <3>2
    <3>3. CASE s # from /\ u # from
      BY <1>3, <2>4, <2>8, <3>3
    <3> QED BY <3>1, <3>2, <3>3
  <2>9. ASSUME NEW u \in DOMAIN next
        PROVE \/ /\ u \in DOMAIN B /\ Target(c, u) = u
                 /\ u \notin DOMAIN c.after /\ Allowed(c) => DropsTable(S, u)
              \/ u \in DOMAIN B /\ Renames(S, u)
              \/ \E s \in DOMAIN B : Target(c, s) = u /\ s # u /\ ~Renames(S, s)
              \/ u \in AddedOf(c, B)
    <3>1. CASE u = n.to
      BY <2>2, <2>3, <3>1
    <3>2. CASE u # n.to
      <4>1. u \in DOMAIN base /\ u # from
        BY <2>1, <3>2
      <4>2. ASSUME NEW s \in DOMAIN B, ~Renames(R, s) PROVE ~Renames(S, s)
        BY <2>3, <2>4, <4>2
      <4> QED BY <1>3, <2>4, <2>5, <4>1, <4>2
    <3> QED BY <3>1, <3>2
  <2> QED BY <2>6, <2>8, <2>9 DEF PlacesOK
<1>8. CASE n.type = "create_table"
  <2>1. DOMAIN next = DOMAIN base \cup {n.table}
    BY <1>2, <1>8, NamesKept
  <2>2. \A t : DropsTable(S, t) <=> DropsTable(R, t)
    BY <1>8, LeftAfter
  <2>3. n.table \in AddedOf(c, B)
    BY <1>1, <1>8 DEF NodeOK
  <2>4. \A s : Place(c, S, s) = Place(c, R, s)
    BY <1>4, <1>8 DEF Place
  <2> QED BY <1>3, <1>4, <1>8, <2>1, <2>2, <2>3, <2>4 DEF PlacesOK
<1> QED BY <1>5, <1>6, <1>7, <1>8

-----------------------------------------------------------------------------
(* Tables that are altered *)

\* Of a migration on its way, a table that is altered is the one called so in
\* the new schema, in its place.
LEMMA AlteredInPlace ==
  ASSUME NEW c, NEW B, NEW P, NEW R, NEW n, NEW base, NEW next,
         Stepping(c, B, P, R, n, base, next), n.type = "alter_table",
         PlacesOK(c, B, R, base), Clean(c, B),
         NEW s \in DOMAIN B, Target(c, s) \in DOMAIN c.after
  PROVE /\ n.table \in DOMAIN base /\ n.table \in SharedOf(c, B)
        /\ n.table = Target(c, s) => Place(c, R, s) = n.table
        /\ n.table # Target(c, s) => Place(c, R, s) # n.table
<1> DEFINE t == n.table
<1>1. NodeOK(c, B, n) /\ \A m \in R : NodeOK(c, B, m)
  BY DEF Stepping, Firsts
<1>2. t \in SharedOf(c, B)
  BY <1>1 DEF NodeOK
<1>3. t \in DOMAIN base
  BY DEF Stepping, Accepts
<1>4. t \in DOMAIN c.after /\ t \notin AddedOf(c, B)
  BY <1>2 DEF SharedOf, AddedOf
<1>5. ~Renames(R, t)
  <2>1. ASSUME NEW m \in R, m.type = "rename_table", m.table = t PROVE FALSE
    <3>1. Target(c, t) # t
      BY <1>1, <2>1, RenameIs
    <3> QED BY <1>4, <3>1, Targets
  <2> QED BY <2>1 DEF Renames
<1>6. ASSUME t = Target(c, s) PROVE ~Renames(R, s) \/ s = t
  <2>1. \/ t \in DOMAIN B /\ Target(c, t) = t
        \/ t \in DOMAIN B /\ Renames(R, t)
        \/ \E u \in DOMAIN B : Target(c, u) = t /\ u # t /\ ~Renames(R, u)
        \/ t \in AddedOf(c, B)
    BY <1>3 DEF PlacesOK
  <2>2. \E u \in DOMAIN B : Target(c, u) = t /\ (u = t \/ ~Renames(R, u))
    BY <1>4, <1>5, <2>1
  <2> QED BY <1>6, <2>2 DEF Clean
<1>7. t = Target(c, s) => Place(c, R, s) = t
  BY <1>5, <1>6 DEF Place
<1>8. t # Target(c, s) => Place(c, R, s) # t
  BY <1>5 DEF Place
<1> QED BY <1>2, <1>3, <1>7, <1>8

\* The one that drops: what both schemas have stays.
LEMMA SharedDrops ==
  ASSUME NEW c, NEW B, NEW P, NEW R, NEW n, NEW base, NEW next,
         Stepping(c, B, P, R, n, base, next), n.type = "alter_table",
         NEW t, t = n.table, n = DropAlter(c, B, t), Allowed(c), Listed(c, B),
         SharedOK(c, B, P, R, t, base[t]), ~Alters(P \ R, 8, t)
  PROVE SharedOK(c, B, P, R \ {n}, t, next[t])
<1> DEFINE old == OldOf(c, B)[t]
           want == c.after[t]
<1>1. NodeOK(c, B, n) /\ \A m \in R : NodeOK(c, B, m)
  BY DEF Stepping, Firsts
<1>2. IsDatabase(base) /\ Accepts(base, n) /\ next = After(base, n) /\ RealBase(c, base)
  BY DEF Stepping
<1>3. t \in DOMAIN c.after /\ t \in DOMAIN OldOf(c, B)
  BY <1>1 DEF NodeOK, SharedOf
<1>4. t \in DOMAIN base /\ AlterAccepted(base, n) /\ next[t] = AlterResult(base[t], n)
  <2>1. TableAltered(base, n, next)
    BY <1>2, AlterEffect
  <2> QED BY <2>1 DEF TableAltered
<1>5. PICK X, Y : X = base[t] /\ Y = next[t]
  OBVIOUS
<1>6. /\ n.dropCols = DropsOf(c, B, t) /\ n.dropCons = DropConsOf(c, B, t) /\ n.renames = {}
  BY DropAlterFields
<1>7. /\ DOMAIN Y.cols = DOMAIN X.cols \ DropsOf(c, B, t)
      /\ \A x \in DOMAIN Y.cols : SameColumn(Y.cols[x], X.cols[x])
  <2>1. Y = AlterResult(base[t], n)
    BY <1>4, <1>5
  <2>2. ColumnsDropped(c, B, t, base[t], Y)
    BY <1>2, <1>4, <2>1, DropsColumns
  <2> QED BY <1>5, <2>2 DEF ColumnsDropped
<1>8. RestAltered(X, n, Y)
  <2>1. ConsOK(X.cons)
    BY <1>2, <1>4, <1>5, RealSchemaIs DEF RealBase
  <2> QED BY <1>2, <1>4, <1>5, <2>1, AlterLeavesRest
<1>9. ~Alters(R \ {n}, 3, t)
  <2>1. ASSUME NEW m \in R, m.type = "alter_table", m.table = t, Group(m) = 3 PROVE m = n
    <3>1. m = DropAlter(c, B, t) \/ m = AddAlter(c, B, t)
      BY <1>1, <2>1 DEF NodeOK
    <3>2. Group(m) = IF m = DropAlter(c, B, t) THEN 3 ELSE 8
      BY <3>1, AlterTypes
    <3> QED BY <2>1, <3>2
  <2> QED BY <2>1 DEF Alters
<1>10. ~Alters(P \ (R \ {n}), 8, t)
  <2>1. Group(n) = 3
    BY AlterTypes
  <2> QED BY <2>1 DEF Alters
<1>11. /\ DOMAIN Y.cols = DOMAIN old.cols \ DropsOf(c, B, t)
       /\ \A x \in DOMAIN Y.cols : SameColumn(Y.cols[x], old.cols[x])
  <2>1. /\ DOMAIN X.cols = DOMAIN old.cols \/ DOMAIN X.cols = DOMAIN old.cols \ DropsOf(c, B, t)
        /\ \A x \in DOMAIN X.cols : SameColumn(X.cols[x], old.cols[x])
    BY <1>5 DEF SharedOK
  <2>2. \A x, y, z : SameColumn(x, y) /\ SameColumn(y, z) => SameColumn(x, z)
    BY DEF SameColumn
  <2>3. DOMAIN Y.cols = DOMAIN old.cols \ DropsOf(c, B, t)
    BY <1>7, <2>1
  <2> QED BY <1>7, <2>1, <2>2, <2>3
<1>12. n.dropCols \cap DOMAIN want.cols = {}
  BY <1>6 DEF DropsOf
<1>13. ASSUME NEW k \in want.cons \cap old.cons PROVE k \in Y.cons
  <2>1. k.cols \cap n.dropCols = {}
    BY <1>3, <1>12 DEF Stepping, RealChange, SelfContained
  <2>2. k.name \notin n.dropCons
    <3> SUFFICES ASSUME k.name \in DropConsOf(c, B, t) PROVE FALSE
      BY <1>6
    <3>1. PICK m \in Without(old.cons, want.cons) : m.name = k.name /\ k.name # None
      BY DEF DropConsOf
    <3>2. m \in old.cons /\ \A w \in want.cons : SignConstraint(w) # SignConstraint(m)
      BY DEF Without
    <3>3. PICK u \in DOMAIN B : old = B[u]
      BY <1>3, OldComes
    <3>4. ConsOK(old.cons)
      BY <3>3, RealSchemaIs DEF Stepping, RealBase
    <3>5. m = k
      BY <3>1, <3>2, <3>4 DEF ConsOK
    <3> QED BY <3>2, <3>5
  <2>3. k \in X.cons
    BY <1>5 DEF SharedOK
  <2> QED BY <1>6, <1>8, <2>1, <2>2, <2>3 DEF RestAltered
<1>14. IndexesOK(c, R \ {n}, t, Y)
  <2>1. \A i : /\ CreatesIndex(R \ {n}, t, i) <=> CreatesIndex(R, t, i)
               /\ DropsIndex(R \ {n}, i) <=> DropsIndex(R, i)
    BY LeftAfter
  <2>2. IndexesOK(c, R, t, X)
    BY <1>5 DEF SharedOK
  <2>3. ASSUME NEW i \in DOMAIN want.idx, i \in DOMAIN X.idx, X.idx[i] = want.idx[i]
        PROVE i \in DOMAIN Y.idx /\ Y.idx[i] = want.idx[i]
    <3>1. IsIndex(want.idx[i]) /\ want.idx[i].cols \subseteq DOMAIN want.cols
      BY <1>3 DEF Stepping, RealChange, SelfContained
    <3>2. X.idx[i].cols \cap n.dropCols = {}
      BY <1>12, <2>3, <3>1
    <3> QED BY <1>6, <1>8, <2>3, <3>1, <3>2 DEF RestAltered
  <2>4. DOMAIN Y.idx \subseteq DOMAIN X.idx
    BY <1>8 DEF RestAltered
  <2> QED BY <2>1, <2>2, <2>3, <2>4 DEF IndexesOK
<1>15. CommentOK(c, R \ {n}, t, Y)
  <2>1. Comments(R, t) <=> Comments(R \ {n}, t)
    BY LeftAfter
  <2>2. CommentOK(c, R, t, X)
    BY <1>5 DEF SharedOK
  <2>3. Y.comment = X.comment
    BY <1>8 DEF RestAltered
  <2> QED BY <2>1, <2>2, <2>3 DEF CommentOK
<1> QED BY <1>5, <1>9, <1>10, <1>11, <1>13, <1>14, <1>15 DEF SharedOK

\* The one that renames, adds and changes: the columns are as asked for, and the
\* new constraints there.
LEMMA SharedAdds ==
  ASSUME NEW c, NEW B, NEW P, NEW R, NEW n, NEW base, NEW next,
         Stepping(c, B, P, R, n, base, next), n.type = "alter_table",
         NEW t, t = n.table, n = AddAlter(c, B, t),
         SharedOK(c, B, P, R, t, base[t])
  PROVE SharedOK(c, B, P, R \ {n}, t, next[t])
<1> DEFINE old == OldOf(c, B)[t]
           want == c.after[t]
<1>1. NodeOK(c, B, n) /\ n \in R /\ R \subseteq P /\ \A m \in R : NodeOK(c, B, m)
  BY DEF Stepping, Firsts
<1>2. IsDatabase(base) /\ Accepts(base, n) /\ next = After(base, n) /\ RealBase(c, base)
  BY DEF Stepping
<1>3. t \in DOMAIN c.after /\ t \in SharedOf(c, B)
  BY <1>1 DEF NodeOK, SharedOf
<1>4. t \in DOMAIN base /\ AlterAccepted(base, n) /\ next[t] = AlterResult(base[t], n)
  <2>1. TableAltered(base, n, next)
    BY <1>2, AlterEffect
  <2> QED BY <2>1 DEF TableAltered
<1>5. PICK X, Y : X = base[t] /\ Y = next[t]
  OBVIOUS
<1>6. /\ n.dropCols = {} /\ n.dropCons = {} /\ n.renames = RenamesOf(c, B, t)
      /\ n.addCons = AddConsOf(c, B, t)
  BY AddAlterFields
<1>7. RestAltered(X, n, Y)
  <2>1. ConsOK(X.cons)
    BY <1>2, <1>4, <1>5, RealSchemaIs DEF RealBase
  <2> QED BY <1>2, <1>4, <1>5, <2>1, AlterLeavesRest
<1>8. Group(n) = 8
  <2>1. n # DropAlter(c, B, t)
    BY AlterTypes, AddAlterFields, DropAlterFields DEF Group
  <2> QED BY <2>1, AlterTypes
<1>9. ~Alters(R, 3, t)
  BY <1>8, FirstGroup DEF Alters, Stepping
<1>10. ~Alters(P \ R, 8, t)
  <2>1. ASSUME NEW m \in P \ R, m.type = "alter_table", m.table = t, Group(m) = 8 PROVE FALSE
    <3>1. NodeOK(c, B, m)
      BY DEF Stepping
    <3>2. m = DropAlter(c, B, t) \/ m = AddAlter(c, B, t)
      BY <2>1, <3>1 DEF NodeOK
    <3>3. Group(m) = IF m = DropAlter(c, B, t) THEN 3 ELSE 8
      BY <3>2, AlterTypes
    <3> QED BY <1>1, <2>1, <3>2, <3>3
  <2> QED BY <2>1 DEF Alters
<1>11. Alters(P \ (R \ {n}), 8, t)
  BY <1>1, <1>8 DEF Alters
<1>12. ColumnsReached(c, t, AddsOf(c, B, t), Y)
  <2>1. /\ DOMAIN X.cols = IF Allowed(c) THEN DOMAIN old.cols \ DropsOf(c, B, t) ELSE DOMAIN old.cols
        /\ \A x \in DOMAIN X.cols : SameColumn(X.cols[x], old.cols[x])
    BY <1>5, <1>9, <1>10 DEF SharedOK
  <2>2. /\ DOMAIN base[t].cols = IF Allowed(c) THEN DOMAIN OldOf(c, B)[t].cols \ DropsOf(c, B, t)
                                 ELSE DOMAIN OldOf(c, B)[t].cols
        /\ \A x \in DOMAIN base[t].cols : SameColumn(base[t].cols[x], OldOf(c, B)[t].cols[x])
    BY <1>5, <2>1
  <2>3. Y = AlterResult(base[t], n)
    BY <1>4, <1>5
  <2> QED BY <1>2, <1>3, <1>4, <2>2, <2>3, AddsColumns
<1>13. \A r \in n.renames : r[1] \notin DOMAIN want.cols
  <2>1. ASSUME NEW r \in RenamesOf(c, B, t) PROVE r[1] \notin DOMAIN want.cols
    BY <2>1, RenamesAre
  <2> QED BY <1>6, <2>1
<1>14. ASSUME NEW k \in want.cons \cap old.cons PROVE k \in Y.cons
  <2>1. k.cols \subseteq DOMAIN want.cols
    BY <1>3 DEF Stepping, RealChange, SelfContained
  <2>2. k \in X.cons
    BY <1>5 DEF SharedOK
  <2> QED BY <1>6, <1>7, <1>13, <2>1, <2>2 DEF RestAltered
<1>15. IndexesOK(c, R \ {n}, t, Y)
  <2>1. \A i : /\ CreatesIndex(R \ {n}, t, i) <=> CreatesIndex(R, t, i)
               /\ DropsIndex(R \ {n}, i) <=> DropsIndex(R, i)
    BY LeftAfter
  <2>2. IndexesOK(c, R, t, X)
    BY <1>5 DEF SharedOK
  <2>3. ASSUME NEW i \in DOMAIN want.idx, i \in DOMAIN X.idx, X.idx[i] = want.idx[i]
        PROVE i \in DOMAIN Y.idx /\ Y.idx[i] = want.idx[i]
    <3>1. IsIndex(want.idx[i]) /\ want.idx[i].cols \subseteq DOMAIN want.cols
      BY <1>3 DEF Stepping, RealChange, SelfContained
    <3> QED BY <1>6, <1>7, <1>13, <2>3, <3>1 DEF RestAltered
  <2>4. DOMAIN Y.idx \subseteq DOMAIN X.idx
    BY <1>7 DEF RestAltered
  <2> QED BY <2>1, <2>2, <2>3, <2>4 DEF IndexesOK
<1>16. CommentOK(c, R \ {n}, t, Y)
  <2>1. Comments(R, t) <=> Comments(R \ {n}, t)
    BY LeftAfter
  <2>2. CommentOK(c, R, t, X)
    BY <1>5 DEF SharedOK
  <2>3. Y.comment = X.comment
    BY <1>7 DEF RestAltered
  <2> QED BY <2>1, <2>2, <2>3 DEF CommentOK
<1>17. AddConsOf(c, B, t) \subseteq Y.cons
  BY <1>6, <1>7 DEF RestAltered
<1> QED BY <1>5, <1>11, <1>12, <1>14, <1>15, <1>16, <1>17 DEF SharedOK

\* Of the steps that are left, only those of the table itself matter to it.
LEMMA SharedElsewhere ==
  ASSUME NEW c, NEW B, NEW P, NEW R, NEW n, NEW t, NEW X,
         n.type = "alter_table", n.table # t, SharedOK(c, B, P, R, t, X)
  PROVE SharedOK(c, B, P, R \ {n}, t, X)
<1>1. /\ Alters(R \ {n}, 3, t) <=> Alters(R, 3, t)
      /\ Comments(R \ {n}, t) <=> Comments(R, t)
      /\ \A i : CreatesIndex(R \ {n}, t, i) <=> CreatesIndex(R, t, i)
      /\ \A i : DropsIndex(R \ {n}, i) <=> DropsIndex(R, i)
  BY LeftAfter
<1>2. Alters(P \ (R \ {n}), 8, t) <=> Alters(P \ R, 8, t)
  BY DEF Alters
<1>3. IndexesOK(c, R, t, X) => IndexesOK(c, R \ {n}, t, X)
  BY <1>1 DEF IndexesOK
<1>4. CommentOK(c, R, t, X) => CommentOK(c, R \ {n}, t, X)
  BY <1>1 DEF CommentOK
<1> QED BY <1>1, <1>2, <1>3, <1>4 DEF SharedOK

\* A table is not altered: it moves with its place, and what it has stays.
LEMMA SharedMoves ==
  ASSUME NEW c, NEW B, NEW P, NEW R, NEW n, NEW base, NEW next,
         Stepping(c, B, P, R, n, base, next), n.type # "alter_table",
         NEW t \in DOMAIN c.after, NEW p, NEW X, NEW Y, Leaves(c, n, p, X, Y),
         n.type \in {"create_index", "comment_on"} => p = t,
         SharedOK(c, B, P, R, t, X)
  PROVE SharedOK(c, B, P, R \ {n}, t, Y)
<1> DEFINE old == OldOf(c, B)[t]
           want == c.after[t]
<1>1. RealChange(c) /\ KeepsTable(c, X, Y)
  BY DEF Stepping, Leaves
<1>2. Alters(R \ {n}, 3, t) <=> Alters(R, 3, t)
  BY LeftAfter
<1>3. Alters(P \ (R \ {n}), 8, t) <=> Alters(P \ R, 8, t)
  BY DEF Alters
<1>4. ASSUME ~Alters(P \ R, 8, t)
      PROVE /\ DOMAIN Y.cols = IF Allowed(c) /\ ~Alters(R \ {n}, 3, t)
                               THEN DOMAIN old.cols \ DropsOf(c, B, t) ELSE DOMAIN old.cols
            /\ \A x \in DOMAIN Y.cols : SameColumn(Y.cols[x], old.cols[x])
  <2>1. /\ DOMAIN X.cols = IF Allowed(c) /\ ~Alters(R, 3, t)
                           THEN DOMAIN old.cols \ DropsOf(c, B, t) ELSE DOMAIN old.cols
        /\ \A x \in DOMAIN X.cols : SameColumn(X.cols[x], old.cols[x])
    BY <1>4 DEF SharedOK
  <2>2. DOMAIN Y.cols = DOMAIN X.cols /\ \A x \in DOMAIN X.cols : SameColumn(Y.cols[x], X.cols[x])
    BY <1>1 DEF KeepsTable
  <2>3. \A x, y, z : SameColumn(x, y) /\ SameColumn(y, z) => SameColumn(x, z)
    BY DEF SameColumn
  <2> QED BY <1>2, <2>1, <2>2, <2>3
<1>5. ASSUME Alters(P \ R, 8, t)
      PROVE ColumnsReached(c, t, AddsOf(c, B, t), Y) /\ AddConsOf(c, B, t) \subseteq Y.cons
  <2>1. ColumnsReached(c, t, AddsOf(c, B, t), X) /\ AddConsOf(c, B, t) \subseteq X.cons
    BY <1>5 DEF SharedOK
  <2>2. AddsOf(c, B, t) \subseteq DOMAIN c.after[t].cols
    BY DEF AddsOf
  <2>3. ColumnsReached(c, t, AddsOf(c, B, t), Y)
    BY <1>1, <2>1, <2>2, ColumnsKept
  <2>4. ASSUME NEW k \in AddConsOf(c, B, t) PROVE k \in Y.cons
    <3>1. k \in c.after[t].cons
      BY DEF AddConsOf, Without
    <3> QED BY <1>1, <2>1, <3>1, ConstraintsKept
  <2> QED BY <2>3, <2>4
<1>6. ASSUME NEW k \in want.cons \cap old.cons PROVE k \in Y.cons
  <2>1. k \in c.after[t].cons /\ k \in X.cons
    BY DEF SharedOK
  <2> QED BY <1>1, <2>1, ConstraintsKept
<1>7. IndexesOK(c, R \ {n}, t, Y)
  <2>1. IndexesOK(c, R, t, X)
    BY DEF SharedOK
  <2> QED BY <2>1, IndexesKept
<1>8. CommentOK(c, R \ {n}, t, Y)
  <2>1. CommentOK(c, R, t, X)
    BY DEF SharedOK
  <2> QED BY <2>1, CommentKept
<1> QED BY <1>3, <1>4, <1>5, <1>6, <1>7, <1>8 DEF SharedOK

\* No table is renamed any more when indexes are created and comments written.
LEMMA RenamesFirst ==
  ASSUME NEW c, NEW B, NEW P, NEW R, NEW n, NEW base, NEW next,
         Stepping(c, B, P, R, n, base, next),
         n.type \in {"create_index", "comment_on"}, NEW s
  PROVE ~Renames(R, s) /\ ~Creates(R, s)
<1>1. NodeOK(c, B, n) /\ \A m \in R : NodeOK(c, B, m)
  BY DEF Stepping, Firsts
<1>2. Group(n) \in {6, 7, 8}
  BY <1>1, GroupsAre
<1>3. ASSUME NEW m \in R, m.type = "rename_table" \/ m.type = "create_table" PROVE FALSE
  <2>1. Group(m) \in {4, 5}
    BY <1>1, <1>3, GroupsAre
  <2>2. ~(Group(m) < Group(n))
    BY FirstGroup DEF Stepping
  <2> QED BY <1>2, <2>1, <2>2
<1> QED BY <1>3 DEF Renames, Creates

\* Where a table is after a step that alters none.
MovesAlong(c, R, n, s) ==
  /\ Place(c, R \ {n}, s) = Goes(n, Place(c, R, s))
  /\ n.type = "drop_table" => n.table # Place(c, R, s)
  /\ n.type \in {"create_index", "comment_on"} => Place(c, R, s) = Target(c, s)

LEMMA PlaceMoves ==
  ASSUME NEW c, NEW B, NEW P, NEW R, NEW n, NEW base, NEW next,
         Stepping(c, B, P, R, n, base, next), n.type # "alter_table",
         NEW s \in DOMAIN B, Target(c, s) \in DOMAIN c.after
  PROVE MovesAlong(c, R, n, s)
<1>1. NodeOK(c, B, n) /\ n \in R /\ \A m \in R : NodeOK(c, B, m)
  BY DEF Stepping, Firsts
<1>2. CASE n.type = "rename_table"
  <2>1. /\ n.table \notin DOMAIN c.after /\ n.to = Target(c, n.table)
        /\ n.to # n.table /\ n.to \in DOMAIN c.after
    BY <1>2, RenamedFrom DEF NewNames
  <2>2. CASE s = n.table
    <3>1. Renames(R, s)
      BY <1>1, <1>2, <2>2 DEF Renames
    <3>2. ~Renames(R \ {n}, s)
      <4>1. \A m \in R : m.type = "rename_table" /\ m.table = n.table => m = n
        BY <1>1, <1>2, RenameIs
      <4> QED BY <2>2, <4>1 DEF Renames
    <3> QED BY <1>2, <2>1, <2>2, <3>1, <3>2 DEF Place, Goes, MovesAlong
  <2>3. CASE s # n.table
    <3>1. Renames(R \ {n}, s) <=> Renames(R, s)
      BY <2>3, LeftAfter
    <3>2. Place(c, R, s) # n.table
      BY <2>1, <2>3 DEF Place
    <3> QED BY <1>2, <3>1, <3>2 DEF Place, Goes, MovesAlong
  <2> QED BY <2>2, <2>3, <1>2
<1>3. CASE n.type # "rename_table"
  <2>1. Renames(R \ {n}, s) <=> Renames(R, s)
    BY <1>3, LeftAfter
  <2>2. Place(c, R \ {n}, s) = Goes(n, Place(c, R, s))
    BY <1>3, <2>1 DEF Place, Goes
  <2>3. ASSUME n.type = "drop_table" PROVE n.table # Place(c, R, s)
    <3>1. n.table \in DOMAIN OldOf(c, B) \ DOMAIN c.after
      BY <1>1, <2>3 DEF NodeOK
    <3>2. PICK u \in DOMAIN B : Target(c, u) = n.table
      BY <3>1, OldDomain
    <3>3. Target(c, n.table) = n.table
      BY <3>1, <3>2, Targets
    <3> QED BY <3>1, <3>3 DEF Place
  <2>4. n.type \in {"create_index", "comment_on"} => Place(c, R, s) = Target(c, s)
    BY RenamesFirst DEF Place
  <2> QED BY <2>2, <2>3, <2>4 DEF MovesAlong
<1> QED BY <1>2, <1>3

\* A step keeps what is said of a table of both schemas.
LEMMA SharedKept ==
  ASSUME NEW c, NEW B, NEW P, NEW R, NEW n, NEW base, NEW next,
         Stepping(c, B, P, R, n, base, next), Ordered(P, R), PlacesOK(c, B, R, base), Clean(c, B),
         NEW s \in DOMAIN B, Target(c, s) \in DOMAIN c.after,
         SharedOK(c, B, P, R, Target(c, s), base[Place(c, R, s)])
  PROVE SharedOK(c, B, P, R \ {n}, Target(c, s), next[Place(c, R \ {n}, s)])
<1>1. PICK t, p : t = Target(c, s) /\ p = Place(c, R, s)
  OBVIOUS
<1>2. NodeOK(c, B, n) /\ n \in R
  BY DEF Stepping, Firsts
<1>3. p \in DOMAIN base /\ t \in DOMAIN c.after
  BY <1>1 DEF PlacesOK
<1>4. CASE n.type = "alter_table"
  <2>1. Place(c, R \ {n}, s) = p
    BY <1>1, <1>4, LeftAfter DEF Place
  <2>2. TableAltered(base, n, next)
    BY <1>4, AlterEffect DEF Stepping
  <2>3. CASE n.table = t
    <3>1. p = t
      BY <1>1, <1>4, <2>3, AlteredInPlace
    <3>2. SharedOK(c, B, P, R, t, base[t])
      BY <1>1, <3>1
    <3>3. CASE n = DropAlter(c, B, t) /\ Allowed(c)
      <4>1. Listed(c, B)
        BY DEF Stepping, RealChange, RealBase, Listed
      <4>2. Group(n) = 3
        BY <3>3, AlterTypes
      <4>3. ~Alters(P \ R, 8, t)
        BY <1>2, <4>2 DEF Alters, Ordered
      <4>4. SharedOK(c, B, P, R \ {n}, t, next[t])
        BY <1>4, <2>3, <3>2, <3>3, <4>1, <4>3, SharedDrops
      <4> QED BY <1>1, <2>1, <3>1, <4>4
    <3>4. CASE n = AddAlter(c, B, t)
      <4>1. SharedOK(c, B, P, R \ {n}, t, next[t])
        BY <1>4, <2>3, <3>2, <3>4, SharedAdds
      <4> QED BY <1>1, <2>1, <3>1, <4>1
    <3> QED BY <1>2, <1>4, <2>3, <3>3, <3>4 DEF NodeOK
  <2>4. CASE n.table # t
    <3>1. p # n.table
      BY <1>1, <1>4, <2>4, AlteredInPlace
    <3>2. next[p] = base[p]
      BY <1>3, <2>2, <3>1 DEF TableAltered
    <3>3. SharedOK(c, B, P, R, t, base[p])
      BY <1>1
    <3>4. SharedOK(c, B, P, R \ {n}, t, base[p])
      BY <1>4, <2>4, <3>3, SharedElsewhere
    <3> QED BY <1>1, <2>1, <3>2, <3>4
  <2> QED BY <2>3, <2>4
<1>5. CASE n.type # "alter_table"
  <2>1. /\ Place(c, R \ {n}, s) = Goes(n, p)
        /\ n.type = "drop_table" => n.table # p
        /\ n.type \in {"create_index", "comment_on"} => p = t
    <3>1. MovesAlong(c, R, n, s)
      BY <1>5, PlaceMoves
    <3> QED BY <1>1, <3>1 DEF MovesAlong
  <2>2. Leaves(c, n, p, base[p], next[Goes(n, p)])
    BY <1>3, <1>5, <2>1, StatementLeaves
  <2>3. SharedOK(c, B, P, R, t, base[p])
    BY <1>1
  <2>4. SharedOK(c, B, P, R \ {n}, t, next[Goes(n, p)])
    BY <1>3, <1>5, <2>1, <2>2, <2>3, SharedMoves
  <2> QED BY <1>1, <2>1, <2>4
<1> QED BY <1>4, <1>5

\* A step keeps what is said of a table of the new schema only.
LEMMA AddedKept ==
  ASSUME NEW c, NEW B, NEW P, NEW R, NEW n, NEW base, NEW next,
         Stepping(c, B, P, R, n, base, next), NEW t \in AddedOf(c, B), AddedOK(c, R, t, base)
  PROVE AddedOK(c, R \ {n}, t, next)
<1> DEFINE S == R \ {n}
           want == c.after[t]
<1>1. NodeOK(c, B, n) /\ IsDatabase(base) /\ Accepts(base, n) /\ next = After(base, n)
  BY DEF Stepping, Firsts
<1>2. t \in DOMAIN c.after /\ t \notin SharedOf(c, B) /\ RealChange(c)
  BY DEF AddedOf, SharedOf, Stepping
<1>3. CASE /\ Creates(R, t) /\ \A i \in DOMAIN want.idx : CreatesIndex(R, t, i)
           /\ want.comment = None \/ Comments(R, t)
  <2>1. n.type \notin {"create_index", "comment_on"}
    BY <1>3, RenamesFirst
  <2>2. /\ \A i \in DOMAIN want.idx : CreatesIndex(S, t, i)
        /\ want.comment = None \/ Comments(S, t)
    BY <1>3, <2>1, LeftAfter
  <2>3. CASE n.type = "create_table" /\ n.table = t
    <3>1. TableCreated(base, n, next)
      BY <1>1, <2>3, CreateEffect
    <3>2. PICK X : X = next[t]
      OBVIOUS
    <3>3. n.cols = want.cols /\ n.cons = want.cons
      BY <1>1, <2>3 DEF NodeOK
    <3>4. /\ t \in DOMAIN next /\ DOMAIN X.cols = DOMAIN want.cols
          /\ \A x \in DOMAIN want.cols :
               SameColumn(X.cols[x], want.cols[x]) /\ X.cols[x].ref = want.cols[x].ref
          /\ X.cons = want.cons /\ DOMAIN X.idx = {} /\ X.comment = None
      BY <2>3, <3>1, <3>2, <3>3 DEF TableCreated
    <3>5. ColumnsReached(c, t, DOMAIN want.cols, X)
      BY <3>4 DEF ColumnsReached, ColumnReached, SameColumn
    <3>6. IndexesOK(c, S, t, X)
      BY <2>2, <3>4 DEF IndexesOK
    <3>7. CommentOK(c, S, t, X)
      BY <2>2, <3>4 DEF CommentOK
    <3> QED BY <3>2, <3>4, <3>5, <3>6, <3>7 DEF AddedOK
  <2>4. CASE ~(n.type = "create_table" /\ n.table = t)
    <3>1. Creates(S, t)
      BY <1>3, <2>4, LeftAfter
    <3> QED BY <2>2, <3>1 DEF AddedOK
  <2> QED BY <2>3, <2>4
<1>4. CASE /\ t \in DOMAIN base
           /\ DOMAIN base[t].cols = DOMAIN want.cols
           /\ ColumnsReached(c, t, DOMAIN want.cols, base[t])
           /\ want.cons \subseteq base[t].cons
           /\ IndexesOK(c, R, t, base[t]) /\ CommentOK(c, R, t, base[t])
  <2>1. PICK X : X = base[t]
    OBVIOUS
  <2>2. CASE n.type = "alter_table"
    <3>1. n.table # t
      BY <1>1, <1>2, <2>2 DEF NodeOK
    <3>2. TableAltered(base, n, next)
      BY <1>1, <2>2, AlterEffect
    <3>3. t \in DOMAIN next /\ next[t] = X
      BY <1>4, <2>1, <3>1, <3>2 DEF TableAltered
    <3>4. IndexesOK(c, R, t, X) => IndexesOK(c, S, t, X)
      BY <2>2, LeftAfter DEF IndexesOK
    <3>5. CommentOK(c, R, t, X) => CommentOK(c, S, t, X)
      BY <2>2, LeftAfter DEF CommentOK
    <3> QED BY <1>4, <2>1, <3>3, <3>4, <3>5 DEF AddedOK
  <2>3. CASE n.type # "alter_table"
    <3>1. n.type = "drop_table" => n.table # t
      BY <1>1, <1>2 DEF NodeOK
    <3>2. Goes(n, t) = t
      BY <1>2, RenamedFrom DEF Goes, NewNames
    <3>3. t \in DOMAIN next /\ Leaves(c, n, t, base[t], next[t])
      BY <1>4, <2>3, <3>1, <3>2, StatementLeaves
    <3>4. PICK Y : Y = next[t]
      OBVIOUS
    <3>5. Leaves(c, n, t, X, Y) /\ KeepsTable(c, X, Y)
      BY <2>1, <3>3, <3>4 DEF Leaves
    <3>6. DOMAIN Y.cols = DOMAIN want.cols
      BY <1>4, <2>1, <3>5 DEF KeepsTable
    <3>7. ColumnsReached(c, t, DOMAIN c.after[t].cols, Y)
      <4>1. ColumnsReached(c, t, DOMAIN c.after[t].cols, X)
        BY <1>4, <2>1
      <4> QED BY <1>2, <3>5, <4>1, ColumnsKept
    <3>8. want.cons \subseteq Y.cons
      <4>1. ASSUME NEW k \in c.after[t].cons PROVE k \in Y.cons
        <5>1. k \in X.cons
          BY <1>4, <2>1
        <5> QED BY <1>2, <3>5, <5>1, ConstraintsKept
      <4> QED BY <4>1
    <3>9. IndexesOK(c, S, t, Y)
      <4>1. IndexesOK(c, R, t, X)
        BY <1>4, <2>1
      <4> QED BY <1>2, <3>5, <4>1, IndexesKept
    <3>10. CommentOK(c, S, t, Y)
      <4>1. CommentOK(c, R, t, X)
        BY <1>4, <2>1
      <4> QED BY <1>2, <3>5, <4>1, CommentKept
    <3> QED BY <3>3, <3>4, <3>6, <3>7, <3>8, <3>9, <3>10 DEF AddedOK
  <2> QED BY <2>2, <2>3
<1> QED BY <1>3, <1>4 DEF AddedOK

LEMMA OrderedKept ==
  ASSUME NEW P, NEW R, Ordered(P, R), NEW n \in Firsts(R)
  PROVE Ordered(P, R \ {n})
<1>1. \A m \in R \ {n} : ~(Group(m) < Group(n))
  BY FirstGroup
<1> QED BY <1>1 DEF Ordered

\* A step keeps a migration on its way.
LEMMA OnTheWayKept ==
  ASSUME NEW c, NEW B, NEW P, NEW R, NEW n, NEW base, NEW next,
         Stepping(c, B, P, R, n, base, next), Ordered(P, R), OnTheWay(c, B, P, R, base)
  PROVE OnTheWay(c, B, P, R \ {n}, next)
<1>1. PlacesOK(c, B, R \ {n}, next)
  BY PlacesKept DEF OnTheWay
<1>2. ASSUME Clean(c, B), NEW s \in DOMAIN B, Target(c, s) \in DOMAIN c.after
      PROVE SharedOK(c, B, P, R \ {n}, Target(c, s), next[Place(c, R \ {n}, s)])
  <2>1. PlacesOK(c, B, R, base) /\ SharedOK(c, B, P, R, Target(c, s), base[Place(c, R, s)])
    BY <1>2 DEF OnTheWay
  <2> QED BY <1>2, <2>1, SharedKept
<1>3. ASSUME NEW t \in AddedOf(c, B) PROVE AddedOK(c, R \ {n}, t, next)
  <2>1. AddedOK(c, R, t, base)
    BY DEF OnTheWay
  <2> QED BY <2>1, AddedKept
<1> QED BY <1>1, <1>2, <1>3 DEF OnTheWay

-----------------------------------------------------------------------------
(* Before the first step *)

\* The schema of a database is as real as the database.
SchemaFits(base, B) ==
  /\ DOMAIN B = DOMAIN base
  /\ \A t \in DOMAIN base :
       /\ DOMAIN B[t].cols = DOMAIN base[t].cols
       /\ \A x \in DOMAIN base[t].cols :
            SameColumn(B[t].cols[x], base[t].cols[x]) /\ B[t].cols[x].ref = base[t].cols[x].ref
       /\ B[t].cons = base[t].cons /\ B[t].idx = base[t].idx /\ B[t].comment = base[t].comment

LEMMA SchemaIs ==
  ASSUME NEW base, IsDatabase(base), NEW B, B = Schema(base)
  PROVE SchemaFits(base, B)
<1> DEFINE cols(t) == [x \in DOMAIN base[t].cols |-> Described(base[t].cols[x])]
<1>1. B = [t \in DOMAIN base |-> [base[t] EXCEPT !.cols = cols(t)]]
  BY DEF Schema
<1>2. ASSUME NEW t \in DOMAIN base
      PROVE /\ B[t].cols = cols(t) /\ B[t].cons = base[t].cons
            /\ B[t].idx = base[t].idx /\ B[t].comment = base[t].comment
  <2>1. PICK r, v, q : r = base[t] /\ v = cols(t) /\ q = B[t]
    OBVIOUS
  <2>2. IsTable(r)
    BY <2>1 DEF IsDatabase, IsStoredTable
  <2>3. q = [r EXCEPT !.cols = v]
    BY <1>1, <2>1
  <2>4. q.cols = v /\ q.cons = r.cons /\ q.idx = r.idx /\ q.comment = r.comment
    BY <2>2, <2>3, TableParts
  <2> QED BY <2>1, <2>4
<1>3. ASSUME NEW t \in DOMAIN base
      PROVE /\ DOMAIN B[t].cols = DOMAIN base[t].cols
            /\ \A x \in DOMAIN base[t].cols : B[t].cols[x] = Described(base[t].cols[x])
  <2> HIDE DEF cols
  <2>1. B[t].cols = cols(t)
    BY <1>2
  <2> QED BY <2>1 DEF cols
<1>4. \A col : SameColumn(Described(col), col) /\ Described(col).ref = col.ref
  BY DEF SameColumn, Described
<1>5. DOMAIN B = DOMAIN base
  BY <1>1
<1> HIDE DEF cols
<1> QED BY <1>2, <1>3, <1>4, <1>5 DEF SchemaFits

LEMMA SchemaIsReal ==
  ASSUME NEW c, NEW base, RealBase(c, base), NEW B, SchemaFits(base, B)
  PROVE RealBase(c, B)
<1>1. /\ \A t \in DOMAIN base : ConsOK(base[t].cons) /\ AreIndexes(base[t].idx)
      /\ \A t, u \in DOMAIN base : t # u => DOMAIN base[t].idx \cap DOMAIN base[u].idx = {}
  BY RealSchemaIs DEF RealBase
<1>2. /\ \A t \in DOMAIN B : ConsOK(B[t].cons) /\ AreIndexes(B[t].idx)
      /\ \A t, u \in DOMAIN B : t # u => DOMAIN B[t].idx \cap DOMAIN B[u].idx = {}
  BY <1>1 DEF SchemaFits
<1>3. RealSchema(B)
  BY <1>2, RealSchemaIs
<1> QED BY <1>3 DEF RealBase, SchemaFits

\* Indexes that stay are not dropped, the others are; changed ones come again.
LEMMA IndexesPlanned ==
  ASSUME NEW c, NEW B, Listed(c, B), Clean(c, B), RealSchema(B), ~Thrown(c, B),
         NEW s \in DOMAIN B, NEW t, t = Target(c, s), t \in DOMAIN c.after,
         NEW X, X.idx = B[s].idx
  PROVE IndexesOK(c, NodesOf(c, B), t, X)
<1> DEFINE P == NodesOf(c, B)
           want == c.after[t]
           diff == DiffIndexes(OldOf(c, B)[t], c.after[t])
<1>1. OldOf(c, B)[t] = B[s] /\ t \in SharedOf(c, B)
  BY OldIs DEF SharedOf
<1>2. /\ diff.dropped = (DOMAIN X.idx \ DOMAIN want.idx)
                        \cup {i \in DOMAIN X.idx \cap DOMAIN want.idx : X.idx[i] # want.idx[i]}
      /\ diff.added = (DOMAIN want.idx \ DOMAIN X.idx)
                      \cup {i \in DOMAIN X.idx \cap DOMAIN want.idx : X.idx[i] # want.idx[i]}
  BY <1>1 DEF DiffIndexes
<1>3. \A i \in diff.added : CreatesIndex(P, t, i)
  BY <1>1, PlanAdds
<1>4. Allowed(c) => \A i \in diff.dropped : DropsIndex(P, i)
  BY <1>1, PlanDrops
<1>5. ASSUME NEW i \in DOMAIN X.idx, i \notin diff.dropped PROVE ~DropsIndex(P, i)
  <2>1. ASSUME NEW m \in P, m.type = "drop_index", m.index = i PROVE FALSE
    <3>1. PICK u \in DOMAIN OldOf(c, B) :
            /\ i \in DOMAIN OldOf(c, B)[u].idx
            /\ u \in DOMAIN c.after => i \in DiffIndexes(OldOf(c, B)[u], c.after[u]).dropped
      BY <2>1, NodesAreOK DEF NodeOK
    <3>2. u # t
      BY <1>5, <3>1
    <3>3. PICK v \in DOMAIN B : Target(c, v) = u /\ OldOf(c, B)[u] = B[v]
      BY OldComes
    <3>4. v # s
      BY <3>2, <3>3
    <3>5. DOMAIN B[v].idx \cap DOMAIN B[s].idx = {}
      BY <3>4, RealSchemaIs
    <3> QED BY <1>5, <3>1, <3>3, <3>5
  <2> QED BY <2>1 DEF DropsIndex
<1>6. ASSUME NEW i \in DOMAIN want.idx, ~CreatesIndex(P, t, i)
      PROVE i \in DOMAIN X.idx /\ X.idx[i] = want.idx[i] /\ ~DropsIndex(P, i)
  <2>1. i \in DOMAIN X.idx /\ X.idx[i] = want.idx[i]
    BY <1>2, <1>3, <1>6
  <2>2. i \notin diff.dropped
    BY <1>2, <2>1
  <2> QED BY <1>5, <2>1, <2>2
<1>7. ASSUME Allowed(c), NEW i \in DOMAIN X.idx, i \notin DOMAIN want.idx PROVE DropsIndex(P, i)
  <2>1. i \in diff.dropped
    BY <1>2, <1>7
  <2> QED BY <1>4, <1>7, <2>1
<1> QED BY <1>6, <1>7 DEF IndexesOK

\* A plan made for the schema of the database is on its way with no step done.
LEMMA OnTheWayFrom ==
  ASSUME NEW c, RealChange(c), NEW base, IsDatabase(base), RealBase(c, base),
         NEW B, B = Schema(base), ~Thrown(c, B), NEW P, P = NodesOf(c, B)
  PROVE Ordered(P, P) /\ OnTheWay(c, B, P, P, base)
<1>1. SchemaFits(base, B)
  BY SchemaIs
<1>2. DOMAIN B = DOMAIN base /\ RealBase(c, B)
  BY <1>1, SchemaIsReal DEF SchemaFits
<1>3. Listed(c, B)
  BY <1>2 DEF RealBase, RealChange, Listed
<1>4. ASSUME NEW s \in DOMAIN B PROVE Renames(P, s) \/ Target(c, s) = s
  BY PlanRenames
<1>5. PlacesOK(c, B, P, base)
  <2>1. \A s \in DOMAIN B : Place(c, P, s) \in DOMAIN base
    BY <1>2, <1>4 DEF Place
  <2>2. ASSUME NEW u \in DOMAIN base, Target(c, u) = u, u \notin DOMAIN c.after, Allowed(c)
        PROVE DropsTable(P, u)
    <3>1. u \in DOMAIN OldOf(c, B) \ DOMAIN c.after
      BY <1>2, <2>2, OldDomain
    <3> QED BY <2>2, <3>1, PlanDropsTables
  <2>3. \A s, u \in DOMAIN B :
          s # u /\ Target(c, s) = Target(c, u) => Renames(P, s) \/ Renames(P, u)
    BY <1>4
  <2> QED BY <1>2, <1>4, <2>1, <2>2, <2>3 DEF PlacesOK
<1>6. \A g, t : ~Alters(P \ P, g, t)
  BY DEF Alters
<1>7. ASSUME Clean(c, B), NEW s \in DOMAIN B, Target(c, s) \in DOMAIN c.after
      PROVE SharedOK(c, B, P, P, Target(c, s), base[Place(c, P, s)])
  <2>1. PICK t, X : t = Target(c, s) /\ X = base[s]
    OBVIOUS
  <2>2. Place(c, P, s) = s
    BY <1>4 DEF Place
  <2>3. OldOf(c, B)[t] = B[s] /\ t \in SharedOf(c, B)
    BY <1>3, <1>7, <2>1, OldIs DEF SharedOf
  <2>4. PICK old : old = B[s]
    OBVIOUS
  <2>5. /\ DOMAIN X.cols = DOMAIN old.cols /\ \A x \in DOMAIN X.cols : SameColumn(X.cols[x], old.cols[x])
        /\ X.cons = old.cons /\ X.idx = old.idx /\ X.comment = old.comment
    BY <1>1, <1>2, <2>1, <2>4 DEF SchemaFits, SameColumn
  <2>6. Allowed(c) /\ ~Alters(P, 3, t) => DropsOf(c, B, t) = {}
    <3>1. ASSUME Allowed(c), DropAlter(c, B, t) \in P PROVE Alters(P, 3, t)
      <4>1. PICK m \in P : m = DropAlter(c, B, t)
        BY <3>1
      <4>2. m.type = "alter_table" /\ m.table = t /\ Group(m) = 3
        BY <4>1, AlterTypes
      <4> QED BY <4>2 DEF Alters
    <3>2. Allowed(c) => DropAlter(c, B, t) \in P \/ DropsOf(c, B, t) = {}
      BY <2>3, PlanDrops, NothingAltered
    <3> QED BY <3>1, <3>2
  <2>7. IndexesOK(c, P, t, X)
    <3>1. X.idx = B[s].idx
      BY <2>4, <2>5
    <3> QED BY <1>2, <1>3, <1>7, <2>1, <3>1, IndexesPlanned DEF RealBase
  <2>8. CommentOK(c, P, t, X)
    BY <2>3, <2>4, <2>5, PlanAdds DEF CommentOK
  <2>9. DOMAIN X.cols = IF Allowed(c) /\ ~Alters(P, 3, t)
                        THEN DOMAIN old.cols \ DropsOf(c, B, t) ELSE DOMAIN old.cols
    BY <2>5, <2>6
  <2>10. SharedOK(c, B, P, P, t, X)
    BY <1>6, <2>3, <2>4, <2>5, <2>7, <2>8, <2>9 DEF SharedOK
  <2> QED BY <2>1, <2>2, <2>10
<1>8. ASSUME NEW t \in AddedOf(c, B) PROVE AddedOK(c, P, t, base)
  BY PlanCreates DEF AddedOK
<1>9. Ordered(P, P)
  BY DEF Ordered
<1> QED BY <1>5, <1>7, <1>8, <1>9 DEF OnTheWay

-----------------------------------------------------------------------------
(* After the last step *)

LEMMA NothingLeft ==
  ASSUME NEW c
  PROVE /\ \A s : ~Renames({}, s) /\ ~Creates({}, s) /\ ~DropsTable({}, s) /\ ~Comments({}, s)
        /\ \A t, i : ~CreatesIndex({}, t, i) /\ ~DropsIndex({}, i)
        /\ \A g, t : ~Alters({}, g, t)
        /\ \A t, k : ~AddsConstraint({}, t, k)
        /\ \A s : Place(c, {}, s) = Target(c, s)
BY DEF Renames, Creates, DropsTable, Comments, CreatesIndex, DropsIndex, Alters, AddsConstraint, Place

\* A table whose columns the plan does not change had them right before.
LEMMA NothingToAlter ==
  ASSUME NEW c, NEW B, NEW t, NEW at, AddAlter(c, B, t) = Alter(at, t),
         NEW X, DOMAIN X.cols = IF Allowed(c) THEN DOMAIN OldOf(c, B)[t].cols \ DropsOf(c, B, t)
                                ELSE DOMAIN OldOf(c, B)[t].cols,
         \A x \in DOMAIN X.cols : SameColumn(X.cols[x], OldOf(c, B)[t].cols[x])
  PROVE ColumnsReached(c, t, AddsOf(c, B, t), X)
<1>1. PICK old, want : old = OldOf(c, B)[t].cols /\ want = c.after[t].cols
  OBVIOUS
<1>2. RenamesOf(c, B, t) = {} /\ AddsOf(c, B, t) = {} /\ SetsOf(c, B, t) = {}
  BY NothingAltered
<1>3. DropsOf(c, B, t) = DOMAIN old \ DOMAIN want /\ DOMAIN want \ DOMAIN old = {}
  <2>1. {r[1] : r \in RenamesOf(c, B, t)} = {} /\ {r[2] : r \in RenamesOf(c, B, t)} = {}
    BY <1>2
  <2>2. DropsOf(c, B, t) = (DOMAIN old \ DOMAIN want) \ {r[1] : r \in RenamesOf(c, B, t)}
    BY <1>1 DEF DropsOf
  <2>3. AddsOf(c, B, t) = (DOMAIN want \ DOMAIN old) \ {r[2] : r \in RenamesOf(c, B, t)}
    BY <1>1 DEF AddsOf
  <2> QED BY <1>2, <2>1, <2>2, <2>3
<1>4. /\ DOMAIN want \subseteq DOMAIN X.cols
      /\ Allowed(c) => DOMAIN X.cols = DOMAIN want
  <2>1. DOMAIN X.cols = IF Allowed(c) THEN DOMAIN old \ (DOMAIN old \ DOMAIN want) ELSE DOMAIN old
    BY <1>1, <1>3
  <2> QED BY <1>3, <2>1
<1>5. ASSUME NEW x \in DOMAIN want PROVE ColumnReached(X.cols[x], want[x])
  <2>1. FromOf(c, B, t, x) = x
    BY <1>2 DEF FromOf
  <2>2. AlterActionsForColumn(x, OldOf(c, B)[t].cols[FromOf(c, B, t, x)], c.after[t].cols[x])
          \subseteq SetsOf(c, B, t)
    BY <1>1, <1>2, SetsAre
  <2>3. PICK b, a : b = old[x] /\ a = want[x]
    OBVIOUS
  <2>4. AlterActionsForColumn(x, b, a) = {}
    BY <1>1, <1>2, <2>1, <2>2, <2>3
  <2>5. \A attr : ~Writes(AlterActionsForColumn(x, b, a), x, attr)
    BY <2>4 DEF Writes
  <2>6. a.type = b.type /\ a.notNull = b.notNull /\ (~a.hasDefault => a.hasDefault = b.hasDefault)
    BY <2>5, ActionsAre
  <2>7. SameColumn(X.cols[x], b)
    BY <1>1, <1>4, <2>3
  <2> QED BY <2>3, <2>6, <2>7 DEF SameColumn, ColumnReached
<1> QED BY <1>1, <1>2, <1>4, <1>5 DEF ColumnsReached

\* The tables of both schemas.
LEMMA SharedCarried ==
  ASSUME NEW c, NEW B, ~Thrown(c, B), NEW t \in SharedOf(c, B),
         NEW X, SharedOK(c, B, NodesOf(c, B), {}, t, X)
  PROVE /\ ColumnsReached(c, t, NewColumns(c, B, t), X)
        /\ CarriedCons(c, B, t) \subseteq X.cons
        /\ IndexesOK(c, {}, t, X) /\ X.comment = c.after[t].comment
<1> DEFINE P == NodesOf(c, B)
<1>1. NewColumns(c, B, t) = AddsOf(c, B, t)
  BY DEF NewColumns
<1>2. /\ ~Alters(P, 8, t) =>
           /\ DOMAIN X.cols = IF Allowed(c) THEN DOMAIN OldOf(c, B)[t].cols \ DropsOf(c, B, t)
                              ELSE DOMAIN OldOf(c, B)[t].cols
           /\ \A x \in DOMAIN X.cols : SameColumn(X.cols[x], OldOf(c, B)[t].cols[x])
      /\ Alters(P, 8, t) =>
           ColumnsReached(c, t, AddsOf(c, B, t), X) /\ AddConsOf(c, B, t) \subseteq X.cons
      /\ c.after[t].cons \cap OldOf(c, B)[t].cons \subseteq X.cons
      /\ IndexesOK(c, {}, t, X) /\ CommentOK(c, {}, t, X)
  <2>1. P \ {} = P
    OBVIOUS
  <2> QED BY <2>1, NothingLeft DEF SharedOK
<1>3. ColumnsReached(c, t, AddsOf(c, B, t), X) /\ AddConsOf(c, B, t) \subseteq X.cons
  <2>1. CASE Alters(P, 8, t)
    BY <1>2, <2>1
  <2>2. CASE ~Alters(P, 8, t)
    <3>1. AddAlter(c, B, t) \notin P
      <4>1. ASSUME NEW m \in P, m = AddAlter(c, B, t) PROVE FALSE
        <5>1. m # DropAlter(c, B, t)
          BY <4>1, AddAlterFields, DropAlterFields DEF Group
        <5>2. m.type = "alter_table" /\ m.table = t /\ Group(m) = 8
          BY <4>1, <5>1, AlterTypes
        <5> QED BY <2>2, <5>2 DEF Alters
      <4> QED BY <4>1
    <3>2. AddAlter(c, B, t) = Alter(<<8, Rank(c.order, t), 1>>, t)
      BY <3>1, PlanAdds
    <3>3. ColumnsReached(c, t, AddsOf(c, B, t), X)
      BY <1>2, <2>2, <3>2, NothingToAlter
    <3>4. AddConsOf(c, B, t) = {}
      BY <3>2, NothingAltered
    <3> QED BY <3>3, <3>4
  <2> QED BY <2>1, <2>2
<1>4. CarriedCons(c, B, t) \subseteq X.cons
  BY <1>2, <1>3 DEF CarriedCons
<1>5. X.comment = c.after[t].comment
  BY <1>2, NothingLeft DEF CommentOK
<1> QED BY <1>1, <1>2, <1>3, <1>4, <1>5

\* A plan executed to its end has carried out the migration.
LEMMA CarriedOut ==
  ASSUME NEW c, NEW B, ~Thrown(c, B), NEW base, OnTheWay(c, B, NodesOf(c, B), {}, base)
  PROVE KeptOK(c, B, {}, base)
<1>1. Clean(c, B)
  BY NothingLeft DEF OnTheWay, PlacesOK, Clean
<1>2. /\ \A s \in DOMAIN B : Target(c, s) \in DOMAIN c.after =>
           /\ Target(c, s) \in DOMAIN base
           /\ SharedOK(c, B, NodesOf(c, B), {}, Target(c, s), base[Target(c, s)])
      /\ \A t \in AddedOf(c, B) : AddedOK(c, {}, t, base)
  BY <1>1, NothingLeft DEF OnTheWay, PlacesOK
<1>3. ASSUME NEW t \in SharedOf(c, B)
      PROVE t \in DOMAIN base /\ SharedOK(c, B, NodesOf(c, B), {}, t, base[t])
  <2>1. PICK s \in DOMAIN B : Target(c, s) = t
    BY OldDomain DEF SharedOf
  <2>2. t \in DOMAIN c.after
    BY DEF SharedOf
  <2> QED BY <1>2, <2>1, <2>2
<1>4. ASSUME NEW t \in AddedOf(c, B)
      PROVE /\ t \in DOMAIN base
            /\ ColumnsReached(c, t, DOMAIN c.after[t].cols, base[t])
            /\ c.after[t].cons \subseteq base[t].cons
            /\ IndexesOK(c, {}, t, base[t]) /\ base[t].comment = c.after[t].comment
  <2>1. AddedOK(c, {}, t, base)
    BY <1>2
  <2> QED BY <2>1, NothingLeft DEF AddedOK, CommentOK
<1>5. DOMAIN c.after = SharedOf(c, B) \cup AddedOf(c, B)
  BY DEF SharedOf, AddedOf
<1>6. ASSUME Allowed(c), NEW u \in DOMAIN base PROVE u \in DOMAIN c.after
  <2>1. \/ u \in DOMAIN B /\ Target(c, u) = u /\ u \in DOMAIN c.after
        \/ \E s \in DOMAIN B : Target(c, s) = u /\ s # u
        \/ u \in AddedOf(c, B)
    BY <1>6, NothingLeft DEF OnTheWay, PlacesOK
  <2> QED BY <1>5, <2>1, Targets
<1>7. ASSUME NEW t \in DOMAIN c.after
      PROVE /\ t \in DOMAIN base
            /\ ColumnsReached(c, t, NewColumns(c, B, t), base[t])
            /\ CarriedCons(c, B, t) \subseteq base[t].cons
            /\ IndexesOK(c, {}, t, base[t]) /\ base[t].comment = c.after[t].comment
  <2>1. CASE t \in SharedOf(c, B)
    <3>1. t \in DOMAIN base /\ SharedOK(c, B, NodesOf(c, B), {}, t, base[t])
      BY <1>3, <2>1
    <3> QED BY <2>1, <3>1, SharedCarried
  <2>2. CASE t \notin SharedOf(c, B)
    <3>1. t \in AddedOf(c, B)
      BY <1>5, <2>2
    <3>2. NewColumns(c, B, t) = DOMAIN c.after[t].cols /\ CarriedCons(c, B, t) = c.after[t].cons
      BY <2>2 DEF NewColumns, CarriedCons
    <3> QED BY <1>4, <3>1, <3>2
  <2> QED BY <2>1, <2>2
<1>8. Allowed(c) => DOMAIN base = DOMAIN c.after
  BY <1>6, <1>7
<1> QED BY <1>7, <1>8 DEF KeptOK, TableKept

\* What Carried says of a table, from what KeptOK says of it.
LEMMA IndexesAre ==
  ASSUME NEW c, NEW t, NEW X, IndexesOK(c, {}, t, X), AreIndexes(X.idx), AreIndexes(c.after[t].idx)
  PROVE /\ \A i \in DOMAIN c.after[t].idx : i \in DOMAIN X.idx /\ X.idx[i] = c.after[t].idx[i]
        /\ Allowed(c) => c.after[t].idx = X.idx
<1>1. PICK f, g : f = c.after[t].idx /\ g = X.idx
  OBVIOUS
<1>2. \A i \in DOMAIN f : i \in DOMAIN g /\ g[i] = f[i]
  BY <1>1, NothingLeft DEF IndexesOK
<1>3. Allowed(c) => DOMAIN g \subseteq DOMAIN f
  BY <1>1, NothingLeft DEF IndexesOK
<1>4. Allowed(c) => f = g
  BY <1>1, <1>2, <1>3 DEF AreIndexes
<1> QED BY <1>1, <1>2, <1>4

\* The new columns of Carried.
LEMMA NewColumnsAre ==
  ASSUME NEW B, NEW t \in DOMAIN change.after
  PROVE LET old == IF t \in DOMAIN Old(B) THEN Old(B)[t] ELSE [cols |-> <<>>, cons |-> {}]
        IN /\ NewColumns(change, B, t) =
                (DOMAIN change.after[t].cols \ DOMAIN old.cols)
                \ (IF t \in Shared(B) THEN {r[2] : r \in ColumnMoves(B, t)} ELSE {})
           /\ CarriedCons(change, B, t) =
                {k \in change.after[t].cons :
                   k \in Without(change.after[t].cons, old.cons) \cup old.cons}
<1> DEFINE old == IF t \in DOMAIN Old(B) THEN Old(B)[t] ELSE [cols |-> <<>>, cons |-> {}]
<1>1. Old(B) = OldOf(change, B) /\ Shared(B) = SharedOf(change, B)
  BY DEF Old, OldOf, Shared, SharedOf
<1>2. CASE t \in SharedOf(change, B)
  <2>1. old = OldOf(change, B)[t]
    BY <1>1, <1>2 DEF SharedOf
  <2>2. ColumnMoves(B, t) = RenamesOf(change, B, t)
    BY <1>1 DEF ColumnMoves, RenamesOf
  <2>3. NewColumns(change, B, t) =
          (DOMAIN change.after[t].cols \ DOMAIN old.cols) \ {r[2] : r \in ColumnMoves(B, t)}
    BY <1>2, <2>1, <2>2 DEF NewColumns, AddsOf
  <2>4. CarriedCons(change, B, t) =
          {k \in change.after[t].cons :
             k \in Without(change.after[t].cons, old.cons) \cup old.cons}
    BY <1>2, <2>1 DEF CarriedCons, AddConsOf
  <2> QED BY <1>1, <1>2, <2>3, <2>4
<1>3. CASE t \notin SharedOf(change, B)
  <2>1. old = [cols |-> <<>>, cons |-> {}]
    BY <1>1, <1>3 DEF SharedOf
  <2>2. DOMAIN old.cols = {} /\ old.cons = {}
    BY <2>1
  <2>3. Without(change.after[t].cons, old.cons) = change.after[t].cons
    BY <2>2 DEF Without
  <2> QED BY <1>1, <1>3, <2>2, <2>3 DEF NewColumns, CarriedCons
<1> QED BY <1>2, <1>3

\* A migration that has been carried out has reached the schema.
LEMMA KeptIsCarried ==
  ASSUME RealChange(change), NEW B, NEW base, IsDatabase(base), RealBase(change, base),
         KeptOK(change, B, {}, base)
  PROVE Carried(B, Schema(base))
<1>1. PICK schema : schema = Schema(base)
  OBVIOUS
<1>2. SchemaFits(base, schema)
  BY <1>1, SchemaIs
<1>3. Drops <=> Allowed(change)
  BY DEF Drops, Allowed
<1>4. ASSUME NEW t \in DOMAIN change.after
      PROVE LET want == change.after[t]
                have == schema[t]
                old == IF t \in DOMAIN Old(B) THEN Old(B)[t] ELSE [cols |-> <<>>, cons |-> {}]
                new == (DOMAIN want.cols \ DOMAIN old.cols)
                       \ (IF t \in Shared(B) THEN {r[2] : r \in ColumnMoves(B, t)} ELSE {})
            IN /\ t \in DOMAIN schema
               /\ DOMAIN want.cols \subseteq DOMAIN have.cols
               /\ Drops => DOMAIN want.cols = DOMAIN have.cols /\ want.idx = have.idx
               /\ \A i \in DOMAIN want.idx : i \in DOMAIN have.idx /\ have.idx[i] = want.idx[i]
               /\ \A c \in DOMAIN want.cols :
                    /\ have.cols[c].type = want.cols[c].type
                    /\ have.cols[c].notNull = want.cols[c].notNull
                    /\ ~want.cols[c].hasDefault => ~have.cols[c].hasDefault
               /\ \A c \in new : have.cols[c].ref = want.cols[c].ref
                                 /\ have.cols[c].hasDefault = want.cols[c].hasDefault
               /\ \A k \in want.cons :
                    k \in Without(want.cons, old.cons) \cup old.cons => k \in have.cons
               /\ have.comment = want.comment
  <2>1. PICK X, have, want : X = base[t] /\ have = schema[t] /\ want = change.after[t]
    OBVIOUS
  <2>2. /\ t \in DOMAIN base /\ ColumnsReached(change, t, NewColumns(change, B, t), X)
        /\ \A k \in CarriedCons(change, B, t) : k \in X.cons
        /\ IndexesOK(change, {}, t, X) /\ X.comment = want.comment
    BY <2>1, NothingLeft DEF KeptOK, TableKept
  <2>3. /\ t \in DOMAIN schema /\ DOMAIN have.cols = DOMAIN X.cols
        /\ \A x \in DOMAIN X.cols :
             SameColumn(have.cols[x], X.cols[x]) /\ have.cols[x].ref = X.cols[x].ref
        /\ have.cons = X.cons /\ have.idx = X.idx /\ have.comment = X.comment
    BY <1>2, <2>1, <2>2 DEF SchemaFits
  <2>4. /\ DOMAIN want.cols \subseteq DOMAIN X.cols
        /\ Allowed(change) => DOMAIN X.cols = DOMAIN want.cols
        /\ \A x \in DOMAIN want.cols : ColumnReached(X.cols[x], want.cols[x])
        /\ \A x \in NewColumns(change, B, t) :
             X.cols[x].ref = want.cols[x].ref /\ X.cols[x].hasDefault = want.cols[x].hasDefault
    BY <2>1, <2>2 DEF ColumnsReached
  <2>5. \A x \in DOMAIN want.cols :
          /\ have.cols[x].type = want.cols[x].type
          /\ have.cols[x].notNull = want.cols[x].notNull
          /\ ~want.cols[x].hasDefault => ~have.cols[x].hasDefault
    BY <2>3, <2>4 DEF SameColumn, ColumnReached
  <2>6. NewColumns(change, B, t) \subseteq DOMAIN want.cols
    BY <2>1 DEF NewColumns, AddsOf
  <2>7. \A x \in NewColumns(change, B, t) :
          have.cols[x].ref = want.cols[x].ref /\ have.cols[x].hasDefault = want.cols[x].hasDefault
    BY <2>3, <2>4, <2>6 DEF SameColumn
  <2>8. /\ \A i \in DOMAIN want.idx : i \in DOMAIN X.idx /\ X.idx[i] = want.idx[i]
        /\ Allowed(change) => want.idx = X.idx
    <3>1. AreIndexes(X.idx) /\ AreIndexes(change.after[t].idx)
      BY <2>1, <2>2, RealSchemaIs DEF RealBase, RealChange
    <3> QED BY <2>1, <2>2, <3>1, IndexesAre
  <2> DEFINE old == IF t \in DOMAIN Old(B) THEN Old(B)[t] ELSE [cols |-> <<>>, cons |-> {}]
             new == (DOMAIN want.cols \ DOMAIN old.cols)
                    \ (IF t \in Shared(B) THEN {r[2] : r \in ColumnMoves(B, t)} ELSE {})
  <2>9. /\ new = NewColumns(change, B, t)
        /\ \A k \in want.cons :
             k \in Without(want.cons, old.cons) \cup old.cons => k \in CarriedCons(change, B, t)
    BY <2>1, NewColumnsAre
  <2> HIDE DEF old, new
  <2>10. /\ \A x \in new : /\ have.cols[x].ref = want.cols[x].ref
                           /\ have.cols[x].hasDefault = want.cols[x].hasDefault
         /\ \A k \in want.cons :
              k \in Without(want.cons, old.cons) \cup old.cons => k \in have.cons
    BY <2>2, <2>3, <2>7, <2>9
  <2>11. /\ t \in DOMAIN schema
         /\ DOMAIN want.cols \subseteq DOMAIN have.cols
         /\ Drops => DOMAIN want.cols = DOMAIN have.cols /\ want.idx = have.idx
         /\ \A i \in DOMAIN want.idx : i \in DOMAIN have.idx /\ have.idx[i] = want.idx[i]
         /\ have.comment = want.comment
    BY <1>3, <2>2, <2>3, <2>4, <2>8
  <2> USE DEF old, new
  <2> QED BY <2>1, <2>5, <2>10, <2>11
<1>5. Drops => DOMAIN schema = DOMAIN change.after
  BY <1>2, <1>3 DEF KeptOK, SchemaFits
<1> QED BY <1>1, <1>4, <1>5 DEF Carried

-----------------------------------------------------------------------------
(* The invariant of migrations on their way *)

LEMMA InitReach == Init => ReachInv
<1> SUFFICES ASSUME Init PROVE ReachInv
  OBVIOUS
<1>1. RealChange(change) /\ IsDatabase(db)
  BY SchemaAssumption, InitInv DEF Init, Inv, ConsentInv
<1>2. PICK B : B = change.before
  OBVIOUS
<1>3. /\ DOMAIN db = DOMAIN B
      /\ \A t \in DOMAIN B : db[t].cons = B[t].cons /\ db[t].idx = B[t].idx
  <2> DEFINE cols(t) == [c \in DOMAIN B[t].cols |->
                           Stored(B[t].cols[c], B[t].cols[c].comment, <<t, c>>)]
  <2>1. db = [t \in DOMAIN B |-> [B[t] EXCEPT !.cols = cols(t)]]
    BY <1>2 DEF Init, Populated
  <2>2. ASSUME NEW t \in DOMAIN B PROVE db[t].cons = B[t].cons /\ db[t].idx = B[t].idx
    <3>1. PICK r, v, q : r = B[t] /\ v = cols(t) /\ q = db[t]
      OBVIOUS
    <3>2. IsTable(r)
      BY <1>2, <3>1, MigrationAssumption DEF Init
    <3>3. q = [r EXCEPT !.cols = v]
      BY <2>1, <3>1
    <3>4. q.cons = r.cons /\ q.idx = r.idx
      BY <3>2, <3>3, TableParts
    <3> QED BY <3>1, <3>4
  <2> QED BY <2>1, <2>2
<1>4. RealBase(change, db)
  <2>1. RealSchema(B)
    BY <1>1, <1>2 DEF RealChange
  <2>2. RealSchema(db)
    BY <1>3, <2>1, RealSchemaIs
  <2> QED BY <1>2, <1>3, <2>2 DEF RealBase
<1>5. RealBase(change, <<>>)
  <2>1. PICK e : e = <<>> /\ DOMAIN e = {}
    BY <1>1
  <2>2. RealSchema(e)
    BY <2>1, RealSchemaIs
  <2> QED BY <2>1, <2>2 DEF RealBase
<1>6. \A d \in Deploys : OnPlan(change, known[d], plan[d], stage[d], fresh[d], db)
  BY <1>5 DEF Init, OnPlan
<1> QED BY <1>4, <1>6 DEF Init, ReachInv

\* What does not depend on the database.
LEMMA OffPlan ==
  ASSUME NEW c, NEW B, NEW R, NEW where, NEW isFresh, NEW base,
         OnPlan(c, B, R, where, isFresh, base), NEW there, NEW isStill, NEW next,
         \/ there = where /\ there # "running"
         \/ there \notin {"waiting", "running"}
  PROVE OnPlan(c, B, R, there, isStill, next)
BY DEF OnPlan

\* A new plan.
LEMMA PlansAnew ==
  ASSUME NEW c, NEW base, IsDatabase(base), RealBase(c, base), NEW B, B = Schema(base),
         NEW R, R = NodesOf(c, B), NEW where, where \in {"thrown", "waiting", "done"},
         where = "waiting" => ~Thrown(c, B), NEW isFresh, NEW next
  PROVE OnPlan(c, B, R, where, isFresh, next)
<1>1. RealBase(c, B)
  BY SchemaIs, SchemaIsReal
<1> QED BY <1>1 DEF OnPlan

\* Its execution begins.
LEMMA PlanBegins ==
  ASSUME NEW c, RealChange(c), NEW base, IsDatabase(base), RealBase(c, base),
         NEW B, NEW R, NEW isFresh, NEW other, OnPlan(c, B, R, "waiting", other, base),
         NEW now, now <=> B = Schema(base)
  PROVE OnPlan(c, B, R, "running", now, base)
<1>1. RealBase(c, B) /\ R = NodesOf(c, B) /\ ~Thrown(c, B)
  BY DEF OnPlan
<1>2. Ordered(R, R)
  BY DEF Ordered
<1>3. now => OnTheWay(c, B, R, R, base)
  BY <1>1, OnTheWayFrom
<1> QED BY <1>1, <1>2, <1>3 DEF OnPlan

\* One of its steps is executed.
LEMMA PlanGoesOn ==
  ASSUME NEW c, RealChange(c), NEW base, IsDatabase(base), RealBase(c, base),
         NEW B, NEW R, NEW isFresh, OnPlan(c, B, R, "running", isFresh, base),
         NEW n \in Firsts(R), Accepts(base, n), NEW next, next = After(base, n)
  PROVE RealBase(c, next) /\ OnPlan(c, B, R \ {n}, "running", isFresh, next)
<1>1. PICK P : P = NodesOf(c, B)
  OBVIOUS
<1>2. RealBase(c, B) /\ R \subseteq P /\ Ordered(P, R) /\ ~Thrown(c, B)
  BY <1>1 DEF OnPlan
<1>3. \A m \in P : NodeOK(c, B, m)
  BY <1>1, NodesAreOK
<1>4. Stepping(c, B, P, R, n, base, next)
  BY <1>2, <1>3 DEF Stepping
<1>5. RealBase(c, next)
  <2>1. NodeOK(c, B, n) /\ RealSchema(c.after)
    BY <1>2, <1>3 DEF Firsts, RealChange
  <2> QED BY <2>1, RealBaseKept
<1>6. isFresh => OnTheWay(c, B, P, R \ {n}, next)
  BY <1>1, <1>2, <1>4, OnTheWayKept DEF OnPlan
<1>7. Ordered(P, R \ {n})
  BY <1>2, OrderedKept
<1> QED BY <1>1, <1>2, <1>5, <1>6, <1>7 DEF OnPlan

LEMMA NextReach == Inv /\ ReachInv /\ [Next]_vars => ReachInv'
<1> SUFFICES ASSUME Inv, ReachInv, [Next]_vars PROVE ReachInv'
  OBVIOUS
<1>0. /\ RealChange(change) /\ IsDatabase(db) /\ IsDatabase(saved)
      /\ DOMAIN plan = Deploys /\ DOMAIN known = Deploys
      /\ DOMAIN stage = Deploys /\ DOMAIN fresh = Deploys
  BY SchemaAssumption DEF Inv, TypeOK, ConsentInv, ReachInv
<1>1. ASSUME NEW d \in Deploys, Plan(d) PROVE ReachInv'
  <2>1. PICK base : base = Committed /\ IsDatabase(base) /\ RealBase(change, base)
    BY <1>0 DEF Committed, ReachInv
  <2>2. PICK B, R : B = Schema(base) /\ R = NodesOf(change, B)
    OBVIOUS
  <2>3. PICK where, now :
          /\ stage[d] = "idle" /\ UNCHANGED <<change, db, saved>>
          /\ known' = [known EXCEPT ![d] = B] /\ plan' = [plan EXCEPT ![d] = R]
          /\ stage' = [stage EXCEPT ![d] = where] /\ fresh' = [fresh EXCEPT ![d] = now]
          /\ where \in {"thrown", "waiting", "done"} /\ (where = "waiting" => ~Thrown(change, B))
    <3>1. PICK where : where = IF Thrown(change, B) THEN "thrown"
                               ELSE IF R = {} THEN "done" ELSE "waiting"
      OBVIOUS
    <3>2. stage' = [stage EXCEPT ![d] = where] /\ plan' = [plan EXCEPT ![d] = R]
      BY <1>1, <2>1, <2>2, <3>1 DEF Plan, Thrown, NodesOf
    <3>3. PICK now : fresh' = [fresh EXCEPT ![d] = now]
      BY <1>1 DEF Plan
    <3>4. /\ stage[d] = "idle" /\ UNCHANGED <<change, db, saved>>
          /\ known' = [known EXCEPT ![d] = B]
      BY <1>1, <2>1, <2>2 DEF Plan
    <3>5. where \in {"thrown", "waiting", "done"} /\ (where = "waiting" => ~Thrown(change, B))
      BY <3>1
    <3> QED BY <3>2, <3>3, <3>4, <3>5
  <2>4. ASSUME NEW e \in Deploys PROVE OnPlan(change, known'[e], plan'[e], stage'[e], fresh'[e], db)
    <3>1. CASE e = d
      <4>1. known'[e] = B /\ plan'[e] = R /\ stage'[e] = where /\ fresh'[e] = now
        BY <1>0, <2>3, <3>1
      <4>2. OnPlan(change, B, R, where, now, db)
        BY <2>1, <2>2, <2>3, PlansAnew
      <4> QED BY <4>1, <4>2
    <3>2. CASE e # d
      BY <1>0, <2>3, <3>2 DEF ReachInv
    <3> QED BY <3>1, <3>2
  <2>5. \A e \in Deploys : stage'[e] = "running" => stage[e] = "running"
    BY <1>0, <2>3
  <2> QED BY <2>3, <2>4, <2>5, <1>0 DEF ReachInv
<1>2. ASSUME NEW d \in Deploys, Begin(d) PROVE ReachInv'
  <2>1. /\ stage[d] = "waiting" /\ UNCHANGED <<change, db, known, plan>> /\ saved' = db
        /\ stage' = [stage EXCEPT ![d] = "running"]
        /\ fresh' = [fresh EXCEPT ![d] = known[d] = Schema(db)]
        /\ \A e \in Deploys : stage[e] # "running"
    BY <1>2 DEF Begin, Idle
  <2>2. OnPlan(change, known[d], plan[d], "running", fresh'[d], db)
    <3>1. fresh'[d] <=> known[d] = Schema(db)
      BY <1>0, <2>1
    <3>2. OnPlan(change, known[d], plan[d], "waiting", fresh[d], db)
      BY <2>1 DEF ReachInv
    <3>3. PICK now : now = fresh'[d]
      OBVIOUS
    <3>4. now <=> known[d] = Schema(db)
      BY <3>1, <3>3
    <3>5. RealBase(change, db)
      BY DEF ReachInv
    <3>6. OnPlan(change, known[d], plan[d], "running", now, db)
      BY <1>0, <3>2, <3>4, <3>5, PlanBegins
    <3> QED BY <3>3, <3>6
  <2>3. ASSUME NEW e \in Deploys PROVE OnPlan(change, known[e], plan[e], stage'[e], fresh'[e], db)
    <3>1. CASE e = d
      BY <1>0, <2>1, <2>2, <3>1
    <3>2. CASE e # d
      BY <1>0, <2>1, <3>2 DEF ReachInv
    <3> QED BY <3>1, <3>2
  <2>4. \A e \in Deploys : stage'[e] = "running" => e = d
    BY <1>0, <2>1
  <2>5. RealBase(change, db) /\ DOMAIN known = Deploys
    BY DEF ReachInv
  <2> QED BY <2>1, <2>3, <2>4, <2>5 DEF ReachInv
<1>3. ASSUME NEW d \in Deploys, NEW n, Step(d, n) PROVE ReachInv'
  <2>1. PICK next, R, B, now :
          next = db' /\ R = plan[d] /\ B = known[d] /\ now = fresh[d]
    OBVIOUS
  <2>2. /\ stage[d] = "running" /\ n \in Firsts(R) /\ Accepts(db, n) /\ next = After(db, n)
        /\ UNCHANGED <<change, saved, stage, known, fresh>>
        /\ plan' = [plan EXCEPT ![d] = plan[d] \ {n}]
    BY <1>3, <2>1 DEF Step
  <2>3. RealBase(change, next) /\ OnPlan(change, B, R \ {n}, "running", now, next)
    <3>1. OnPlan(change, B, R, "running", now, db) /\ RealBase(change, db)
      BY <2>1, <2>2 DEF ReachInv
    <3> QED BY <1>0, <2>2, <3>1, PlanGoesOn
  <2>4. ASSUME NEW e \in Deploys PROVE OnPlan(change, known[e], plan'[e], stage[e], fresh[e], next)
    <3>1. CASE e = d
      BY <1>0, <2>1, <2>2, <2>3, <3>1
    <3>2. CASE e # d
      <4>1. stage[e] # "running" /\ plan'[e] = plan[e]
        BY <1>0, <2>2, <3>2 DEF ReachInv
      <4>2. OnPlan(change, known[e], plan[e], stage[e], fresh[e], db)
        BY DEF ReachInv
      <4>3. OnPlan(change, known[e], plan[e], stage[e], fresh[e], next)
        BY <4>1, <4>2, OffPlan
      <4> QED BY <4>1, <4>3
    <3> QED BY <3>1, <3>2
  <2> QED BY <1>0, <2>1, <2>2, <2>3, <2>4 DEF ReachInv
<1>4. ASSUME NEW d \in Deploys, NEW why, stage[d] = "running", Fails(d, why) PROVE ReachInv'
  <2>1. PICK next : next = db'
    OBVIOUS
  <2>2. /\ stage' = [stage EXCEPT ![d] = "failed"] /\ (next = saved \/ next = db)
        /\ UNCHANGED <<change, saved, known, plan, fresh>>
    BY <1>4, <2>1 DEF Fails
  <2>3. RealBase(change, next)
    BY <2>2 DEF ReachInv
  <2>4. ASSUME NEW e \in Deploys PROVE OnPlan(change, known[e], plan[e], stage'[e], fresh[e], next)
    <3>1. OnPlan(change, known[e], plan[e], stage[e], fresh[e], db)
      BY DEF ReachInv
    <3>2. \/ stage'[e] = "failed"
          \/ stage'[e] = stage[e] /\ stage[e] # "running"
      BY <1>0, <1>4, <2>2 DEF ReachInv
    <3>3. PICK there : there = stage'[e]
      OBVIOUS
    <3>4. OnPlan(change, known[e], plan[e], there, fresh[e], next)
      BY <3>1, <3>2, <3>3, OffPlan
    <3> QED BY <3>3, <3>4
  <2>5. \A e \in Deploys : stage'[e] # "running"
    BY <1>0, <1>4, <2>2 DEF ReachInv
  <2> QED BY <1>0, <2>1, <2>2, <2>3, <2>4, <2>5 DEF ReachInv
<1>5. ASSUME NEW d \in Deploys, NEW there, there \in {"done", "idle"},
             stage' = [stage EXCEPT ![d] = there], UNCHANGED <<change, db, saved, known, plan, fresh>>
      PROVE ReachInv'
  <2>1. ASSUME NEW e \in Deploys PROVE OnPlan(change, known[e], plan[e], stage'[e], fresh[e], db)
    <3>1. OnPlan(change, known[e], plan[e], stage[e], fresh[e], db)
      BY DEF ReachInv
    <3>2. CASE e = d
      <4>1. OnPlan(change, known[e], plan[e], there, fresh[e], db)
        BY <1>5, <3>1, OffPlan
      <4> QED BY <1>0, <1>5, <3>2, <4>1
    <3>3. CASE e # d
      BY <1>0, <1>5, <3>1, <3>3
    <3> QED BY <3>2, <3>3
  <2>2. \A e \in Deploys : stage'[e] = "running" => stage[e] = "running"
    BY <1>0, <1>5
  <2> QED BY <1>5, <2>1, <2>2 DEF ReachInv
<1>6. ASSUME UNCHANGED vars PROVE ReachInv'
  BY <1>6 DEF vars, deployVars, ReachInv
<1>7. ASSUME NEW d \in Deploys, NEW n, StepRefused(d, n) PROVE ReachInv'
  BY <1>4, <1>7 DEF StepRefused
<1>8. ASSUME NEW d \in Deploys, Fault(d) PROVE ReachInv'
  BY <1>4, <1>8 DEF Fault
<1>9. ASSUME NEW d \in Deploys, Finish(d) \/ Again(d) PROVE ReachInv'
  BY <1>5, <1>9 DEF Finish, Again
<1> QED BY <1>1, <1>2, <1>3, <1>6, <1>7, <1>8, <1>9 DEF Next, Done

\* The argument of ReachesTheSchema.
LEMMA Reaches == Inv /\ ReachInv => ReachesTheSchema
<1> SUFFICES ASSUME Inv, ReachInv, NEW d \in Deploys, fresh[d], stage[d] = "running", plan[d] = {}
             PROVE Carried(known[d], Schema(db))
  BY DEF ReachesTheSchema
<1>1. RealChange(change) /\ IsDatabase(db) /\ RealBase(change, db)
  BY SchemaAssumption DEF Inv, TypeOK, ConsentInv, ReachInv
<1>2. /\ ~Thrown(change, known[d])
      /\ OnTheWay(change, known[d], NodesOf(change, known[d]), {}, db)
  BY DEF ReachInv, OnPlan
<1>3. KeptOK(change, known[d], {}, db)
  BY <1>2, CarriedOut
<1> QED BY <1>1, <1>3, KeptIsCarried

\* A migration whose plan was made for the schema of the database (`before`) and
\* whose steps have all been executed (applyMigration's loop) has brought the
\* database to the schema asked for, as far as diffSchemas carries changes, for
\* any real schemas, renames and modes.
THEOREM MigrationReachesSchema == Spec => []ReachesTheSchema
<1>1. Init => Inv /\ ReachInv
  BY InitInv, InitReach
<1>2. Inv /\ ReachInv /\ [Next]_vars => (Inv /\ ReachInv)'
  <2>1. Inv /\ [Next]_vars => Inv'
    BY NextTypes, NextConsent, NextDrops DEF Inv
  <2> QED BY <2>1, NextReach
<1>3. Inv /\ ReachInv => ReachesTheSchema
  BY Reaches
<1> QED BY <1>1, <1>2, <1>3, PTL DEF Spec

-----------------------------------------------------------------------------
(* What another deploy does to a schema that has been reached *)

\* What its plan drops and the new schema has is created again later.
LEMMA DroppedComesAgain ==
  ASSUME NEW c, NEW E, Listed(c, E), RealSchema(E), ~Thrown(c, E),
         NEW P, P = NodesOf(c, E), NEW R, Ordered(P, R),
         NEW t \in DOMAIN c.after, NEW i \in DOMAIN c.after[t].idx, DropsIndex(R, i)
  PROVE CreatesIndex(R, t, i)
<1>1. PICK m \in R : m.type = "drop_index" /\ m.index = i
  BY DEF DropsIndex
<1>2. NodeOK(c, E, m) /\ m \in P
  BY NodesAreOK DEF Ordered
<1>3. Group(m) \in {1, 3}
  BY <1>1, <1>2, GroupsAre
<1>4. PICK u \in DOMAIN OldOf(c, E) :
        /\ i \in DOMAIN OldOf(c, E)[u].idx
        /\ u \in DOMAIN c.after => i \in DiffIndexes(OldOf(c, E)[u], c.after[u]).dropped
  BY <1>1, <1>2 DEF NodeOK
<1>5. CreatesIndex(P, t, i)
  <2>1. CASE t \in AddedOf(c, E)
    BY <2>1, PlanCreates
  <2>2. CASE t \notin AddedOf(c, E)
    <3>1. t \in SharedOf(c, E) /\ t \in DOMAIN OldOf(c, E)
      BY <2>2 DEF AddedOf, SharedOf
    <3>2. PICK v, w \in DOMAIN E : /\ Target(c, v) = u /\ OldOf(c, E)[u] = E[v]
                                   /\ Target(c, w) = t /\ OldOf(c, E)[t] = E[w]
      BY <1>4, <3>1, OldComes
    <3>3. i \in DiffIndexes(OldOf(c, E)[t], c.after[t]).added
      <4>1. CASE u = t
        BY <1>4, <4>1 DEF DiffIndexes
      <4>2. CASE u # t
        <5>1. v # w
          BY <3>2, <4>2
        <5>2. DOMAIN E[v].idx \cap DOMAIN E[w].idx = {}
          BY <5>1, RealSchemaIs
        <5>3. i \notin DOMAIN OldOf(c, E)[t].idx
          BY <1>4, <3>2, <5>2
        <5> QED BY <5>3 DEF DiffIndexes
      <4> QED BY <4>1, <4>2
    <3> QED BY <3>1, <3>3, PlanAdds
  <2> QED BY <2>1, <2>2
<1>6. PICK l \in P : l.type = "create_index" /\ l.table = t /\ l.index = i
  BY <1>5 DEF CreatesIndex
<1>7. Group(l) \in {6, 8}
  <2>1. NodeOK(c, E, l)
    BY NodesAreOK
  <2> QED BY <1>6, <2>1, GroupsAre
<1>8. l \in R
  <2>1. l \in P \ R => ~(Group(m) < Group(l))
    BY DEF Ordered
  <2> QED BY <1>3, <1>7, <2>1
<1> QED BY <1>6, <1>8 DEF CreatesIndex

\* A deploy that begins, or is somewhere in its plan, does not disturb what has
\* been carried out.
LEMMA KeptAmid ==
  ASSUME NEW c, NEW E, Listed(c, E), RealSchema(E), ~Thrown(c, E),
         NEW P, P = NodesOf(c, E), NEW R, Ordered(P, R),
         NEW B, NEW base, KeptOK(c, B, {}, base)
  PROVE KeptOK(c, B, R, base)
<1>1. ASSUME NEW t \in DOMAIN c.after, NEW X, TableKept(c, B, {}, t, X) PROVE TableKept(c, B, R, t, X)
  <2>1. ASSUME NEW i \in DOMAIN c.after[t].idx
        PROVE \/ CreatesIndex(R, t, i)
              \/ i \in DOMAIN X.idx /\ X.idx[i] = c.after[t].idx[i] /\ ~DropsIndex(R, i)
    <3>1. DropsIndex(R, i) => CreatesIndex(R, t, i)
      BY DroppedComesAgain
    <3> QED BY <1>1, <3>1, NothingLeft DEF TableKept, IndexesOK
  <2>2. Allowed(c) => \A i \in DOMAIN X.idx : i \in DOMAIN c.after[t].idx
    BY <1>1, NothingLeft DEF TableKept, IndexesOK
  <2>3. IndexesOK(c, R, t, X)
    BY <2>1, <2>2 DEF IndexesOK
  <2> QED BY <1>1, <2>3, NothingLeft DEF TableKept
<1> QED BY <1>1 DEF KeptOK

\* A step that alters no table.
LEMMA KeptUnaltered ==
  ASSUME NEW c, NEW E, NEW P, NEW R, NEW n, NEW base, NEW next,
         Stepping(c, E, P, R, n, base, next), n.type # "alter_table",
         NEW t \in DOMAIN c.after, NEW X, NEW Y, Leaves(c, n, t, X, Y),
         NEW B, TableKept(c, B, R, t, X)
  PROVE TableKept(c, B, R \ {n}, t, Y)
<1>1. RealChange(c) /\ KeepsTable(c, X, Y) /\ NodeOK(c, E, n)
  BY DEF Stepping, Leaves, Firsts
<1>2. ColumnsReached(c, t, NewColumns(c, B, t), Y)
  <2>1. NewColumns(c, B, t) \subseteq DOMAIN c.after[t].cols
    BY DEF NewColumns, AddsOf
  <2>2. ColumnsReached(c, t, NewColumns(c, B, t), X)
    BY DEF TableKept
  <2> QED BY <1>1, <2>1, <2>2, ColumnsKept
<1>3. ASSUME NEW k \in CarriedCons(c, B, t) PROVE k \in Y.cons \/ AddsConstraint(R \ {n}, t, k)
  <2>1. k \in c.after[t].cons
    BY DEF CarriedCons
  <2>2. k \in X.cons \/ AddsConstraint(R, t, k)
    BY DEF TableKept
  <2>3. AddsConstraint(R, t, k) => AddsConstraint(R \ {n}, t, k)
    BY DEF AddsConstraint
  <2> QED BY <1>1, <2>1, <2>2, <2>3, ConstraintsKept
<1>4. IndexesOK(c, R \ {n}, t, Y)
  <2>1. IndexesOK(c, R, t, X)
    BY DEF TableKept
  <2> QED BY <2>1, IndexesKept
<1>5. Y.comment = c.after[t].comment
  <2>1. X.comment = c.after[t].comment
    BY DEF TableKept
  <2>2. n.type = "comment_on" /\ n.table = t /\ n.column = None => n.comment = c.after[t].comment
    <3>1. None \notin DOMAIN c.after[t].cols
      BY <1>1 DEF RealChange, SelfContained
    <3> QED BY <1>1, <3>1 DEF NodeOK
  <2> QED BY <2>1, <2>2 DEF Leaves
<1> QED BY <1>2, <1>3, <1>4, <1>5 DEF TableKept

\* A constraint of the new schema that another plan drops is added again later.
LEMMA DroppedIsAddedAgain ==
  ASSUME NEW c, NEW E, Listed(c, E), RealSchema(E), ~Thrown(c, E),
         NEW P, P = NodesOf(c, E), NEW R, Ordered(P, R),
         NEW t \in SharedOf(c, E), NEW n \in R, n = DropAlter(c, E, t),
         NEW k \in c.after[t].cons, k.name \in n.dropCons
  PROVE AddsConstraint(R \ {n}, t, k)
<1>1. PICK old, want : old = OldOf(c, E)[t].cons /\ want = c.after[t].cons
  OBVIOUS
<1>2. ConsOK(old)
  <2>1. PICK s \in DOMAIN E : old = E[s].cons
    <3>1. t \in DOMAIN OldOf(c, E)
      BY DEF SharedOf
    <3> QED BY <1>1, <3>1, OldComes
  <2> QED BY <2>1, RealSchemaIs
<1>3. PICK m \in Without(old, want) : m.name = k.name /\ k.name # None
  <2>1. k.name \in DropConsOf(c, E, t)
    BY DropAlterFields
  <2> QED BY <1>1, <2>1 DEF DropConsOf
<1>4. m \in old /\ SignConstraint(k) # SignConstraint(m)
  BY <1>1, <1>3 DEF Without
<1>5. ASSUME NEW l \in old PROVE SignConstraint(l) # SignConstraint(k)
  <2>1. CASE l.name = None
    <3>1. Len(SignConstraint(l)) = 4 /\ Len(SignConstraint(k)) = 3
      BY <1>3, <2>1 DEF SignConstraint
    <3> QED BY <3>1
  <2>2. CASE l.name # None
    <3>1. SignConstraint(l) = <<l.kind, l.name, l.flag>> /\ SignConstraint(k) = <<k.kind, k.name, k.flag>>
      BY <1>3, <2>2 DEF SignConstraint
    <3>2. SignConstraint(l) = SignConstraint(k) => l.name = k.name
      BY <3>1
    <3>3. l.name = k.name => l = m
      BY <1>2, <1>3, <1>4 DEF ConsOK
    <3> QED BY <1>4, <3>2, <3>3
  <2> QED BY <2>1, <2>2
<1>6. k \in AddConsOf(c, E, t)
  BY <1>1, <1>5 DEF AddConsOf, Without
<1>7. AddAlter(c, E, t) \in P
  <2>1. AddAlter(c, E, t) # Alter(<<8, Rank(c.order, t), 1>>, t)
    BY <1>6, NothingAltered
  <2> QED BY <2>1, PlanAdds
<1>8. PICK a \in P : a = AddAlter(c, E, t)
  BY <1>7
<1>9. Group(n) = 3
  BY AlterTypes
<1>10. a.type = "alter_table" /\ a.table = t /\ Group(a) = 8 /\ a.addCons = AddConsOf(c, E, t)
  <2>1. a # DropAlter(c, E, t)
    BY <1>8, AddAlterFields, DropAlterFields DEF Group
  <2> QED BY <1>8, <2>1, AlterTypes, AddAlterFields
<1>11. a \in R \ {n}
  <2>1. a \in P \ R => ~(Group(n) < Group(a))
    BY DEF Ordered
  <2> QED BY <1>9, <1>10, <2>1
<1> QED BY <1>6, <1>10, <1>11 DEF AddsConstraint

\* Another plan drops nothing that the new schema has, for good.
LEMMA KeptDrops ==
  ASSUME NEW c, NEW E, NEW P, NEW R, NEW n, NEW base, NEW next,
         Stepping(c, E, P, R, n, base, next), n.type = "alter_table",
         Ordered(P, R), P = NodesOf(c, E), ~Thrown(c, E),
         NEW t, t = n.table, n = DropAlter(c, E, t),
         NEW B, TableKept(c, B, R, t, base[t])
  PROVE TableKept(c, B, R \ {n}, t, next[t])
<1> DEFINE want == c.after[t]
<1>1. NodeOK(c, E, n) /\ n \in R
  BY DEF Stepping, Firsts
<1>2. IsDatabase(base) /\ Accepts(base, n) /\ next = After(base, n) /\ RealBase(c, base)
  BY DEF Stepping
<1>3. t \in DOMAIN c.after /\ t \in SharedOf(c, E)
  BY <1>1 DEF NodeOK, SharedOf
<1>4. t \in DOMAIN base /\ AlterAccepted(base, n) /\ next[t] = AlterResult(base[t], n)
  <2>1. TableAltered(base, n, next)
    BY <1>2, AlterEffect
  <2> QED BY <2>1 DEF TableAltered
<1>5. PICK X, Y : X = base[t] /\ Y = next[t]
  OBVIOUS
<1>6. /\ n.dropCols = DropsOf(c, E, t) /\ n.renames = {} /\ n.addCons = {}
  BY DropAlterFields
<1>7. /\ DOMAIN Y.cols = DOMAIN X.cols \ DropsOf(c, E, t)
      /\ \A x \in DOMAIN Y.cols : SameColumn(Y.cols[x], X.cols[x]) /\ Y.cols[x].ref = X.cols[x].ref
  <2>1. Y = AlterResult(base[t], n)
    BY <1>4, <1>5
  <2>2. ColumnsDropped(c, E, t, base[t], Y)
    BY <1>2, <1>4, <2>1, DropsColumns
  <2> QED BY <1>5, <2>2 DEF ColumnsDropped
<1>8. RestAltered(X, n, Y)
  <2>1. ConsOK(X.cons)
    BY <1>2, <1>4, <1>5, RealSchemaIs DEF RealBase
  <2> QED BY <1>2, <1>4, <1>5, <2>1, AlterLeavesRest
<1>9. n.dropCols \cap DOMAIN want.cols = {}
  BY <1>6 DEF DropsOf
<1>10. ColumnsReached(c, t, NewColumns(c, B, t), Y)
  <2>1. /\ DOMAIN want.cols \subseteq DOMAIN X.cols
        /\ Allowed(c) => DOMAIN X.cols = DOMAIN want.cols
        /\ \A x \in DOMAIN want.cols : ColumnReached(X.cols[x], want.cols[x])
        /\ \A x \in NewColumns(c, B, t) :
             X.cols[x].ref = want.cols[x].ref /\ X.cols[x].hasDefault = want.cols[x].hasDefault
    BY <1>5 DEF TableKept, ColumnsReached
  <2>2. NewColumns(c, B, t) \subseteq DOMAIN want.cols
    BY DEF NewColumns, AddsOf
  <2>3. DOMAIN want.cols \subseteq DOMAIN Y.cols /\ (Allowed(c) => DOMAIN Y.cols = DOMAIN want.cols)
    BY <1>6, <1>7, <1>9, <2>1
  <2>4. \A x \in DOMAIN want.cols : ColumnReached(Y.cols[x], want.cols[x])
    BY <1>7, <2>1, <2>3 DEF SameColumn, ColumnReached
  <2>5. \A x \in NewColumns(c, B, t) :
          Y.cols[x].ref = want.cols[x].ref /\ Y.cols[x].hasDefault = want.cols[x].hasDefault
    BY <1>7, <2>1, <2>2, <2>3 DEF SameColumn
  <2> QED BY <2>3, <2>4, <2>5 DEF ColumnsReached
<1>11. ASSUME NEW k \in CarriedCons(c, B, t) PROVE k \in Y.cons \/ AddsConstraint(R \ {n}, t, k)
  <2>1. k \in want.cons
    BY DEF CarriedCons
  <2>2. k \in X.cons \/ AddsConstraint(R, t, k)
    BY <1>5 DEF TableKept
  <2>3. CASE AddsConstraint(R, t, k)
    BY <1>6, <2>3 DEF AddsConstraint
  <2>4. CASE k \in X.cons
    <3>1. k.cols \cap n.dropCols = {}
      <4>1. k.cols \subseteq DOMAIN want.cols
        BY <1>3, <2>1 DEF Stepping, RealChange, SelfContained
      <4> QED BY <1>9, <4>1
    <3>2. k.name \notin n.dropCons => k \in Y.cons
      BY <1>6, <1>8, <2>4, <3>1 DEF RestAltered
    <3>3. k.name \in n.dropCons => AddsConstraint(R \ {n}, t, k)
      <4>1. Listed(c, E) /\ RealSchema(E)
        BY DEF Stepping, RealChange, RealBase, Listed
      <4> QED BY <1>1, <1>3, <2>1, <4>1, DroppedIsAddedAgain
    <3> QED BY <3>2, <3>3
  <2> QED BY <2>2, <2>3, <2>4
<1>12. IndexesOK(c, R \ {n}, t, Y)
  <2>1. \A i : /\ CreatesIndex(R \ {n}, t, i) <=> CreatesIndex(R, t, i)
               /\ DropsIndex(R \ {n}, i) <=> DropsIndex(R, i)
    BY LeftAfter
  <2>2. IndexesOK(c, R, t, X)
    BY <1>5 DEF TableKept
  <2>3. ASSUME NEW i \in DOMAIN want.idx, i \in DOMAIN X.idx, X.idx[i] = want.idx[i]
        PROVE i \in DOMAIN Y.idx /\ Y.idx[i] = want.idx[i]
    <3>1. IsIndex(want.idx[i]) /\ want.idx[i].cols \subseteq DOMAIN want.cols
      BY <1>3 DEF Stepping, RealChange, SelfContained
    <3>2. X.idx[i].cols \cap n.dropCols = {}
      BY <1>9, <2>3, <3>1
    <3> QED BY <1>6, <1>8, <2>3, <3>1, <3>2 DEF RestAltered
  <2>4. DOMAIN Y.idx \subseteq DOMAIN X.idx
    BY <1>8 DEF RestAltered
  <2> QED BY <2>1, <2>2, <2>3, <2>4 DEF IndexesOK
<1>13. Y.comment = want.comment
  BY <1>5, <1>8 DEF TableKept, RestAltered
<1> QED BY <1>5, <1>10, <1>11, <1>12, <1>13 DEF TableKept

\* Where the columns of the new schema are, none is renamed or added.
LEMMA NothingToAdd ==
  ASSUME NEW c, NEW E, NEW base, IsDatabase(base), NEW n, AlterAccepted(base, n),
         NEW t, t = n.table, n = AddAlter(c, E, t), t \in DOMAIN base,
         DOMAIN c.after[t].cols \subseteq DOMAIN base[t].cols
  PROVE n.renames = {} /\ DOMAIN n.adds = {}
<1>1. n.dropCols = {} /\ n.renames = RenamesOf(c, E, t) /\ n.adds = AddColsOf(c, E, t)
  BY AddAlterFields
<1>2. PICK X, left : X = base[t] /\ left = Dropped(X, n)
  OBVIOUS
<1>3. /\ \A r \in n.renames : r[2] \notin DOMAIN X.cols
      /\ DOMAIN n.adds \cap DOMAIN left.cols = {}
  BY <1>2 DEF AlterAccepted
<1>4. n.renames = {}
  <2>1. ASSUME NEW r \in RenamesOf(c, E, t) PROVE FALSE
    <3>1. r[2] \in DOMAIN c.after[t].cols
      BY RenamesAre
    <3> QED BY <1>1, <1>2, <1>3, <3>1
  <2> QED BY <1>1, <2>1
<1>5. DOMAIN left.cols = DOMAIN X.cols
  <2>1. IsStoredTable(X)
    BY <1>2 DEF IsDatabase
  <2>2. DOMAIN left.cols = DOMAIN X.cols \ n.dropCols
    <3>1. DroppedFrom(X, n, left)
      BY <1>2, <2>1, DroppedFacts
    <3> QED BY <3>1 DEF DroppedFrom
  <2> QED BY <1>1, <2>2
<1>6. DOMAIN n.adds \subseteq DOMAIN c.after[t].cols
  BY <1>1 DEF AddColsOf, AddsOf
<1> QED BY <1>2, <1>3, <1>4, <1>5, <1>6

\* Columns are changed in place to what the new schema says.
LEMMA SetsKeepColumns ==
  ASSUME NEW c, NEW E, NEW base, IsDatabase(base), NEW n, AlterAccepted(base, n),
         NEW t, t = n.table, n = AddAlter(c, E, t), t \in DOMAIN base,
         NEW new, new \subseteq DOMAIN c.after[t].cols, ColumnsReached(c, t, new, base[t]),
         NEW q, q = AlterResult(base[t], n)
  PROVE ColumnsReached(c, t, new, q)
<1>1. PICK r, left, want : r = base[t] /\ left = Dropped(r, n) /\ want = c.after[t].cols
  OBVIOUS
<1>2. /\ DOMAIN want \subseteq DOMAIN r.cols
      /\ Allowed(c) => DOMAIN r.cols = DOMAIN want
      /\ \A x \in DOMAIN want : ColumnReached(r.cols[x], want[x])
      /\ \A x \in new : r.cols[x].ref = want[x].ref /\ r.cols[x].hasDefault = want[x].hasDefault
  BY <1>1 DEF ColumnsReached
<1>3. n.renames = {} /\ DOMAIN n.adds = {}
  BY <1>1, <1>2, NothingToAdd
<1>4. n.dropCols = {} /\ n.sets = SetsOf(c, E, t)
  BY AddAlterFields
<1>5. IsStoredTable(r)
  BY <1>1 DEF IsDatabase
<1>6. DOMAIN left.cols = DOMAIN r.cols
  <2>1. DOMAIN left.cols = DOMAIN r.cols \ n.dropCols
    <3>1. DroppedFrom(r, n, left)
      BY <1>1, <1>5, DroppedFacts
    <3> QED BY <3>1 DEF DroppedFrom
  <2> QED BY <1>4, <2>1
<1>7. Altered(r, left, n, q)
  <2>1. n.table \in DOMAIN base /\ r = base[n.table] /\ q = AlterResult(r, n)
    BY <1>1
  <2> QED BY <1>1, <2>1, AlterFacts
<1>8. \A x : Renamed(n.renames, x) = x
  BY <1>3 DEF Renamed
<1>9. DOMAIN q.cols = DOMAIN r.cols /\ \A x \in DOMAIN r.cols : q.cols[x] = Set(r.cols[x], n.sets, x)
  <2>1. /\ \A x \in DOMAIN q.cols :
             x \in DOMAIN n.adds \/ \E y \in DOMAIN left.cols : x = Renamed(n.renames, y)
        /\ \A x \in DOMAIN left.cols :
             /\ Renamed(n.renames, x) \in DOMAIN q.cols
             /\ q.cols[Renamed(n.renames, x)] = Set(r.cols[x], n.sets, Renamed(n.renames, x))
    BY <1>7 DEF Altered
  <2>2. \A x \in DOMAIN q.cols : x \in DOMAIN r.cols
    BY <1>3, <1>6, <1>8, <2>1
  <2>3. \A x \in DOMAIN r.cols : x \in DOMAIN q.cols /\ q.cols[x] = Set(r.cols[x], n.sets, x)
    BY <1>6, <1>8, <2>1
  <2> QED BY <2>2, <2>3
<1>10. ASSUME NEW x \in DOMAIN want
       PROVE /\ ColumnReached(q.cols[x], want[x]) /\ q.cols[x].ref = r.cols[x].ref
             /\ r.cols[x].hasDefault = want[x].hasDefault => q.cols[x].hasDefault = want[x].hasDefault
  <2>1. PICK col, p, w, sets : col = r.cols[x] /\ p = q.cols[x] /\ w = want[x] /\ sets = n.sets
    OBVIOUS
  <2>2. IsStored(col) /\ p = Set(col, sets, x) /\ ColumnReached(col, w)
    BY <1>2, <1>5, <1>9, <2>1 DEF IsStoredTable
  <2>3. \A s \in sets : s.column = x => s.value = w[s.attr] /\ (s.attr = "hasDefault" => ~w.hasDefault)
    <3>1. WritesWanted(c, t, sets)
      <4>1. WritesWanted(c, t, SetsOf(c, E, t))
        BY SetsAre, Zenon
      <4>2. sets = SetsOf(c, E, t)
        BY <1>4, <2>1
      <4> QED BY <4>1, <4>2
    <3>2. w = c.after[t].cols[x]
      BY <1>1, <2>1
    <3>3. ASSUME NEW s \in sets, s.column = x
          PROVE s.value = w[s.attr] /\ (s.attr = "hasDefault" => ~w.hasDefault)
      <4>1. /\ s.value = c.after[t].cols[s.column][s.attr]
            /\ s.attr = "hasDefault" => ~c.after[t].cols[s.column].hasDefault
        BY <3>1 DEF WritesWanted
      <4> QED BY <3>2, <3>3, <4>1
    <3> QED BY <3>3
  <2>4. /\ ColumnReached(p, w) /\ p.ref = col.ref
        /\ col.hasDefault = w.hasDefault => p.hasDefault = w.hasDefault
    BY <2>2, <2>3, SetKeepsReached
  <2> QED BY <2>1, <2>4
<1>11. DOMAIN want \subseteq DOMAIN q.cols /\ (Allowed(c) => DOMAIN q.cols = DOMAIN want)
  BY <1>2, <1>9
<1>12. ASSUME NEW x \in new
       PROVE q.cols[x].ref = want[x].ref /\ q.cols[x].hasDefault = want[x].hasDefault
  <2>1. x \in DOMAIN want
    BY <1>1
  <2>2. r.cols[x].ref = want[x].ref /\ r.cols[x].hasDefault = want[x].hasDefault
    BY <1>2
  <2>3. /\ q.cols[x].ref = r.cols[x].ref
        /\ r.cols[x].hasDefault = want[x].hasDefault => q.cols[x].hasDefault = want[x].hasDefault
    BY <1>10, <2>1
  <2> QED BY <2>2, <2>3
<1> QED BY <1>1, <1>10, <1>11, <1>12 DEF ColumnsReached

\* Another plan changes nothing else either.
LEMMA KeptAdds ==
  ASSUME NEW c, NEW E, NEW P, NEW R, NEW n, NEW base, NEW next,
         Stepping(c, E, P, R, n, base, next), n.type = "alter_table",
         NEW t, t = n.table, n = AddAlter(c, E, t),
         NEW B, TableKept(c, B, R, t, base[t])
  PROVE TableKept(c, B, R \ {n}, t, next[t])
<1> DEFINE want == c.after[t]
<1>1. NodeOK(c, E, n) /\ n \in R
  BY DEF Stepping, Firsts
<1>2. IsDatabase(base) /\ Accepts(base, n) /\ next = After(base, n) /\ RealBase(c, base)
  BY DEF Stepping
<1>3. t \in DOMAIN c.after
  BY <1>1 DEF NodeOK, SharedOf
<1>4. t \in DOMAIN base /\ AlterAccepted(base, n) /\ next[t] = AlterResult(base[t], n)
  <2>1. TableAltered(base, n, next)
    BY <1>2, AlterEffect
  <2> QED BY <2>1 DEF TableAltered
<1>5. PICK X, Y : X = base[t] /\ Y = next[t]
  OBVIOUS
<1>6. n.dropCols = {} /\ n.dropCons = {}
  BY AddAlterFields
<1>7. RestAltered(X, n, Y)
  <2>1. ConsOK(X.cons)
    BY <1>2, <1>4, <1>5, RealSchemaIs DEF RealBase
  <2> QED BY <1>2, <1>4, <1>5, <2>1, AlterLeavesRest
<1>8. ColumnsReached(c, t, NewColumns(c, B, t), base[t])
  BY DEF TableKept
<1>9. n.renames = {}
  <2>1. DOMAIN c.after[t].cols \subseteq DOMAIN base[t].cols
    BY <1>8 DEF ColumnsReached
  <2> QED BY <1>2, <1>4, <2>1, NothingToAdd
<1>10. ColumnsReached(c, t, NewColumns(c, B, t), Y)
  <2>1. NewColumns(c, B, t) \subseteq DOMAIN c.after[t].cols
    BY DEF NewColumns, AddsOf
  <2>2. Y = AlterResult(base[t], n)
    BY <1>4, <1>5
  <2> QED BY <1>2, <1>4, <1>8, <2>1, <2>2, SetsKeepColumns
<1>11. ASSUME NEW k \in CarriedCons(c, B, t) PROVE k \in Y.cons \/ AddsConstraint(R \ {n}, t, k)
  <2>1. k \in X.cons \/ AddsConstraint(R, t, k)
    BY <1>5 DEF TableKept
  <2>2. k \in X.cons => k \in Y.cons
    BY <1>6, <1>7, <1>9 DEF RestAltered
  <2>3. AddsConstraint(R, t, k) => k \in Y.cons \/ AddsConstraint(R \ {n}, t, k)
    BY <1>7 DEF AddsConstraint, RestAltered
  <2> QED BY <2>1, <2>2, <2>3
<1>12. IndexesOK(c, R \ {n}, t, Y)
  <2>1. \A i : /\ CreatesIndex(R \ {n}, t, i) <=> CreatesIndex(R, t, i)
               /\ DropsIndex(R \ {n}, i) <=> DropsIndex(R, i)
    BY LeftAfter
  <2>2. IndexesOK(c, R, t, X)
    BY <1>5 DEF TableKept
  <2>3. ASSUME NEW i \in DOMAIN want.idx, i \in DOMAIN X.idx, X.idx[i] = want.idx[i]
        PROVE i \in DOMAIN Y.idx /\ Y.idx[i] = want.idx[i]
    <3>1. IsIndex(want.idx[i])
      BY <1>3 DEF Stepping, RealChange, SelfContained
    <3> QED BY <1>6, <1>7, <1>9, <2>3, <3>1 DEF RestAltered
  <2>4. DOMAIN Y.idx \subseteq DOMAIN X.idx
    BY <1>7 DEF RestAltered
  <2> QED BY <2>1, <2>2, <2>3, <2>4 DEF IndexesOK
<1>13. Y.comment = want.comment
  BY <1>5, <1>7 DEF TableKept, RestAltered
<1> QED BY <1>5, <1>10, <1>11, <1>12, <1>13 DEF TableKept

\* Of the steps that are left, those on other tables do not matter.
LEMMA KeptElsewhere ==
  ASSUME NEW c, NEW R, NEW n, NEW t, NEW X, n.type = "alter_table", n.table # t,
         NEW B, TableKept(c, B, R, t, X)
  PROVE TableKept(c, B, R \ {n}, t, X)
<1>1. IndexesOK(c, R \ {n}, t, X)
  <2>1. IndexesOK(c, R, t, X)
    BY DEF TableKept
  <2> QED BY <2>1, LeftAfter DEF IndexesOK
<1>2. \A k : AddsConstraint(R, t, k) => AddsConstraint(R \ {n}, t, k)
  BY DEF AddsConstraint
<1> QED BY <1>1, <1>2 DEF TableKept

\* Each step of another plan leaves what has been carried out.
LEMMA KeptByStep ==
  ASSUME NEW c, NEW E, NEW P, NEW R, NEW n, NEW base, NEW next,
         Stepping(c, E, P, R, n, base, next), Ordered(P, R), P = NodesOf(c, E), ~Thrown(c, E),
         NEW B, KeptOK(c, B, R, base)
  PROVE KeptOK(c, B, R \ {n}, next)
<1>1. NodeOK(c, E, n) /\ n \in R /\ n.type \in NodeTypes
  BY DEF Stepping, Firsts, NodeOK
<1>2. IsDatabase(base) /\ Accepts(base, n) /\ next = After(base, n)
  BY DEF Stepping
<1>3. \A t \in DOMAIN c.after : t \in DOMAIN base /\ TableKept(c, B, R, t, base[t])
  BY DEF KeptOK
<1>4. Allowed(c) => DOMAIN base = DOMAIN c.after
  BY DEF KeptOK
<1>5. n.type # "rename_table"
  <2> SUFFICES ASSUME n.type = "rename_table" PROVE FALSE
    OBVIOUS
  <2>1. n.to \in DOMAIN c.after
    BY RenamedFrom
  <2>2. n.to \notin DOMAIN base
    BY <1>2, NamesKept
  <2> QED BY <1>3, <2>1, <2>2
<1>6. n.type # "create_table"
  <2> SUFFICES ASSUME n.type = "create_table" PROVE FALSE
    OBVIOUS
  <2>1. n.table \in DOMAIN c.after
    BY <1>1 DEF NodeOK, AddedOf
  <2>2. n.table \notin DOMAIN base
    BY <1>2, NamesKept
  <2> QED BY <1>3, <2>1, <2>2
<1>7. n.type = "drop_table" => Allowed(c) /\ n.table \notin DOMAIN c.after
  BY <1>1 DEF NodeOK
<1>8. Allowed(c) => DOMAIN next = DOMAIN c.after
  <2>1. CASE n.type = "drop_table"
    <3>1. DOMAIN next = DOMAIN base \ {n.table}
      BY <1>2, <2>1, NamesKept
    <3> QED BY <1>4, <1>7, <2>1, <3>1
  <2>2. CASE n.type # "drop_table"
    <3>1. n.type \in {"drop_index", "create_index", "comment_on", "alter_table"}
      BY <1>1, <1>5, <1>6, <2>2 DEF NodeTypes
    <3>2. DOMAIN next = DOMAIN base
      BY <1>2, <3>1, NamesKept
    <3> QED BY <1>4, <3>2
  <2> QED BY <2>1, <2>2
<1>9. ASSUME NEW t \in DOMAIN c.after PROVE t \in DOMAIN next /\ TableKept(c, B, R \ {n}, t, next[t])
  <2>1. t \in DOMAIN base /\ TableKept(c, B, R, t, base[t])
    BY <1>3
  <2>2. CASE n.type # "alter_table"
    <3>1. n.type = "drop_table" => n.table # t
      BY <1>7
    <3>2. Goes(n, t) = t
      BY <1>5 DEF Goes
    <3>3. t \in DOMAIN next /\ Leaves(c, n, t, base[t], next[t])
      BY <2>1, <2>2, <3>1, <3>2, StatementLeaves
    <3> QED BY <2>1, <2>2, <3>3, KeptUnaltered
  <2>3. CASE n.type = "alter_table"
    <3>1. TableAltered(base, n, next)
      BY <1>2, <2>3, AlterEffect
    <3>2. t \in DOMAIN next
      BY <2>1, <3>1 DEF TableAltered
    <3>3. CASE n.table # t
      <4>1. next[t] = base[t]
        BY <2>1, <3>1, <3>3 DEF TableAltered
      <4> QED BY <2>1, <2>3, <3>2, <3>3, <4>1, KeptElsewhere
    <3>4. CASE n.table = t /\ n = DropAlter(c, E, t)
      BY <2>1, <2>3, <3>2, <3>4, KeptDrops
    <3>5. CASE n.table = t /\ n = AddAlter(c, E, t)
      BY <2>1, <2>3, <3>2, <3>5, KeptAdds
    <3> QED BY <1>1, <2>3, <3>3, <3>4, <3>5 DEF NodeOK
  <2> QED BY <2>2, <2>3
<1> QED BY <1>8, <1>9 DEF KeptOK

-----------------------------------------------------------------------------
(* The invariant of migrations that have been carried out *)

\* A schema that has been reached, from a plan executed to its end or from one
\* that was empty.
LEMMA EmptyPlan ==
  ASSUME NEW c, RealChange(c), NEW base, IsDatabase(base), RealBase(c, base),
         NEW B, B = Schema(base), ~Thrown(c, B), NodesOf(c, B) = {}
  PROVE KeptOK(c, B, {}, base)
<1>1. OnTheWay(c, B, NodesOf(c, B), NodesOf(c, B), base)
  BY OnTheWayFrom
<1>2. OnTheWay(c, B, NodesOf(c, B), {}, base)
  BY <1>1
<1> QED BY <1>2, CarriedOut

LEMMA RunningKeeps ==
  ASSUME NEW c, RealChange(c), NEW E, NEW R, NEW isFresh, NEW other,
         OnPlan(c, E, R, "running", isFresh, other), NEW B, NEW base, KeptOK(c, B, {}, base)
  PROVE KeptOK(c, B, R, base)
<1>1. /\ RealBase(c, E) /\ ~Thrown(c, E) /\ Ordered(NodesOf(c, E), R)
  BY DEF OnPlan
<1>2. Listed(c, E) /\ RealSchema(E)
  BY <1>1 DEF RealChange, RealBase, Listed
<1> QED BY <1>1, <1>2, KeptAmid

LEMMA StepKeeps ==
  ASSUME NEW c, RealChange(c), NEW base, IsDatabase(base), RealBase(c, base),
         NEW E, NEW R, NEW isFresh, OnPlan(c, E, R, "running", isFresh, base),
         NEW n \in Firsts(R), Accepts(base, n), NEW next, next = After(base, n),
         NEW B, KeptOK(c, B, R, base)
  PROVE KeptOK(c, B, R \ {n}, next)
<1>1. PICK P : P = NodesOf(c, E)
  OBVIOUS
<1>2. RealBase(c, E) /\ R \subseteq P /\ Ordered(P, R) /\ ~Thrown(c, E)
  BY <1>1 DEF OnPlan
<1>3. \A m \in P : NodeOK(c, E, m)
  BY <1>1, NodesAreOK
<1>4. Stepping(c, E, P, R, n, base, next)
  BY <1>2, <1>3 DEF Stepping
<1> QED BY <1>1, <1>2, <1>4, KeptByStep

LEMMA InitStay == Init => StayInv
BY DEF Init, StayInv

LEMMA NextStay == Inv /\ ReachInv /\ StayInv /\ [Next]_vars => StayInv'
<1> SUFFICES ASSUME Inv, ReachInv, StayInv, [Next]_vars PROVE StayInv'
  OBVIOUS
<1>0. /\ RealChange(change) /\ IsDatabase(db) /\ IsDatabase(saved)
      /\ RealBase(change, db) /\ RealBase(change, saved)
      /\ DOMAIN plan = Deploys /\ DOMAIN known = Deploys
      /\ DOMAIN stage = Deploys /\ DOMAIN fresh = Deploys /\ DOMAIN stopped = Deploys
  BY SchemaAssumption DEF Inv, TypeOK, ConsentInv, ReachInv
<1>1. ASSUME NEW d \in Deploys, Plan(d) PROVE StayInv'
  <2>1. PICK base : base = Committed /\ IsDatabase(base) /\ RealBase(change, base)
    BY <1>0 DEF Committed
  <2>2. PICK B, R : B = Schema(base) /\ R = NodesOf(change, B)
    OBVIOUS
  <2>3. PICK where, now :
          /\ stage[d] = "idle" /\ UNCHANGED <<change, db, saved, stopped>>
          /\ known' = [known EXCEPT ![d] = B] /\ plan' = [plan EXCEPT ![d] = R]
          /\ stage' = [stage EXCEPT ![d] = where] /\ fresh' = [fresh EXCEPT ![d] = now]
          /\ where \in {"thrown", "waiting", "done"}
          /\ where = "done" => ~Thrown(change, B) /\ R = {}
          /\ now => B = Schema(db)
    <3>1. PICK where : where = IF Thrown(change, B) THEN "thrown"
                               ELSE IF R = {} THEN "done" ELSE "waiting"
      OBVIOUS
    <3>2. stage' = [stage EXCEPT ![d] = where] /\ plan' = [plan EXCEPT ![d] = R]
      BY <1>1, <2>1, <2>2, <3>1 DEF Plan, Thrown, NodesOf
    <3>3. PICK now : fresh' = [fresh EXCEPT ![d] = now] /\ (now => B = Schema(db))
      BY <1>1, <2>1, <2>2 DEF Plan
    <3>4. /\ stage[d] = "idle" /\ UNCHANGED <<change, db, saved, stopped>>
          /\ known' = [known EXCEPT ![d] = B]
      BY <1>1, <2>1, <2>2 DEF Plan
    <3>5. where \in {"thrown", "waiting", "done"} /\ (where = "done" => ~Thrown(change, B) /\ R = {})
      BY <3>1
    <3> QED BY <3>2, <3>3, <3>4, <3>5
  <2>4. ASSUME NEW f \in Deploys, fresh'[f], stage'[f] = "done",
               \A e \in Deploys \ InTx : stopped'[e] = "no"
        PROVE /\ Idle' => KeptOK(change, known'[f], {}, db)
              /\ \A e \in Deploys : stage'[e] = "running" =>
                   /\ KeptOK(change, known'[f], plan'[e], db)
                   /\ e \in InTx => KeptOK(change, known'[f], {}, saved)
    <3>1. CASE f = d
      <4>1. known'[f] = B /\ where = "done" /\ now
        BY <1>0, <2>3, <2>4, <3>1
      <4>2. B = Schema(db) /\ ~Thrown(change, B) /\ NodesOf(change, B) = {}
        BY <2>2, <2>3, <4>1
      <4>3. KeptOK(change, B, {}, db)
        BY <1>0, <4>2, EmptyPlan
      <4>4. ASSUME NEW e \in Deploys, stage'[e] = "running"
            PROVE /\ KeptOK(change, B, plan'[e], db)
                  /\ e \in InTx => KeptOK(change, B, {}, saved)
        <5>1. stage[e] = "running" /\ plan'[e] = plan[e]
          BY <1>0, <2>3, <4>4
        <5>2. OnPlan(change, known[e], plan[e], "running", fresh[e], db)
          BY <5>1 DEF ReachInv
        <5>3. KeptOK(change, B, plan[e], db)
          BY <1>0, <4>3, <5>2, RunningKeeps
        <5>4. ASSUME e \in InTx PROVE KeptOK(change, B, {}, saved)
          <6>1. base = saved
            BY <2>1, <5>1, <5>4 DEF Committed
          <6>2. B = Schema(saved)
            BY <2>2, <6>1
          <6> QED BY <1>0, <4>2, <6>2, EmptyPlan
        <5> QED BY <5>1, <5>3, <5>4
      <4> QED BY <4>1, <4>3, <4>4
    <3>2. CASE f # d
      <4>1. /\ known'[f] = known[f] /\ fresh[f] /\ stage[f] = "done"
            /\ \A e \in Deploys \ InTx : stopped[e] = "no"
        BY <1>0, <2>3, <2>4, <3>2
      <4>2. \A e \in Deploys : stage'[e] = "running" => stage[e] = "running" /\ plan'[e] = plan[e]
        BY <1>0, <2>3
      <4>3. Idle' => Idle
        BY <1>0, <2>3 DEF Idle
      <4> QED BY <4>1, <4>2, <4>3 DEF StayInv
    <3> QED BY <3>1, <3>2
  <2> QED BY <2>3, <2>4 DEF StayInv
<1>2. ASSUME NEW d \in Deploys, Begin(d) PROVE StayInv'
  <2>1. /\ stage[d] = "waiting" /\ Idle /\ UNCHANGED <<change, db, known, plan, stopped>> /\ saved' = db
        /\ stage' = [stage EXCEPT ![d] = "running"]
        /\ \A e \in Deploys : stage[e] # "running"
    BY <1>2 DEF Begin, Idle
  <2>2. \A e \in Deploys : e # d => fresh'[e] = fresh[e]
    BY <1>0, <1>2 DEF Begin
  <2>3. PICK now : now <=> known[d] = Schema(db)
    BY Zenon
  <2>4. OnPlan(change, known[d], plan[d], "running", now, db)
    <3>1. OnPlan(change, known[d], plan[d], "waiting", fresh[d], db)
      BY <2>1 DEF ReachInv
    <3> QED BY <1>0, <2>3, <3>1, PlanBegins
  <2>5. ASSUME NEW f \in Deploys, fresh'[f], stage'[f] = "done",
               \A e \in Deploys \ InTx : stopped'[e] = "no"
        PROVE /\ Idle' => KeptOK(change, known[f], {}, db)
              /\ \A e \in Deploys : stage'[e] = "running" =>
                   /\ KeptOK(change, known[f], plan[e], db)
                   /\ e \in InTx => KeptOK(change, known[f], {}, db)
    <3>1. f # d /\ stage[f] = "done" /\ fresh[f]
      BY <1>0, <2>1, <2>2, <2>5
    <3>2. KeptOK(change, known[f], {}, db)
      BY <2>1, <2>5, <3>1 DEF StayInv
    <3>3. KeptOK(change, known[f], plan[d], db)
      BY <1>0, <2>4, <3>2, RunningKeeps
    <3>4. \A e \in Deploys : stage'[e] = "running" => e = d
      BY <1>0, <2>1
    <3> QED BY <3>2, <3>3, <3>4
  <2> QED BY <2>1, <2>5 DEF StayInv
<1>3. ASSUME NEW d \in Deploys, NEW n, Step(d, n) PROVE StayInv'
  <2>1. PICK next, R : next = db' /\ R = plan[d]
    OBVIOUS
  <2>2. /\ stage[d] = "running" /\ n \in Firsts(R) /\ Accepts(db, n) /\ next = After(db, n)
        /\ UNCHANGED <<change, saved, stage, known, fresh, stopped>>
        /\ plan' = [plan EXCEPT ![d] = plan[d] \ {n}]
    BY <1>3, <2>1 DEF Step
  <2>3. \A e \in Deploys : stage[e] = "running" => e = d
    BY <2>2 DEF ReachInv
  <2>4. OnPlan(change, known[d], R, "running", fresh[d], db)
    BY <2>1, <2>2 DEF ReachInv
  <2>5. ASSUME NEW f \in Deploys, fresh[f], stage[f] = "done",
               \A e \in Deploys \ InTx : stopped[e] = "no"
        PROVE \A e \in Deploys : stage[e] = "running" =>
                /\ KeptOK(change, known[f], plan'[e], next)
                /\ e \in InTx => KeptOK(change, known[f], {}, saved)
    <3>1. KeptOK(change, known[f], R, db) /\ (d \in InTx => KeptOK(change, known[f], {}, saved))
      BY <2>1, <2>2, <2>5 DEF StayInv
    <3>2. KeptOK(change, known[f], R \ {n}, next)
      BY <1>0, <2>2, <2>4, <3>1, StepKeeps
    <3>3. plan'[d] = R \ {n}
      BY <1>0, <2>1, <2>2
    <3> QED BY <2>3, <3>1, <3>2, <3>3
  <2>6. ~Idle'
    BY <2>2 DEF Idle
  <2> QED BY <2>1, <2>2, <2>5, <2>6 DEF StayInv
<1>4. ASSUME NEW d \in Deploys, NEW why, why # "no", stage[d] = "running", Fails(d, why) PROVE StayInv'
  <2>1. PICK next : next = db'
    OBVIOUS
  <2>2. /\ stage' = [stage EXCEPT ![d] = "failed"] /\ stopped' = [stopped EXCEPT ![d] = why]
        /\ next = (IF d \in InTx THEN saved ELSE db)
        /\ UNCHANGED <<change, saved, known, plan, fresh>>
    BY <1>4, <2>1 DEF Fails
  <2>3. \A e \in Deploys : stage'[e] # "running"
    BY <1>0, <1>4, <2>2 DEF ReachInv
  <2>4. ASSUME NEW f \in Deploys, fresh[f], stage'[f] = "done",
               \A e \in Deploys \ InTx : stopped'[e] = "no"
        PROVE KeptOK(change, known[f], {}, next)
    <3>1. d \in InTx
      BY <1>0, <1>4, <2>2, <2>4
    <3>2. stage[f] = "done" /\ \A e \in Deploys \ InTx : stopped[e] = "no"
      BY <1>0, <2>2, <2>4, <3>1
    <3>3. KeptOK(change, known[f], {}, saved)
      BY <1>4, <2>4, <3>1, <3>2 DEF StayInv
    <3> QED BY <2>2, <3>1, <3>3
  <2> QED BY <2>1, <2>2, <2>3, <2>4 DEF StayInv
<1>5. ASSUME NEW d \in Deploys, Finish(d) PROVE StayInv'
  <2>1. /\ stage[d] = "running" /\ plan[d] = {} /\ stage' = [stage EXCEPT ![d] = "done"]
        /\ UNCHANGED <<change, db, saved, known, plan, fresh, stopped>>
    BY <1>5 DEF Finish
  <2>2. \A e \in Deploys : stage'[e] # "running"
    BY <1>0, <2>1 DEF ReachInv
  <2>3. ASSUME NEW f \in Deploys, fresh[f], stage'[f] = "done",
               \A e \in Deploys \ InTx : stopped[e] = "no"
        PROVE KeptOK(change, known[f], {}, db)
    <3>1. CASE f = d
      <4>1. /\ ~Thrown(change, known[d])
            /\ OnTheWay(change, known[d], NodesOf(change, known[d]), {}, db)
        BY <2>1, <2>3, <3>1 DEF ReachInv, OnPlan
      <4> QED BY <3>1, <4>1, CarriedOut
    <3>2. CASE f # d
      <4>1. stage[f] = "done"
        BY <1>0, <2>1, <2>3, <3>2
      <4>2. KeptOK(change, known[f], plan[d], db)
        BY <2>1, <2>3, <4>1 DEF StayInv
      <4> QED BY <2>1, <4>2
    <3> QED BY <3>1, <3>2
  <2> QED BY <2>1, <2>2, <2>3 DEF StayInv
<1>6. ASSUME NEW d \in Deploys, Again(d) PROVE StayInv'
  <2>1. /\ stage[d] = "failed" /\ stage' = [stage EXCEPT ![d] = "idle"]
        /\ UNCHANGED <<change, db, saved, known, plan, fresh, stopped>>
    BY <1>6 DEF Again
  <2>2. \A e \in Deploys : (stage'[e] = "running" <=> stage[e] = "running")
                           /\ (stage'[e] = "done" => stage[e] = "done")
    BY <1>0, <2>1
  <2>3. Idle' => Idle
    BY <2>2 DEF Idle
  <2> QED BY <2>1, <2>2, <2>3 DEF StayInv
<1>7. ASSUME UNCHANGED vars PROVE StayInv'
  BY <1>7 DEF vars, deployVars, StayInv, Idle
<1>8. ASSUME NEW d \in Deploys, NEW n, StepRefused(d, n) PROVE StayInv'
  BY <1>4, <1>8 DEF StepRefused
<1>9. ASSUME NEW d \in Deploys, Fault(d) PROVE StayInv'
  BY <1>4, <1>9 DEF Fault
<1> QED BY <1>1, <1>2, <1>3, <1>5, <1>6, <1>7, <1>8, <1>9 DEF Next, Done

\* The argument of StaysCarried.
LEMMA StaysReached == Inv /\ ReachInv /\ StayInv => StaysCarried
<1> SUFFICES ASSUME Inv, ReachInv, StayInv, NEW d \in Deploys, fresh[d], stage[d] = "done",
                    Idle, \A e \in Deploys \ InTx : stopped[e] = "no"
             PROVE Carried(known[d], Schema(db))
  BY DEF StaysCarried
<1>1. RealChange(change) /\ IsDatabase(db) /\ RealBase(change, db)
  BY SchemaAssumption DEF Inv, TypeOK, ConsentInv, ReachInv
<1>2. KeptOK(change, known[d], {}, db)
  BY DEF StayInv
<1> QED BY <1>1, <1>2, KeptIsCarried

\* What a migration has reached is not undone by deploys that made their plans
\* (planMigration) before it was carried out and execute them after, as long as
\* those without a transaction do not fail: each repeated step is refused, does
\* nothing, or is followed by the step that restores what it drops.
THEOREM LateDeploysUndoNothing == Spec => []StaysCarried
<1>1. Init => Inv /\ ReachInv /\ StayInv
  BY InitInv, InitReach, InitStay
<1>2. Inv /\ ReachInv /\ StayInv /\ [Next]_vars => (Inv /\ ReachInv /\ StayInv)'
  <2>1. Inv /\ [Next]_vars => Inv'
    BY NextTypes, NextConsent, NextDrops DEF Inv
  <2> QED BY <2>1, NextReach, NextStay
<1>3. Inv /\ ReachInv /\ StayInv => StaysCarried
  BY StaysReached
<1> QED BY <1>1, <1>2, <1>3, PTL DEF Spec

=============================================================================
