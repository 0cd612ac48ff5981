------------------------------ MODULE DdlServer ------------------------------
(***************************************************************************)
(* PostgreSQL as far as the nodes of SchemaDiff need it: whether a         *)
(* statement is accepted and what it does.  External to the repository.    *)
(*                                                                         *)
(* A database is a schema whose columns also have data: where their        *)
(* content comes from, or None when it was created empty.                  *)
(***************************************************************************)
EXTENDS SchemaDiff

Described(col) ==
  [type |-> col.type, notNull |-> col.notNull, hasDefault |-> col.hasDefault,
   ref |-> col.ref, comment |-> col.comment]
\* A column as it is stored.  Its definition in DDL carries no comment.
Stored(col, comment, data) ==
  [type |-> col.type, notNull |-> col.notNull, hasDefault |-> col.hasDefault,
   ref |-> col.ref, comment |-> comment, data |-> data]
Fresh(col) == Stored(col, None, None)

\* The schema of a database.
Schema(db) ==
  [t \in DOMAIN db |->
     [db[t] EXCEPT !.cols = [c \in DOMAIN db[t].cols |-> Described(db[t].cols[c])]]]

Data(db) == (UNION {{db[t].cols[c].data : c \in DOMAIN db[t].cols} : t \in DOMAIN db}) \ {None}

IndexNames(db) == UNION {DOMAIN db[t].idx : t \in DOMAIN db}

-----------------------------------------------------------------------------
(* ALTER TABLE: PostgreSQL executes the drops of one statement first.        *)

\* Columns take their indexes and constraints with them.
Dropped(table, n) ==
  [table EXCEPT
     !.cols = [c \in DOMAIN table.cols \ n.dropCols |-> table.cols[c]],
     !.cons = {k \in table.cons : k.cols \cap n.dropCols = {} /\ k.name \notin n.dropCons},
     !.idx = [i \in {i \in DOMAIN table.idx : table.idx[i].cols \cap n.dropCols = {}}
                |-> table.idx[i]]]

OnlyRename(n) ==
  /\ \A r, s \in n.renames : r = s
  /\ n.dropCols = {} /\ n.dropCons = {} /\ n.sets = {} /\ n.addCons = {}
  /\ DOMAIN n.adds = {}

AlterAccepted(db, n) ==
  LET table == db[n.table]
      left == Dropped(table, n)
      final == DOMAIN left.cols \cup DOMAIN n.adds
      known == DOMAIN db \cup {None}
  IN /\ n.dropCols \subseteq DOMAIN table.cols
     /\ \A k \in n.dropCons :
          \E m \in table.cons : m.name = k /\ m.cols \cap n.dropCols = {}
     /\ n.renames # {} => OnlyRename(n)
     /\ \A r \in n.renames : r[1] \in DOMAIN table.cols /\ r[2] \notin DOMAIN table.cols
     /\ DOMAIN n.adds \cap DOMAIN left.cols = {}
     /\ \A c \in DOMAIN n.adds : n.adds[c].ref \in known
     /\ \A s \in n.sets : s.column \in final
     /\ \A k \in n.addCons :
          /\ k.cols \subseteq final /\ k.ref \in known
          /\ k.name = None \/ k.name \notin {m.name : m \in left.cons}

Renamed(renames, c) ==
  IF \E r \in renames : r[1] = c THEN (CHOOSE r \in renames : r[1] = c)[2] ELSE c

Set(col, sets, c) ==
  LET value(attr) == IF \E s \in sets : s.column = c /\ s.attr = attr
                     THEN (CHOOSE s \in sets : s.column = c /\ s.attr = attr).value
                     ELSE col[attr]
  IN [col EXCEPT !.type = value("type"), !.notNull = value("notNull"),
                 !.hasDefault = value("hasDefault")]

AlterResult(table, n) ==
  LET left == Dropped(table, n)
      new(c) == Renamed(n.renames, c)
      old == {new(c) : c \in DOMAIN left.cols}
      col(c) == IF c \in old
                THEN left.cols[CHOOSE b \in DOMAIN left.cols : new(b) = c]
                ELSE Fresh(n.adds[c])
      moved(S) == {new(c) : c \in S}
  IN [left EXCEPT
        !.cols = [c \in old \cup DOMAIN n.adds |-> Set(col(c), n.sets, c)],
        !.cons = {[k EXCEPT !.cols = moved(k.cols)] : k \in left.cons} \cup n.addCons,
        !.idx = [i \in DOMAIN left.idx |->
                   [left.idx[i] EXCEPT !.cols = moved(left.idx[i].cols)]]]

-----------------------------------------------------------------------------

\* Foreign keys follow a table that is renamed.
Follow(table, from, to) ==
  LET ref(r) == IF r = from THEN to ELSE r
  IN [table EXCEPT
        !.cols = [c \in DOMAIN table.cols |->
                    [table.cols[c] EXCEPT !.ref = ref(table.cols[c].ref)]],
        !.cons = {[k EXCEPT !.ref = ref(k.ref)] : k \in table.cons}]

Accepts(db, n) ==
  CASE n.type = "drop_index" -> TRUE
    [] n.type = "drop_table" ->
         n.table \in DOMAIN db => \A u \in DOMAIN db \ {n.table} : n.table \notin Refs(db[u])
    [] n.type = "rename_table" -> n.table \in DOMAIN db /\ n.to \notin DOMAIN db
    [] n.type = "create_table" ->
         /\ n.table \notin DOMAIN db
         /\ Refs(n) \subseteq DOMAIN db \cup {n.table, None}
    [] n.type = "create_index" ->
         /\ n.table \in DOMAIN db /\ n.index \notin IndexNames(db)
         /\ n.def.cols \subseteq DOMAIN db[n.table].cols
    [] n.type = "comment_on" ->
         n.table \in DOMAIN db /\ n.column \in DOMAIN db[n.table].cols \cup {None}
    [] n.type = "alter_table" -> n.table \in DOMAIN db /\ AlterAccepted(db, n)

After(db, n) ==
  CASE n.type = "drop_index" ->
         [t \in DOMAIN db |->
            [db[t] EXCEPT !.idx = [i \in DOMAIN db[t].idx \ {n.index} |-> db[t].idx[i]]]]
    [] n.type = "drop_table" -> [t \in DOMAIN db \ {n.table} |-> db[t]]
    [] n.type = "rename_table" ->
         [t \in (DOMAIN db \ {n.table}) \cup {n.to} |->
            Follow(db[IF t = n.to THEN n.table ELSE t], n.table, n.to)]
    [] n.type = "create_table" ->
         [t \in DOMAIN db \cup {n.table} |->
            IF t = n.table
            THEN [cols |-> [c \in DOMAIN n.cols |-> Fresh(n.cols[c])],
                  cons |-> n.cons, idx |-> <<>>, comment |-> None]
            ELSE db[t]]
    [] n.type = "create_index" ->
         [db EXCEPT ![n.table].idx =
            [i \in DOMAIN @ \cup {n.index} |-> IF i = n.index THEN n.def ELSE @[i]]]
    [] n.type = "comment_on" ->
         IF n.column = None
         THEN [db EXCEPT ![n.table].comment = n.comment]
         ELSE [db EXCEPT ![n.table].cols[n.column].comment = n.comment]
    [] n.type = "alter_table" -> [db EXCEPT ![n.table] = AlterResult(@, n)]

-----------------------------------------------------------------------------
(* The schemas a server can have *)

IsConstraint(k) ==
  k = [name |-> k.name, kind |-> k.kind, cols |-> k.cols, ref |-> k.ref, flag |-> k.flag]
IsIndex(x) == x = [cols |-> x.cols, body |-> x.body]
AreIndexes(f) == f = [i \in DOMAIN f |-> f[i]]

\* Names are unique: of constraints in their table, of indexes in the schema.
NamesUnique(schema) ==
  /\ \A t \in DOMAIN schema : \A k, m \in schema[t].cons :
       k.name = m.name /\ k.name # None => k = m
  /\ \A t, u \in DOMAIN schema :
       t # u => DOMAIN schema[t].idx \cap DOMAIN schema[u].idx = {}
RealSchema(schema) ==
  /\ NamesUnique(schema)
  /\ \A t \in DOMAIN schema : /\ AreIndexes(schema[t].idx)
                              /\ \A k \in schema[t].cons : IsConstraint(k)

\* What a table has is on its columns and refers to tables of the schema.
SelfContained(schema) ==
  \A t \in DOMAIN schema :
    /\ None \notin DOMAIN schema[t].cols
    /\ \A k \in schema[t].cons : k.cols \subseteq DOMAIN schema[t].cols
    /\ \A i \in DOMAIN schema[t].idx :
         IsIndex(schema[t].idx[i]) /\ schema[t].idx[i].cols \subseteq DOMAIN schema[t].cols
    /\ Refs(schema[t]) \subseteq DOMAIN schema \cup {None}
=============================================================================
