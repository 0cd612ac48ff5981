-------------------------- MODULE MCSchemaMigration --------------------------
(* Small schemas and the changes between them, for TLC. *)
EXTENDS SchemaMigration, TLC
CONSTANTS u, p, q, a, b, u_b, i, k, int, text, note, d1, d2

Three == {u, p, q}
Two == {a, b}
TwoDeploys == {d1, d2}
First == {d1}

Plain == [type |-> int, notNull |-> FALSE, hasDefault |-> FALSE, ref |-> None, comment |-> None]
Other == [Plain EXCEPT !.type = text, !.notNull = TRUE]
Default == [Plain EXCEPT !.hasDefault = TRUE]
Noted == [Plain EXCEPT !.comment = note]
To(t) == [Plain EXCEPT !.ref = t]

Table(cols) == [cols |-> cols, cons |-> {}, idx |-> <<>>, comment |-> None]
Indexed(cols, on) == [Table(cols) EXCEPT !.idx = i :> [cols |-> on, body |-> None]]
With(cols, con) == [Table(cols) EXCEPT !.cons = {con}]
Unique(name, on, flag) == [name |-> name, kind |-> "unique", cols |-> on, ref |-> None, flag |-> flag]
Foreign(name, on, t) == [name |-> name, kind |-> "fk", cols |-> on, ref |-> t, flag |-> FALSE]
Both == a :> Plain @@ b :> Plain

\* One table: columns, a default, an index, a constraint, comments.
Shapes ==
  { Table(a :> Plain), Table(a :> Other), Table(a :> Plain @@ b :> Default), Table(b :> Plain),
    Table(a :> Noted), [Table(a :> Plain) EXCEPT !.comment = note],
    Indexed(Both, {a}), Indexed(Both, {b}), Indexed(b :> Other, {b}),
    With(Both, Unique(k, {b}, FALSE)), With(Both, Unique(k, {b}, TRUE)),
    With(Both, Unique(k, {a, b}, FALSE)), With(a :> Plain, Unique(None, {a}, FALSE)) }
OneTable == {u :> s : s \in Shapes} \cup {<<>>}
Move == [table |-> u, from |-> a, to |-> b]
AloneChange(x, y, mode, moves) ==
  [before |-> x, after |-> y, opts |-> [mode |-> mode, tables |-> <<>>, columns |-> moves],
   order |-> <<u, p, q>>]
AloneChanges ==
  { AloneChange(x, y, m, {}) : x \in OneTable, y \in OneTable, m \in {"allow", "ignore"} }
  \cup { AloneChange(x, y, m, {Move}) :
           x \in {x \in OneTable : u \in DOMAIN x /\ a \in DOMAIN x[u].cols},
           y \in OneTable, m \in {"allow", "ask"} }

\* Three tables and the foreign keys between them.
Parts(t, shapes) == {<<>>} \cup {t :> s : s \in shapes}
Graphs3 ==
  { g \in {x @@ y @@ z : x \in Parts(u, {Table(a :> Plain), Table(a :> To(q))}),
                         y \in Parts(p, {Table(a :> To(u)), With(Both, Foreign(k, {a}, u))}),
                         z \in Parts(q, {Table(a :> To(p)), Indexed(Both, {a})})} :
      \A t \in DOMAIN g : Refs(g[t]) \subseteq DOMAIN g \cup {None} }
GraphChange(x, y, mode, moves, order) ==
  [before |-> x, after |-> y, opts |-> [mode |-> mode, tables |-> moves, columns |-> {}],
   order |-> order]
GraphChanges ==
  { GraphChange(x, y, m, <<>>, <<u, p, q>>) : x \in Graphs3, y \in Graphs3, m \in {"allow", "ignore"} }
  \cup { GraphChange(x, y, "allow", p :> q, <<q, p, u>>) :
           x \in {x \in Graphs3 : p \in DOMAIN x}, y \in {y \in Graphs3 : q \in DOMAIN y} }
AllChanges == AloneChanges \cup GraphChanges

\* A rename as the comments of DiffOptions write it: to "u.b", not to "b".
QualifiedRename ==
  { AloneChange(u :> Table(a :> Plain), u :> Table(b :> Plain), "allow", {[Move EXCEPT !.to = u_b]}) }
=============================================================================
