--------------------------- MODULE MCMigrationLock ---------------------------
(* Small instances of MigrationLock for TLC. *)
EXTENDS MigrationLock, TLC
CONSTANTS r1, r2, r3, c1, c2, c3
TwoRuns == {r1, r2}
ThreeRuns == {r1, r2, r3}
ThreeConns == {c1, c2, c3}
TwoConns == {c1, c2}
First == {r1}
\* Deploys with one connection each.
OneEach == r1 :> {c1} @@ r2 :> {c2} @@ r3 :> {c3}
\* Two calls of one process.
SharedPool == r1 :> {c1, c2} @@ r2 :> {c1, c2}
=============================================================================
