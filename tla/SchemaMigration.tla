--------------------------- MODULE SchemaMigration ---------------------------
(***************************************************************************)
(* Migrations of one database: applyMigration of migrate/runner.ts with    *)
(* the plan of diffSchemas, by callers that know the schema.               *)
(*                                                                         *)
(* The plan is made before the lock is taken.  MigrationLock is about the  *)
(* lock, here a migration is alone from Begin to its end.                  *)
(***************************************************************************)
EXTENDS DdlServer, FiniteSets

CONSTANTS
  Deploys,      \* calls of applyMigration
  InTx,         \* those with transaction: true
  Changes,      \* [before, after, opts, order]: what a migration is asked for, and the
                \* order of the keys
  MaxAttempts,  \* bound: times one deploy is run
  MaxFaults     \* bound: steps refused for their data or lost with the connection

ASSUME MigrationAssumption ==
  /\ InTx \subseteq Deploys
  /\ MaxAttempts \in Nat \ {0} /\ MaxFaults \in Nat
  /\ \A c \in Changes :
       /\ c.opts.mode \in {"allow", "ignore", "ask"}
       /\ \A t \in DOMAIN c.before : IsTable(c.before[t])

\* Both schemas can be real ones, and the order lists their tables.
RealChange(c) ==
  /\ c.order \in Seq(Tables)
  /\ DOMAIN c.before \cup DOMAIN c.after \subseteq {c.order[i] : i \in DOMAIN c.order}
  /\ RealSchema(c.before) /\ RealSchema(c.after) /\ SelfContained(c.after)
  /\ \A t \in DOMAIN c.after : IsTable(c.after[t])

ASSUME SchemaAssumption == None \notin Tables /\ \A c \in Changes : RealChange(c)

VARIABLES
  change,    \* the migration all deploys are asked for
  db,        \* the database
  saved,     \* the database at the last BEGIN
  stage,     \* where a deploy stands
  known,     \* the schema a deploy has been given as `before`
  plan,      \* its steps that are left
  flagged,   \* hasDestructiveSteps of one of its plans
  fresh,     \* `before` was the schema of the database when it began
  stopped,   \* why its last attempt failed
  lost,      \* data its steps have removed
  attempts,
  faults

deployVars == <<stage, known, plan, flagged, fresh, stopped, lost, attempts>>
vars == <<change, db, saved, deployVars, faults>>

\* Every column of the first database holds data of its own.
Populated(schema) ==
  [t \in DOMAIN schema |->
     [schema[t] EXCEPT !.cols = [c \in DOMAIN schema[t].cols |->
        Stored(schema[t].cols[c], schema[t].cols[c].comment, <<t, c>>)]]]

Init ==
  /\ change \in Changes
  /\ db = Populated(change.before) /\ saved = db
  /\ stage = [d \in Deploys |-> "idle"]
  /\ known = [d \in Deploys |-> <<>>]
  /\ plan = [d \in Deploys |-> {}]
  /\ flagged = [d \in Deploys |-> FALSE]
  /\ fresh = [d \in Deploys |-> FALSE]
  /\ stopped = [d \in Deploys |-> "no"]
  /\ lost = [d \in Deploys |-> {}]
  /\ attempts = [d \in Deploys |-> 0]
  /\ faults = 0

Idle == \A d \in Deploys : stage[d] # "running"

\* What others see: not the changes of an open transaction.
Committed == IF \E d \in InTx : stage[d] = "running" THEN saved ELSE db

-----------------------------------------------------------------------------

\* planMigration, for the schema as it is.  An empty plan takes no lock.
Plan(d) ==
  LET before == Schema(Committed)
      diff == DiffSchemas(change.order, before, change.after, change.opts)
  IN /\ stage[d] = "idle"
     /\ known' = [known EXCEPT ![d] = before]
     /\ plan' = [plan EXCEPT ![d] = diff.nodes]
     /\ flagged' = [flagged EXCEPT ![d] = @ \/ HasDestructiveSteps(diff.nodes)]
     /\ stage' = [stage EXCEPT ![d] = IF diff.thrown THEN "thrown"
                                      ELSE IF diff.nodes = {} THEN "done" ELSE "waiting"]
     /\ fresh' = [fresh EXCEPT ![d] = before = Schema(db)]
     /\ attempts' = [attempts EXCEPT ![d] = @ + 1]
     /\ UNCHANGED <<change, db, saved, stopped, lost, faults>>

Begin(d) ==
  /\ stage[d] = "waiting" /\ Idle
  /\ stage' = [stage EXCEPT ![d] = "running"]
  /\ fresh' = [fresh EXCEPT ![d] = known[d] = Schema(db)]
  /\ saved' = db
  /\ UNCHANGED <<change, db, known, plan, flagged, stopped, lost, attempts, faults>>

\* The steps are executed one by one in the order of the plan.
Firsts(nodes) == {n \in nodes : \A m \in nodes : ~Earlier(m.at, n.at)}

Step(d, n) ==
  /\ stage[d] = "running" /\ n \in Firsts(plan[d]) /\ Accepts(db, n)
  /\ db' = After(db, n)
  /\ plan' = [plan EXCEPT ![d] = @ \ {n}]
  /\ lost' = [lost EXCEPT ![d] = @ \cup (Data(db) \ Data(db'))]
  /\ UNCHANGED <<change, saved, stage, known, flagged, fresh, stopped, attempts, faults>>

\* Faulty: what was executed before the failure stays.
Fails_KeepsSteps(d, why) ==
  /\ stage' = [stage EXCEPT ![d] = "failed"]
  /\ stopped' = [stopped EXCEPT ![d] = why]
  /\ UNCHANGED <<change, db, saved, known, plan, flagged, fresh, lost, attempts>>

\* The first step that fails ends the migration, and the transaction if any.
Fails(d, why) ==
  /\ stage' = [stage EXCEPT ![d] = "failed"]
  /\ stopped' = [stopped EXCEPT ![d] = why]
  /\ db' = IF d \in InTx THEN saved ELSE db
  /\ lost' = IF d \in InTx THEN [lost EXCEPT ![d] = {}] ELSE lost
  /\ UNCHANGED <<change, saved, known, plan, flagged, fresh, attempts>>

StepRefused(d, n) ==
  /\ stage[d] = "running" /\ n \in Firsts(plan[d]) /\ ~Accepts(db, n)
  /\ Fails(d, "refused")
  /\ UNCHANGED faults

\* The connection is lost, or the rows of a table do not fit the new definition.
Fault(d) ==
  /\ stage[d] = "running" /\ plan[d] # {} /\ faults < MaxFaults
  /\ Fails(d, "fault")
  /\ faults' = faults + 1

Finish(d) ==
  /\ stage[d] = "running" /\ plan[d] = {}
  /\ stage' = [stage EXCEPT ![d] = "done"]
  /\ UNCHANGED <<change, db, saved, known, plan, flagged, fresh, stopped, lost,
                 attempts, faults>>

\* Faulty: without a bound.
Again_Forever(d) ==
  /\ stage[d] = "failed"
  /\ stage' = [stage EXCEPT ![d] = "idle"]
  /\ UNCHANGED <<change, db, saved, known, plan, flagged, fresh, stopped, lost, attempts, faults>>

\* The caller runs the same migration again.
Again(d) ==
  /\ stage[d] = "failed" /\ attempts[d] < MaxAttempts
  /\ stage' = [stage EXCEPT ![d] = "idle"]
  /\ UNCHANGED <<change, db, saved, known, plan, flagged, fresh, stopped, lost,
                 attempts, faults>>

Done ==
  /\ \A d \in Deploys :
       \/ stage[d] \in {"done", "thrown"}
       \/ stage[d] = "failed" /\ attempts[d] = MaxAttempts
  /\ UNCHANGED vars

Next ==
  \/ \E d \in Deploys :
       \/ Plan(d) \/ Begin(d)
       \/ \E n \in plan[d] : Step(d, n)
       \/ \E n \in plan[d] : StepRefused(d, n)
       \/ Fault(d) \/ Finish(d) \/ Again(d)
  \/ Done

Spec == Init /\ [][Next]_vars

-----------------------------------------------------------------------------
(* When a plan cannot be executed on the schema it was made for              *)

Old(before) == AfterRename(change.order, before, change.after, change.opts.tables)
Shared(before) == DOMAIN Old(before) \cap DOMAIN change.after
Moved(before) == {t \in DOMAIN before : NewName(change.opts.tables, change.after, t) # t}
Drops == change.opts.mode = "allow"
ColumnMoves(before, t) ==
  ColumnRenames(t, Old(before)[t], change.after[t], change.opts.columns)
TableDrops(before, t) ==
  {n \in DiffTableDrops(0, t, Old(before)[t], change.after[t], change.opts.columns) :
     n.type = "alter_table"}
TableAdds(before, t) ==
  {n \in DiffTableAdds(0, t, Old(before)[t], change.after[t], change.opts.columns) :
     n.type = "alter_table"}

\* A table is dropped while another that is altered or dropped later refers to it.
DropsReferenced(before) ==
  \E t \in DOMAIN Old(before) \ DOMAIN change.after : \E u \in DOMAIN Old(before) \ {t} :
    /\ t \in Refs(Old(before)[u])
    /\ u \in DOMAIN change.after \/ Rank(change.order, u) > Rank(change.order, t)

\* A table is altered under its new name before it is renamed.
AltersTooEarly(before) ==
  \E t \in Moved(before) : TableDrops(before, NewName(change.opts.tables, change.after, t)) # {}

\* RENAME COLUMN shares its statement with other actions.
RenameShared(before) ==
  \E t \in Shared(before) : \E n \in TableAdds(before, t) : n.renames # {} /\ ~OnlyRename(n)

\* The new name is taken.
RenameTaken(before) ==
  \/ \E t \in Moved(before) :
       \E u \in DOMAIN before \ {t} :
         NewName(change.opts.tables, change.after, t) = NewName(change.opts.tables, change.after, u)
  \/ \E t \in Shared(before) :
       \E r \in ColumnMoves(before, t) : r[2] \in DOMAIN Old(before)[t].cols

\* A constraint is dropped after one of its columns, which took it along.
DroppedTwice(before) ==
  \E t \in Shared(before) : \E n \in TableDrops(before, t) : \E k \in Old(before)[t].cons :
    k.name \in n.dropCons /\ k.cols \cap n.dropCols # {}

\* New tables refer to each other.
ForeignKeyCycle(before) ==
  \E S \in SUBSET (DOMAIN change.after \ DOMAIN Old(before)) :
    S # {} /\ \A t \in S : (Refs(change.after[t]) \cap S) \ {t} # {}

\* With the drops skipped, what was to be replaced is still there.
StillThere(before) ==
  \/ \E t \in DOMAIN change.after : \E i \in DOMAIN change.after[t].idx :
       /\ i \in IndexNames(before)
       /\ t \in DOMAIN Old(before) => i \in DiffIndexes(Old(before)[t], change.after[t]).added
  \/ \E t \in Shared(before) : \E n \in TableAdds(before, t) :
       ({k.name : k \in n.addCons} \ {None}) \cap {k.name : k \in Old(before)[t].cons} # {}

Obstacle(before) ==
  \/ Drops /\ (DropsReferenced(before) \/ AltersTooEarly(before) \/ DroppedTwice(before))
  \/ RenameShared(before) \/ RenameTaken(before) \/ ForeignKeyCycle(before)
  \/ ~Drops /\ StillThere(before)

-----------------------------------------------------------------------------
(* Properties *)

TypeOK ==
  /\ change \in Changes
  /\ stage \in [Deploys -> {"idle", "waiting", "running", "done", "thrown", "failed"}]
  /\ flagged \in [Deploys -> BOOLEAN] /\ fresh \in [Deploys -> BOOLEAN]
  /\ stopped \in [Deploys -> {"no", "refused", "fault"}]
  /\ attempts \in [Deploys -> 0..MaxAttempts]
  /\ faults \in 0..MaxFaults

\* A plan made for the schema of the database is executed to its end, unless one
\* of the obstacles above is in its way; then it is not.
ExecutableUnlessObstacle ==
  \A d \in Deploys : fresh[d] =>
    /\ stage[d] = "failed" /\ stopped[d] = "refused" => Obstacle(known[d])
    /\ stage[d] = "done" => ~Obstacle(known[d])

\* The schema reached is the one asked for, as far as the diff carries changes:
\* types, NOT NULL, indexes, new tables and columns with their foreign keys and
\* defaults, constraints but for the body of one whose name is kept.
Carried(before, schema) ==
  /\ Drops => DOMAIN schema = DOMAIN change.after
  /\ \A t \in DOMAIN change.after :
       LET want == change.after[t]
           have == schema[t]
           old == IF t \in DOMAIN Old(before) THEN Old(before)[t]
                  ELSE [cols |-> <<>>, cons |-> {}]
           new == (DOMAIN want.cols \ DOMAIN old.cols)
                  \ (IF t \in Shared(before) THEN {r[2] : r \in ColumnMoves(before, t)} ELSE {})
       IN /\ t \in DOMAIN schema
          /\ DOMAIN want.cols \subseteq DOMAIN have.cols
          /\ Drops => DOMAIN want.cols = DOMAIN have.cols /\ want.idx = have.idx
          /\ \A i \in DOMAIN want.idx : i \in DOMAIN have.idx /\ have.idx[i] = want.idx[i]
          /\ \A c \in DOMAIN want.cols :
               /\ have.cols[c].type = want.cols[c].type
               /\ have.cols[c].notNull = want.cols[c].notNull
               /\ ~want.cols[c].hasDefault => ~have.cols[c].hasDefault
          /\ \A c \in new : have.cols[c].ref = want.cols[c].ref
                            /\ have.cols[c].hasDefault = want.cols[c].hasDefault
          /\ \A k \in want.cons :
               k \in Without(want.cons, old.cons) \cup old.cons => k \in have.cons
          /\ have.comment = want.comment

ReachesTheSchema ==
  \A d \in Deploys :
    fresh[d] /\ stage[d] = "running" /\ plan[d] = {} => Carried(known[d], Schema(db))

\* Deploys that planned before the migration was carried out do not undo it if
\* they run in transactions.
StaysCarried ==
  \A d \in Deploys :
    /\ fresh[d] /\ stage[d] = "done"
    /\ Idle /\ \A e \in Deploys \ InTx : stopped[e] = "no"
    => Carried(known[d], Schema(db))

\* Data are removed only by a migration that was allowed to drop and whose plan
\* said so, whatever the database had become when it was executed.
DropsNeedConsent == \A d \in Deploys : lost[d] # {} => Drops /\ flagged[d]

\* Data may go if the new schema has no table for them, or neither their column
\* nor one that an entry renames it to.
GivenUp(x) ==
  LET t == NewName(change.opts.tables, change.after, x[1])
  IN t \in DOMAIN change.after =>
       /\ x[2] \notin DOMAIN change.after[t].cols
       /\ \A m \in change.opts.columns :
            m.table = t /\ m.from = x[2] => m.to \notin DOMAIN change.after[t].cols

\* A migration removes only data that have no place in the new schema, renames
\* considered, whatever the database had become when its plan was executed.
NothingLost == \A d \in Deploys : \A x \in lost[d] : GivenUp(x)

\* "Pass an entry per rename": a column with an entry keeps its data.
RenamesKeepData ==
  \A d \in Deploys : \A m \in change.opts.columns : <<m.table, m.from>> \notin lost[d]

-----------------------------------------------------------------------------
(* For the proofs *)

NodeTypes == {"drop_index", "drop_table", "rename_table", "create_table", "create_index",
              "comment_on", "alter_table"}
Destroys(n) == n.type = "drop_table" \/ (n.type = "alter_table" /\ n.dropCols # {})

IsStored(col) == col = Stored(col, col.comment, col.data)
IsStoredTable(r) == IsTable(r) /\ \A c \in DOMAIN r.cols : IsStored(r.cols[c])
IsDatabase(base) == \A t \in DOMAIN base : IsStoredTable(base[t])

\* What removes data is in a plan only with consent.
ConsentInv ==
  /\ IsDatabase(db) /\ IsDatabase(saved)
  /\ DOMAIN plan = Deploys /\ DOMAIN lost = Deploys
  /\ \A d \in Deploys : stage[d] = "idle" => attempts[d] < MaxAttempts
  /\ \A d \in Deploys : \A n \in plan[d] :
       n.type \in NodeTypes /\ (Destroys(n) => Drops /\ flagged[d])

\* The data x of a column of the first database are in table t, column c.
InPlace(t, c, x) ==
  LET table == NewName(change.opts.tables, change.after, x[1])
  IN /\ t \in {x[1], table}
     /\ c = x[2] \/ \E m \in change.opts.columns :
          m.table = table /\ m.from = x[2] /\ m.to = c /\ c \in DOMAIN change.after[table].cols
AllInPlace(base) ==
  \A t \in DOMAIN base : \A c \in DOMAIN base[t].cols :
    base[t].cols[c].data # None => InPlace(t, c, base[t].cols[c].data)

\* A step drops what has no place in the new schema, and renames as declared.
StepOK(n) ==
  LET after == change.after
      entries(c) == {m \in change.opts.columns :
                       m.table = n.table /\ m.from = c /\ m.to \in DOMAIN after[n.table].cols}
  IN /\ n.type = "drop_table" =>
          n.table \notin DOMAIN after /\ NewName(change.opts.tables, after, n.table) = n.table
     /\ n.type = "rename_table" =>
          n.to = NewName(change.opts.tables, after, n.table) /\ n.to # n.table
     /\ n.type = "alter_table" =>
          /\ n.table \in DOMAIN after
          /\ \A c \in n.dropCols : c \notin DOMAIN after[n.table].cols /\ entries(c) = {}
          /\ \A r \in n.renames :
               r[1] \notin DOMAIN after[n.table].cols /\ \E m \in entries(r[1]) : m.to = r[2]

\* Data are where they were or where an entry moves them, steps that are left
\* agree with the new schema, and what is gone had no place in it.
LossInv ==
  /\ AllInPlace(db) /\ AllInPlace(saved)
  /\ \A d \in Deploys : \A n \in plan[d] : StepOK(n)
  /\ NothingLost
=============================================================================
