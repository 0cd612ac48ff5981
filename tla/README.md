# sumak in TLA+

sumak is a typed SQL builder for PostgreSQL, MySQL, SQLite and SQL Server. One
half of it turns chains of builder calls into trees, rewrites them (plugins,
hooks, normalizer, optimizer) and prints them in a dialect; the other half runs
the SQL: transactions over pooled connections, a migration lock held by database
sessions, events that observers correlate, and the DDL that brings a live
database from one schema to another. This directory models both, checks the
models with TLC on small instances and proves with TLAPS the main invariants of
the second half and, of the first, those of plugins and hooks. Paths below are relative to the repository; `src/` is its
source directory (`src/src/...` in PROJECT.json).

## The system

| Component | State it keeps | Operations | What makes it correct |
|---|---|---|---|
| Pooled drivers (`drivers/pg.ts`, `drivers/mysql2.ts`) | a client checked out per `transaction()`; promises under way | `query`, `execute`, `transaction(fn, {signal})` | atomic and isolated calls, clients returned clean, every call settles |
| mssql driver (`drivers/mssql.ts`) | the package's Transaction object | the same | as above; the state machine is in the package |
| better-sqlite3 driver | one shared handle | `query`, `execute`, `stream`, `transaction` | calls do not run into each other's transaction |
| Transaction runner (`driver/transaction.ts`, `Sumak.transaction`) | none beyond its frame | delegates to the driver or sends BEGIN/COMMIT/ROLLBACK itself | commits on resolve, rolls back on throw |
| Execution and events (`driver/execute.ts`, `otel.ts`, `Sumak.onQuery`) | the id counter, listeners, the map of open spans | `runQuery`, `runExecute`, `runStream`, transaction events | one start and one end or error per operation, spans that close |
| Migration runner (`migrate/runner.ts`) | none; the database keeps the advisory lock | `planMigration`, `applyMigration`, `runPlan` | DDL of two migrations never interleaves, the lock comes back |
| Schema diff (`migrate/diff.ts`) | none | `diffSchemas` | executing the plan on `before` gives `after`, in an order that works |
| Compile pipeline (`sumak.ts`) | options, registered hooks and plugins | `compile`, `compileDDL`, `transformResult`, `hook` | each layer keeps what the one before it promised |
| Plugins and walker (`plugin/`, `casl/`, `ast/walker.ts`) | lists of plugins and of handlers, flags on nodes | `transformNode`, `callHook`, `removeHook` | a row policy meets every table of every nested statement exactly once, handlers chain |
| Normalizer, optimizer | none | `normalizeQuery`, `optimize` | the rewritten query has the result of the original |
| Builders and printers (`builder/`, `printer/`, `dialect/`, `ns/tx.ts`) | the node at hand, the parameters printed so far | one method per clause, one printer per node and dialect | what compiles is a statement of the server, and says what was asked for |
| Compiled queries (`builder/compiled.ts`) | SQL, slots, base parameters | `compileQuery`, the bound function | placeholders land at the slots of the printed SQL, calls do not disturb each other |
| Schema declarations, introspection, generation, CLI | none, or files and a catalog | construction, I/O | mostly by type; see PROJECT.json |

How they interact. A builder asks its Sumak instance to compile (plugins, hooks,
normalizer, optimizer, printer) and hands the SQL to `driver/execute.ts`, which
calls the driver between two events. `Sumak.transaction` builds a scoped
instance over the scoped driver the pooled driver passes to `fn`. The migration
runner uses the same calls: its lock is an ordinary statement of the pool.
Everything is one JavaScript thread: actors interleave at `await`, and the
server and other processes run beside them.

The hard behaviours are listed, each with its line, under `hazards` in
PROJECT.json: a signal racing a transaction body, failures of BEGIN and COMMIT,
a body that catches an error, nested transactions, a lock that belongs to a
session while statements move between sessions, streams that end in four ways, a
migration planned for a schema that is gone when it runs or that stops half way;
and in the compiler: handlers that edit the list they are called from, plugins
that are applied again to what they have made, predicates moved across outer
joins, placeholders that are numbered in the order in which printers happen to
reach them, and clauses that are right alone and wrong together.

## The modules

**TransactionContract** is the abstract promise of `Driver.transaction`: a call
does work, then its work becomes durable in one step or is discarded, then the
call settles; it resolves only when it was committed.

**PoolTransaction** is `transaction()` of `pg.ts` and `mysql2.ts`, statement by
statement. A task is one call and consists of two activities: `main`, the
async function, and `body`, the caller's `fn`, because `withSignal` can let
`main` go on while `body` runs. One action stands for what the code does between
two awaits: `Connect` is `pool.connect()` with the BEGIN sent right after it,
`BeginOk` the call of `fn` inside the race, `BodyEnds` the end of `fn` with
COMMIT or ROLLBACK sent, `CommitOk`, `CommitFails` and `RollbackDone` the replies
with `catch` and `finally`, `Abort` the listener `withSignal` registers,
`Send`, `StmtOk`, `StmtError` and `StmtDropped` a statement of the scoped driver.
The `Nest...` actions are `tx.transaction()` inside `fn`, which takes the manual
path of `driver/transaction.ts` on the same client.

The connection is external and modelled from its use: `queue[c]` holds the
commands a client has been given, the server executes the head (`Server...`),
`result[c]` is its answer, and the head is removed by the action that observes
the reply. `owner`, `pend` and `doomed` are the session's transaction: who opened
it, its writes, and PostgreSQL's aborted state. A BEGIN may be rejected on a connection
that stays up, which is what `Rejecting` is for: the server refuses it, or has
executed it when the client has given up waiting (a timeout of the client). `fate` records how a task's
transaction ended and is read by properties only. `Dialect` selects the two
points where the servers differ (an error dooms the transaction or not; BEGIN
inside a transaction is a warning or an implicit COMMIT).

**MigrationLock** is `runPlan` with `withMigrationLock`: `Acquire`, `Granted`,
`AcquireFails`, `Open`, `Step`, `StepFails`, `Finish`, `Unlock`. A statement takes
any idle connection of the caller's pool; the lock belongs to the connection
that took it, is re-entrant (`depth`) and ends with the session (`Reap`). Calls of
one process share a pool, deploys have disjoint ones (`Pool`). Steps are counted,
not interpreted. That the migration's own BEGIN may fail is PoolTransaction's
matter.

**SharedHandle** is `transaction()` of `better-sqlite3.ts` (tasks in `Captured`) and
the manual path of `driver/transaction.ts` on that driver without
`captureTransactions` (the other tasks), beside plain statements and cursors of
`stream()`. There is one session. A statement executes when it is called and its
promise is seen later, so an action is what runs between two microtasks: the
driver's `transaction()` sends BEGIN and enters `fn` in one (`BeginOk`), the manual
path in two (`BodyStarts`); a failing COMMIT is followed by ROLLBACK in the same
step or, on the manual path, in a later one (`CommitFails`, `RollsBack`). SQLite is
external: an error of a statement may end the transaction (`WriteFails`, counted
in `losses`), and an open cursor makes the handle refuse COMMIT, ROLLBACK and
writes (`Busy`).

**QueryEvents** is the event stream: an operation per call of `runQuery`,
`runExecute`, `runStream` (on a cursor or buffered) and `runWithTxEvents`, with the
id counter, what each listener has seen (`log`) and the otel listener's map and
spans. Statements of a transaction's body start once the body runs, and may start
and end after the transaction has reported its own end: `withSignal` lets an abort
overtake the body, and a body need not wait for all it has begun. A transaction
whose driver call is rejected before the body runs is `"failed"`. Delivery is
atomic because listeners are called synchronously. That a
listener throws changes nothing except for the otel listener, whose tracer may
throw before the map is written or after an entry was removed; `Trace` has both.

**SchemaDiff** is `diffSchemas`: a pure operator from two schemas and the options
(`allowDestructive`, `renames`) to a plan. A schema is a function from tables to
columns, constraints, indexes and a comment. A plan is a set of nodes that each
carry their place: the group of the code's final array, the table's rank in the
order of keys (or in the creation order), the part of the table's diff.
`Destructive` and `Additive` are the two halves, `DiffSchemas` the gate between
them, `TopoSortForCreation` the depth-first order with its `visiting` set.

**DdlServer** is external: PostgreSQL as far as the nodes need it. `Accepts` says
whether a statement is executed on a database, `After` what becomes of it. A
database is a schema whose columns know where their content comes from, so that a
dropped column differs from a renamed one.

**SchemaMigration** composes both: several calls of `applyMigration` (`Deploys`), with
and without a transaction (`InTx`), plan for the schema as others see it
(`Plan`), take the lock (`Begin`), execute the plan in its order (`Step`), and stop at
the first statement that is refused (`StepRefused`) or lost (`Fault`), after which
the caller may run the migration again (`Again`). The lock itself is MigrationLock's
matter; here a migration is alone from `Begin` to its end. What lies between
`Plan` and `Begin` is not: the plan is made ahead of the lock, as in the code.

**Statements** is the life of a statement: a builder is made, its methods are called
in any order, and the node is compiled for a dialect, which prints it or throws.
A node is the set of the clauses it carries (**Clauses**), a method adds or
replaces clauses, a printer maps a node and a dialect to the sequence of clauses
it prints, or to `Refused`. The nodes, builders and printers are in modules by
subject: **DdlTypes** (extensions, enums, domains), **DdlTables** (tables, columns,
constraints, indexes, views, schemas, comments), **DdlSequences**, **DdlRoutines**
(policies, functions, triggers), **DdlSession** (maintenance, locks, COPY, NOTIFY),
**Tcl** (`ns/tx.ts`), **Queries** (SELECT and EXPLAIN with joins and sort keys),
**Writes** (INSERT, UPDATE, DELETE, MERGE with the clauses in them) and
**Expressions** (functions, windows and operators that not every dialect has).
**Features** is the feature matrix. **Grammars** is external: the servers' grammars
over the same clauses.

**QueryRewrite** composes normalizer and optimizer as `compile` does.
`Join`, `Where` and `Having` build a SELECT, `Normalize`, `Optimize` and `Iterate` are the steps
under the options of the instance. A SELECT with HAVING returns aggregates of one group. **NormalizeExpression** has the five passes of
`normalize/expression.ts` with their fixpoint and the fingerprint of the
deduplication, **RewriteRules** has `normalizeQuery`, the rules and their loop.
**SqlSemantics** is external: three-valued logic, joins over small databases, COUNT with
FILTER, and SQLite's comparison, in which a column may hold numbers beside strings
and the number 1 is not the string '1'.

**PluginPipeline** is `PluginManager.transformNode` on a statement with SELECTs nested
in it: `ApplyPlugin` is one plugin on one statement, `Descend` the walk to the next
one, if **Walker** visits the slot it hangs from. **PluginTransforms** has what each
plugin does (soft-delete, multi-tenant, optimistic-lock, audit-timestamp,
defaults, query-limit, with-schema, casl), with the flags it looks at and sets;
**CaslWhere** is `buildWhereNode`. Of names only the columns that plugins add or look
for matter (`Columns`); `NoTable` is the table of a statement without one.

**CompiledQueries** takes a SELECT through its life in one instance. Builder calls
make a tree (`Where`, `OrderByLimit`, `Combine`, `Keep`); `compile()` applies the tenant
plugin (`BeginCompile`), calls the hooks and prints (`Printed`); `toCompiled()` keeps
the slots (`CompileDone`), and the compiled query is called for several requests
(`Call`, `WriteParams`, `SwitchTenant`, `Receive`). **Hooks** is the part it composes them
with: registration and the loop of `callHook`, which is one step per handler
(`CallHandler`), because a handler may register and unregister handlers while it
runs: `loop.array` is the live array until `removeHook` detaches it. Its own
specification, HookSpec, is the one its proofs are about.
**SelectPrinter** is the impure printer, with the parameters pushed so far as an
argument and a result, and the server's reading of the text: which value is
bound where, and how set operators associate. A word of the text that is a
placeholder also carries the value of the node it was printed for, which only
the properties look at.

The `MC...` modules give the constants small values; the runs of PoolTransaction and
SharedHandle need none, their constants are sets of model values. Each module ends with its
properties and the invariants its proofs use, and holds some faulty
variants: what an action would be with a plausible mistake. No specification
uses them; they show that each property fails when the code is wrong.

## Runs and bounds

| Run | Question | Bounds |
|---|---|---|
| pool_orderly | isolation, atomicity, clean pool, final and truthful outcomes on PostgreSQL | 2 calls (one with a signal, one that catches errors), 2 statements each, pool of 1 with one replacement, 1 loss, BEGIN may be rejected on every connection |
| pool_mysql | the driver implements TransactionContract, both bodies catching errors, on a MySQL server | as pool_orderly |
| pool_live | everybody settles, and clients come back | 3 calls (one detached and catching, one nesting), pool of 1, no loss and no rejected BEGIN, deadlock checked |
| pool_begin_leak | a disagreement with the documentation | the smallest instance: 2 calls, 1 statement, pool of 1, no loss, one connection that may reject BEGIN |
| migration_dedicated | DDL is serialized while no session was closed, every migration ends, the lock comes back | 3 deploys with 1 connection each, 2 steps, 1 session lost, deadlock checked |
| handle | calls on one SQLite handle are alone, atomic and truthful, and a transaction that stays open has a reason | 2 calls (one per path, one catching errors), 2 statements each, a plain statement, a cursor, 1 transaction ended by an error, deadlock checked |
| events | correlation, spans, row counts, an end for every start | workloads of 3 operations: a transaction with two statements, at once or one after the other; a cursor stream in a transaction beside a buffered stream of its own; a cursor stream whose transform may drop rows and an execute in a transaction; 2 rows, 2 listeners |
| schema | plans are executable unless one of the named obstacles is there, reach the schema asked for, are not undone by deploys that waited, and remove only what was given up | every change between 13 shapes of one table or none, with and without a column rename; every change between the graphs of three tables with foreign keys, with and without a table rename; 2 deploys (one in a transaction), 2 attempts, 1 fault |
| statements | what compiles is a statement of the server, what is refused is none, no clause is lost, the feature matrix is the one answer | every DDL, TCL and DML node, every set of calls in every order; at most 5 clauses of a DML statement, no bound for the others |
| rewrite | rewriting keeps the answer, decides nothing by the values of parameters, and reaches a normal form | 3 calls of `join()`, `where()` and `having()` from 23 predicates, 4 conditions on groups and 8 joins, 4 sources, 7 option sets, 5 databases of at most three values a table |
| plugins | policies hold at any depth, what plugins add is executable, their order decides nothing, casl shows permitted rows only | lists of up to 3 of 14 plugins, all abilities of up to 3 rules, statements of all kinds over two tables, up to two SELECTs below them in any slot |
| compiled | placeholders bind to what they stand for, set operations associate as they were called, calls of a compiled query agree with compiling anew, handlers compose | 3 builder calls, or 3 registrations and edits of hooks, or one of each and 3 uses; 3 tables, 3 handlers, 2 tenants, 2 argument objects, all dialects |

Why small is enough. A transaction conflicts with another only through a
connection they use one after the other or a client both wait for, so two calls
on one connection reach every pairwise interleaving; the third call of pool_live
makes waiting for a waiter possible. Two statements distinguish "some" from
"all" in atomicity. One loss can hit each point of a call. Three tables are the
smallest cycle of foreign keys that is not mutual; two columns tell a rename from
a drop beside an add; two deploys and one fault give the stale plan and the
half-applied one. `MaxStmts`, `MaxBreaks`, `MaxSteps`, `MaxReaps`, `MaxRows`,
`MaxLosses`, `MaxAttempts` and `MaxFaults` are bounds of the model; the proofs hold
for every value of them.

For the compiler: a conflict between clauses is one of two or three of them, and
five leave room for what surrounds it. Two joined tables and a condition over
each are what pushdown can get wrong; a database in which a value matches, one in
which it is NULL and an empty table tell the join types apart. A plugin looks at
one statement and at what is already in it, so two plugins show every pairwise
influence, the third the shadowing of a second instance by a first, and two
nested SELECTs a walk that stops at the wrong place. The three tables of the run
compiled hold each combination of membership once, so two expressions of set
operators over them return the same rows only if they are equal. Three steps on
hooks are three handlers, or two and an edit under the loop; three uses are a
call, a write into its result, and another call. `MaxClauses`, `MaxCalls`, `MaxDepth` and
`Budgets` bound these.

`CHECK_DEADLOCK FALSE` is set where the system really stops: when BEGIN is rejected the
client is never released, so other calls wait for ever (the pool runs with a
loss or a rejected BEGIN; see pool_begin_leak), and a statement that was compiled, or whose bound of
calls is spent, has nothing more to do (statements, rewrite, plugins, compiled).

### What does not hold

The run **pool_begin_leak** shows that BEGIN is awaited outside of `try`
(`pg.ts:140`, `mysql2.ts:121`): when it rejects, `release()` does not run. No connection
is lost in that run: the server may refuse BEGIN, or the client may give up on it
and leave behind a session whose transaction is open.

Four more disagreements with the documentation lie outside of the assumptions
of a run; each shows when the run's constants are changed as given.

* After an abort the client is released while `fn` still runs, and its next
  statement executes in the next caller's transaction: NoForeignWrites in
  pool_orderly with `Detached <- First`.
* The documented savepoints do not exist on the scoped driver; the inner COMMIT
  commits the outer transaction: NoEarlyCommit in pool_orderly with
  `Nesting <- Second`.
* Lock, steps and release of a migration are statements of a pool. A second call
  of the process may be granted the lock on the very session that holds it:
  Serialized with `Pool <- SharedPool` and two runs. For the same reason the release
  may miss the session that has the lock, which is why `LockReturned` is claimed for
  pools of one connection. The session may also be closed as idle during the
  steps, which lets another deploy in; this is why `Serialized` speaks of behaviours
  in which no session was closed (`reaps`).
* The comments of `DiffOptions` write the target of a column rename as
  `"users.new_name"`; the code looks the whole string up among the columns
  (`diff.ts:332`), finds none and ignores the entry, so the column is dropped with
  its data: RenamesKeepData with `Changes <- QualifiedRename` in the run schema.

The other observations are part of properties that hold, because the
properties name the exception and hold only with it.

Running:

* On PostgreSQL, catching a statement error and returning makes `transaction()`
  resolve although COMMIT rolled back (`ResolvedIsCommitted`).
* A cursor stream counts a row before it knows whether the transform kept it
  (`AccurateRowCount`).
* The events of a transaction do not enclose those of its body's statements. After
  an abort (`driver/types.ts:184-203`) the transaction reports its error while a
  statement is open, and the body that goes on may start others; so may a branch
  that `Promise.all` has left behind. No property claims the order; the others hold
  without it.
* "The diff output is safe to run as a single transaction on PG" (README:2160,
  `diff.ts:124-135`) holds up to the obstacles of `ExecutableUnlessObstacle`, and each
  of them makes the plan fail: a dropped table is still referred to by a table
  altered or dropped later (`DropsReferenced`; the comment's first group, "DROP FK
  constraints", does not exist); drops on a renamed table use its new name before
  the rename (`AltersTooEarly`); RENAME COLUMN is joined with other actions
  (`RenameShared`); a new name is taken (`RenameTaken`); a constraint is dropped in
  the statement that drops its column (`DroppedTwice`); new tables refer to each
  other (`ForeignKeyCycle`); mode "ignore" skips the drop of what it then creates
  again (`StillThere`).

Printing (`SelectPrinter`, `Statements`):

* `printIn` pushes the list before it prints the tested expression; where
  placeholders carry no number (MySQL, SQLite) an expression with parameters of
  its own gets the list's values and the list gets its (`ListBeforeSubject`).
* `printRaw` pushes a bigint uncoerced (`RawUncoerced`).
* Set operations: an operand that is a chain itself is printed without
  parentheses (`ChainOperand`); INTERSECT after UNION or EXCEPT binds to the last
  operand only (`IntersectLast`); an operation appended to a paged operand ends up
  inside its parentheses (`AppendedToPage`). SQLite does not have the parentheses, and
  SQL Server has no ORDER BY inside them, only one for the whole of a set operation:
  both refuse an operand that is paged (`PagedOperand`).
* MERGE is printed without the semicolon that SQL Server requires after it (error
  10713). The comment at `mssql.ts:788-795` leaves it to the driver, which sends the
  text as it is. `WellFormed` therefore says that no MERGE is taken there
  (`Unterminated`), and that with the semicolon it would be, outside of the gaps below.
* `Unguarded` lists the statements that are printed although no server takes them: a
  column with both a default and a generated value, an ALTER TABLE without actions
  or with a rename among others, an INSERT without a body or with DEFAULT VALUES and
  columns, UPDATE or DELETE with ORDER BY or LIMIT on PostgreSQL and SQLite, a lock
  beside GROUP BY on PostgreSQL, and others. `Dropped` lists what disappears
  without an error, onDuplicateKeyUpdate outside of MySQL for one; `Ungated` what is
  printed against the matrix; `Deliberate` what is refused although a server
  accepts it: WITH RECURSIVE in front of UPDATE and DELETE on MySQL and SQLite, of
  INSERT on SQLite. POSITION is printed on SQLite, which has only INSTR.
* `returning()` of a typed DELETE leads to a builder whose `toSQL()` does not ask
  for a filter (`typed-delete.ts:176`).

Rewriting (`MeaningLost`):

* The fingerprint takes two subqueries of one outline for the same, two raw
  fragments that differ only in their values, two literals with one text (1 and
  '1', NULL and 'null', `expression.ts:379`) and two aggregates that differ only in
  FILTER (`expression.ts:416`): one of the two conditions is lost (`Collide`). For the
  same reason it misses WITHIN GROUP and the ORDER BY of a function, which are not
  modelled. The raw fragments are against the
  documentation's "Parameters are never deduplicated": ParametersNeverDeduplicated
  of QueryRewrite states that sentence and is violated when it is checked.
* Pushdown moves a condition to the ON of a cross join, below a later RIGHT or
  FULL join, or by an unqualified name to a table it does not belong to
  (`Misplaced`); it also adds a condition that the ON already has (`PushedTwice`).
* Flattening drops the ORDER BY and the lock of a subquery.

Plugins (`Overlooked`, `Shadowed`, `Breaks`, `OrderMatters`):

* A second instance of a plugin class for other tables is skipped on a statement
  that the first has marked.
* The joined tables of UPDATE and DELETE get no tenant predicate; soft-delete is not
  applied to those of UPDATE and MERGE, casl to none; with-schema leaves the joins of
  UPDATE and DELETE alone.
* Predicates of soft-delete and casl are unqualified and ambiguous when both tables
  have the column; columns are added to INSERT ... SELECT and DEFAULT VALUES, whose
  values stay as they are; some columns are added twice: tenant_id, version,
  created_at and updated_at that the statement names itself, tenant_id when defaults
  runs ahead of multi-tenant, the audit columns under two audit plugins of one table.
  Two plugins of one class, one for each table of a join, make the predicates of
  both ambiguous.
* The walker does not reach a joined VALUES, graph patterns, temporal clauses, and
  the ORDER BY and WITHIN GROUP of a function, though the comment in
  `plugin-manager.ts:23-27` says every nested SELECT is visited.
* An ability whose first rules are conditional `cannot` rules, without a `can` before
  the end, admits the rows they do not name (`ShowsPermittedRowsOnly`).

Compiling:

* A handler unregistered under the loop shifts the next one out of it
  (`SkippedBySplice`), one registered under the loop is called by it
  (`ExtendedWhileRunning`), and of the handlers of query:after and result:transform
  only the last one's result counts, against the comment at `hooks.ts:85`.
* Without placeholders a compiled query hands out its own array: what a driver
  writes into it stays (`SharedArray`).
* The tenant is part of a compiled query, though README.md:1609 says that its
  callback is "called per query" (`TenantBaked`).

## Fairness

`FairSpec` of PoolTransaction is weak fairness of each call, each body and each
server session: promises that can settle are observed by the event loop, the
pool serves waiters and the server executes what it received. Strong fairness of
`BodyEnds` says that `fn` ends: a body that nests transactions for ever is never
settled by any driver. Weak
fairness of `Call(t)` is enough for the pool although a client may be taken by
others again and again, because every call runs once. Nothing forces a signal or
a loss. MigrationLock is fair to the progress of a run (`Progress`) and not to
the failure of a statement: the lock statement waits without a timeout, so the
liveness property must not count on it to fail. QueryEvents is fair to the
driver's answers, the microtasks after them and a consumer that goes on
iterating; a consumer that drops its iterator without closing it gets no end
event, which is why that assumption is needed.

## Proofs

`PoolTransaction_proofs` proves for all values of the constants:

* `TypeCorrect` (TypeOK) and `ClientsAreExclusive` (ExclusiveClient) of the whole
  specification, whatever bodies, signals, losses and nesting do. The invariant
  is `ClientInv`: an open call holds its client, and the pool has that client
  checked out.
* Under `Orderly` (no detached body, no nesting): `Isolation`, `Atomicity`,
  `PoolStaysClean`, `NothingEarly` and `SettledForGood`, all from the inductive
  invariant `OrderlyInv`. None of the properties is inductive alone. That a
  statement runs in its own call's transaction needs to know what is still in
  the queue (`QueueOK`: statements of the open call that holds the connection,
  and at most one command of `transaction()` itself, last), what the answer at its
  head says of the session (`AnswerOK`), what the session's transaction contains
  (`SessionOK`) and how far the call is (`FnOK`, `FateOK`). The argument per step:
  a step of a call touches its own connection, whose queue holds its commands
  only (lemma `OwnQueue`), so the other connections and calls keep their part
  (`Elsewhere`); the server's steps are handled by `ServerStep`.

Both parts of `Orderly` are needed: see "What does not hold".

The second part of the module is about what calls report.

* `ResolvedMeansCommitted` and `RejectedMeansDiscarded` (ResolvedIsCommitted,
  RejectedIsDiscarded) under `Orderly`, from `OutcomeInv`: until COMMIT is answered
  the session's transaction is still the call's, a success that is under way is
  true, and a failure means that nothing was committed (`CommitOK`); a call bound
  for ROLLBACK was committed only on a connection that is gone (`ReportOK`). Only a
  failed statement that `fn` caught lets a doomed transaction get as far as COMMIT.
* `DriverImplementsContract`: every step of the driver, its pool and the sessions is a
  step of TransactionContract or a stutter. It needs `Orderly`, and that no body
  catches an error on PostgreSQL (`NothingDoomedIsCaught`), because then a call
  resolves that was discarded, which the contract excludes.
* `LeaksOnlyAtBegin` and `SettledReleased` (SettledReleases) need neither.
  `LeaksOnlyAtBegin` says that, whatever bodies and signals do and however BEGIN is
  answered, a call that has settled and holds its client was rejected before its body ran:
  of the ways out of `transaction()` the rejection of BEGIN is the only one past
  `release()`. It follows from `LeakOK` beside `ClientInv`. `SettledReleased` says that
  nothing leaks when no connection is lost (`MaxBreaks = 0`) and none rejects BEGIN
  (`Rejecting = {}`). That BEGIN then succeeds has to be shown of the sessions that
  answer it, which may have served nesting and detached bodies before: in `ReleaseInv`
  a BEGIN, COMMIT or ROLLBACK under way is one that its call waits for
  (`CommandsOK`, with `StageOK` for who can be waiting), and a session's transaction
  belongs to the call that holds the connection until that call's COMMIT or ROLLBACK is
  answered (`OwnedOK`), so that BEGIN never meets a doomed one.

`MigrationLock_proofs` proves `MigrationTypes`; `DeploysAreSerialized` under
`Deploys` (disjoint pools, of any size), from `HolderInv`: while no session was
closed a call past its lock statement has the lock in its own pool; and `LockComesBack` under
`Dedicated` (one connection per deploy), losses included, from `ReleaserInv`: a
lock in a pool is held once, by a call that will still release it. Without
disjoint pools the first is false.

`SharedHandle_proofs` proves `HandleTypes` and `HandleIsClosed` of every behaviour and
`CallsAreAlone`, `HandleAtomicity` and `HandleTruth` of those in which no error ended
a transaction (`losses = 0`), all from `CallInv /\ CalmInv`: the open transaction is
that of the call under way, it holds the statements `fn` has seen succeed, and the
writes of a call are durable only if it committed. The condition is needed: after
such an error another call may open a transaction on the free handle, and the
ROLLBACK of the first ends it.

`QueryEvents_proofs` proves `EventTypes`, `EventsCorrelate` (Correlated), `SpansDoNotLeak`
(NoSpanLeak), `RowCountsAccurate` (AccurateRowCount) and, which no run lists,
`SpansTellTheTruth`: for every workload, any number of
listeners, and a tracer that throws at any time. They all follow from `EventsInv`:
the counter shared by all instances gave each open operation an id of its own
(`IdsOK`), a log holds the start of what was opened and the end of what is over, in
this order (`LogOK`), and rows that were counted are with the consumer or were
dropped by a transform (`RowsOK`).

`SchemaMigration_proofs` is about plans and about what becomes of them.

* `NoChangeNoSteps`: the diff of a schema with itself is empty, whatever renames are
  still declared. This is what makes a second deploy harmless, and it rests on
  every comparison of the diff: an ALTER TABLE to which nothing is added, indexes,
  comments, constraints by signature.
* `DropsAreGated`: a node that removes data is in a plan only if drops were allowed,
  and the plan is then flagged. The lemmas go through the two halves of the diff:
  `Additive` holds no such node, `Destructive` holds nodes of known types only.
* `TypeCorrect` and `NoLossWithoutConsent` (`DropsNeedConsent`) of every behaviour of the
  migrations, from `TypeOK /\ ConsentInv /\ DropsNeedConsent`. A plan may meet a
  database it was not made for, so the argument is about statements: one that is
  no drop keeps all data of any database. `IsDatabase`, the shape of what is stored,
  is part of the invariant because updates of a record keep nothing of a value
  that is no record; `ConsentInv` says what `DropsAreGated` says of the steps still to
  come.
* `OnlyGivenUpIsLost` (NothingLost): a migration removes only data whose table and
  column the new schema has neither under their own name nor under the one an
  entry gives them, however stale its plan was. `LossInv` says that data are in
  their first place or in the one that the entries name (`InPlace`) and that every
  step that is left, of whichever plan, drops and renames only what the new schema
  and the entries say (`StepOK`). Nothing is said of the schema the plan was made
  for: that is why the theorem holds of plans that waited.

`SchemaReached_proofs` is about what a migration makes of a database.

* `MigrationReachesSchema` (ReachesTheSchema): a plan that is executed to its end on the
  schema it was made for leaves the schema asked for, for any two schemas, renames,
  modes, and whatever earlier deploys left to plan from. `Carried` is false until the
  last step, so the invariant `ReachInv` describes every moment before it: `OnTheWay` is
  a function of the steps `R` that are left. Tables are where the renames, drops and
  creations in `R` have them (`PlacesOK`); a table of both schemas has its old columns
  until the second of its two ALTER TABLEs and the wanted ones from then on, and each
  index and comment is there or still to come (`SharedOK`); a new table is created or
  in `R` with all that belongs to it (`AddedOK`). A step is taken when no step of an
  earlier group is left (`Ordered`), which is what the argument uses of the code's
  final array: an index is dropped before its successor is created, a table is
  renamed before it is altered. The lemmas go by statement (what each does to a
  database: `DropIndexEffect`, `AlterFacts`, ...) and by part of the invariant
  (`PlacesKept`, `SharedKept`, `AddedKept`); `NodesAreOK` says which nodes a plan can hold,
  and `CarriedOut` that nothing left means that the schema is reached. Two tables that
  are renamed to one name are no exception: the second rename is refused, and
  `PlacesOK` says that both are never gone from `R`.
* `LateDeploysUndoNothing` (StaysCarried): once reached, the schema is there whenever no
  migration is under way, although deploys execute plans that they made for the
  schema of long ago. It is an argument about pairs of plans. `KeptOK` lists what a
  plan made for another schema may take away on its way, and its remaining steps
  restore it: an index that is dropped comes again (`DroppedComesAgain`), so does a
  constraint (`DroppedIsAddedAgain`); columns are set to what they are already
  (`SetsKeepColumns`), none is added or renamed (`NothingToAdd`). A deploy that runs in a
  transaction and stops goes back to `saved`, of which the invariant therefore speaks
  too; one without a transaction may stop between drop and creation, which is the
  condition in StaysCarried.

Both need `SchemaAssumption` of SchemaMigration, which says what the server and the
types of the builder see to and `diffSchemas` does not check: names of constraints
are unique in their table and names of indexes in the schema, constraints and
indexes of the new schema are on columns it has, its foreign keys refer to its
tables, and the order of the keys lists the tables.

`PluginPipeline_proofs` and `Hooks_proofs` are about the compiler.

* `PoliciesHold` (PolicyHolds): for every list of plugins, in every order and with
  repetitions, and for statements nested to any depth, a row policy is on each
  table it concerns exactly once, up to the named exceptions. `PolicyInv` has the
  reason: a guard is there only with its plugin's flag (`FrameOK`), the flags of
  multi-tenant and casl were earned by a plugin that was applied (`FlagEarned`),
  that of soft-delete, which is set ahead of the walk, means that all plugins of the
  class are done with the statement (`SoftDeleteDone`), and what such a plugin left
  unmarked is none of its tables (`PassedOver`).
* `WalkReachesSelects` (EverySelectReached), from the same invariant.
* `PluginsKeepExecutable` (StillExecutable), from `ExecutableInv`: each column that was
  added was named by a plugin that did it once, by its flag or by what has been
  applied so far (`NamedBySome`); each unqualified predicate is about a table of a
  plugin of its class (`Announced`). Plugins of the same class may be applied twice,
  so a second mention of a column is traced to one of the cases of `Breaks`.
* `ForbiddenRowsHidden` (ShowsPermittedRowsOnly): for any number of CASL rules the
  condition admits only rows that the rules permit.
* `HandlersAreComposed` (HandlersCompose): for any number of handlers that register,
  remove one another or drop the hook while it is being called. `HookInv` says that
  what ran is the front of the live array unless something was spliced out of it
  (`RanPrefix`), that what was due and is still registered is in the array
  (`StillThere`), that what ran and what is left follow the order the loop began with
  (`Ordered`), and what the context and the result carry by then (`Composed`).
  HookSpec is the hooks by themselves; in CompiledQueries the same actions are
  conjoined with the steps of a compilation, which change no variable of Hooks.

Only model-checked:

* Liveness (EveryCallSettles, EveryMigrationEnds, EveryStartEnds): under fairness
  it is out of reach of the prover.
* Of the schema migrations ExecutableUnlessObstacle: that new tables are created in an
  order in which their foreign keys work is a property of `TopoSortForCreation`,
  whose depth-first search is a recursive function. A proof about a recursive
  function needs that it exists, and the library states this with an operator as
  a parameter. The theorems about migrations use no more of the order than its
  groups.
* OrderDecidesNothing of PluginPipeline: it compares a walk with the walks of other
  lists, which are folds over the list and the statement. What a fold computes for
  every list is an induction over data.
* What the normalizer, the optimizer and the printer compute (KeepsAnswer,
  ValueIndependent, Settled, PlaceholdersBind, SetOpsAssociate, CallsAgree): defined
  by recursion over trees and compared with a meaning that is recursive too.
  Those modules use RECURSIVE operators.
* Statements (WellFormed, RefusedOnlyIfIllFormed, MatrixRespected, NothingLost): the
  set of clauses is fixed by the code and not a constant, so the run, which takes
  every node of DDL and TCL and every DML node of up to five clauses, leaves
  little to a proof.

## Abstractions

* In PoolTransaction `fn` sends one statement at a time and awaits it; several at
  once (`Promise.all` inside a transaction) are explored in QueryEvents only. A body either stops at
  the signal or is in `Detached`; nesting and signals are not combined in one
  task (`PoolAssumption`).
* A task makes one call. A call that waits for another call of its own body is
  not modelled.
* A statement is a write identified by task and number; reads, results, SQL and
  parameters are left out, as are isolation levels (the driver path does not
  pass them on).
* In SharedHandle a task is on the driver's path or on the manual one; nested
  `tx.transaction()` (whose BEGIN fails inside a transaction) and `query()` are left
  out. That another process may hold the write lock is a reason for `BeginFails`.
* The pool opens a connection when it has fewer than its maximum and drops a
  broken one at release; its queue of waiters is not ordered.
* In MigrationLock DDL is transactional when `transaction` is on (PostgreSQL, SQL
  Server); on MySQL it commits implicitly, which changes `applied` after a
  failure and no property here.
* SchemaDiff has names, types, NOT NULL, defaults and foreign keys of columns;
  CHECK, unique and primary key flags, generated columns and USING clauses are left
  out. The diff of shared columns does not look at foreign keys and only drops
  defaults, so `Carried` claims no more. A rename of a table or column to a name no
  schema has is an entry that is ignored, as in the code.
* The server of DdlServer is PostgreSQL. Refusals that depend on rows (NOT NULL on
  existing rows, a type without a cast) and lost connections are `Fault`. Without
  a transaction each statement stays (`InTx`), which is also what MySQL does.
* The schema a deploy is given as `before` is the one the database has when it
  plans; a caller with a wrong `before` is not modelled. Deploys of one behaviour are
  asked for the same change.
* In QueryEvents the end event of a query is emitted before its rows are
  transformed, as in the code; a query whose transform throws rejects with a span
  that ended as OK. `SpanTruth` therefore speaks of the driver's work for
  queries.

* In Statements names and values in clauses are left out: several entries of a list
  are one clause, an empty list is none, and a number is an integer. The grammars
  are those of the servers over these clauses; for DDL only PostgreSQL's is
  stated, so WellFormed says nothing of DDL on the others, while the matrix and
  the lost clauses are checked on all four.
* Expressions has the expressions that some dialect lacks; those that every dialect
  prints alike have nothing to say there.
* A client's timeout of a command other than BEGIN is left out. A COMMIT or ROLLBACK
  the client has given up on could be executed after the release; as with BEGIN, the
  drivers do not close such a connection.
* In QueryRewrite a table has one column, projections are all columns or aggregates of
  one group, and expressions are the kinds whose treatment by the passes differs. Normalizing
  the writes goes through the same operators and is left out. Subqueries in
  predicates are uncorrelated or read one column of the outer query.
* In PluginPipeline a statement is what plugins look at and add; below a field of an
  expression nothing more is nested. Conditions of CASL rules are sets of rows.
* In SelectPrinter the text is placeholders, tables, set operators and
  parentheses; ORDER BY with LIMIT 1 is one word in every dialect (TOP, FETCH). The
  ALL variants of set operators are left out: they associate alike.
* In CompiledQueries a handler is registered once per name and answers what it was
  given with its mark, or nothing; it does not compile another query. The paging
  of the builder that a set operation is called on belongs to the combined
  answer.

## Not modelled

* The mssql driver: checkout, cancellation and the transaction's state are in the
  package, whose code is not in the repository.
* Schema declarations (data), introspection and generation (sequential queries of
  a catalog and text), the CLI (arguments, files and output around the runner).
* Plugins that rewrite values row by row (camel-case, data-masking,
  normalize-strings, validators) or only log.
* Quoting, literals and identifier checks, the pretty printer, graph tables, JSON
  optics: their correctness is about text.
* `db.transaction()` called inside a body with the pool at its limit, a plain
  statement that joins an open transaction of the shared handle, cursor
  pagination over pages: hazards without a property, with the reason in
  PROJECT.json.

## Plan

1. *Done*: the running half (TransactionContract, PoolTransaction, MigrationLock,
   SharedHandle, QueryEvents, SchemaDiff, DdlServer, SchemaMigration) with its
   proofs; the compiler's half (Statements and its parts, QueryRewrite,
   PluginPipeline, CompiledQueries).
2. *Done*: proofs of the refinement of TransactionContract, of what calls report and
   what events correlate, of NothingLost for every plan, of the row policies and of
   the loop of `callHook`.
3. *Done*: proofs that a migration reaches the schema it was planned for, and that
   deploys which waited do not undo it.
4. `bind` of compiled queries without the printer (CallsAgree), as an operator on
   sequences.
5. Cursor pagination over a table that changes between pages; nested
   `db.transaction()` under a full pool; value plugins on rows.
