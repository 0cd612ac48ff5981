---------------------------- MODULE MigrationLock ----------------------------
(***************************************************************************)
(* runPlan (migrate/runner.ts): applyMigration takes a session advisory    *)
(* lock, runs the steps of its plan and releases the lock in `finally`.    *)
(* Lock, steps and release are separate statements of db: each goes to     *)
(* whatever idle connection the pool of db picks, and the server keeps the *)
(* lock for the session, the connection, that took it.                     *)
(*                                                                         *)
(* A run is one call.  The calls of one process share a pool; deploys in   *)
(* processes of their own have disjoint pools.                             *)
(***************************************************************************)
EXTENDS Naturals, FiniteSets

CONSTANTS
  Runs,      \* calls of runPlan
  Conns,     \* connections of all pools
  Pool,      \* the connections of the pool a call's db uses
  InTx,      \* calls with opts.transaction, the default
  Locking,   \* calls with opts.lock, the default
  MaxSteps,  \* bound: DDL statements of a plan
  MaxReaps,  \* bound: idle connections closed by a pool or the server
  NoConn

ASSUME MigrationAssumption ==
  /\ Pool \in [Runs -> SUBSET Conns]
  /\ \A r \in Runs : Pool[r] # {}
  /\ \A r, s \in Runs : Pool[r] = Pool[s] \/ Pool[r] \cap Pool[s] = {}
  /\ InTx \subseteq Runs /\ Locking \subseteq Runs
  /\ MaxSteps \in Nat /\ MaxReaps \in Nat
  /\ NoConn \notin Conns

VARIABLES
  pc,       \* where runPlan of a call stands
  plan,     \* number of steps of its plan
  applied,  \* steps it has executed and not rolled back
  conn,     \* connection it has a statement or a transaction on
  outcome,  \* how its promise settled
  busy,     \* the connection is checked out of its pool
  holder,   \* connection whose session holds the lock
  depth,    \* how often that session took it
  reaps     \* idle connections closed so far

vars == <<pc, plan, applied, conn, outcome, busy, holder, depth, reaps>>

Init ==
  /\ pc = [r \in Runs |-> "idle"]
  /\ plan = [r \in Runs |-> 0]
  /\ applied = [r \in Runs |-> 0]
  /\ conn = [r \in Runs |-> NoConn]
  /\ outcome = [r \in Runs |-> "none"]
  /\ busy = [c \in Conns |-> FALSE]
  /\ holder = NoConn
  /\ depth = 0
  /\ reaps = 0

-----------------------------------------------------------------------------

Free(r, c) == c \in Pool[r] /\ ~busy[c]

\* The pool hands out one of its idle connections, and takes it back.
CheckOut(r, c) ==
  /\ conn' = [conn EXCEPT ![r] = c]
  /\ busy' = [busy EXCEPT ![c] = TRUE]

CheckIn(r) ==
  /\ conn' = [conn EXCEPT ![r] = NoConn]
  /\ busy' = [busy EXCEPT ![conn[r]] = FALSE]

\* The session of c takes the lock once less, or ends.
Drop(c, all) ==
  IF holder = c
  THEN /\ depth' = IF all THEN 0 ELSE depth - 1
       /\ holder' = IF depth' = 0 THEN NoConn ELSE holder
  ELSE UNCHANGED <<holder, depth>>

Settle(r, how) == outcome' = [outcome EXCEPT ![r] = how]

\* What follows the steps: the release of the lock, if one was taken.
After(r) == IF r \in Locking THEN "release" ELSE "done"

-----------------------------------------------------------------------------
(* Faulty variants of the actions above, one per mistake the properties are  *)
(* there to exclude.                                                         *)

\* The lock statement is not awaited.
Acquire_NotAwaited(r, c) ==
  /\ pc[r] = "acquire" /\ Free(r, c)
  /\ pc' = [pc EXCEPT ![r] = "open"]
  /\ IF holder = NoConn THEN holder' = c /\ depth' = 1 ELSE UNCHANGED <<holder, depth>>
  /\ UNCHANGED <<plan, applied, conn, outcome, busy, reaps>>

\* A lock statement that failed is sent again, without limit.
AcquireFails_Retries(r) ==
  /\ pc[r] = "waiting"
  /\ pc' = [pc EXCEPT ![r] = "acquire"]
  /\ CheckIn(r)
  /\ UNCHANGED <<plan, applied, outcome, holder, depth, reaps>>

\* The loop over the steps does not stop at the last one.
Step_Overruns(r) ==
  /\ pc[r] = "ddl" /\ applied[r] <= plan[r]
  /\ applied' = [applied EXCEPT ![r] = @ + 1]
  /\ UNCHANGED <<pc, plan, conn, outcome, busy, holder, depth, reaps>>

\* The lock is released after the steps instead of in `finally`.
StepFails_KeepsLock(r) ==
  /\ pc[r] = "ddl" /\ applied[r] < plan[r]
  /\ pc' = [pc EXCEPT ![r] = "done"] /\ Settle(r, "failed")
  /\ IF r \in InTx
     THEN CheckIn(r) /\ applied' = [applied EXCEPT ![r] = 0]
     ELSE UNCHANGED <<conn, busy, applied>>
  /\ UNCHANGED <<plan, holder, depth, reaps>>

-----------------------------------------------------------------------------
(* runPlan *)

\* An empty plan needs no lock and no statement.
Start(r) ==
  /\ pc[r] = "idle"
  /\ \E n \in 0..MaxSteps :
       /\ plan' = [plan EXCEPT ![r] = n]
       /\ IF n = 0
          THEN pc' = [pc EXCEPT ![r] = "done"] /\ Settle(r, "applied")
          ELSE /\ pc' = [pc EXCEPT ![r] = IF r \in Locking THEN "acquire" ELSE "open"]
               /\ UNCHANGED outcome
  /\ UNCHANGED <<applied, conn, busy, holder, depth, reaps>>

\* The lock statement is sent; it occupies its connection while it waits.
Acquire(r, c) ==
  /\ pc[r] = "acquire" /\ Free(r, c)
  /\ pc' = [pc EXCEPT ![r] = "waiting"]
  /\ CheckOut(r, c)
  /\ UNCHANGED <<plan, applied, outcome, holder, depth, reaps>>

\* The server grants the lock to a session when no other session has it.
Granted(r) ==
  /\ pc[r] = "waiting" /\ holder \in {NoConn, conn[r]}
  /\ pc' = [pc EXCEPT ![r] = "open"]
  /\ holder' = conn[r] /\ depth' = depth + 1
  /\ CheckIn(r)
  /\ UNCHANGED <<plan, applied, outcome, reaps>>

\* The lock statement fails: it is awaited outside of `try`.
AcquireFails(r) ==
  /\ pc[r] = "waiting"
  /\ pc' = [pc EXCEPT ![r] = "done"] /\ Settle(r, "failed")
  /\ CheckIn(r)
  /\ UNCHANGED <<plan, applied, holder, depth, reaps>>

\* db.transaction checks one connection out for all steps; without it every
\* step finds a connection of its own.
Open(r) ==
  /\ pc[r] = "open"
  /\ pc' = [pc EXCEPT ![r] = "ddl"]
  /\ IF r \in InTx
     THEN \E c \in Conns : Free(r, c) /\ CheckOut(r, c)
     ELSE UNCHANGED <<conn, busy>>
  /\ UNCHANGED <<plan, applied, outcome, holder, depth, reaps>>

Step(r) ==
  /\ pc[r] = "ddl" /\ applied[r] < plan[r]
  /\ r \in InTx \/ \E c \in Conns : Free(r, c)
  /\ applied' = [applied EXCEPT ![r] = @ + 1]
  /\ UNCHANGED <<pc, plan, conn, outcome, busy, holder, depth, reaps>>

\* A step fails: the transaction is rolled back, separate steps stay.
StepFails(r) ==
  /\ pc[r] = "ddl" /\ applied[r] < plan[r]
  /\ pc' = [pc EXCEPT ![r] = After(r)] /\ Settle(r, "failed")
  /\ IF r \in InTx
     THEN CheckIn(r) /\ applied' = [applied EXCEPT ![r] = 0]
     ELSE UNCHANGED <<conn, busy, applied>>
  /\ UNCHANGED <<plan, holder, depth, reaps>>

Finish(r) ==
  /\ pc[r] = "ddl" /\ applied[r] = plan[r]
  /\ pc' = [pc EXCEPT ![r] = After(r)] /\ Settle(r, "applied")
  /\ IF r \in InTx THEN CheckIn(r) ELSE UNCHANGED <<conn, busy>>
  /\ UNCHANGED <<plan, applied, holder, depth, reaps>>

\* The release statement runs on an idle connection.  In a session that does
\* not hold the lock it does nothing; its failure, the loss of that session
\* included, is swallowed.
Unlock(r, c) ==
  /\ pc[r] = "release" /\ Free(r, c)
  /\ pc' = [pc EXCEPT ![r] = "done"]
  /\ \E lost \in BOOLEAN : Drop(c, lost)
  /\ UNCHANGED <<plan, applied, conn, outcome, busy, reaps>>

\* An idle connection is closed after its idle timeout; a new session takes
\* its place in the pool.
Reap(c) ==
  /\ ~busy[c] /\ reaps < MaxReaps
  /\ reaps' = reaps + 1
  /\ Drop(c, TRUE)
  /\ UNCHANGED <<pc, plan, applied, conn, outcome, busy>>

-----------------------------------------------------------------------------

Progress(r) ==
  \/ Start(r) \/ Granted(r) \/ Open(r) \/ Step(r) \/ Finish(r)
  \/ \E c \in Conns : Acquire(r, c) \/ Unlock(r, c)

Run(r) == Progress(r) \/ AcquireFails(r) \/ StepFails(r)

AllDone == (\A r \in Runs : pc[r] = "done") /\ UNCHANGED vars

Next == (\E r \in Runs : Run(r)) \/ (\E c \in Conns : Reap(c)) \/ AllDone

Spec == Init /\ [][Next]_vars

\* Statements are answered, the pool serves its waiters and the server grants a
\* free lock.  Nothing forces a statement to fail: the lock statement waits
\* without a timeout in all dialects.
FairSpec == Spec /\ \A r \in Runs : WF_vars(Progress(r))

-----------------------------------------------------------------------------
(* Properties *)

TypeOK ==
  /\ pc \in [Runs -> {"idle", "acquire", "waiting", "open", "ddl", "release", "done"}]
  /\ plan \in [Runs -> 0..MaxSteps]
  /\ applied \in [Runs -> 0..MaxSteps]
  /\ conn \in [Runs -> Conns \cup {NoConn}]
  /\ outcome \in [Runs -> {"none", "applied", "failed"}]
  /\ busy \in [Conns -> BOOLEAN]
  /\ holder \in Conns \cup {NoConn}
  /\ depth \in Nat
  /\ reaps \in 0..MaxReaps

\* As long as no idle session was closed, two locking calls never execute DDL at
\* the same time: "serialize concurrent applyMigration calls".
Serialized ==
  reaps = 0 =>
    \A r, s \in Locking : r # s => ~(pc[r] \in {"open", "ddl"} /\ pc[s] \in {"open", "ddl"})

\* When the calls of a pool are done, none of its connections holds the lock:
\* "release the lock in finally".
LockReturned ==
  \A r \in Runs :
    (\A s \in Runs : Pool[s] = Pool[r] => pc[s] \in {"idle", "done"}) => holder \notin Pool[r]

\* Every migration ends: none waits for the lock or a connection for ever.
EveryMigrationEnds == \A r \in Runs : pc[r] = "acquire" ~> pc[r] = "done"

-----------------------------------------------------------------------------
(* Why they hold, and under what: the inductive invariants behind them.      *)

\* Every call is a deploy in a process, and a pool, of its own.
Deploys == \A r, s \in Runs : r # s => Pool[r] \cap Pool[s] = {}

\* ... whose pool is one connection.
Dedicated == Deploys /\ \A r \in Runs : \E c \in Conns : Pool[r] = {c}

ConnInv ==
  \A r \in Runs :
    /\ conn[r] # NoConn => conn[r] \in Pool[r]
    /\ pc[r] = "waiting" => conn[r] # NoConn
    /\ pc[r] \in {"acquire", "waiting", "release"} => r \in Locking

\* A call between its lock and its release has the lock in its own pool.
HolderInv ==
  reaps = 0 => \A r \in Locking : pc[r] \in {"open", "ddl"} => holder \in Pool[r]

\* The lock is held once, by the pool of a call that will release it.
ReleaserInv ==
  /\ depth = IF holder = NoConn THEN 0 ELSE 1
  /\ \A r \in Runs :
       holder \in Pool[r] => r \in Locking /\ pc[r] \in {"open", "ddl", "release"}
=============================================================================
