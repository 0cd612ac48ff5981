--------------------------- MODULE PoolTransaction ---------------------------
(***************************************************************************)
(* driver.transaction(fn, options) of the pooled drivers (drivers/pg.ts,   *)
(* drivers/mysql2.ts): one client is checked out of the pool, BEGIN is     *)
(* sent on it, fn runs against a scoped driver bound to that client while  *)
(* its promise is raced against the caller's AbortSignal, then COMMIT or   *)
(* ROLLBACK is sent and the client is released.                            *)
(*                                                                         *)
(* A task is one call of transaction().  It consists of two activities:    *)
(* `main`, the async function transaction() itself, and `body`, the        *)
(* caller's fn, which the race can leave running after main has gone on.   *)
(* The connection is external: a client queues its commands, the server    *)
(* executes them in order, the reply settles the promise of the command.   *)
(***************************************************************************)
EXTENDS Naturals, Sequences, FiniteSets

CONSTANTS
  Tasks,       \* calls of driver.transaction
  Conns,       \* connections the pool may open, replacements included
  PoolMax,     \* connections the pool keeps open at a time
  MaxStmts,    \* bound: statements one body sends
  MaxBreaks,   \* bound: connections lost while checked out
  Rejecting,   \* connections on which the client may reject a BEGIN while they are up
  Signalled,   \* tasks whose options carry an AbortSignal
  Detached,    \* tasks whose body goes on sending after the signal has fired
  Catching,    \* tasks whose body may catch the error of a statement
  Nesting,     \* tasks whose body may call transaction() on the scoped db
  Dialect,     \* "pg" or "mysql": what the server does on errors and BEGIN
  NoTask, NoConn

ASSUME PoolAssumption ==
  /\ PoolMax \in Nat \ {0} /\ MaxStmts \in Nat /\ MaxBreaks \in Nat
  /\ Signalled \subseteq Tasks /\ Detached \subseteq Signalled
  /\ Rejecting \subseteq Conns /\ Catching \subseteq Tasks /\ Nesting \subseteq Tasks \ Signalled
  /\ Dialect \in {"pg", "mysql"}
  /\ NoTask \notin Tasks /\ NoConn \notin Conns

VARIABLES
  main,      \* where transaction() of a task stands
  outcome,   \* how the promise of transaction() settled
  client,    \* the client the scoped driver of a task is bound to
  held,      \* the task checked its client out and has not released it
  body,      \* where fn stands
  nest,      \* fn is inside a nested transaction()
  sent,      \* number of statements fn has sent
  acked,     \* statements whose success fn has seen
  aborted,   \* the task's signal has fired
  slot,      \* the pool's view of a connection
  queue,     \* commands sent on a connection and not yet answered
  result,    \* what the server answered to the head of the queue
  up,        \* the connection is alive
  owner,     \* task whose BEGIN opened the session's transaction
  doomed,    \* an error made the session's transaction uncommittable
  pend,      \* writes of the session's open transaction
  committed, \* durable writes
  fate,      \* how the server ended a task's transaction
  breaks     \* connections lost so far

callVars == <<main, outcome, client, held>>
bodyVars == <<body, nest, sent, acked>>
sessVars == <<owner, doomed, pend, committed, fate>>
vars == <<main, outcome, client, held, body, nest, sent, acked, aborted, slot,
          queue, result, up, owner, doomed, pend, committed, fate, breaks>>

Writes == Tasks \X (1..MaxStmts)
Command ==
  [task : Tasks, by : {"main", "body"}, op : {"begin", "commit", "rollback"}, k : {0}]
    \cup [task : Tasks, by : {"body"}, op : {"stmt"}, k : 1..MaxStmts]
Cmd(t, by, op, k) == [task |-> t, by |-> by, op |-> op, k |-> k]
Durable(t) == {k \in 1..MaxStmts : <<t, k>> \in committed}

Init ==
  /\ main = [t \in Tasks |-> "idle"]
  /\ outcome = [t \in Tasks |-> "none"]
  /\ client = [t \in Tasks |-> NoConn]
  /\ held = [t \in Tasks |-> FALSE]
  /\ body = [t \in Tasks |-> "off"]
  /\ nest = [t \in Tasks |-> FALSE]
  /\ sent = [t \in Tasks |-> 0]
  /\ acked = [t \in Tasks |-> {}]
  /\ aborted = [t \in Tasks |-> FALSE]
  /\ slot = [c \in Conns |-> "fresh"]
  /\ queue = [c \in Conns |-> <<>>]
  /\ result = [c \in Conns |-> "none"]
  /\ up = [c \in Conns |-> TRUE]
  /\ owner = [c \in Conns |-> NoTask]
  /\ doomed = [c \in Conns |-> FALSE]
  /\ pend = [c \in Conns |-> {}]
  /\ committed = {}
  /\ fate = [t \in Tasks |-> "open"]
  /\ breaks = 0

-----------------------------------------------------------------------------
(* The client: commands are queued and answered in the order they were sent. *)

Push(c, cmd) == queue' = [queue EXCEPT ![c] = Append(@, cmd)]

\* The head of the queue of t's client is that command of t, and its promise
\* can settle: the server answered it or the connection is gone.
Answered(t, by, op) ==
  LET c == client[t] IN
  /\ c \in Conns
  /\ queue[c] # <<>>
  /\ Head(queue[c]).task = t /\ Head(queue[c]).by = by /\ Head(queue[c]).op = op
  /\ result[c] # "none" \/ ~up[c]

Succeeded(c) == up[c] /\ result[c] = "ok"

Pop(c) ==
  /\ queue' = [queue EXCEPT ![c] = Tail(@)]
  /\ result' = [result EXCEPT ![c] = "none"]

\* client.release(): the pool keeps a live connection and drops a broken one.
Release(t) ==
  /\ held' = [held EXCEPT ![t] = FALSE]
  /\ slot' = [slot EXCEPT ![client[t]] = IF up[client[t]] THEN "idle" ELSE "closed"]

-----------------------------------------------------------------------------
(* Faulty variants of steps below, each what a plausible bug would make of    *)
(* it.  Nothing uses them: they show that the properties can fail.            *)

\* The pool hands out a client that is in use.
Connect_Shared(t, c) ==
  /\ main[t] = "connecting" /\ slot[c] \in {"idle", "fresh", "out"}
  /\ main' = [main EXCEPT ![t] = "begin"]
  /\ client' = [client EXCEPT ![t] = c]
  /\ held' = [held EXCEPT ![t] = TRUE]
  /\ slot' = [slot EXCEPT ![c] = "out"]
  /\ Push(c, Cmd(t, "main", "begin", 0))
  /\ UNCHANGED <<outcome, bodyVars, aborted, result, up, sessVars, breaks>>

\* fn is called without BEGIN.
Connect_NoBegin(t, c) ==
  /\ main[t] = "connecting" /\ slot[c] \in {"idle", "fresh"}
  /\ main' = [main EXCEPT ![t] = "running"]
  /\ body' = [body EXCEPT ![t] = "ready"]
  /\ client' = [client EXCEPT ![t] = c]
  /\ held' = [held EXCEPT ![t] = TRUE]
  /\ slot' = [slot EXCEPT ![c] = "out"]
  /\ UNCHANGED <<outcome, nest, sent, acked, aborted, queue, result, up, sessVars, breaks>>

\* A signal that fired during BEGIN is not looked at.
BeginOk_IgnoresSignal(t) ==
  /\ main[t] = "begin" /\ Answered(t, "main", "begin") /\ Succeeded(client[t])
  /\ main' = [main EXCEPT ![t] = "running"]
  /\ body' = [body EXCEPT ![t] = "ready"]
  /\ Pop(client[t])
  /\ UNCHANGED <<outcome, client, held, nest, sent, acked, aborted, slot, up,
                 sessVars, breaks>>

\* A signal that fired during BEGIN makes the driver begin again.
BeginOkAborted_Retries(t) ==
  /\ main[t] = "begin" /\ Answered(t, "main", "begin") /\ Succeeded(client[t])
  /\ aborted[t]
  /\ queue' = [queue EXCEPT ![client[t]] = Append(Tail(@), Cmd(t, "main", "begin", 0))]
  /\ result' = [result EXCEPT ![client[t]] = "none"]
  /\ UNCHANGED <<callVars, bodyVars, aborted, slot, up, sessVars, breaks>>

\* The client is not released after COMMIT.
CommitOk_Keeps(t) ==
  /\ main[t] = "commit" /\ Answered(t, "main", "commit") /\ Succeeded(client[t])
  /\ main' = [main EXCEPT ![t] = "settled"]
  /\ outcome' = [outcome EXCEPT ![t] = "resolved"]
  /\ Pop(client[t])
  /\ UNCHANGED <<client, held, slot, bodyVars, aborted, up, sessVars, breaks>>

\* A failure of COMMIT is swallowed like one of ROLLBACK.
CommitFails_Swallows(t) ==
  /\ main[t] = "commit" /\ Answered(t, "main", "commit") /\ ~Succeeded(client[t])
  /\ main' = [main EXCEPT ![t] = "settled"]
  /\ outcome' = [outcome EXCEPT ![t] = "resolved"]
  /\ Pop(client[t]) /\ Release(t)
  /\ UNCHANGED <<client, bodyVars, aborted, up, sessVars, breaks>>

\* COMMIT is raced against the signal too.
Abort_DuringCommit(t) ==
  /\ t \in Signalled /\ ~aborted[t] /\ main[t] \in {"running", "commit"}
  /\ aborted' = [aborted EXCEPT ![t] = TRUE]
  /\ main' = [main EXCEPT ![t] = "rollback"]
  /\ body' = [body EXCEPT ![t] = "over"]
  /\ queue' = [queue EXCEPT ![client[t]] =
                 Append(SelectSeq(@, LAMBDA q : q.by = "body"), Cmd(t, "main", "rollback", 0))]
  /\ result' = [result EXCEPT ![client[t]] = IF main[t] = "commit" THEN "none" ELSE @]
  /\ UNCHANGED <<outcome, client, held, nest, sent, acked, slot, up, sessVars, breaks>>

\* The statement is queued as a command of transaction() itself.
Send_AsMain(t) ==
  /\ body[t] = "ready" /\ sent[t] < MaxStmts
  /\ sent' = [sent EXCEPT ![t] = @ + 1]
  /\ body' = [body EXCEPT ![t] = "await"]
  /\ Push(client[t], Cmd(t, "main", "stmt", sent[t] + 1))
  /\ UNCHANGED <<callVars, nest, acked, aborted, slot, result, up, sessVars, breaks>>

\* The scoped driver queries the pool instead of its client.
Send_OnPool(t) ==
  /\ body[t] = "ready" /\ sent[t] < MaxStmts
  /\ sent' = [sent EXCEPT ![t] = @ + 1]
  /\ body' = [body EXCEPT ![t] = "await"]
  /\ \E c \in Conns : Push(c, Cmd(t, "body", "stmt", sent[t] + 1))
  /\ UNCHANGED <<callVars, nest, acked, aborted, slot, result, up, sessVars, breaks>>

\* A throw of fn skips ROLLBACK.
BodyEnds_NoRollback(t, op) ==
  /\ body[t] = "ready" /\ ~nest[t] /\ main[t] = "running"
  /\ body' = [body EXCEPT ![t] = "over"]
  /\ IF op = "commit"
     THEN /\ main' = [main EXCEPT ![t] = op]
          /\ Push(client[t], Cmd(t, "main", op, 0))
          /\ UNCHANGED <<outcome, held, slot>>
     ELSE /\ main' = [main EXCEPT ![t] = "settled"]
          /\ outcome' = [outcome EXCEPT ![t] = "rejected"]
          /\ Release(t)
          /\ UNCHANGED queue
  /\ UNCHANGED <<client, nest, sent, acked, aborted, result, up, sessVars, breaks>>

\* COMMIT and ROLLBACK are sent and not awaited.
BodyEnds_NoAwait(t, op) ==
  /\ body[t] = "ready" /\ ~nest[t] /\ main[t] = "running"
  /\ body' = [body EXCEPT ![t] = "over"]
  /\ main' = [main EXCEPT ![t] = "settled"]
  /\ outcome' = [outcome EXCEPT ![t] = IF op = "commit" THEN "resolved" ELSE "rejected"]
  /\ Push(client[t], Cmd(t, "main", op, 0)) /\ Release(t)
  /\ UNCHANGED <<client, nest, sent, acked, aborted, result, up, sessVars, breaks>>

-----------------------------------------------------------------------------
(* transaction() *)

Start(t) ==
  /\ main[t] = "idle"
  /\ main' = [main EXCEPT ![t] = "connecting"]
  /\ UNCHANGED <<outcome, client, held, bodyVars, aborted, slot, queue, result, up,
                 sessVars, breaks>>

\* pool.connect() hands out an idle client or opens one; BEGIN follows at once.
Connect(t, c) ==
  /\ main[t] = "connecting"
  /\ \/ slot[c] = "idle"
     \/ /\ slot[c] = "fresh"
        /\ Cardinality({d \in Conns : slot[d] \in {"idle", "out"}}) < PoolMax
  /\ main' = [main EXCEPT ![t] = "begin"]
  /\ client' = [client EXCEPT ![t] = c]
  /\ held' = [held EXCEPT ![t] = TRUE]
  /\ slot' = [slot EXCEPT ![c] = "out"]
  /\ Push(c, Cmd(t, "main", "begin", 0))
  /\ UNCHANGED <<outcome, bodyVars, aborted, result, up, sessVars, breaks>>

\* BEGIN succeeded: fn(scoped) is called and raced against the signal.
BeginOk(t) ==
  /\ main[t] = "begin" /\ Answered(t, "main", "begin") /\ Succeeded(client[t])
  /\ ~aborted[t]
  /\ main' = [main EXCEPT ![t] = "running"]
  /\ body' = [body EXCEPT ![t] = "ready"]
  /\ Pop(client[t])
  /\ UNCHANGED <<outcome, client, held, nest, sent, acked, aborted, slot, up,
                 sessVars, breaks>>

\* The same with a signal that fired before: fn(scoped) is evaluated first and
\* may send its first statement, then the race rejects and ROLLBACK follows.
BeginOkAborted(t) ==
  /\ main[t] = "begin" /\ Answered(t, "main", "begin") /\ Succeeded(client[t])
  /\ aborted[t]
  /\ main' = [main EXCEPT ![t] = "rollback"]
  /\ body' = [body EXCEPT ![t] = IF t \in Detached THEN "ready" ELSE "over"]
  /\ \E n \in 0..1 :
       /\ n <= MaxStmts
       /\ sent' = [sent EXCEPT ![t] = n]
       /\ LET rest == IF n = 1 THEN Append(Tail(queue[client[t]]), Cmd(t, "body", "stmt", 1))
                      ELSE Tail(queue[client[t]])
          IN queue' = [queue EXCEPT ![client[t]] = Append(rest, Cmd(t, "main", "rollback", 0))]
  /\ result' = [result EXCEPT ![client[t]] = "none"]
  /\ UNCHANGED <<outcome, client, held, nest, acked, aborted, slot, up, sessVars, breaks>>

\* BEGIN failed: it is awaited outside the try block, so the promise rejects
\* and neither ROLLBACK nor release() runs.
BeginFails(t) ==
  /\ main[t] = "begin" /\ Answered(t, "main", "begin") /\ ~Succeeded(client[t])
  /\ main' = [main EXCEPT ![t] = "settled"]
  /\ outcome' = [outcome EXCEPT ![t] = "rejected"]
  /\ Pop(client[t])
  /\ UNCHANGED <<client, held, bodyVars, aborted, slot, up, sessVars, breaks>>

CommitOk(t) ==
  /\ main[t] = "commit" /\ Answered(t, "main", "commit") /\ Succeeded(client[t])
  /\ main' = [main EXCEPT ![t] = "settled"]
  /\ outcome' = [outcome EXCEPT ![t] = "resolved"]
  /\ Pop(client[t]) /\ Release(t)
  /\ UNCHANGED <<client, bodyVars, aborted, up, sessVars, breaks>>

\* COMMIT is inside the try block: its failure is answered with ROLLBACK.
CommitFails(t) ==
  /\ main[t] = "commit" /\ Answered(t, "main", "commit") /\ ~Succeeded(client[t])
  /\ main' = [main EXCEPT ![t] = "rollback"]
  /\ queue' = [queue EXCEPT ![client[t]] = Append(Tail(@), Cmd(t, "main", "rollback", 0))]
  /\ result' = [result EXCEPT ![client[t]] = "none"]
  /\ UNCHANGED <<outcome, client, held, bodyVars, aborted, slot, up, sessVars, breaks>>

\* A failure of ROLLBACK is swallowed; the client is released either way.
RollbackDone(t) ==
  /\ main[t] = "rollback" /\ Answered(t, "main", "rollback")
  /\ main' = [main EXCEPT ![t] = "settled"]
  /\ outcome' = [outcome EXCEPT ![t] = "rejected"]
  /\ Pop(client[t]) /\ Release(t)
  /\ UNCHANGED <<client, bodyVars, aborted, up, sessVars, breaks>>

\* The signal fires.  Only a running race listens to it: main goes to ROLLBACK
\* and the statement fn awaits is rejected while it stays in the queue.  That
\* ends fn, unless it catches the rejection, awaits something else, or awaits a
\* statement sent with options of its own, which the signal does not reach.
Abort(t) ==
  /\ t \in Signalled /\ ~aborted[t] /\ main[t] # "settled"
  /\ aborted' = [aborted EXCEPT ![t] = TRUE]
  /\ IF main[t] = "running"
     THEN /\ main' = [main EXCEPT ![t] = "rollback"]
          /\ \E b \in (IF t \in Detached THEN {body[t], "ready"} ELSE {"over"}) :
               body' = [body EXCEPT ![t] = b]
          /\ Push(client[t], Cmd(t, "main", "rollback", 0))
     ELSE UNCHANGED <<main, body, queue>>
  /\ UNCHANGED <<outcome, client, held, nest, sent, acked, slot, result, up, sessVars,
                 breaks>>

-----------------------------------------------------------------------------
(* fn, the caller's code: it sends statements on the scoped driver one at a  *)
(* time and finally returns or throws.                                       *)

\* scoped.query / scoped.execute: the statement is sent before the signal is
\* looked at, so an aborted signal rejects the promise of a statement that runs
\* (unless the statement has options of its own).
Send(t) ==
  /\ body[t] = "ready" /\ sent[t] < MaxStmts
  /\ sent' = [sent EXCEPT ![t] = @ + 1]
  /\ \E b \in (IF aborted[t] THEN {"await", "ready"} ELSE {"await"}) :
       body' = [body EXCEPT ![t] = b]
  /\ Push(client[t], Cmd(t, "body", "stmt", sent[t] + 1))
  /\ UNCHANGED <<callVars, nest, acked, aborted, slot, result, up, sessVars, breaks>>

\* fn ends while the race is on: main goes to COMMIT (return) or ROLLBACK
\* (throw).  When the race is over nobody looks at the result.
BodyEnds(t, op) ==
  /\ body[t] = "ready" /\ ~nest[t]
  /\ body' = [body EXCEPT ![t] = "over"]
  /\ IF main[t] = "running"
     THEN /\ main' = [main EXCEPT ![t] = op]
          /\ Push(client[t], Cmd(t, "main", op, 0))
     ELSE UNCHANGED <<main, queue>>
  /\ UNCHANGED <<outcome, client, held, nest, sent, acked, aborted, slot, result, up,
                 sessVars, breaks>>

\* An error reaches fn: it ends fn, and the race if it is on, unless fn
\* catches it.
Throws(t) ==
  \/ /\ body' = [body EXCEPT ![t] = "over"]
     /\ IF main[t] = "running"
        THEN /\ main' = [main EXCEPT ![t] = "rollback"]
             /\ queue' = [queue EXCEPT ![client[t]] =
                            Append(Tail(@), Cmd(t, "main", "rollback", 0))]
        ELSE /\ queue' = [queue EXCEPT ![client[t]] = Tail(@)]
             /\ UNCHANGED main
  \/ /\ t \in Catching
     /\ body' = [body EXCEPT ![t] = "ready"]
     /\ queue' = [queue EXCEPT ![client[t]] = Tail(@)]
     /\ UNCHANGED main

\* fn awaits the statement at the head of the queue: the last one it sent.
Awaited(t) ==
  /\ body[t] = "await" /\ Answered(t, "body", "stmt")
  /\ Head(queue[client[t]]).k = sent[t]

StmtOk(t) ==
  /\ Awaited(t) /\ Succeeded(client[t])
  /\ acked' = [acked EXCEPT ![t] = @ \cup {sent[t]}]
  /\ body' = [body EXCEPT ![t] = "ready"]
  /\ Pop(client[t])
  /\ UNCHANGED <<callVars, nest, sent, aborted, slot, up, sessVars, breaks>>

\* Inside a nested transaction() the error first ends the inner fn: the manual
\* path answers it with ROLLBACK on the scoped driver.
StmtError(t) ==
  /\ Awaited(t) /\ ~Succeeded(client[t])
  /\ IF nest[t]
     THEN /\ body' = [body EXCEPT ![t] = "nrollback"]
          /\ queue' = [queue EXCEPT ![client[t]] =
                         Append(Tail(@), Cmd(t, "body", "rollback", 0))]
          /\ UNCHANGED main
     ELSE Throws(t)
  /\ result' = [result EXCEPT ![client[t]] = "none"]
  /\ UNCHANGED <<outcome, client, held, nest, sent, acked, aborted, slot, up, sessVars,
                 breaks>>

\* The answer to a statement whose promise the signal rejected: nobody waits.
StmtDropped(t) ==
  /\ Answered(t, "body", "stmt") /\ ~Awaited(t)
  /\ Pop(client[t])
  /\ UNCHANGED <<callVars, bodyVars, aborted, slot, up, sessVars, breaks>>

-----------------------------------------------------------------------------
(* tx.transaction() inside fn.  The scoped driver has no transaction method, *)
(* so the manual path sends BEGIN and COMMIT / ROLLBACK on the same client.  *)

NestBegin(t) ==
  /\ t \in Nesting /\ body[t] = "ready" /\ ~nest[t]
  /\ body' = [body EXCEPT ![t] = "nbegin"]
  /\ Push(client[t], Cmd(t, "body", "begin", 0))
  /\ UNCHANGED <<callVars, nest, sent, acked, aborted, slot, result, up, sessVars, breaks>>

NestBeginReply(t) ==
  /\ body[t] = "nbegin" /\ Answered(t, "body", "begin")
  /\ IF Succeeded(client[t])
     THEN /\ body' = [body EXCEPT ![t] = "ready"]
          /\ nest' = [nest EXCEPT ![t] = TRUE]
          /\ queue' = [queue EXCEPT ![client[t]] = Tail(@)]
          /\ UNCHANGED main
     ELSE Throws(t) /\ UNCHANGED nest
  /\ result' = [result EXCEPT ![client[t]] = "none"]
  /\ UNCHANGED <<outcome, client, held, sent, acked, aborted, slot, up, sessVars, breaks>>

\* The inner fn returns or throws.
NestEnds(t, op) ==
  /\ body[t] = "ready" /\ nest[t]
  /\ body' = [body EXCEPT ![t] = IF op = "commit" THEN "ncommit" ELSE "nrollback"]
  /\ Push(client[t], Cmd(t, "body", op, 0))
  /\ UNCHANGED <<callVars, nest, sent, acked, aborted, slot, result, up, sessVars, breaks>>

NestCommitReply(t) ==
  /\ body[t] = "ncommit" /\ Answered(t, "body", "commit")
  /\ IF Succeeded(client[t])
     THEN /\ body' = [body EXCEPT ![t] = "ready"]
          /\ nest' = [nest EXCEPT ![t] = FALSE]
          /\ queue' = [queue EXCEPT ![client[t]] = Tail(@)]
     ELSE /\ body' = [body EXCEPT ![t] = "nrollback"]
          /\ queue' = [queue EXCEPT ![client[t]] =
                         Append(Tail(@), Cmd(t, "body", "rollback", 0))]
          /\ UNCHANGED nest
  /\ result' = [result EXCEPT ![client[t]] = "none"]
  /\ UNCHANGED <<callVars, sent, acked, aborted, slot, up, sessVars, breaks>>

NestRollbackReply(t) ==
  /\ body[t] = "nrollback" /\ Answered(t, "body", "rollback")
  /\ nest' = [nest EXCEPT ![t] = FALSE]
  /\ Throws(t)
  /\ result' = [result EXCEPT ![client[t]] = "none"]
  /\ UNCHANGED <<outcome, client, held, sent, acked, aborted, slot, up, sessVars, breaks>>

-----------------------------------------------------------------------------
(* The server (external): it executes the head of a connection's queue in    *)
(* the session of that connection.                                           *)

Runs(c, op) ==
  /\ up[c] /\ result[c] = "none"
  /\ queue[c] # <<>> /\ Head(queue[c]).op = op

Answer(c, r) == result' = [result EXCEPT ![c] = r]

\* The session's transaction ends; its first end is the fate of its owner.
EndTx(c, how) ==
  /\ committed' = IF how = "committed" THEN committed \cup pend[c] ELSE committed
  /\ fate' = IF owner[c] # NoTask /\ fate[owner[c]] = "open"
             THEN [fate EXCEPT ![owner[c]] = how] ELSE fate
  /\ pend' = [pend EXCEPT ![c] = {}]
  /\ doomed' = [doomed EXCEPT ![c] = FALSE]

\* BEGIN in an open transaction: a warning in PostgreSQL, an implicit COMMIT
\* in MySQL.
BeginTx(c) ==
  IF owner[c] # NoTask /\ Dialect = "pg"
  THEN UNCHANGED sessVars
  ELSE /\ owner' = [owner EXCEPT ![c] = Head(queue[c]).task]
       /\ EndTx(c, "committed")

\* BEGIN fails in a doomed transaction.  Where the connection may reject it, the
\* server refuses it, or executes it although the client has given up on it (a
\* query timeout).
ServerBegin(c) ==
  /\ Runs(c, "begin")
  /\ \/ ~doomed[c] /\ Answer(c, "ok") /\ BeginTx(c)
     \/ c \in Rejecting /\ ~doomed[c] /\ Answer(c, "error") /\ BeginTx(c)
     \/ (c \in Rejecting \/ doomed[c]) /\ Answer(c, "error") /\ UNCHANGED sessVars
  /\ UNCHANGED <<callVars, bodyVars, aborted, slot, queue, up, breaks>>

ServerStmt(c) ==
  /\ Runs(c, "stmt") /\ ~doomed[c] /\ Answer(c, "ok")
  /\ LET w == <<Head(queue[c]).task, Head(queue[c]).k>> IN
     IF owner[c] = NoTask
     THEN /\ committed' = committed \cup {w}
          /\ UNCHANGED pend
     ELSE /\ pend' = [pend EXCEPT ![c] = @ \cup {w}]
          /\ UNCHANGED committed
  /\ UNCHANGED <<callVars, bodyVars, aborted, slot, queue, up, owner, doomed, fate, breaks>>

\* A failed statement dooms a PostgreSQL transaction, not a MySQL one.
ServerStmtFails(c) ==
  /\ Runs(c, "stmt") /\ Answer(c, "error")
  /\ doomed' = [doomed EXCEPT ![c] = owner[c] # NoTask /\ (@ \/ Dialect = "pg")]
  /\ UNCHANGED <<callVars, bodyVars, aborted, slot, queue, up, owner, pend, committed,
                 fate, breaks>>

\* COMMIT of a doomed transaction rolls it back and reports no error; COMMIT
\* of a sound one commits, or fails and rolls back (deferred constraints).
ServerCommit(c) ==
  /\ Runs(c, "commit")
  /\ \/ ~doomed[c] /\ Answer(c, "ok") /\ EndTx(c, "committed")
     \/ doomed[c] /\ Answer(c, "ok") /\ EndTx(c, "discarded")
     \/ ~doomed[c] /\ owner[c] # NoTask /\ Answer(c, "error") /\ EndTx(c, "discarded")
  /\ owner' = [owner EXCEPT ![c] = NoTask]
  /\ UNCHANGED <<callVars, bodyVars, aborted, slot, queue, up, breaks>>

ServerRollback(c) ==
  /\ Runs(c, "rollback") /\ Answer(c, "ok") /\ EndTx(c, "discarded")
  /\ owner' = [owner EXCEPT ![c] = NoTask]
  /\ UNCHANGED <<callVars, bodyVars, aborted, slot, queue, up, breaks>>

\* The connection is lost while checked out; the server rolls back its session.
Break(c) ==
  /\ slot[c] = "out" /\ up[c] /\ breaks < MaxBreaks
  /\ breaks' = breaks + 1
  /\ up' = [up EXCEPT ![c] = FALSE]
  /\ EndTx(c, "discarded")
  /\ owner' = [owner EXCEPT ![c] = NoTask]
  /\ UNCHANGED <<callVars, bodyVars, aborted, slot, queue, result>>

-----------------------------------------------------------------------------

\* Every call has settled and no command is under way.
Quiet ==
  /\ \A t \in Tasks : main[t] = "settled"
  /\ \A c \in Conns : queue[c] = <<>>
  /\ UNCHANGED vars

Call(t) ==
  \/ Start(t) \/ \E c \in Conns : Connect(t, c)
  \/ BeginOk(t) \/ BeginOkAborted(t) \/ BeginFails(t)
  \/ CommitOk(t) \/ CommitFails(t) \/ RollbackDone(t)

Fn(t) ==
  \/ Send(t) \/ BodyEnds(t, "commit") \/ BodyEnds(t, "rollback")
  \/ StmtOk(t) \/ StmtError(t) \/ StmtDropped(t)
  \/ NestBegin(t) \/ NestBeginReply(t)
  \/ NestEnds(t, "commit") \/ NestEnds(t, "rollback")
  \/ NestCommitReply(t) \/ NestRollbackReply(t)

Server(c) ==
  ServerBegin(c) \/ ServerStmt(c) \/ ServerStmtFails(c) \/ ServerCommit(c) \/ ServerRollback(c)

Next ==
  \/ \E t \in Tasks : Call(t) \/ Fn(t) \/ Abort(t)
  \/ \E c \in Conns : Server(c) \/ Break(c)
  \/ Quiet

Spec == Init /\ [][Next]_vars

\* Promises settle and are observed, the pool serves its waiters, the server
\* executes what it is sent, and fn ends however many transactions it nests;
\* nothing forces a signal or a loss.
Fairness ==
  /\ \A t \in Tasks : WF_vars(Call(t)) /\ WF_vars(Fn(t))
  /\ \A t \in Tasks : SF_vars(BodyEnds(t, "commit") \/ BodyEnds(t, "rollback"))
  /\ \A c \in Conns : WF_vars(Server(c))

FairSpec == Spec /\ Fairness

-----------------------------------------------------------------------------
(* Properties *)

TypeOK ==
  /\ main \in [Tasks -> {"idle", "connecting", "begin", "running", "commit",
                         "rollback", "settled"}]
  /\ outcome \in [Tasks -> {"none", "resolved", "rejected"}]
  /\ client \in [Tasks -> Conns \cup {NoConn}]
  /\ held \in [Tasks -> BOOLEAN]
  /\ body \in [Tasks -> {"off", "ready", "await", "nbegin", "ncommit", "nrollback", "over"}]
  /\ nest \in [Tasks -> BOOLEAN]
  /\ sent \in [Tasks -> 0..MaxStmts]
  /\ acked \in [Tasks -> SUBSET (1..MaxStmts)]
  /\ aborted \in [Tasks -> BOOLEAN]
  /\ slot \in [Conns -> {"fresh", "idle", "out", "closed"}]
  /\ queue \in [Conns -> Seq(Command)]
  /\ result \in [Conns -> {"none", "ok", "error"}]
  /\ up \in [Conns -> BOOLEAN]
  /\ owner \in [Conns -> Tasks \cup {NoTask}]
  /\ doomed \in [Conns -> BOOLEAN]
  /\ pend \in [Conns -> SUBSET Writes]
  /\ committed \in SUBSET Writes
  /\ fate \in [Tasks -> {"open", "committed", "discarded"}]
  /\ breaks \in 0..MaxBreaks

\* Two open calls never share a client, whatever their bodies, signals and
\* connections do: a client is handed out again only after its release.
ExclusiveClient ==
  \A t, u \in Tasks :
    t # u /\ held[t] /\ held[u] => client[t] # client[u]

\* A statement runs in the transaction of the task that sent it, never in one
\* that another task opened on the same connection.
NoForeignWrites ==
  \A c \in Conns : \A w \in pend[c] : w[1] = owner[c]

\* All or nothing: a task's statements are durable only if its transaction
\* committed, and then every statement whose success fn saw is durable.
AllOrNothing ==
  \A t \in Tasks :
    /\ fate[t] # "committed" => Durable(t) = {}
    /\ fate[t] = "committed" => acked[t] \subseteq Durable(t)

\* A client comes back to the pool clean: no open transaction, no command
\* under way that the next user of the connection would run along with its own.
CleanPool ==
  \A c \in Conns : slot[c] = "idle" => owner[c] = NoTask /\ queue[c] = <<>>

\* A call that resolves has committed, even if COMMIT failed, the signal fired or
\* the connection was lost on the way.  The one exception to "Commits on resolve":
\* on PostgreSQL fn has caught the error of a statement, COMMIT answers ROLLBACK
\* and everything is discarded.
ResolvedIsCommitted ==
  \A t \in Tasks : outcome[t] = "resolved" =>
    \/ fate[t] = "committed"
    \/ t \in Catching /\ Dialect = "pg" /\ fate[t] = "discarded"

\* A call that rejects has committed only if its connection was lost after the
\* server had executed COMMIT.
RejectedIsDiscarded ==
  \A t \in Tasks :
    outcome[t] = "rejected" /\ fate[t] = "committed" => slot[client[t]] = "closed"

\* A settled call holds no client.
SettledReleases ==
  \A t \in Tasks : main[t] = "settled" => ~held[t]

\* Nothing of a task becomes durable while its fn runs: statements stay in the
\* transaction until COMMIT of the task itself.
NoEarlyCommit ==
  \A t \in Tasks : main[t] \in {"begin", "running"} => Durable(t) = {}

\* Once a call has settled, what it made durable is final.
SettledIsFinal ==
  [][\A t \in Tasks : main[t] = "settled" =>
        \A k \in 1..MaxStmts : (<<t, k>> \in committed') <=> (<<t, k>> \in committed)]_vars

\* A signal that fires before COMMIT is sent makes the call reject.
AbortRejects ==
  \A t \in Tasks :
    (aborted[t] /\ main[t] \in {"connecting", "begin", "rollback"}) ~> outcome[t] = "rejected"

\* Every call settles: nobody waits for a client, a reply or a lock for ever.
EveryCallSettles == \A t \in Tasks : main[t] = "connecting" ~> main[t] = "settled"

-----------------------------------------------------------------------------
(* The contract of Driver.transaction, and the state of it that a state of   *)
(* the driver, the pool and the server stands for.                           *)

Stage == [t \in Tasks |-> IF main[t] = "settled" THEN outcome[t] ELSE fate[t]]
Done == [t \in Tasks |-> {k \in 1..MaxStmts : \E c \in Conns : <<t, k>> \in pend[c]}]

Contract == INSTANCE TransactionContract WITH
  stage <- Stage, work <- Done, durable <- committed

\* The driver implements the contract: the statements of a call become durable
\* in one step before it settles, and a call that resolves is durable.
ImplementsContract == Contract!Spec

-----------------------------------------------------------------------------
(* Why the properties hold: the inductive invariants behind them.            *)

Active(t) == main[t] \in {"begin", "running", "commit", "rollback"}

\* An open call holds its client, and the pool has that client checked out.
ClientInv ==
  \A t \in Tasks :
    /\ Active(t) => held[t]
    /\ held[t] => /\ client[t] \in Conns /\ slot[client[t]] = "out"
                  /\ Active(t) \/ main[t] = "settled"

\* No body outlives its race and none nests a transaction().
Orderly == Detached = {} /\ Nesting = {}

\* fn runs exactly while the race is on, outside of any nested transaction,
\* and the signal has not fired then.
FnOK(t) ==
  /\ ~nest[t]
  /\ body[t] \in {"off", "ready", "await", "over"}
  /\ body[t] \in {"ready", "await"} <=> main[t] = "running"
  /\ main[t] = "running" => ~aborted[t]

\* A queue holds the commands of the open call that has the connection checked
\* out: statements, then at most one command of transaction() itself, the last.
\* While the race is on that is at most the statement fn awaits.
QueueOK(c) ==
  /\ result[c] # "none" => queue[c] # <<>>
  /\ \A i \in 1..Len(queue[c]) :
       LET q == queue[c][i] IN
       /\ Active(q.task) /\ client[q.task] = c
       /\ q.op # "stmt" => i = Len(queue[c]) /\ q.by = "main" /\ main[q.task] = q.op
       /\ q.op = "stmt" =>
            /\ \/ main[q.task] = "rollback"
               \/ main[q.task] = "running" /\ body[q.task] = "await" /\ Len(queue[c]) = 1
            /\ up[c] => owner[c] = q.task

\* What the server's answer to the head of a queue says of the session.
AnswerOK(c) ==
  result[c] # "none" =>
    LET q == Head(queue[c]) IN
    /\ q.op = "begin" => /\ result[c] = "ok" /\ up[c] => owner[c] = q.task
                         /\ result[c] = "error" => c \in Rejecting
    /\ q.op \in {"commit", "rollback"} => owner[c] = NoTask
    /\ q.op = "stmt" /\ result[c] = "ok" /\ up[c] => <<q.task, q.k>> \in pend[c]

\* The session's transaction belongs to the call that has the connection checked
\* out, and holds its writes only, those fn has seen succeed included.  A call
\* whose BEGIN ran and was rejected keeps the connection, with nothing written.
SessionOK(c) ==
  /\ owner[c] # NoTask =>
       /\ held[owner[c]] /\ client[owner[c]] = c /\ up[c]
       /\ fate[owner[c]] = "open"
       /\ main[owner[c]] = "begin" => result[c] # "none"
       /\ main[owner[c]] \in {"begin", "settled"} => pend[c] = {}
       /\ \A k \in acked[owner[c]] : <<owner[c], k>> \in pend[c]
  /\ owner[c] = NoTask => pend[c] = {} /\ ~doomed[c]
  /\ \A w \in pend[c] : w[1] = owner[c]

\* While fn runs on a live connection its transaction is open there; before
\* COMMIT is sent the server has committed nothing of it; it commits the
\* statements fn has seen succeed, or nothing.
FateOK(t) ==
  /\ main[t] = "running" /\ up[client[t]] => owner[client[t]] = t
  /\ main[t] \in {"idle", "connecting", "begin"} => acked[t] = {}
  /\ main[t] \in {"idle", "connecting"} => fate[t] = "open"
  /\ main[t] = "begin" /\ up[client[t]] => fate[t] = "open"
  /\ main[t] \in {"begin", "running"} => fate[t] # "committed"
  /\ fate[t] # "committed" => Durable(t) = {}
  /\ fate[t] = "committed" => acked[t] \subseteq Durable(t)

\* The inductive invariant of orderly calls.
OrderlyInv ==
  /\ TypeOK /\ ClientInv /\ ExclusiveClient
  /\ \A t \in Tasks : FnOK(t) /\ FateOK(t)
  /\ \A c \in Conns : QueueOK(c) /\ AnswerOK(c) /\ SessionOK(c)

\* What a call may report as a success: its transaction committed, or fn caught
\* the error that made PostgreSQL discard it.
Excused(t) == t \in Catching /\ Dialect = "pg"
Granted(t) == fate[t] = "committed" \/ (Excused(t) /\ fate[t] = "discarded")

\* What a settled call reported, and what a call on its way to ROLLBACK will
\* report, agrees with how the server ended its transaction.
ReportOK(t) ==
  /\ outcome[t] = "none" <=> main[t] # "settled"
  /\ main[t] = "settled" => client[t] \in Conns
  /\ outcome[t] = "resolved" => Granted(t)
  /\ outcome[t] = "rejected" /\ fate[t] = "committed" => slot[client[t]] = "closed"
  /\ main[t] = "rollback" /\ fate[t] = "committed" => ~up[client[t]]

\* COMMIT and its answer: until it is answered the transaction is open, a success
\* is true and a failure means that nothing was committed.  Only a failed
\* statement that fn caught leaves the session of a call bound for COMMIT doomed:
\* one that fn has not seen yet ends fn, as it awaits that very statement.
CommitOK(t) ==
  LET c == client[t] IN
  /\ main[t] = "commit" /\ up[c] =>
       /\ result[c] = "none" => owner[c] = t
       /\ result[c] = "ok" => Granted(t)
       /\ result[c] = "error" => fate[t] # "committed"
  /\ main[t] = "running" /\ queue[c] # <<>> => Head(queue[c]).k = sent[t]
  /\ main[t] \in {"begin", "running", "commit"} /\ up[c] /\ owner[c] = t /\ doomed[c] =>
       /\ Dialect = "pg"
       /\ t \in Catching \/ (main[t] = "running" /\ result[c] = "error")

\* The inductive invariant behind what orderly calls report.
OutcomeInv == OrderlyInv /\ \A t \in Tasks : ReportOK(t) /\ CommitOK(t)

\* fn is called when BEGIN has succeeded, and only then; a call that settled
\* has its client still exactly if fn was never called.
LeakOK ==
  \A t \in Tasks :
    /\ main[t] \in {"idle", "connecting", "begin"} => body[t] = "off"
    /\ main[t] \in {"running", "commit", "rollback"} => body[t] # "off"
    /\ main[t] = "settled" => (held[t] <=> body[t] = "off")

\* A connection that stays up and takes every BEGIN: the parts of the invariant
\* behind SettledReleases, whatever bodies, signals and nested transactions do.
Nested(t) == body[t] \in {"nbegin", "ncommit", "nrollback"}

\* fn of a call without a signal runs only while the race is on, and only such
\* a call nests.
StageOK(t) ==
  /\ IF main[t] \in {"idle", "connecting"} THEN client[t] = NoConn /\ body[t] = "off"
     ELSE client[t] \in Conns
  /\ Nested(t) \/ nest[t] => t \in Nesting
  /\ aborted[t] => t \in Signalled
  /\ body[t] \notin {"off", "over"} /\ t \notin Signalled => main[t] = "running"

\* A BEGIN, COMMIT or ROLLBACK under way is one that main or fn waits for, on
\* the client of its call, and the only one of its call.
Expects(q) ==
  IF q.by = "main" THEN main[q.task] = q.op
  ELSE main[q.task] = "running" /\ Nested(q.task)

CommandsOK(s, c) ==
  \A i \in 1..Len(s) :
    /\ client[s[i].task] = c
    /\ s[i].op # "stmt" =>
         /\ Expects(s[i])
         /\ \A j \in 1..Len(s) : j # i /\ s[j].task = s[i].task => s[j].op = "stmt"

\* A session's transaction belongs to the call that holds the connection, from
\* the answer to its BEGIN to the answer to its COMMIT or ROLLBACK; so the next
\* BEGIN never meets an open, let alone a doomed, transaction.
OwnedOK(c) ==
  /\ doomed[c] => owner[c] # NoTask
  /\ owner[c] # NoTask =>
       /\ held[owner[c]] /\ client[owner[c]] = c
       /\ main[owner[c]] = "begin" =>
            result[c] # "none" /\ Head(queue[c]).task = owner[c] /\ Head(queue[c]).by = "main"
  /\ result[c] # "none" => queue[c] # <<>>
  /\ result[c] # "none" /\ Head(queue[c]).by = "main" =>
       IF Head(queue[c]).op = "begin" THEN result[c] = "ok" ELSE owner[c] = NoTask

ReleaseInv ==
  /\ TypeOK /\ ClientInv /\ ExclusiveClient /\ SettledReleases
  /\ \A t \in Tasks : StageOK(t)
  /\ \A c \in Conns : CommandsOK(queue[c], c) /\ OwnedOK(c) /\ up[c]
=============================================================================
