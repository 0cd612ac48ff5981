---------------------------- MODULE SharedHandle ----------------------------
(***************************************************************************)
(* driver.transaction of drivers/better-sqlite3.ts, and the manual path of *)
(* driver/transaction.ts on the same driver without captureTransactions.   *)
(*                                                                         *)
(* All calls share one handle, that is one session.  A statement executes  *)
(* synchronously when it is called; its promise is observed in a later     *)
(* microtask, and other calls run in between.  Two transactions are kept   *)
(* apart by nothing but the refusal of BEGIN inside a transaction.         *)
(*                                                                         *)
(* The handle is external.  While a cursor of stream() is open it refuses  *)
(* exec() and run(); some errors make SQLite roll its transaction back.    *)
(***************************************************************************)
EXTENDS Naturals, FiniteSets

CONSTANTS
  Tasks,       \* calls of transaction()
  Plain,       \* calls of execute() outside of any transaction
  Readers,     \* calls of stream()
  Captured,    \* tasks on a driver with captureTransactions; others take the manual path
  Catching,    \* tasks whose body may catch the error of a statement
  MaxStmts,    \* bound: statements one body sends
  MaxLosses,   \* bound: transactions rolled back by an error of a statement
  None

ASSUME HandleAssumption ==
  /\ Captured \subseteq Tasks /\ Catching \subseteq Tasks
  /\ MaxStmts \in Nat /\ MaxLosses \in Nat
  /\ Tasks \cap Plain = {} /\ None \notin Tasks

VARIABLES
  main,      \* where transaction() of a task stands
  outcome,   \* how its promise settled
  body,      \* where fn stands
  sent,      \* statements fn has sent
  reply,     \* what the statement fn awaits was answered
  acked,     \* statements whose success fn has seen
  said,      \* plain statements that were executed
  cursors,   \* readers with an open cursor
  drained,   \* readers that are done
  owner,     \* task whose BEGIN opened the session's transaction
  pend,      \* writes of the open transaction
  committed, \* durable writes
  fate,      \* how the transaction of a task ended
  refused,   \* tasks whose ROLLBACK the handle refused
  losses     \* transactions rolled back by an error so far

fnVars == <<body, sent, reply, acked>>
readVars == <<cursors, drained>>
txVars == <<owner, pend, committed, fate>>
vars == <<main, outcome, fnVars, said, readVars, txVars, refused, losses>>

Writes == (Tasks \cup Plain) \X (1..(MaxStmts + 1))
Durable(t) == {k \in 1..MaxStmts : <<t, k>> \in committed}

Init ==
  /\ main = [t \in Tasks |-> "idle"]
  /\ outcome = [t \in Tasks |-> "none"]
  /\ body = [t \in Tasks |-> "off"]
  /\ sent = [t \in Tasks |-> 0]
  /\ reply = [t \in Tasks |-> "none"]
  /\ acked = [t \in Tasks |-> {}]
  /\ said = {} /\ cursors = {} /\ drained = {}
  /\ owner = None /\ pend = {} /\ committed = {}
  /\ fate = [t \in Tasks |-> "open"]
  /\ refused = {} /\ losses = 0

-----------------------------------------------------------------------------
(* The handle *)

Busy == cursors # {}

\* The session's transaction ends, whoever asked for it.
EndTx(how) ==
  /\ owner' = None /\ pend' = {}
  /\ committed' = IF how = "committed" THEN committed \cup pend ELSE committed
  /\ fate' = [fate EXCEPT ![owner] = how]

\* A write joins the open transaction, or commits on its own.
Write(w) ==
  /\ ~Busy
  /\ IF owner = None
     THEN committed' = committed \cup {w} /\ UNCHANGED pend
     ELSE pend' = pend \cup {w} /\ UNCHANGED committed
  /\ UNCHANGED <<owner, fate, losses>>

\* It fails: alone, or taking the transaction with it (a full disk, ON CONFLICT
\* ROLLBACK).
WriteFails ==
  \/ UNCHANGED <<txVars, losses>>
  \/ /\ owner # None /\ ~Busy /\ losses < MaxLosses
     /\ EndTx("discarded")
     /\ losses' = losses + 1

\* ROLLBACK: an error outside of a transaction or under an open cursor, which
\* the caller swallows.
Rollback(t) ==
  IF owner = None \/ Busy
  THEN /\ refused' = IF Busy THEN refused \cup {t} ELSE refused
       /\ UNCHANGED txVars
  ELSE /\ EndTx("discarded")
       /\ UNCHANGED refused

Settle(t, how) ==
  /\ main' = [main EXCEPT ![t] = "settled"]
  /\ outcome' = [outcome EXCEPT ![t] = how]

-----------------------------------------------------------------------------
(* Faulty variants of steps below, each what a plausible bug would make of    *)
(* it.  Nothing uses them: they show that the properties can fail.            *)

\* A call that finds a transaction open joins it.
BeginOk_Joins(t) ==
  /\ main[t] = "idle" /\ ~Busy
  /\ owner' = IF owner = None THEN t ELSE owner
  /\ main' = [main EXCEPT ![t] = "running"]
  /\ body' = [body EXCEPT ![t] = "ready"]
  /\ UNCHANGED <<outcome, sent, reply, acked, said, readVars, pend, committed, fate,
                 refused, losses>>

\* fn is called without BEGIN.
BodyStarts_NoBegin(t) ==
  /\ main[t] = "idle"
  /\ main' = [main EXCEPT ![t] = "running"]
  /\ body' = [body EXCEPT ![t] = "ready"]
  /\ UNCHANGED <<outcome, sent, reply, acked, said, readVars, txVars, refused, losses>>

\* The statement is counted before it is answered for.
Resume_NextNumber(t) ==
  /\ body[t] = "await" /\ reply[t] = "ok"
  /\ body' = [body EXCEPT ![t] = "ready"]
  /\ acked' = [acked EXCEPT ![t] = @ \cup {sent[t] + 1}]
  /\ reply' = [reply EXCEPT ![t] = "none"]
  /\ UNCHANGED <<main, outcome, sent, said, readVars, txVars, refused, losses>>

\* COMMIT outside of `try`.
CommitFails_NoRollback(t) ==
  /\ main[t] = "running" /\ body[t] = "returned"
  /\ Settle(t, "rejected")
  /\ UNCHANGED <<fnVars, said, readVars, txVars, refused, losses>>

\* The error is not thrown again after ROLLBACK.
RollsBack_Resolves(t) ==
  /\ main[t] = "failed" \/ (main[t] = "running" /\ body[t] = "threw")
  /\ Rollback(t) /\ Settle(t, "resolved")
  /\ UNCHANGED <<fnVars, said, readVars, losses>>

\* A COMMIT that failed is sent again instead of ROLLBACK, without limit.
RollsBack_Retries(t) ==
  \/ /\ main[t] = "failed"
     /\ main' = [main EXCEPT ![t] = "running"]
     /\ UNCHANGED <<outcome, fnVars, said, readVars, txVars, refused, losses>>
  \/ /\ main[t] = "running" /\ body[t] = "threw"
     /\ Rollback(t) /\ Settle(t, "rejected")
     /\ UNCHANGED <<fnVars, said, readVars, losses>>

-----------------------------------------------------------------------------
(* transaction() *)

\* The signal has fired already, or BEGIN fails: inside a transaction, under an
\* open cursor, or on the lock of another process.  Nothing was begun.
BeginFails(t) ==
  /\ main[t] = "idle"
  /\ Settle(t, "rejected")
  /\ UNCHANGED <<fnVars, said, readVars, txVars, refused, losses>>

\* The driver's transaction() calls fn in the same step, the manual path first
\* awaits the promise of BEGIN.
BeginOk(t) ==
  /\ main[t] = "idle" /\ owner = None /\ ~Busy
  /\ owner' = t
  /\ main' = [main EXCEPT ![t] = IF t \in Captured THEN "running" ELSE "begun"]
  /\ body' = [body EXCEPT ![t] = IF t \in Captured THEN "ready" ELSE "off"]
  /\ UNCHANGED <<outcome, sent, reply, acked, said, readVars, pend, committed, fate,
                 refused, losses>>

BodyStarts(t) ==
  /\ main[t] = "begun"
  /\ main' = [main EXCEPT ![t] = "running"]
  /\ body' = [body EXCEPT ![t] = "ready"]
  /\ UNCHANGED <<outcome, sent, reply, acked, said, readVars, txVars, refused, losses>>

\* fn sends a statement and awaits its promise.
Send(t) ==
  /\ body[t] = "ready" /\ sent[t] < MaxStmts
  /\ sent' = [sent EXCEPT ![t] = @ + 1]
  /\ body' = [body EXCEPT ![t] = "await"]
  /\ \/ Write(<<t, sent[t] + 1>>) /\ reply' = [reply EXCEPT ![t] = "ok"]
     \/ WriteFails /\ reply' = [reply EXCEPT ![t] = "error"]
  /\ UNCHANGED <<main, outcome, acked, said, readVars, refused>>

Resume(t) ==
  /\ body[t] = "await"
  /\ \/ /\ reply[t] = "ok"
        /\ body' = [body EXCEPT ![t] = "ready"]
        /\ acked' = [acked EXCEPT ![t] = @ \cup {sent[t]}]
     \/ /\ reply[t] = "error"
        /\ \/ body' = [body EXCEPT ![t] = "threw"]
           \/ t \in Catching /\ body' = [body EXCEPT ![t] = "ready"]
        /\ UNCHANGED acked
  /\ reply' = [reply EXCEPT ![t] = "none"]
  /\ UNCHANGED <<main, outcome, sent, said, readVars, txVars, refused, losses>>

\* fn returns or throws; transaction() goes on in a later microtask.
BodyEnds(t, how) ==
  /\ body[t] = "ready"
  /\ body' = [body EXCEPT ![t] = how]
  /\ UNCHANGED <<main, outcome, sent, reply, acked, said, readVars, txVars, refused, losses>>

CommitOk(t) ==
  /\ main[t] = "running" /\ body[t] = "returned" /\ owner # None /\ ~Busy
  /\ EndTx("committed")
  /\ Settle(t, "resolved")
  /\ UNCHANGED <<fnVars, said, readVars, refused, losses>>

\* COMMIT fails without a transaction, under an open cursor or on a deferred
\* constraint, and leaves the transaction open.  ROLLBACK follows, on the manual
\* path after the rejected promise of COMMIT.
CommitFails(t) ==
  /\ main[t] = "running" /\ body[t] = "returned"
  /\ IF t \in Captured
     THEN Rollback(t) /\ Settle(t, "rejected")
     ELSE /\ main' = [main EXCEPT ![t] = "failed"]
          /\ UNCHANGED <<outcome, txVars, refused>>
  /\ UNCHANGED <<fnVars, said, readVars, losses>>

RollsBack(t) ==
  /\ main[t] = "failed" \/ (main[t] = "running" /\ body[t] = "threw")
  /\ Rollback(t) /\ Settle(t, "rejected")
  /\ UNCHANGED <<fnVars, said, readVars, losses>>

-----------------------------------------------------------------------------
(* The other users of the handle *)

\* execute() outside of any transaction.
Say(p) ==
  /\ p \notin said
  /\ said' = said \cup {p}
  /\ Write(<<p, 1>>) \/ WriteFails
  /\ UNCHANGED <<main, outcome, fnVars, readVars, refused>>

\* stream(): the cursor stays open between the rows the consumer asks for.
Open(r) ==
  /\ r \notin cursors \cup drained
  /\ cursors' = cursors \cup {r}
  /\ UNCHANGED <<main, outcome, fnVars, said, drained, txVars, refused, losses>>

Close(r) ==
  /\ r \in cursors
  /\ cursors' = cursors \ {r}
  /\ drained' = drained \cup {r}
  /\ UNCHANGED <<main, outcome, fnVars, said, txVars, refused, losses>>

-----------------------------------------------------------------------------

Call(t) ==
  \/ BeginFails(t) \/ BeginOk(t) \/ BodyStarts(t)
  \/ Send(t) \/ Resume(t) \/ BodyEnds(t, "returned") \/ BodyEnds(t, "threw")
  \/ CommitOk(t) \/ CommitFails(t) \/ RollsBack(t)

Done == (\A t \in Tasks : main[t] = "settled") /\ cursors = {} /\ UNCHANGED vars

Next ==
  \/ \E t \in Tasks : Call(t)
  \/ \E p \in Plain : Say(p)
  \/ \E r \in Readers : Open(r) \/ Close(r)
  \/ Done

Spec == Init /\ [][Next]_vars

FairSpec == Spec /\ \A t \in Tasks : WF_vars(Call(t))

-----------------------------------------------------------------------------
(* Properties *)

TypeOK ==
  /\ main \in [Tasks -> {"idle", "begun", "running", "failed", "settled"}]
  /\ outcome \in [Tasks -> {"none", "resolved", "rejected"}]
  /\ body \in [Tasks -> {"off", "ready", "await", "returned", "threw"}]
  /\ sent \in [Tasks -> 0..MaxStmts]
  /\ reply \in [Tasks -> {"none", "ok", "error"}]
  /\ acked \in [Tasks -> SUBSET (1..MaxStmts)]
  /\ said \subseteq Plain /\ cursors \subseteq Readers /\ drained \subseteq Readers
  /\ owner \in Tasks \cup {None}
  /\ pend \subseteq Writes /\ committed \subseteq Writes
  /\ fate \in [Tasks -> {"open", "committed", "discarded"}]
  /\ refused \subseteq Tasks
  /\ losses \in 0..MaxLosses

Inside(t) == main[t] \in {"begun", "running", "failed"}

\* As long as no error rolled a transaction back, a call that is under way is
\* alone: the open transaction is its own, and its fn never writes into that of
\* another call.
OwnTransaction == losses = 0 => \A t \in Tasks : Inside(t) => owner = t

\* All or nothing, under the same condition: statements are durable only if the
\* transaction committed, and then all those whose success fn saw.
AllOrNothing ==
  losses = 0 => \A t \in Tasks :
    /\ fate[t] # "committed" => Durable(t) = {}
    /\ fate[t] = "committed" => acked[t] \subseteq Durable(t)

\* "Commits on resolve, rolls back on throw": a promise tells the truth about
\* the transaction.
OutcomeTrue ==
  losses = 0 => \A t \in Tasks : main[t] = "settled" =>
    (outcome[t] = "resolved" <=> fate[t] = "committed")

\* A settled call leaves its transaction open on the handle only if ROLLBACK was
\* refused under an open cursor: "swallow rollback failure".
SettledCloses == \A t \in Tasks : main[t] = "settled" /\ owner = t => t \in refused

\* Every call settles: a call that finds the handle taken is refused, not parked.
EveryCallSettles == \A t \in Tasks : <>(main[t] = "settled")

-----------------------------------------------------------------------------
(* Why they hold: the inductive invariants behind them.                      *)

\* fn runs while its call waits for it; a transaction belongs to a call that
\* has begun, and outlives the call only if ROLLBACK was refused.
CallInv ==
  \A t \in Tasks :
    /\ main[t] = "idle" => owner # t
    /\ main[t] \in {"idle", "begun"} => body[t] = "off" /\ acked[t] = {}
    /\ body[t] \in {"ready", "await"} => main[t] = "running"
    /\ main[t] = "failed" => body[t] = "returned"
    /\ reply[t] # "none" => body[t] = "await"
    /\ body[t] = "await" => sent[t] # 0
    /\ main[t] = "settled" /\ owner = t => t \in refused

\* While no error has ended a transaction: the open one is that of the call
\* under way and holds what its fn has seen succeed; the writes of a call are
\* durable only if it committed.
CalmInv ==
  losses = 0 =>
    /\ owner = None => pend = {}
    /\ \A t \in Tasks :
         /\ Inside(t) => owner = t
         /\ main[t] = "idle" \/ owner = t => fate[t] = "open"
         /\ reply[t] = "ok" => <<t, sent[t]>> \in pend
         /\ owner = t => \A k \in acked[t] : <<t, k>> \in pend
         /\ owner # t => \A k \in 1..MaxStmts : <<t, k>> \notin pend
         /\ fate[t] = "committed" => acked[t] \subseteq Durable(t)
         /\ fate[t] # "committed" => Durable(t) = {}
         /\ main[t] = "settled" => (outcome[t] = "resolved" <=> fate[t] = "committed")
=============================================================================
