------------------------- MODULE TransactionContract -------------------------
(***************************************************************************)
(* What a transaction promises its caller (driver/types.ts, the contract   *)
(* of Driver.transaction): the statements of a call take effect together   *)
(* in one step or not at all, before the call settles, and a call that     *)
(* resolves has taken effect.  A call that rejects may have, when its      *)
(* caller could not be told.                                               *)
(***************************************************************************)
EXTENDS Naturals

CONSTANTS Tasks, MaxStmts

VARIABLES
  stage,    \* how far the call of a task is
  work,     \* statements done in its open transaction
  durable   \* statements that took effect

vars == <<stage, work, durable>>

Init ==
  /\ stage = [t \in Tasks |-> "open"]
  /\ work = [t \in Tasks |-> {}]
  /\ durable = {}

Work(t) ==
  /\ stage[t] = "open"
  /\ \E k \in 1..MaxStmts \ work[t] : work' = [work EXCEPT ![t] = @ \cup {k}]
  /\ UNCHANGED <<stage, durable>>

Commit(t) ==
  /\ stage[t] = "open"
  /\ stage' = [stage EXCEPT ![t] = "committed"]
  /\ durable' = durable \cup ({t} \X work[t])
  /\ work' = [work EXCEPT ![t] = {}]

Discard(t) ==
  /\ stage[t] = "open"
  /\ stage' = [stage EXCEPT ![t] = "discarded"]
  /\ work' = [work EXCEPT ![t] = {}]
  /\ UNCHANGED durable

Resolve(t) ==
  /\ stage[t] = "committed"
  /\ stage' = [stage EXCEPT ![t] = "resolved"]
  /\ UNCHANGED <<work, durable>>

Reject(t) ==
  /\ stage[t] \notin {"resolved", "rejected"} /\ work[t] = {}
  /\ stage' = [stage EXCEPT ![t] = "rejected"]
  /\ UNCHANGED <<work, durable>>

Next == \E t \in Tasks : Work(t) \/ Commit(t) \/ Discard(t) \/ Resolve(t) \/ Reject(t)

Spec == Init /\ [][Next]_vars
=============================================================================
