---------------------------- MODULE MCQueryEvents ----------------------------
(* Small instances of QueryEvents for TLC. *)
EXTENDS QueryEvents, TLC
CONSTANTS o1, o2, o3, logger, metrics
ThreeOps == {o1, o2, o3}
\* A transaction with a query and an execute in its body.
Statements == [kind |-> o1 :> "transaction" @@ o2 :> "query" @@ o3 :> "execute",
               scope |-> o1 :> None @@ o2 :> o1 @@ o3 :> o1, dropping |-> TRUE]
\* A transaction whose body streams rows, next to a stream of its own.
Streaming ==
  [kind |-> o1 :> "transaction" @@ o2 :> "stream" @@ o3 :> "buffered",
   scope |-> o1 :> None @@ o2 :> o1 @@ o3 :> None, dropping |-> FALSE]
\* A transaction whose body streams what a transform leaves of the rows.
Dropping ==
  [kind |-> o1 :> "transaction" @@ o2 :> "stream" @@ o3 :> "execute",
   scope |-> o1 :> None @@ o2 :> o1 @@ o3 :> o1, dropping |-> TRUE]
ThreeWorkloads == {Statements, Streaming, Dropping}
TwoListeners == {logger, metrics}
=============================================================================
