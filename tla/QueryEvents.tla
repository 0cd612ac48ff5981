----------------------------- MODULE QueryEvents -----------------------------
(***************************************************************************)
(* The events a Sumak instance reports to its onQuery listeners            *)
(* (driver/execute.ts: withEvents, runQuery, runExecute, runStream;        *)
(* driver/transaction.ts: runWithTxEvents), and the OpenTelemetry listener *)
(* that turns them into spans (otel.ts).                                   *)
(*                                                                         *)
(* An operation is one call: a query, an execute, a stream whose driver    *)
(* has a cursor, a buffered stream, or a transaction.  Operations run      *)
(* concurrently and interleave at their awaits; events are delivered       *)
(* synchronously, to every listener in turn.                               *)
(***************************************************************************)
EXTENDS Naturals, Sequences, FiniteSets

CONSTANTS
  Ops,       \* operations
  Workloads, \* what the operations are, one record per workload:
             \*   kind[o]: "query", "execute", "stream", "buffered" or "transaction"
             \*   scope[o]: the transaction whose body issues o, or None
             \*   dropping: result:transform handlers may drop a row
  Listeners, \* user and plugin listeners besides the otel one
  MaxRows,   \* bound: rows of a result
  None

ASSUME EventsAssumption ==
  /\ IsFiniteSet(Ops) /\ None \notin Ops
  /\ \A w \in Workloads :
       /\ w.kind \in [Ops -> {"query", "execute", "stream", "buffered", "transaction"}]
       /\ w.scope \in [Ops -> Ops \cup {None}]
       /\ \A o \in Ops : w.scope[o] # None =>
            w.kind[w.scope[o]] = "transaction" /\ w.kind[o] # "transaction"
       /\ w.dropping \in BOOLEAN
  /\ MaxRows \in Nat

VARIABLES
  load,        \* the workload
  nextEventId, \* the counter all Sumak instances of the process share
  pc,          \* where the operation stands
  id,          \* its correlation id
  rows,        \* rows it holds and has not handed to the caller
  yielded,     \* the row count a stream keeps for its end event
  received,    \* rows its consumer was given
  log,         \* events each listener has seen
  inFlight,    \* otel: ids with an open span
  span         \* otel: how the span of an id stands

vars == <<load, nextEventId, pc, id, rows, yielded, received, log, inFlight, span>>

Kind == load.kind
Scope == load.scope

\* The ids a run can allocate.
Ids == 1..Cardinality(Ops)

Streams == {"stream", "buffered"}
Settled == {"resolved", "rejected", "failed"}  \* failed: the driver's call rejected

Events == [op : Ops, id : Ids, phase : {"start", "end", "error"}, rowCount : 0..MaxRows]
Event(o, phase, count) == [op |-> o, id |-> id[o], phase |-> phase, rowCount |-> count]

Init ==
  /\ load \in Workloads
  /\ nextEventId = 1
  /\ pc = [o \in Ops |-> "idle"]
  /\ id = [o \in Ops |-> 0]
  /\ rows = [o \in Ops |-> 0]
  /\ yielded = [o \in Ops |-> 0]
  /\ received = [o \in Ops |-> 0]
  /\ log = [l \in Listeners |-> <<>>]
  /\ inFlight = {}
  /\ span = [i \in Ids |-> "none"]

-----------------------------------------------------------------------------
(* Delivery *)

\* Faulty: the entry of the map is deleted after the span has ended.
Trace_EndsFirst(e, throws) ==
  IF e.phase = "start"
  THEN /\ inFlight' = IF throws THEN inFlight ELSE inFlight \cup {e.id}
       /\ span' = IF throws THEN span ELSE [span EXCEPT ![e.id] = "live"]
  ELSE /\ inFlight' = IF throws THEN inFlight ELSE inFlight \ {e.id}
       /\ span' = IF throws \/ e.id \notin inFlight THEN span
                  ELSE [span EXCEPT ![e.id] = IF e.phase = "end" THEN "ok" ELSE "error"]

\* createOtelListener: a span per start, ended by the event of the same id.
\* The tracer may throw: at a start there is no span then, at the end the entry
\* of the map is gone but the span stays open.
Trace(e, throws) ==
  CASE e.phase = "start" /\ throws -> UNCHANGED <<inFlight, span>>
    [] e.phase = "start" /\ ~throws ->
         /\ inFlight' = inFlight \cup {e.id}
         /\ span' = [span EXCEPT ![e.id] = "live"]
    [] e.phase # "start" /\ e.id \in inFlight ->
         /\ inFlight' = inFlight \ {e.id}
         /\ span' = [span EXCEPT ![e.id] =
                       IF throws THEN "live" ELSE IF e.phase = "end" THEN "ok" ELSE "error"]
    [] OTHER -> UNCHANGED <<inFlight, span>>

\* Faulty: one `try` around all listeners; those after the first to throw miss
\* the event.
Deliver_StopsAtThrow(e) ==
  /\ \E reached \in SUBSET Listeners :
       log' = [l \in Listeners |-> IF l \in reached THEN Append(log[l], e) ELSE log[l]]
  /\ \E throws \in BOOLEAN : Trace(e, throws)

\* Every listener is called within a `try` of its own: what one of them throws
\* neither reaches the others nor the operation.
Deliver(e) ==
  /\ log' = [l \in Listeners |-> Append(log[l], e)]
  /\ \E throws \in BOOLEAN : Trace(e, throws)

-----------------------------------------------------------------------------
(* The operations *)

Goto(o, where) == pc' = [pc EXCEPT ![o] = where]

\* Faulty variants of the operations below.

\* No `catch` in runStream: a transform that throws leaves through `finally`.
TransformFails_Ends(o) ==
  /\ Kind[o] \in Streams /\ pc[o] = "sent"
  /\ Goto(o, "rejected")
  /\ Deliver(Event(o, "end", yielded[o]))
  /\ UNCHANGED <<nextEventId, id, rows, yielded, received>>

\* The end event after the loop instead of in `finally`: a break skips it.
Break_EmitsNothing(o) ==
  /\ Kind[o] \in Streams /\ pc[o] = "yield"
  /\ Goto(o, "resolved")
  /\ rows' = [rows EXCEPT ![o] = 0]
  /\ UNCHANGED <<nextEventId, id, yielded, received, log, inFlight, span>>

\* The row count of the result, not of the rows handed out.
Break_CountsBuffer(o) ==
  /\ Kind[o] \in Streams /\ pc[o] = "yield"
  /\ Goto(o, "resolved") /\ Deliver(Event(o, "end", yielded[o] + rows[o]))
  /\ rows' = [rows EXCEPT ![o] = 0]
  /\ UNCHANGED <<nextEventId, id, yielded, received>>

\* The start of a transaction is reported as over when BEGIN is, as
\* withTransactionEvents does.
Begun_Ends(o) ==
  /\ Kind[o] = "transaction" /\ pc[o] = "sent"
  /\ Goto(o, "body")
  /\ Deliver(Event(o, "end", 0))
  /\ UNCHANGED <<nextEventId, id, rows, yielded, received>>

\* COMMIT and ROLLBACK are reported under ids of their own.
TxSettles_NewId(o) ==
  /\ Kind[o] = "transaction" /\ pc[o] = "body"
  /\ Goto(o, "resolved")
  /\ nextEventId' = nextEventId + 1 /\ id' = [id EXCEPT ![o] = nextEventId]
  /\ Deliver([op |-> o, id |-> nextEventId, phase |-> "end", rowCount |-> 0])
  /\ UNCHANGED <<rows, yielded, received>>

\* An id is allocated and the start event emitted before the first await.  The
\* body of a transaction that was aborted, or a branch of it that Promise.all
\* left behind, goes on issuing statements after the transaction has settled.
Start(o) ==
  /\ pc[o] = "idle"
  /\ \A t \in Ops : Scope[o] = t => pc[t] \in {"body", "resolved", "rejected"}
  /\ nextEventId' = nextEventId + 1
  /\ id' = [id EXCEPT ![o] = nextEventId]
  /\ Goto(o, "sent")
  /\ Deliver([op |-> o, id |-> nextEventId, phase |-> "start", rowCount |-> 0])
  /\ UNCHANGED <<rows, yielded, received>>

\* The driver's promise rejects: of a transaction, before the body is called.  A
\* cursor may fail between any two rows.
DriverFails(o) ==
  /\ pc[o] = "sent"
  /\ Goto(o, "failed")
  /\ Deliver(Event(o, "error", 0))
  /\ UNCHANGED <<nextEventId, id, rows, yielded, received>>

ExecuteDone(o) ==
  /\ Kind[o] = "execute" /\ pc[o] = "sent"
  /\ Goto(o, "resolved")
  /\ Deliver(Event(o, "end", 0))
  /\ UNCHANGED <<nextEventId, id, rows, yielded, received>>

\* runQuery: the end event is emitted when the driver resolves, the rows are
\* transformed in a later microtask.
QueryDone(o) ==
  /\ Kind[o] = "query" /\ pc[o] = "sent"
  /\ Goto(o, "rows")
  /\ \E n \in 0..MaxRows : rows' = [rows EXCEPT ![o] = n] /\ Deliver(Event(o, "end", n))
  /\ UNCHANGED <<nextEventId, id, yielded, received>>

\* transform(rows), and runOne's check: may throw; drops rows or keeps them.
Transform(o) ==
  /\ Kind[o] = "query" /\ pc[o] = "rows"
  /\ \/ /\ Goto(o, "rejected")
        /\ UNCHANGED received
     \/ /\ Goto(o, "resolved")
        /\ \E n \in 0..rows[o] :
             /\ load.dropping \/ n = rows[o]
             /\ received' = [received EXCEPT ![o] = n]
  /\ rows' = [rows EXCEPT ![o] = 0]
  /\ UNCHANGED <<nextEventId, id, yielded, log, inFlight, span>>

\* runStream on a cursor: a row arrives, is transformed and counted; it goes to
\* the consumer unless the transform dropped it.
Row(o) ==
  /\ Kind[o] = "stream" /\ pc[o] = "sent" /\ yielded[o] < MaxRows
  /\ yielded' = [yielded EXCEPT ![o] = @ + 1]
  /\ \/ /\ Goto(o, "yield")
        /\ received' = [received EXCEPT ![o] = @ + 1]
     \/ /\ load.dropping
        /\ UNCHANGED <<pc, received>>
  /\ UNCHANGED <<nextEventId, id, rows, log, inFlight, span>>

\* The transform throws on a row of a cursor or on the buffered result.
TransformFails(o) ==
  /\ Kind[o] \in Streams /\ pc[o] = "sent"
  /\ Goto(o, "rejected")
  /\ Deliver(Event(o, "error", 0))
  /\ UNCHANGED <<nextEventId, id, rows, yielded, received>>

\* The cursor is exhausted.
Drained(o) ==
  /\ Kind[o] = "stream" /\ pc[o] = "sent"
  /\ Goto(o, "resolved")
  /\ Deliver(Event(o, "end", yielded[o]))
  /\ UNCHANGED <<nextEventId, id, rows, yielded, received>>

\* runStream without a cursor: the whole result is fetched and transformed.
Buffered(o) ==
  /\ Kind[o] = "buffered" /\ pc[o] = "sent"
  /\ Goto(o, "buffer")
  /\ \E n \in 0..MaxRows : rows' = [rows EXCEPT ![o] = n]
  /\ UNCHANGED <<nextEventId, id, yielded, received, log, inFlight, span>>

BufferedRow(o) ==
  /\ Kind[o] = "buffered" /\ pc[o] = "buffer"
  /\ IF rows[o] > 0
     THEN /\ Goto(o, "yield")
          /\ rows' = [rows EXCEPT ![o] = @ - 1]
          /\ yielded' = [yielded EXCEPT ![o] = @ + 1]
          /\ received' = [received EXCEPT ![o] = @ + 1]
          /\ UNCHANGED <<log, inFlight, span>>
     ELSE /\ Goto(o, "resolved")
          /\ Deliver(Event(o, "end", yielded[o]))
          /\ UNCHANGED <<rows, yielded, received>>
  /\ UNCHANGED <<nextEventId, id>>

\* The consumer asks for the next row.
Continue(o) ==
  /\ Kind[o] \in Streams /\ pc[o] = "yield"
  /\ Goto(o, IF Kind[o] = "stream" THEN "sent" ELSE "buffer")
  /\ UNCHANGED <<nextEventId, id, rows, yielded, received, log, inFlight, span>>

\* The consumer breaks out of its loop: `finally` emits the end event, or
\* `catch` an error event when closing the driver's cursor throws.
Break(o) ==
  /\ Kind[o] \in Streams /\ pc[o] = "yield"
  /\ \/ Goto(o, "resolved") /\ Deliver(Event(o, "end", yielded[o]))
     \/ Kind[o] = "stream" /\ Goto(o, "rejected") /\ Deliver(Event(o, "error", 0))
  /\ rows' = [rows EXCEPT ![o] = 0]
  /\ UNCHANGED <<nextEventId, id, yielded, received>>

\* The driver has its connection and has begun; it calls the body.
Begun(o) ==
  /\ Kind[o] = "transaction" /\ pc[o] = "sent"
  /\ Goto(o, "body")
  /\ UNCHANGED <<nextEventId, id, rows, yielded, received, log, inFlight, span>>

\* The body has settled, or the signal was aborted first (withSignal), and COMMIT
\* or ROLLBACK is answered: statements of the body may still be under way.
TxSettles(o) ==
  /\ Kind[o] = "transaction" /\ pc[o] = "body"
  /\ \/ Goto(o, "resolved") /\ Deliver(Event(o, "end", 0))
     \/ Goto(o, "rejected") /\ Deliver(Event(o, "error", 0))
  /\ UNCHANGED <<nextEventId, id, rows, yielded, received>>

-----------------------------------------------------------------------------

\* What the driver and the microtask queue owe an operation, and a consumer
\* that keeps iterating.
Advance(o) ==
  /\ UNCHANGED load
  /\ \/ ExecuteDone(o) \/ QueryDone(o) \/ Transform(o)
     \/ Drained(o) \/ Buffered(o) \/ BufferedRow(o) \/ Continue(o)
     \/ Begun(o) \/ TxSettles(o)

\* What the caller, a transform or a failing driver decides.
Decide(o) ==
  /\ UNCHANGED load
  /\ Start(o) \/ DriverFails(o) \/ Row(o) \/ TransformFails(o) \/ Break(o)

Operation(o) == Decide(o) \/ Advance(o)

AllSettled == (\A o \in Ops : pc[o] \in Settled \cup {"idle"}) /\ UNCHANGED vars

Next == (\E o \in Ops : Operation(o)) \/ AllSettled

Spec == Init /\ [][Next]_vars

FairSpec == Spec /\ \A o \in Ops : WF_vars(Advance(o))

-----------------------------------------------------------------------------
(* Properties *)

TypeOK ==
  /\ load \in Workloads
  /\ nextEventId \in 1..(Cardinality(Ops) + 1)
  /\ pc \in [Ops -> {"idle", "sent", "rows", "buffer", "yield", "body"} \cup Settled]
  /\ id \in [Ops -> Ids \cup {0}]
  /\ \A f \in {rows, yielded, received} : f \in [Ops -> 0..MaxRows]
  /\ log \in [Listeners -> Seq(Events)]
  /\ inFlight \subseteq Ids
  /\ span \in [Ids -> {"none", "live", "ok", "error"}]

Opened(o) == pc[o] # "idle"

\* A query has emitted its last event once the driver answered.
Reported(o) == pc[o] \in Settled \cup {"rows"}

\* Where a listener has seen an event under the id of an operation.
Seen(l, o) == {i \in DOMAIN log[l] : log[l][i].id = id[o]}

\* Whatever runs concurrently and whichever listener throws, every listener sees
\* under the id of an operation its start, then nothing until it is over, then
\* exactly one end or error, and never an event of another operation: "the
\* matching end / error event carries the same id".
Correlated ==
  \A l \in Listeners, o \in Ops : Opened(o) =>
    /\ \A i \in Seen(l, o) : log[l][i].op = o
    /\ \E first \in Seen(l, o) :
         /\ log[l][first].phase = "start"
         /\ IF Reported(o)
            THEN \E last \in Seen(l, o) :
                   /\ first < last /\ Seen(l, o) = {first, last}
                   /\ log[l][last].phase \in {"end", "error"}
            ELSE Seen(l, o) = {first}

\* The otel map holds ids of operations in progress only: it cannot grow without
\* bound, even when the tracer throws.
NoSpanLeak == \A i \in inFlight : \E o \in Ops : id[o] = i /\ Opened(o) /\ ~Reported(o)

\* A span that ended tells how the driver's work ended: never OK for an error
\* event, never an error for a stream or statement that resolved.
SpanTruth ==
  \A o \in Ops : Opened(o) =>
    /\ span[id[o]] = "ok" => Reported(o) /\ (Kind[o] # "query" => pc[o] = "resolved")
    /\ span[id[o]] = "error" => pc[o] \in {"rejected", "failed"}

\* Where a listener saw the event of a phase of an operation.
At(l, o, phases) == {i \in DOMAIN log[l] : log[l][i].op = o /\ log[l][i].phase \in phases}

\* "... the end event with the rows actually yielded so observers see accurate
\* rowCount" (runStream), for a consumer that breaks early as for one that
\* drains the stream.  A cursor counts a row before its transform is known to
\* keep it, so there a dropping transform makes the count too high, never too low.
AccurateRowCount ==
  \A l \in Listeners : \A i \in DOMAIN log[l] :
    LET e == log[l][i] IN
      Kind[e.op] \in Streams /\ e.phase = "end" =>
        /\ e.rowCount >= received[e.op]
        /\ (load.dropping /\ Kind[e.op] = "stream") \/ e.rowCount = received[e.op]

\* Every operation a listener saw start is reported to it as over.
EveryStartEnds ==
  \A l \in Listeners, o \in Ops :
    At(l, o, {"start"}) # {} ~> At(l, o, {"end", "error"}) # {}

-----------------------------------------------------------------------------
(* Why the properties hold: the inductive invariant behind them.              *)

\* The shared counter never hands out an id twice.
IdsOK ==
  /\ nextEventId = Cardinality({o \in Ops : Opened(o)}) + 1
  /\ \A o \in Ops : IF Opened(o) THEN id[o] \in 1..(nextEventId - 1) ELSE id[o] = 0
  /\ \A o, p \in Ops : Opened(o) /\ id[o] = id[p] => o = p

\* A listener has seen the start of every operation that was opened, the end or
\* error of every operation that is over, in this order, and nothing else; the
\* end of a stream carries the number of rows it has counted.
LogOK(l) ==
  /\ \A i \in 1..Len(log[l]) :
       LET e == log[l][i] IN
       /\ Opened(e.op) /\ e.id = id[e.op]
       /\ e.phase # "start" => Reported(e.op)
       /\ e.phase = "end" /\ Kind[e.op] \in Streams => e.rowCount = yielded[e.op]
  /\ \A i, j \in 1..Len(log[l]) :
       log[l][i].op = log[l][j].op /\ i < j =>
         log[l][i].phase = "start" /\ log[l][j].phase # "start"
  /\ \A o \in Ops :
       /\ Opened(o) => \E i \in 1..Len(log[l]) : log[l][i].op = o /\ log[l][i].phase = "start"
       /\ Reported(o) => \E i \in 1..Len(log[l]) : log[l][i].op = o /\ log[l][i].phase # "start"

\* A row is buffered, counted or handed out, within the bound; a row that was
\* counted was handed out, unless a transform dropped it on its way from a cursor.
RowsOK(o) ==
  /\ yielded[o] + rows[o] <= MaxRows
  /\ pc[o] \in {"idle", "sent"} \/ Kind[o] = "stream" => rows[o] = 0
  /\ pc[o] = "idle" \/ (Kind[o] # "stream" /\ pc[o] = "sent") \/ Kind[o] \notin Streams =>
       yielded[o] = 0
  /\ Kind[o] \in Streams =>
       /\ received[o] <= yielded[o]
       /\ (load.dropping /\ Kind[o] = "stream") \/ received[o] = yielded[o]

\* No span exists for an id that is still to be allocated.
SpansOK == \A i \in Ids : i >= nextEventId => span[i] = "none"

\* The inductive invariant of the events.
EventsInv ==
  /\ TypeOK /\ IdsOK
  /\ \A l \in Listeners : LogOK(l)
  /\ \A o \in Ops : RowsOK(o)
  /\ NoSpanLeak /\ SpansOK /\ SpanTruth
=============================================================================
