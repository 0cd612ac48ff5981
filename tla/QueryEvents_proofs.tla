------------------------- MODULE QueryEvents_proofs -------------------------
(***************************************************************************)
(* What listeners may rely on, for every number of operations, listeners   *)
(* and rows, and every mix of kinds and scopes: the events of an operation *)
(* correlate, spans do not leak and tell the truth, a stream reports the   *)
(* rows it yielded.                                                        *)
(***************************************************************************)
EXTENDS QueryEvents, FiniteSetTheorems, TLAPS

-----------------------------------------------------------------------------
(* What the steps have in common *)

Kinds == {"query", "execute", "stream", "buffered", "transaction"}
Places == {"idle", "sent", "rows", "buffer", "yield", "body"} \cup Settled

LEMMA LoadFacts ==
  ASSUME load \in Workloads
  PROVE  /\ Kind \in [Ops -> Kinds] /\ Scope \in [Ops -> Ops \cup {None}]
         /\ \A o \in Ops : Scope[o] # None =>
              Scope[o] \in Ops /\ Scope[o] # o /\ Kind[Scope[o]] = "transaction"
         /\ MaxRows \in Nat /\ IsFiniteSet(Ops) /\ Cardinality(Ops) \in Nat /\ None \notin Ops
BY EventsAssumption, FS_CardinalityType DEF Kind, Scope, Kinds

LEMMA RowFacts ==
  ASSUME TypeOK
  PROVE  rows \in [Ops -> 0..MaxRows] /\ yielded \in [Ops -> 0..MaxRows]
         /\ received \in [Ops -> 0..MaxRows] /\ pc \in [Ops -> Places]
BY DEF TypeOK, Places

\* A step of o moves o only.
Elsewhere(o) ==
  \A p \in Ops \ {o} : /\ pc'[p] = pc[p] /\ rows'[p] = rows[p]
                       /\ yielded'[p] = yielded[p] /\ received'[p] = received[p]

\* A step of o that no listener hears of.
Quiet(o) ==
  /\ pc[o] # "idle" /\ pc'[o] # "idle"
  /\ Reported(o)' <=> Reported(o)
  /\ Reported(o) => pc[o] = "rows" /\ Kind[o] = "query" /\ yielded'[o] = yielded[o]
  /\ UNCHANGED <<nextEventId, id, log, inFlight, span>>

\* A step of o that reports its work as over.
Emits(o, phase, n) ==
  /\ pc[o] \in {"sent", "yield", "buffer", "body"} /\ Reported(o)'
  /\ Deliver(Event(o, phase, n))
  /\ phase = "end" => Kind[o] = "query" \/ pc'[o] = "resolved"
  /\ phase = "error" => pc'[o] \in {"rejected", "failed"}
  /\ phase = "end" /\ Kind[o] \in Streams => n = yielded[o]
  /\ UNCHANGED <<nextEventId, id, yielded>>

Ends(o) == \E phase \in {"end", "error"}, n \in 0..MaxRows : Emits(o, phase, n)

Shape(o) == Start(o) \/ Quiet(o) \/ Ends(o)

\* The steps in which o reports its end.
LEMMA EndShape ==
  ASSUME EventsInv, NEW o \in Ops, NEW n \in 0..MaxRows, NEW where \in {"rows"} \cup Settled,
         pc[o] \in {"sent", "yield", "buffer", "body"}, Goto(o, where),
         UNCHANGED <<nextEventId, id, yielded>>,
         \/ /\ where \in {"rejected", "failed"} /\ Deliver(Event(o, "error", n))
         \/ /\ where = "resolved" \/ (where = "rows" /\ Kind[o] = "query")
            /\ Deliver(Event(o, "end", n))
            /\ Kind[o] \in Streams => n = yielded[o]
  PROVE  Ends(o)
<1>1. pc'[o] = where /\ Reported(o)'
  BY RowFacts DEF EventsInv, Goto, Reported, Settled
<1>2. CASE where \in {"rejected", "failed"} /\ Deliver(Event(o, "error", n))
  <2> Emits(o, "error", n)
    BY <1>1, <1>2 DEF Emits
  <2> QED
    BY DEF Ends
<1>3. CASE /\ where = "resolved" \/ (where = "rows" /\ Kind[o] = "query")
           /\ Deliver(Event(o, "end", n))
           /\ Kind[o] \in Streams => n = yielded[o]
  <2> Emits(o, "end", n)
    BY <1>1, <1>3 DEF Emits
  <2> QED
    BY DEF Ends
<1> QED
  BY <1>2, <1>3

LEMMA DecideShape ==
  ASSUME EventsInv, NEW o \in Ops, Decide(o)
  PROVE  Shape(o)
<1> USE RowFacts, LoadFacts DEF EventsInv, Goto
<1>t. TypeOK /\ load \in Workloads
  BY DEF TypeOK
<1>z. 0 \in 0..MaxRows
  BY <1>t
<1>1. CASE Start(o)
  BY <1>1 DEF Shape
<1>2. CASE DriverFails(o) \/ TransformFails(o)
  BY <1>z, <1>2, EndShape DEF DriverFails, TransformFails, Shape, Settled
<1>3. CASE Row(o)
  <2>1. pc[o] = "sent" /\ pc'[o] \in {"sent", "yield"}
    BY <1>3, <1>t DEF Row
  <2>2. Quiet(o)
    BY <2>1, <1>3 DEF Row, Quiet, Reported, Settled
  <2> QED
    BY <2>2 DEF Shape
<1>4. CASE Break(o)
  BY <1>z, <1>t, <1>4, EndShape DEF Break, Shape, Settled
<1> QED
  BY <1>1, <1>2, <1>3, <1>4 DEF Decide

LEMMA AdvanceShape ==
  ASSUME EventsInv, NEW o \in Ops, Advance(o)
  PROVE  Shape(o)
<1> USE RowFacts, LoadFacts DEF EventsInv, Goto
<1>t. TypeOK /\ load \in Workloads
  BY DEF TypeOK
<1>z. 0 \in 0..MaxRows /\ yielded[o] \in 0..MaxRows
  BY <1>t
<1>k. "execute" \notin Streams /\ "query" \notin Streams /\ "transaction" \notin Streams
  BY DEF Streams
<1>1. CASE ExecuteDone(o)
  BY <1>z, <1>k, <1>1, EndShape DEF ExecuteDone, Shape, Settled
<1>2. CASE QueryDone(o)
  <2> PICK n \in 0..MaxRows : Deliver(Event(o, "end", n))
    BY <1>2 DEF QueryDone
  <2> QED
    BY <1>k, <1>2, EndShape DEF QueryDone, Shape
<1>3. CASE Transform(o)
  <2>1. pc[o] = "rows" /\ pc'[o] \in Settled
    BY <1>3, <1>t DEF Transform, Settled
  <2>2. Quiet(o)
    BY <2>1, <1>3 DEF Transform, Quiet, Reported, Settled
  <2> QED
    BY <2>2 DEF Shape
<1>4. CASE Drained(o)
  BY <1>z, <1>4, EndShape DEF Drained, Shape, Settled
<1>5. CASE Buffered(o) \/ Continue(o) \/ Begun(o)
  <2>1. /\ pc[o] \in {"sent", "yield"} /\ pc'[o] \in {"sent", "buffer", "body"}
        /\ UNCHANGED <<nextEventId, id, log, inFlight, span>>
    BY <1>5, <1>t DEF Buffered, Continue, Begun
  <2>2. Quiet(o)
    BY <2>1 DEF Quiet, Reported, Settled
  <2> QED
    BY <2>2 DEF Shape
<1>6. CASE BufferedRow(o) /\ rows[o] > 0
  <2>1. pc[o] = "buffer" /\ pc'[o] = "yield"
    BY <1>6, <1>t DEF BufferedRow
  <2>2. Quiet(o)
    BY <2>1, <1>6 DEF BufferedRow, Quiet, Reported, Settled
  <2> QED
    BY <2>2 DEF Shape
<1>7. CASE BufferedRow(o) /\ ~(rows[o] > 0)
  BY <1>z, <1>7, EndShape DEF BufferedRow, Shape, Settled
<1>8. CASE TxSettles(o)
  BY <1>z, <1>k, <1>8, EndShape DEF TxSettles, Shape, Settled
<1> QED
  BY <1>1, <1>2, <1>3, <1>4, <1>5, <1>6, <1>7, <1>8 DEF Advance

\* Whatever the operation does, it starts, or stays silent, or reports its end.
LEMMA StepShape ==
  ASSUME EventsInv, NEW o \in Ops, Operation(o)
  PROVE  Shape(o) /\ UNCHANGED load
BY DecideShape, AdvanceShape DEF Operation, Decide, Advance

-----------------------------------------------------------------------------
(* Places and rows *)

Typed == /\ pc \in [Ops -> Places]
         /\ rows \in [Ops -> 0..MaxRows] /\ yielded \in [Ops -> 0..MaxRows]
         /\ received \in [Ops -> 0..MaxRows]

LEMMA DecideMoves ==
  ASSUME EventsInv, NEW o \in Ops, Decide(o)
  PROVE  Typed' /\ Elsewhere(o) /\ RowsOK(o)'
<1> USE DEF EventsInv, Typed, Elsewhere, RowsOK, Goto, Kind, Places, Settled, Streams
<1>t. /\ load \in Workloads /\ MaxRows \in Nat /\ load' = load
      /\ pc \in [Ops -> Places]
      /\ rows \in [Ops -> 0..MaxRows] /\ yielded \in [Ops -> 0..MaxRows]
      /\ received \in [Ops -> 0..MaxRows]
  BY RowFacts, EventsAssumption DEF TypeOK, Decide
<1>r. RowsOK(o)
  OBVIOUS
<1>1. CASE Start(o)
  BY <1>1, <1>t, <1>r DEF Start
<1>2. CASE DriverFails(o) \/ TransformFails(o)
  BY <1>2, <1>t, <1>r DEF DriverFails, TransformFails
<1>3. CASE Row(o)
  <2>1. /\ Kind[o] = "stream" /\ pc[o] = "sent" /\ yielded[o] < MaxRows
        /\ yielded' = [yielded EXCEPT ![o] = yielded[o] + 1] /\ rows' = rows
        /\ rows[o] = 0 /\ yielded[o] \in 0..MaxRows /\ received[o] \in 0..MaxRows
        /\ received[o] <= yielded[o] /\ (load.dropping \/ received[o] = yielded[o])
    BY <1>3, <1>t, <1>r DEF Row
  <2>2. \/ pc' = [pc EXCEPT ![o] = "yield"] /\ received' = [received EXCEPT ![o] = received[o] + 1]
        \/ load.dropping /\ pc' = pc /\ received' = received
    BY <1>3 DEF Row
  <2>3. Typed' /\ Elsewhere(o)
    <3>1. yielded' \in [Ops -> 0..MaxRows] /\ received[o] + 1 \in 0..MaxRows
      BY <1>t, <2>1
    <3>2. received' \in [Ops -> 0..MaxRows] /\ pc' \in [Ops -> Places]
      BY <1>t, <2>2, <3>1
    <3>3. Elsewhere(o)
      BY <1>t, <2>1, <2>2
    <3> QED
      BY <1>t, <2>1, <3>1, <3>2, <3>3
  <2>4. /\ yielded'[o] = yielded[o] + 1 /\ rows'[o] = 0
        /\ received'[o] <= yielded'[o] /\ (load.dropping \/ received'[o] = yielded'[o])
    BY <1>t, <2>1, <2>2
  <2>5. pc'[o] \in {"sent", "yield"}
    BY <1>t, <2>1, <2>2
  <2> QED
    BY <1>t, <2>1, <2>3, <2>4, <2>5
<1>4. CASE Break(o)
  BY <1>4, <1>t, <1>r DEF Break
<1> QED
  BY <1>1, <1>2, <1>3, <1>4 DEF Decide

LEMMA AdvanceMoves ==
  ASSUME EventsInv, NEW o \in Ops, Advance(o)
  PROVE  Typed' /\ Elsewhere(o) /\ RowsOK(o)'
<1> USE DEF EventsInv, Typed, Elsewhere, RowsOK, Goto, Kind, Places, Settled, Streams
<1>t. /\ load \in Workloads /\ MaxRows \in Nat /\ load' = load
      /\ pc \in [Ops -> Places]
      /\ rows \in [Ops -> 0..MaxRows] /\ yielded \in [Ops -> 0..MaxRows]
      /\ received \in [Ops -> 0..MaxRows]
  BY RowFacts, EventsAssumption DEF TypeOK, Advance
<1>r. RowsOK(o)
  OBVIOUS
<1>1. CASE ExecuteDone(o) \/ Drained(o) \/ Begun(o) \/ TxSettles(o)
  BY <1>1, <1>t, <1>r DEF ExecuteDone, Drained, Begun, TxSettles
<1>2. CASE QueryDone(o)
  <2>1. PICK n \in 0..MaxRows : rows' = [rows EXCEPT ![o] = n]
    BY <1>2 DEF QueryDone
  <2>2. Kind[o] = "query" /\ pc' = [pc EXCEPT ![o] = "rows"] /\ UNCHANGED <<yielded, received>>
    BY <1>2 DEF QueryDone
  <2>3. yielded[o] = 0 /\ rows'[o] \in 0..MaxRows /\ pc'[o] = "rows"
    BY <1>t, <1>r, <2>1, <2>2
  <2> QED
    BY <1>t, <2>1, <2>2, <2>3
<1>3. CASE Transform(o)
  <2>1. Kind[o] = "query" /\ pc[o] = "rows" /\ rows' = [rows EXCEPT ![o] = 0] /\ yielded' = yielded
    BY <1>3 DEF Transform
  <2>2. PICK n \in 0..MaxRows : received' = [received EXCEPT ![o] = n] \/ received' = received
    <3>1. rows[o] \in 0..MaxRows
      BY <1>t
    <3>2. 0 \in 0..MaxRows /\ \A n \in 0..rows[o] : n \in 0..MaxRows
      BY <1>t, <3>1
    <3> QED
      BY <3>2, <1>3 DEF Transform
  <2>3. \E where \in {"rejected", "resolved"} : pc' = [pc EXCEPT ![o] = where]
    BY <1>3 DEF Transform
  <2>4. yielded[o] = 0 /\ rows'[o] = 0 /\ pc'[o] \in {"rejected", "resolved"}
    BY <1>t, <1>r, <2>1, <2>3
  <2>5. Typed' /\ Elsewhere(o)
    BY <1>t, <2>1, <2>2, <2>3
  <2> QED
    BY <1>t, <2>1, <2>4, <2>5
<1>4. CASE Buffered(o)
  BY <1>4, <1>t, <1>r DEF Buffered
<1>5. CASE BufferedRow(o) /\ rows[o] > 0
  <2>1. /\ Kind[o] = "buffered" /\ pc[o] = "buffer" /\ pc' = [pc EXCEPT ![o] = "yield"]
        /\ rows' = [rows EXCEPT ![o] = rows[o] - 1]
        /\ yielded' = [yielded EXCEPT ![o] = yielded[o] + 1]
        /\ received' = [received EXCEPT ![o] = received[o] + 1]
        /\ rows[o] \in 1..MaxRows /\ yielded[o] \in 0..MaxRows
        /\ received[o] = yielded[o] /\ yielded[o] + rows[o] <= MaxRows
    BY <1>5, <1>t, <1>r DEF BufferedRow
  <2>2. rows[o] - 1 \in 0..MaxRows /\ yielded[o] + 1 \in 0..MaxRows
        /\ received[o] + 1 \in 0..MaxRows
    BY <1>t, <2>1
  <2>3. /\ rows' \in [Ops -> 0..MaxRows] /\ yielded' \in [Ops -> 0..MaxRows]
        /\ received' \in [Ops -> 0..MaxRows] /\ pc' \in [Ops -> Places]
    BY <1>t, <2>1, <2>2
  <2>4. Elsewhere(o)
    BY <1>t, <2>1
  <2>5. /\ pc'[o] = "yield" /\ rows'[o] = rows[o] - 1
        /\ yielded'[o] = yielded[o] + 1 /\ received'[o] = received[o] + 1
    BY <1>t, <2>1
  <2> QED
    BY <1>t, <2>1, <2>3, <2>4, <2>5
<1>7. CASE BufferedRow(o) /\ ~(rows[o] > 0)
  BY <1>7, <1>t, <1>r DEF BufferedRow
<1>6. CASE Continue(o)
  BY <1>6, <1>t, <1>r DEF Continue
<1> QED
  BY <1>1, <1>2, <1>3, <1>4, <1>5, <1>6, <1>7 DEF Advance

\* A row is counted when it is handed out or dropped, one operation at a time.
LEMMA MovesStep ==
  ASSUME EventsInv, NEW o \in Ops, Operation(o)
  PROVE  Typed' /\ Elsewhere(o) /\ \A p \in Ops : RowsOK(p)'
<1>1. Typed' /\ Elsewhere(o) /\ RowsOK(o)' /\ load' = load
  BY DecideMoves, AdvanceMoves DEF Operation, Decide, Advance
<1>2. ASSUME NEW p \in Ops \ {o}
      PROVE  RowsOK(p)'
  BY <1>1 DEF Elsewhere, EventsInv, RowsOK, Kind
<1> QED
  BY <1>1, <1>2

-----------------------------------------------------------------------------
(* Ids *)

\* The operations that have an id.
Begins == {o \in Ops : Opened(o)}

LEMMA IdsStep ==
  ASSUME EventsInv, NEW o \in Ops, Shape(o), Elsewhere(o)
  PROVE  /\ IdsOK' /\ nextEventId' \in 1..(Cardinality(Ops) + 1)
         /\ id' \in [Ops -> Ids \cup {0}]
<1>t. /\ load \in Workloads /\ IsFiniteSet(Ops) /\ Cardinality(Ops) \in Nat
      /\ nextEventId \in 1..(Cardinality(Ops) + 1) /\ id \in [Ops -> Ids \cup {0}]
      /\ nextEventId = Cardinality(Begins) + 1
      /\ \A p \in Ops : IF Opened(p) THEN id[p] \in 1..(nextEventId - 1) ELSE id[p] = 0
      /\ \A p, q \in Ops : Opened(p) /\ id[p] = id[q] => p = q
  BY LoadFacts DEF EventsInv, TypeOK, IdsOK, Begins
<1>1. CASE Start(o)
  <2>1. /\ ~Opened(o) /\ Opened(o)' /\ o \notin Begins
        /\ nextEventId' = nextEventId + 1 /\ id' = [id EXCEPT ![o] = nextEventId]
    BY <1>1, RowFacts DEF Start, Opened, Goto, EventsInv, Begins
  <2>2. \A p \in Ops : Opened(p)' <=> p = o \/ Opened(p)
    BY <2>1 DEF Elsewhere, Opened
  <2>3. Begins' = Begins \cup {o}
    BY <2>2 DEF Begins
  <2>4. IsFiniteSet(Begins)
    BY <1>t, FS_Subset DEF Begins
  <2>5. Cardinality(Begins') = Cardinality(Begins) + 1
    BY <2>1, <2>3, <2>4, FS_AddElement
  <2>6. Cardinality(Begins') <= Cardinality(Ops) /\ Cardinality(Begins) \in Nat
    BY <1>t, <2>4, <2>3, FS_Subset, FS_CardinalityType DEF Begins
  <2>7. nextEventId' = Cardinality(Begins') + 1
        /\ nextEventId' \in 1..(Cardinality(Ops) + 1) /\ nextEventId \in Ids
    BY <1>t, <2>1, <2>5, <2>6 DEF Ids
  <2>8. id' \in [Ops -> Ids \cup {0}]
    BY <1>t, <2>1, <2>7
  <2>9. /\ \A p \in Ops : IF Opened(p)' THEN id'[p] \in 1..(nextEventId' - 1) ELSE id'[p] = 0
        /\ \A p, q \in Ops : Opened(p)' /\ id'[p] = id'[q] => p = q
    BY <1>t, <2>1, <2>2
  <2> QED
    BY <2>7, <2>8, <2>9 DEF IdsOK, Begins
<1>2. CASE Quiet(o) \/ Ends(o)
  <2>1. UNCHANGED <<nextEventId, id>> /\ Opened(o) /\ Opened(o)'
    BY <1>2 DEF Quiet, Ends, Emits, Opened, Reported, Settled
  <2>2. \A p \in Ops : Opened(p)' <=> Opened(p)
    BY <2>1 DEF Elsewhere, Opened
  <2>3. Begins' = Begins
    BY <2>2 DEF Begins
  <2> QED
    BY <1>t, <2>1, <2>2, <2>3 DEF IdsOK, Begins
<1> QED
  BY <1>1, <1>2 DEF Shape

-----------------------------------------------------------------------------
(* What the listeners see *)

\* What a step that emits e does to the log of a listener.
LEMMA AppendFacts ==
  ASSUME NEW s \in Seq(Events), NEW e \in Events
  PROVE  /\ Append(s, e) \in Seq(Events) /\ Len(Append(s, e)) = Len(s) + 1
         /\ Len(s) \in Nat /\ Append(s, e)[Len(s) + 1] = e
         /\ \A i \in 1..Len(s) : Append(s, e)[i] = s[i] /\ s[i] \in Events
OBVIOUS

StartEvent(o) == [op |-> o, id |-> nextEventId, phase |-> "start", rowCount |-> 0]

\* The events a step of o emits, if it emits any, are events of o under its id.
LEMMA EmittedEvents ==
  ASSUME EventsInv, NEW o \in Ops, Elsewhere(o), IdsOK', Typed',
         nextEventId' \in 1..(Cardinality(Ops) + 1)
  PROVE  /\ Start(o) => StartEvent(o) \in Events
         /\ \A phase \in {"end", "error"}, n \in 0..MaxRows :
              Emits(o, phase, n) => Event(o, phase, n) \in Events
<1>t. /\ MaxRows \in Nat /\ Cardinality(Ops) \in Nat /\ nextEventId \in 1..(Cardinality(Ops) + 1)
      /\ \A p \in Ops : Opened(p) => id[p] \in 1..(nextEventId - 1)
  BY LoadFacts DEF EventsInv, TypeOK, IdsOK
<1>1. Start(o) => nextEventId \in Ids
  BY <1>t DEF Start, Ids
<1>2. ASSUME NEW phase \in {"end", "error"}, NEW n \in 0..MaxRows, Emits(o, phase, n)
      PROVE  Event(o, phase, n) \in Events
  <2> id[o] \in Ids
    BY <1>t, <1>2 DEF Emits, Opened, Ids
  <2> QED
    BY DEF Event, Events
<1>3. 0 \in 0..MaxRows
  BY <1>t
<1> QED
  BY <1>1, <1>2, <1>3 DEF StartEvent, Events

\* One event of a log, as LogOK describes it.
EventOK(l, i) ==
  LET e == log[l][i] IN
    /\ Opened(e.op) /\ e.id = id[e.op]
    /\ e.phase # "start" => Reported(e.op)
    /\ e.phase = "end" /\ Kind[e.op] \in Streams => e.rowCount = yielded[e.op]

\* LogOK in parts.
LogEvents(l) == \A i \in 1..Len(log[l]) : EventOK(l, i)
LogOrder(l) ==
  \A i, j \in 1..Len(log[l]) :
    log[l][i].op = log[l][j].op /\ i < j => log[l][i].phase = "start" /\ log[l][j].phase # "start"
LogKnows(l, o) ==
  /\ Opened(o) => \E i \in 1..Len(log[l]) : log[l][i].op = o /\ log[l][i].phase = "start"
  /\ Reported(o) => \E i \in 1..Len(log[l]) : log[l][i].op = o /\ log[l][i].phase # "start"

LEMMA LogParts ==
  ASSUME NEW l \in Listeners
  PROVE  LogOK(l) <=> LogEvents(l) /\ LogOrder(l) /\ \A o \in Ops : LogKnows(l, o)
BY DEF LogOK, LogEvents, LogOrder, LogKnows, EventOK

\* The log after an event e of o: LogOK holds if e is the start of an operation
\* that was not opened, or the end of one that was and is over now.
LEMMA LogAppend ==
  ASSUME EventsInv, NEW o \in Ops, Elsewhere(o), NEW l \in Listeners, NEW e \in Events,
         log'[l] = Append(log[l], e), load' = load, Opened(o)',
         e.op = o, e.id = id'[o], ~Reported(o),
         \A p \in Ops : p # o => id'[p] = id[p],
         \/ e.phase = "start" /\ ~Opened(o) /\ ~Reported(o)'
         \/ /\ e.phase # "start" /\ Opened(o) /\ Reported(o)' /\ id' = id
            /\ yielded' = yielded
            /\ e.phase = "end" /\ Kind[o] \in Streams => e.rowCount = yielded[o]
  PROVE  LogOK(l)'
<1> DEFINE s == log[l]
           n == Len(s)
<1>s. s \in Seq(Events) /\ Seq(Events) = Seq(Events)'
  BY DEF EventsInv, TypeOK, Events, Ids
<1>a. /\ Len(log'[l]) = n + 1 /\ n \in Nat /\ log'[l][n + 1] = e
      /\ \A i \in 1..n : log'[l][i] = log[l][i] /\ log[l][i] \in Events
      /\ \A i \in 1..(n + 1) : i \in 1..n \/ i = n + 1
  BY <1>s, AppendFacts
<1>e. \A f \in Events : f.op \in Ops
  BY DEF Events
<1>p. \A p \in Ops : p # o =>
        /\ (Opened(p)' <=> Opened(p)) /\ (Reported(p)' <=> Reported(p))
        /\ yielded'[p] = yielded[p]
  BY DEF Elsewhere, Opened, Reported
<1>l. LogOK(l)
  BY DEF EventsInv
<1>k. Kind' = Kind
  BY DEF Kind
\* Before the step the log had no event of o, or just its start.
<1>o. \A i \in 1..n : log[l][i].op = o =>
        Opened(o) /\ log[l][i].phase = "start" /\ log[l][i].id = id[o]
  BY <1>l DEF LogOK
<1>1. ASSUME NEW i \in 1..(n + 1)
      PROVE  EventOK(l, i)'
  <2>1. CASE i = n + 1
    BY <2>1, <1>a, <1>k DEF EventOK, Opened, Reported
  <2>2. CASE i \in 1..n
    <3>1. log'[l][i] = log[l][i] /\ log[l][i].op \in Ops
      BY <2>2, <1>a, <1>e
    <3>2. CASE log[l][i].op = o
      BY <3>1, <3>2, <2>2, <1>o DEF EventOK, Opened, Reported
    <3>3. CASE log[l][i].op # o
      <4>1. EventOK(l, i)
        BY <2>2, <1>l DEF LogOK, EventOK
      <4> QED
        BY <3>1, <3>3, <4>1, <1>p, <1>k DEF EventOK, Opened, Reported
    <3> QED
      BY <3>2, <3>3
  <2> QED
    BY <2>1, <2>2, <1>a
<1>2. ASSUME NEW i \in 1..(n + 1), NEW j \in 1..(n + 1), log'[l][i].op = log'[l][j].op, i < j
      PROVE  log'[l][i].phase = "start" /\ log'[l][j].phase # "start"
  <2>1. i \in 1..n
    BY <1>2, <1>a
  <2>2. CASE j \in 1..n
    BY <2>1, <2>2, <1>2, <1>a, <1>l DEF LogOK
  <2>3. CASE j = n + 1
    <3>1. log[l][i].op = o
      BY <2>1, <2>3, <1>2, <1>a
    <3> QED
      BY <2>1, <2>3, <3>1, <1>a, <1>o
  <2> QED
    BY <2>2, <2>3, <1>a
<1>3. ASSUME NEW p \in Ops
      PROVE  /\ Opened(p)' => \E i \in 1..(n + 1) : log'[l][i].op = p /\ log'[l][i].phase = "start"
             /\ Reported(p)' => \E i \in 1..(n + 1) : log'[l][i].op = p /\ log'[l][i].phase # "start"
  <2>1. \A i \in 1..n : i \in 1..(n + 1) /\ log'[l][i] = log[l][i]
    BY <1>a
  <2>2. n + 1 \in 1..(n + 1)
    BY <1>a
  <2>3. CASE p # o
    BY <2>1, <2>3, <1>l, <1>p DEF LogOK
  <2>4. CASE p = o
    BY <2>1, <2>2, <2>4, <1>a, <1>l DEF LogOK
  <2> QED
    BY <2>3, <2>4
<1> HIDE DEF s, n
<1> QED
  <2>1. LogEvents(l)'
    BY <1>a, <1>1 DEF LogEvents
  <2>2. LogOrder(l)'
    BY <1>a, <1>2 DEF LogOrder
  <2>3. \A p \in Ops : LogKnows(l, p)'
    BY <1>a, <1>3 DEF LogKnows
  <2> QED
    BY <2>1, <2>2, <2>3 DEF LogOK, LogEvents, LogOrder, LogKnows, EventOK

LEMMA LogStep ==
  ASSUME EventsInv, NEW o \in Ops, Shape(o), Elsewhere(o), load' = load, IdsOK', Typed',
         nextEventId' \in 1..(Cardinality(Ops) + 1)
  PROVE  log' \in [Listeners -> Seq(Events)] /\ \A l \in Listeners : LogOK(l)'
<1>t. log \in [Listeners -> Seq(Events)] /\ load \in Workloads /\ id \in [Ops -> Ids \cup {0}]
  BY DEF EventsInv, TypeOK
<1>1. CASE Start(o)
  <2>1. /\ StartEvent(o) \in Events /\ Deliver(StartEvent(o)) /\ id' = [id EXCEPT ![o] = nextEventId]
        /\ pc[o] = "idle" /\ pc'[o] = "sent"
    BY <1>1, EmittedEvents, RowFacts DEF Start, StartEvent, EventsInv, Goto
  <2>2. \A l \in Listeners : log'[l] = Append(log[l], StartEvent(o))
    BY <2>1 DEF Deliver
  <2>3. log' \in [Listeners -> Seq(Events)]
    BY <1>t, <2>1, AppendFacts DEF Deliver
  <2>4. ~Opened(o) /\ Opened(o)' /\ ~Reported(o) /\ ~Reported(o)'
    BY <2>1 DEF Opened, Reported, Settled
  <2>5. id'[o] = nextEventId /\ \A p \in Ops : p # o => id'[p] = id[p]
    BY <1>t, <2>1
  <2>6. StartEvent(o).op = o /\ StartEvent(o).phase = "start" /\ StartEvent(o).id = id'[o]
    BY <2>5 DEF StartEvent
  <2> QED
    BY <2>1, <2>2, <2>3, <2>4, <2>5, <2>6, LogAppend
<1>2. CASE Quiet(o)
  <2>1. /\ log' = log /\ id' = id
        /\ \A p \in Ops : (Opened(p)' <=> Opened(p)) /\ (Reported(p)' <=> Reported(p))
        /\ \A p \in Ops : Reported(p) => yielded'[p] = yielded[p]
    BY <1>2 DEF Quiet, Elsewhere, Opened, Reported
  <2>2. Kind' = Kind
    BY DEF Kind
  <2>3. ASSUME NEW l \in Listeners
        PROVE  LogOK(l)'
    <3>1. log[l] \in Seq(Events) /\ log'[l] = log[l]
      BY <1>t, <2>1
    <3>2. LogOK(l) /\ \A i \in 1..Len(log[l]) : log[l][i] \in Events
      BY <3>1 DEF EventsInv
    <3>3. \A i \in 1..Len(log[l]) : log[l][i].op \in Ops
      BY <3>2 DEF Events
    <3> QED
      <4>1. LogEvents(l)'
        BY <3>1, <3>2, <3>3, <2>1, <2>2, LogParts DEF LogEvents, EventOK
      <4>2. LogOrder(l)'
        BY <3>1, <3>2, LogParts DEF LogOrder
      <4>3. \A p \in Ops : LogKnows(l, p)'
        BY <3>1, <3>2, <2>1, LogParts DEF LogKnows
      <4> QED
        BY <4>1, <4>2, <4>3 DEF LogOK, LogEvents, LogOrder, LogKnows, EventOK
  <2> QED
    BY <1>t, <2>1, <2>3
<1>3. CASE Ends(o)
  <2> PICK phase \in {"end", "error"}, n \in 0..MaxRows : Emits(o, phase, n)
    BY <1>3 DEF Ends
  <2> DEFINE e == Event(o, phase, n)
  <2>1. e \in Events /\ Deliver(e)
    BY EmittedEvents DEF Emits
  <2>2. \A l \in Listeners : log'[l] = Append(log[l], e)
    BY <2>1 DEF Deliver
  <2>3. log' \in [Listeners -> Seq(Events)]
    BY <1>t, <2>1, AppendFacts DEF Deliver
  <2>4. Opened(o) /\ ~Reported(o) /\ Reported(o)' /\ Opened(o)' /\ id' = id /\ yielded' = yielded
    BY DEF Emits, Opened, Reported, Settled
  <2>5. /\ e.op = o /\ e.id = id'[o] /\ e.phase # "start"
        /\ e.phase = "end" /\ Kind[o] \in Streams => e.rowCount = yielded[o]
    BY <2>4 DEF Emits, Event
  <2> HIDE DEF e
  <2> QED
    BY <2>1, <2>2, <2>3, <2>4, <2>5, LogAppend
<1> QED
  BY <1>1, <1>2, <1>3 DEF Shape

-----------------------------------------------------------------------------
(* Spans *)

SpanFacts == inFlight \subseteq Ids /\ span \in [Ids -> {"none", "live", "ok", "error"}]

\* What the otel listener does to the map and to the span of the id of an event.
LEMMA TraceFacts ==
  ASSUME SpanFacts, NEW e \in Events, NEW throws \in BOOLEAN, Trace(e, throws)
  PROVE  /\ SpanFacts'
         /\ \A i \in Ids : i # e.id => span'[i] = span[i] /\ (i \in inFlight' <=> i \in inFlight)
         /\ e.phase = "start" =>
              /\ span'[e.id] \in {span[e.id], "live"}
              /\ e.id \in inFlight' => e.id \in inFlight \/ ~throws
         /\ e.phase # "start" =>
              /\ e.id \notin inFlight'
              /\ span'[e.id] \in {span[e.id], "live", IF e.phase = "end" THEN "ok" ELSE "error"}
<1>e. e.id \in Ids
  BY DEF Events
<1>1. CASE e.phase = "start" /\ throws
  BY <1>e, <1>1 DEF Trace, SpanFacts, Ids
<1>2. CASE e.phase = "start" /\ ~throws
  <2>1. inFlight' = inFlight \cup {e.id} /\ span' = [span EXCEPT ![e.id] = "live"]
    BY <1>2 DEF Trace
  <2> QED
    BY <1>e, <1>2, <2>1 DEF SpanFacts, Ids
<1>3. CASE e.phase # "start" /\ e.id \in inFlight
  <2>1. /\ inFlight' = inFlight \ {e.id}
        /\ span' = [span EXCEPT ![e.id] =
                      IF throws THEN "live" ELSE IF e.phase = "end" THEN "ok" ELSE "error"]
    BY <1>3 DEF Trace
  <2> QED
    BY <1>e, <1>3, <2>1 DEF SpanFacts, Ids
<1>4. CASE e.phase # "start" /\ e.id \notin inFlight
  BY <1>e, <1>4 DEF Trace, SpanFacts, Ids
<1> QED
  BY <1>1, <1>2, <1>3, <1>4

LEMMA SpanStart ==
  ASSUME EventsInv, NEW o \in Ops, Start(o), Elsewhere(o), load' = load, IdsOK', Typed',
         nextEventId' \in 1..(Cardinality(Ops) + 1)
  PROVE  SpanFacts' /\ NoSpanLeak' /\ SpansOK' /\ SpanTruth'
<1> DEFINE e == StartEvent(o)
<1>1. /\ e \in Events /\ Deliver(e) /\ nextEventId' = nextEventId + 1
      /\ id' = [id EXCEPT ![o] = nextEventId] /\ pc[o] = "idle" /\ pc'[o] = "sent"
  BY EmittedEvents, RowFacts DEF Start, StartEvent, EventsInv, Goto
<1>2. /\ SpanFacts /\ id \in [Ops -> Ids \cup {0}] /\ nextEventId \in Nat \ {0}
      /\ Cardinality(Ops) \in Nat
  BY LoadFacts DEF EventsInv, TypeOK, SpanFacts
<1>3. e.id = nextEventId /\ e.phase = "start" /\ nextEventId \in Ids
  BY <1>1 DEF StartEvent, Events
<1>i. \A i \in Ids : i \in Nat
  BY DEF Ids
<1> HIDE DEF e
<1>4. /\ SpanFacts'
      /\ \A i \in Ids : i # nextEventId => span'[i] = span[i] /\ (i \in inFlight' <=> i \in inFlight)
      /\ span'[nextEventId] \in {span[nextEventId], "live"}
  BY <1>1, <1>2, <1>3, TraceFacts DEF Deliver
<1>5. /\ id'[o] = nextEventId /\ Opened(o)' /\ ~Reported(o)' /\ ~Opened(o)
      /\ \A p \in Ops : p # o => /\ id'[p] = id[p] /\ pc'[p] = pc[p]
                               /\ (Opened(p)' <=> Opened(p)) /\ (Reported(p)' <=> Reported(p))
  BY <1>1, <1>2 DEF Elsewhere, Opened, Reported, Settled
<1>6. NoSpanLeak'
  <2> SUFFICES ASSUME NEW i \in inFlight'
               PROVE  \E p \in Ops : id'[p] = i /\ Opened(p)' /\ ~Reported(p)'
    BY DEF NoSpanLeak
  <2>1. CASE i = nextEventId
    BY <2>1, <1>5
  <2>2. CASE i # nextEventId
    <3>1. i \in inFlight
      BY <2>2, <1>4 DEF SpanFacts, Ids
    <3>2. PICK p \in Ops : id[p] = i /\ Opened(p) /\ ~Reported(p)
      BY <3>1 DEF EventsInv, NoSpanLeak
    <3> QED
      BY <3>2, <1>5
  <2> QED
    BY <2>1, <2>2
<1>7. SpansOK'
  BY <1>1, <1>2, <1>i, <1>4 DEF EventsInv, SpansOK, Ids
<1>8. SpanTruth'
  <2> SUFFICES ASSUME NEW p \in Ops, Opened(p)'
               PROVE  /\ span'[id'[p]] = "ok" => Reported(p)' /\ (Kind[p]' # "query" => pc'[p] = "resolved")
                      /\ span'[id'[p]] = "error" => pc'[p] \in {"rejected", "failed"}
    BY DEF SpanTruth
  <2>1. CASE p = o
    <3> span[nextEventId] = "none"
      BY <1>2, <1>3 DEF EventsInv, SpansOK
    <3> QED
      BY <2>1, <1>4, <1>5
  <2>2. CASE p # o
    <3>1. Opened(p) /\ id[p] \in 1..(nextEventId - 1)
      BY <2>2, <1>5 DEF EventsInv, IdsOK
    <3>2. id[p] \in Ids /\ id[p] # nextEventId
      BY <3>1, <1>2
    <3> QED
      BY <2>2, <3>1, <3>2, <1>4, <1>5 DEF EventsInv, SpanTruth, Kind
  <2> QED
    BY <2>1, <2>2
<1> QED
  BY <1>4, <1>6, <1>7, <1>8

LEMMA SpanEnds ==
  ASSUME EventsInv, NEW o \in Ops, Ends(o), Elsewhere(o), load' = load, IdsOK', Typed',
         nextEventId' \in 1..(Cardinality(Ops) + 1)
  PROVE  SpanFacts' /\ NoSpanLeak' /\ SpansOK' /\ SpanTruth'
<1> PICK phase \in {"end", "error"}, n \in 0..MaxRows : Emits(o, phase, n)
  BY DEF Ends
<1> DEFINE e == Event(o, phase, n)
<1>1. /\ e \in Events /\ Deliver(e) /\ nextEventId' = nextEventId /\ id' = id
      /\ Opened(o) /\ ~Reported(o) /\ Opened(o)' /\ Reported(o)'
      /\ phase = "end" => Kind[o] = "query" \/ pc'[o] = "resolved"
      /\ phase = "error" => pc'[o] \in {"rejected", "failed"}
  BY EmittedEvents DEF Emits, Opened, Reported, Settled
<1>2. SpanFacts /\ id \in [Ops -> Ids \cup {0}] /\ nextEventId \in Nat \ {0}
  BY LoadFacts DEF EventsInv, TypeOK, SpanFacts
<1>3. e.id = id[o] /\ e.phase = phase /\ id[o] \in Ids /\ id[o] < nextEventId
  BY <1>1, <1>2 DEF Event, EventsInv, IdsOK, Events
<1>i. \A i \in Ids : i \in Nat
  BY DEF Ids
<1> HIDE DEF e
<1>4. /\ SpanFacts' /\ id[o] \notin inFlight'
      /\ \A i \in Ids : i # id[o] => span'[i] = span[i] /\ (i \in inFlight' <=> i \in inFlight)
      /\ span'[id[o]] \in {span[id[o]], "live", IF phase = "end" THEN "ok" ELSE "error"}
  BY <1>1, <1>2, <1>3, TraceFacts DEF Deliver
<1>5. \A p \in Ops : p # o => /\ pc'[p] = pc[p]
                            /\ (Opened(p)' <=> Opened(p)) /\ (Reported(p)' <=> Reported(p))
  BY DEF Elsewhere, Opened, Reported
<1>6. NoSpanLeak'
  <2> SUFFICES ASSUME NEW i \in inFlight'
               PROVE  \E p \in Ops : id'[p] = i /\ Opened(p)' /\ ~Reported(p)'
    BY DEF NoSpanLeak
  <2>1. i \in inFlight /\ i # id[o]
    BY <1>4 DEF SpanFacts, Ids
  <2>2. PICK p \in Ops : id[p] = i /\ Opened(p) /\ ~Reported(p)
    BY <2>1 DEF EventsInv, NoSpanLeak
  <2> QED
    BY <2>1, <2>2, <1>1, <1>5
<1>7. SpansOK'
  BY <1>1, <1>2, <1>3, <1>i, <1>4 DEF EventsInv, SpansOK, Ids
<1>8. SpanTruth'
  <2> SUFFICES ASSUME NEW p \in Ops, Opened(p)'
               PROVE  /\ span'[id'[p]] = "ok" => Reported(p)' /\ (Kind[p]' # "query" => pc'[p] = "resolved")
                      /\ span'[id'[p]] = "error" => pc'[p] \in {"rejected", "failed"}
    BY DEF SpanTruth
  <2>1. CASE p = o
    <3>1. span[id[o]] = "ok" => FALSE
      BY <1>1 DEF EventsInv, SpanTruth
    <3>2. span[id[o]] = "error" => FALSE
      BY <1>1 DEF EventsInv, SpanTruth, Reported, Settled
    <3> QED
      BY <2>1, <3>1, <3>2, <1>1, <1>4 DEF Kind
  <2>2. CASE p # o
    <3>1. Opened(p) /\ id[p] \in 1..(nextEventId - 1) /\ id[p] # id[o]
      BY <2>2, <1>5 DEF EventsInv, IdsOK
    <3>2. id[p] \in Ids
      BY <3>1, <1>2
    <3> QED
      BY <2>2, <3>1, <3>2, <1>1, <1>4, <1>5 DEF EventsInv, SpanTruth, Kind
  <2> QED
    BY <2>1, <2>2
<1> QED
  BY <1>4, <1>6, <1>7, <1>8

LEMMA SpanStep ==
  ASSUME EventsInv, NEW o \in Ops, Shape(o), Elsewhere(o), load' = load, IdsOK', Typed',
         nextEventId' \in 1..(Cardinality(Ops) + 1)
  PROVE  SpanFacts' /\ NoSpanLeak' /\ SpansOK' /\ SpanTruth'
<1>1. CASE Quiet(o)
  <2>1. /\ UNCHANGED <<nextEventId, id, inFlight, span>> /\ Kind' = Kind
        /\ \A p \in Ops : (Opened(p)' <=> Opened(p)) /\ (Reported(p)' <=> Reported(p))
        /\ \A p \in Ops : p # o => pc'[p] = pc[p]
    BY <1>1 DEF Quiet, Elsewhere, Opened, Reported, Kind
  <2>2. SpanFacts' /\ SpansOK'
    BY <2>1 DEF EventsInv, TypeOK, SpanFacts, SpansOK, Ids
  <2>3. NoSpanLeak'
    BY <2>1 DEF EventsInv, NoSpanLeak
  <2>4. ASSUME NEW p \in Ops, Opened(p)'
        PROVE  /\ span'[id'[p]] = "ok" => Reported(p)' /\ (Kind[p]' # "query" => pc'[p] = "resolved")
               /\ span'[id'[p]] = "error" => pc'[p] \in {"rejected", "failed"}
    <3>1. CASE p # o
      BY <2>1, <2>4, <3>1 DEF EventsInv, SpanTruth
    <3>2. CASE p = o
      \* A quiet step of o does not follow its end, but for a query that transforms its rows.
      <4>1. span[id[o]] = "ok" => Reported(o) /\ Kind[o] = "query"
        <5>1. Opened(o) /\ (Reported(o) => Kind[o] = "query")
          BY <1>1 DEF Quiet, Opened
        <5> QED
          BY <5>1 DEF EventsInv, SpanTruth
      <4>2. span[id[o]] = "error" => FALSE
        <5>1. Opened(o) /\ pc[o] \notin {"rejected", "failed"}
          BY <1>1 DEF Quiet, Opened, Reported, Settled
        <5> QED
          BY <5>1 DEF EventsInv, SpanTruth
      <4> QED
        BY <3>2, <2>1, <4>1, <4>2
    <3> QED
      BY <3>1, <3>2
  <2> QED
    BY <2>2, <2>3, <2>4 DEF SpanTruth
<1> QED
  BY <1>1, SpanStart, SpanEnds DEF Shape

-----------------------------------------------------------------------------
(* The invariant *)

LEMMA EventsInit == Init => EventsInv
<1> SUFFICES ASSUME Init
             PROVE  EventsInv
  OBVIOUS
<1>1. load \in Workloads /\ MaxRows \in Nat /\ IsFiniteSet(Ops) /\ Cardinality(Ops) \in Nat
  BY EventsAssumption, FS_CardinalityType DEF Init
<1>2. \A o \in Ops : ~Opened(o) /\ ~Reported(o)
  BY DEF Init, Opened, Reported, Settled
<1>3. TypeOK
  BY <1>1 DEF Init, TypeOK, Ids, Events
<1>4. IdsOK
  <2>1. nextEventId = Cardinality(Begins) + 1
    <3>1. Begins = {}
      BY <1>2 DEF Begins
    <3> QED
      BY <3>1, FS_EmptySet DEF Init
  <2> QED
    BY <2>1, <1>2 DEF Init, IdsOK, Begins
<1>5. \A l \in Listeners : log[l] = <<>> /\ Len(log[l]) = 0 /\ DOMAIN log[l] = {}
  BY DEF Init
<1>6. \A l \in Listeners : LogOK(l)
  BY <1>2, <1>5 DEF LogOK
<1>7. \A o \in Ops : RowsOK(o)
  BY <1>1 DEF Init, RowsOK
<1>8. NoSpanLeak /\ SpansOK /\ SpanTruth
  BY <1>2 DEF Init, NoSpanLeak, SpansOK, SpanTruth
<1> QED
  BY <1>3, <1>4, <1>6, <1>7, <1>8 DEF EventsInv

LEMMA EventsAsIs ==
  ASSUME EventsInv, UNCHANGED vars
  PROVE  EventsInv'
<1>1. UNCHANGED <<load, nextEventId, pc, id, rows, yielded, received, log, inFlight, span>>
  BY DEF vars
<1>2. /\ Kind' = Kind /\ Scope' = Scope /\ Ids' = Ids /\ Events' = Events
      /\ \A o \in Ops : (Opened(o)' <=> Opened(o)) /\ (Reported(o)' <=> Reported(o))
  BY <1>1 DEF Kind, Scope, Ids, Events, Opened, Reported
<1>3. TypeOK'
  BY <1>1, <1>2 DEF EventsInv, TypeOK
<1>4. IdsOK'
  BY <1>1 DEF EventsInv, IdsOK, Opened
<1>5. \A l \in Listeners : LogOK(l)'
  BY <1>1 DEF EventsInv, LogOK, Opened, Reported, Kind
<1>6. \A o \in Ops : RowsOK(o)'
  BY <1>1 DEF EventsInv, RowsOK, Kind
<1>7. NoSpanLeak' /\ SpansOK' /\ SpanTruth'
  BY <1>1, <1>2 DEF EventsInv, NoSpanLeak, SpansOK, SpanTruth
<1> QED
  BY <1>3, <1>4, <1>5, <1>6, <1>7 DEF EventsInv

LEMMA EventsStep == EventsInv /\ [Next]_vars => EventsInv'
<1> SUFFICES ASSUME EventsInv, [Next]_vars
             PROVE  EventsInv'
  OBVIOUS
<1>1. ASSUME NEW o \in Ops, Operation(o)
      PROVE  EventsInv'
  <2>1. Shape(o) /\ load' = load /\ Typed' /\ Elsewhere(o) /\ \A p \in Ops : RowsOK(p)'
    BY <1>1, StepShape, MovesStep
  <2>2. /\ IdsOK' /\ nextEventId' \in 1..(Cardinality(Ops) + 1)
        /\ id' \in [Ops -> Ids \cup {0}]
    BY <2>1, IdsStep
  <2>3. log' \in [Listeners -> Seq(Events)] /\ \A l \in Listeners : LogOK(l)'
    BY <2>1, <2>2, LogStep
  <2>4. SpanFacts' /\ NoSpanLeak' /\ SpansOK' /\ SpanTruth'
    BY <2>1, <2>2, SpanStep
  <2>5. TypeOK'
    <3>1. load' \in Workloads
      BY <2>1 DEF EventsInv, TypeOK
    <3> QED
      BY <3>1, <2>1, <2>2, <2>3, <2>4 DEF TypeOK, Typed, SpanFacts, Places, Events, Ids
  <2> QED
    BY <2>1, <2>2, <2>3, <2>4, <2>5 DEF EventsInv
<1>2. CASE AllSettled \/ UNCHANGED vars
  BY <1>2, EventsAsIs DEF AllSettled
<1> QED
  BY <1>1, <1>2 DEF Next

LEMMA EventsAlways == Spec => []EventsInv
BY EventsInit, EventsStep, PTL DEF Spec

-----------------------------------------------------------------------------
(* What follows *)

\* Ids, rows and spans stay in their ranges: the counter shared by all Sumak
\* instances hands out at most one id per call, the otel map holds ids only.
THEOREM EventTypes == Spec => []TypeOK
<1>1. EventsInv => TypeOK
  BY DEF EventsInv
<1> QED
  BY <1>1, EventsAlways, PTL

\* Every listener sees, under the id of an operation, its start, then nothing
\* until it is over, then exactly one end or error: whatever runs concurrently
\* and whatever the listeners and the tracer throw (withEvents, runStream,
\* runWithTxEvents and their emit loop).
THEOREM EventsCorrelate == Spec => []Correlated
<1>1. ASSUME EventsInv, NEW l \in Listeners, NEW o \in Ops, Opened(o)
      PROVE  /\ \A i \in Seen(l, o) : log[l][i].op = o
             /\ \E first \in Seen(l, o) :
                  /\ log[l][first].phase = "start"
                  /\ IF Reported(o)
                     THEN \E last \in Seen(l, o) :
                            /\ first < last /\ Seen(l, o) = {first, last}
                            /\ log[l][last].phase \in {"end", "error"}
                     ELSE Seen(l, o) = {first}
  <2>1. /\ LogEvents(l) /\ LogOrder(l) /\ LogKnows(l, o)
        /\ DOMAIN log[l] = 1..Len(log[l]) /\ Len(log[l]) \in Nat
        /\ \A i \in 1..Len(log[l]) : log[l][i] \in Events
    <3>1. log[l] \in Seq(Events) /\ LogOK(l)
      BY <1>1 DEF EventsInv, TypeOK
    <3> QED
      BY <3>1, LogParts
  <2>2. \A e \in Events : e.op \in Ops /\ e.phase \in {"start", "end", "error"}
    BY DEF Events
  <2>3. \A p \in Ops : id[o] = id[p] => o = p
    BY <1>1 DEF EventsInv, IdsOK
  <2>4. ASSUME NEW i \in 1..Len(log[l])
        PROVE  /\ log[l][i].id = id[o] <=> log[l][i].op = o
               /\ log[l][i].phase \in {"start", "end", "error"}
               /\ log[l][i].op = o /\ log[l][i].phase # "start" => Reported(o)
    <3>1. EventOK(l, i)
      BY <2>1 DEF LogEvents
    <3> QED
      BY <3>1, <2>1, <2>2, <2>3 DEF EventOK
  <2>5. Seen(l, o) = {i \in 1..Len(log[l]) : log[l][i].op = o}
    BY <2>1, <2>4 DEF Seen
  <2>6. PICK first \in Seen(l, o) : log[l][first].phase = "start"
    BY <1>1, <2>1, <2>5 DEF LogKnows
  \* Two starts, or two ends, would be out of order.
  <2>7. ASSUME NEW i \in Seen(l, o), NEW j \in Seen(l, o), i # j
        PROVE  (log[l][i].phase = "start") # (log[l][j].phase = "start")
    <3>1. i \in 1..Len(log[l]) /\ j \in 1..Len(log[l]) /\ log[l][i].op = log[l][j].op
      BY <2>5
    <3>2. i < j \/ j < i
      BY <3>1, <2>1, <2>7
    <3> QED
      BY <3>1, <3>2, <2>1 DEF LogOrder
  <2>8. CASE ~Reported(o)
    <3>1. \A i \in Seen(l, o) : i = first
      BY <2>4, <2>5, <2>6, <2>7, <2>8
    <3> QED
      BY <2>5, <2>6, <2>8, <3>1
  <2>9. CASE Reported(o)
    <3>1. PICK last \in Seen(l, o) : log[l][last].phase # "start"
      BY <2>1, <2>5, <2>9 DEF LogKnows
    <3>2. \A i \in Seen(l, o) : i = first \/ i = last
      BY <2>6, <2>7, <3>1
    <3>3. first < last
      <4>1. /\ first \in 1..Len(log[l]) /\ last \in 1..Len(log[l]) /\ first # last
            /\ log[l][first].op = log[l][last].op
        BY <2>5, <2>6, <3>1
      <4>2. first < last \/ last < first
        BY <4>1, <2>1
      <4> QED
        BY <4>1, <4>2, <2>1, <2>6, <3>1 DEF LogOrder
    <3>4. log[l][last].phase \in {"end", "error"}
      BY <2>4, <2>5, <3>1
    <3> QED
      BY <2>5, <2>6, <2>9, <3>2, <3>3, <3>4
  <2> QED
    BY <2>8, <2>9
<1>2. EventsInv => Correlated
  BY <1>1 DEF Correlated
<1> QED
  BY <1>2, EventsAlways, PTL

\* The map of the otel listener holds ids of operations in progress only, even
\* when the tracer throws (createOtelListener deletes the entry first).
THEOREM SpansDoNotLeak == Spec => []NoSpanLeak
<1>1. EventsInv => NoSpanLeak
  BY DEF EventsInv
<1> QED
  BY <1>1, EventsAlways, PTL

\* A span is OK only when the driver's work succeeded, an error only when the
\* operation was rejected.
THEOREM SpansTellTheTruth == Spec => []SpanTruth
<1>1. EventsInv => SpanTruth
  BY DEF EventsInv
<1> QED
  BY <1>1, EventsAlways, PTL

\* The end event of a stream carries the rows its consumer was given, drained,
\* broken off or buffered; only a transform that drops rows of a cursor makes
\* the count too high (runStream).
THEOREM RowCountsAccurate == Spec => []AccurateRowCount
<1>1. ASSUME EventsInv, NEW l \in Listeners, NEW i \in DOMAIN log[l],
             Kind[log[l][i].op] \in Streams, log[l][i].phase = "end"
      PROVE  /\ log[l][i].rowCount >= received[log[l][i].op]
             /\ \/ load.dropping /\ Kind[log[l][i].op] = "stream"
                \/ log[l][i].rowCount = received[log[l][i].op]
  <2>1. log[l] \in Seq(Events) /\ LogEvents(l) /\ yielded \in [Ops -> 0..MaxRows]
        /\ received \in [Ops -> 0..MaxRows] /\ MaxRows \in Nat
    BY <1>1, LogParts, RowFacts, EventsAssumption DEF EventsInv, TypeOK
  <2>2. i \in 1..Len(log[l]) /\ log[l][i] \in Events
    BY <1>1, <2>1
  <2>3. log[l][i].op \in Ops
    BY <2>2 DEF Events
  <2>4. log[l][i].rowCount = yielded[log[l][i].op]
    BY <1>1, <2>1, <2>2 DEF LogEvents, EventOK
  <2>5. RowsOK(log[l][i].op)
    BY <1>1, <2>3 DEF EventsInv
  <2> QED
    BY <1>1, <2>1, <2>3, <2>4, <2>5 DEF RowsOK
<1>2. EventsInv => AccurateRowCount
  BY <1>1 DEF AccurateRowCount
<1> QED
  BY <1>2, EventsAlways, PTL
=============================================================================
