----------------------- MODULE PoolTransaction_proofs -----------------------
(***************************************************************************)
(* Proofs about PoolTransaction for any number of calls, connections,      *)
(* statements and lost connections.                                        *)
(***************************************************************************)
EXTENDS PoolTransaction, SequenceTheorems, TLAPS

USE DEF vars, callVars, bodyVars, sessVars

\* What Head and Tail of a queue are.
LEMMA QueueHead ==
  ASSUME TypeOK, NEW c \in Conns, queue[c] # <<>>
  PROVE  /\ Head(queue[c]) \in Command
         /\ Tail(queue[c]) \in Seq(Command)
         /\ Head(queue[c]) = queue[c][1]
         /\ Len(queue[c]) \in Nat \ {0}
         /\ Len(Tail(queue[c])) = Len(queue[c]) - 1
         /\ \A i \in 1..Len(Tail(queue[c])) : Tail(queue[c])[i] = queue[c][i + 1]
<1>1. queue[c] \in Seq(Command)
  BY DEF TypeOK
<1>. QED
  BY <1>1, HeadTailProperties, EmptySeq

LEMMA InitType == Init => TypeOK
<1>. SUFFICES ASSUME Init PROVE TypeOK
  OBVIOUS
<1>. QED
  BY PoolAssumption DEF Init, TypeOK, Writes

\* Every command a step sends is a command.
LEMMA CmdsSent ==
  ASSUME TypeOK, NEW t \in Tasks
  PROVE  /\ Cmd(t, "main", "begin", 0) \in Command /\ Cmd(t, "body", "begin", 0) \in Command
         /\ Cmd(t, "main", "rollback", 0) \in Command /\ Cmd(t, "body", "rollback", 0) \in Command
         /\ Cmd(t, "main", "commit", 0) \in Command /\ Cmd(t, "body", "commit", 0) \in Command
         /\ \A k \in 1..MaxStmts : Cmd(t, "body", "stmt", k) \in Command
BY DEF Cmd, Command

\* Sending a command, taking the answered one off, or both, keeps queues queues.
LEMMA QueueType ==
  ASSUME TypeOK, NEW c, NEW cmd \in Command
  PROVE  /\ Push(c, cmd) => queue' \in [Conns -> Seq(Command)]
         /\ queue[c] # <<>> =>
              /\ [queue EXCEPT ![c] = Tail(@)] \in [Conns -> Seq(Command)]
              /\ [queue EXCEPT ![c] = Append(Tail(@), cmd)] \in [Conns -> Seq(Command)]
<1>1. c \in Conns => Append(queue[c], cmd) \in Seq(Command)
  BY DEF TypeOK
<1>2. c \in Conns /\ queue[c] # <<>> =>
        /\ Tail(queue[c]) \in Seq(Command)
        /\ Append(Tail(queue[c]), cmd) \in Seq(Command)
  <2>1. c \in Conns /\ queue[c] # <<>> => Tail(queue[c]) \in Seq(Command)
    BY QueueHead
  <2>. QED
    BY <2>1
<1>3. queue \in [Conns -> Seq(Command)]
  BY DEF TypeOK
<1>. QED
  BY <1>1, <1>2, <1>3 DEF Push

\* Every step of transaction() keeps the state well typed.
LEMMA CallType ==
  ASSUME TypeOK, NEW t \in Tasks, Call(t) \/ Abort(t)
  PROVE  TypeOK'
<1>a. Answered(t, "main", "begin") \/ Answered(t, "main", "commit")
        \/ Answered(t, "main", "rollback")
        => client[t] \in Conns /\ queue[client[t]] # <<>>
  BY DEF Answered
<1>b. client[t] \in Conns /\ queue[client[t]] # <<>> => Tail(queue[client[t]]) \in Seq(Command)
  BY QueueHead
<1>1. CASE Start(t)
  BY <1>1 DEF TypeOK, Start
<1>2. ASSUME NEW c \in Conns, Connect(t, c) PROVE TypeOK'
  BY <1>2, CmdsSent DEF TypeOK, Connect, Push
<1>3. CASE BeginOk(t)
  BY <1>3, <1>a, <1>b DEF TypeOK, BeginOk, Pop
<1>4. CASE BeginOkAborted(t)
  <2>. DEFINE c == client[t]
              rest(n) == IF n = 1 THEN Append(Tail(queue[c]), Cmd(t, "body", "stmt", 1))
                         ELSE Tail(queue[c])
  <2>1. PICK n \in 0..1 : /\ n <= MaxStmts
                          /\ sent' = [sent EXCEPT ![t] = n]
                          /\ queue' = [queue EXCEPT ![c] =
                                         Append(rest(n), Cmd(t, "main", "rollback", 0))]
    BY <1>4 DEF BeginOkAborted
  <2>2. Append(rest(n), Cmd(t, "main", "rollback", 0)) \in Seq(Command)
    BY <1>4, <1>a, <1>b, <2>1, CmdsSent, PoolAssumption DEF BeginOkAborted
  <2>3. queue' \in [Conns -> Seq(Command)]
    <3>. HIDE DEF rest
    <3>. QED BY <2>1, <2>2 DEF TypeOK
  <2>. QED
    BY <1>4, <2>1, <2>3, PoolAssumption DEF TypeOK, BeginOkAborted
<1>5. CASE BeginFails(t)
  BY <1>5, <1>a, <1>b DEF TypeOK, BeginFails, Pop
<1>6. CASE CommitOk(t)
  BY <1>6, <1>a, <1>b DEF TypeOK, CommitOk, Pop, Release
<1>7. CASE CommitFails(t)
  BY <1>7, <1>a, <1>b, CmdsSent DEF TypeOK, CommitFails
<1>8. CASE RollbackDone(t)
  BY <1>8, <1>a, <1>b DEF TypeOK, RollbackDone, Pop, Release
<1>9. CASE Abort(t)
  <2>1. queue' \in [Conns -> Seq(Command)]
    BY <1>9, CmdsSent, QueueType DEF TypeOK, Abort
  <2>2. body' \in [Tasks -> {"off", "ready", "await", "nbegin", "ncommit", "nrollback", "over"}]
    BY <1>9 DEF TypeOK, Abort
  <2>. QED
    BY <1>9, <2>1, <2>2 DEF TypeOK, Abort
<1>. QED
  BY <1>1, <1>2, <1>3, <1>4, <1>5, <1>6, <1>7, <1>8, <1>9 DEF Call

\* Every step of fn keeps the state well typed.
LEMMA FnType ==
  ASSUME TypeOK, NEW t \in Tasks, Fn(t)
  PROVE  TypeOK'
<1>a. \A op : Answered(t, "body", op) => queue[client[t]] # <<>>
  BY DEF Answered
<1>b. /\ queue[client[t]] # <<>> =>
           [queue EXCEPT ![client[t]] = Tail(@)] \in [Conns -> Seq(Command)]
      /\ \A by \in {"main", "body"} : queue[client[t]] # <<>> =>
           [queue EXCEPT ![client[t]] = Append(Tail(@), Cmd(t, by, "rollback", 0))]
             \in [Conns -> Seq(Command)]
  BY CmdsSent, QueueType
<1>c. ASSUME queue[client[t]] # <<>>, Throws(t)
      PROVE  /\ main' \in [Tasks -> {"idle", "connecting", "begin", "running", "commit",
                                     "rollback", "settled"}]
             /\ body' \in [Tasks -> {"off", "ready", "await", "nbegin", "ncommit",
                                     "nrollback", "over"}]
             /\ queue' \in [Conns -> Seq(Command)]
  <2>1. queue' \in [Conns -> Seq(Command)]
    BY <1>b, <1>c DEF Throws
  <2>2. main' \in {main, [main EXCEPT ![t] = "rollback"]}
    BY <1>c DEF Throws
  <2>3. body' \in {[body EXCEPT ![t] = "over"], [body EXCEPT ![t] = "ready"]}
    BY <1>c DEF Throws
  <2>4. main' \in [Tasks -> {"idle", "connecting", "begin", "running", "commit", "rollback",
                             "settled"}]
    BY <2>2 DEF TypeOK
  <2>5. body' \in [Tasks -> {"off", "ready", "await", "nbegin", "ncommit", "nrollback", "over"}]
    BY <2>3 DEF TypeOK
  <2>. QED
    BY <2>1, <2>4, <2>5
<1>1. CASE Send(t)
  <2>1. sent[t] + 1 \in 1..MaxStmts
    BY <1>1, PoolAssumption DEF TypeOK, Send
  <2>2. queue' \in [Conns -> Seq(Command)]
    BY <1>1, <2>1, CmdsSent, QueueType DEF Send
  <2>. QED
    BY <1>1, <2>1, <2>2, PoolAssumption DEF TypeOK, Send
<1>2. ASSUME NEW op \in {"commit", "rollback"}, BodyEnds(t, op) PROVE TypeOK'
  <2>1. queue' \in [Conns -> Seq(Command)]
    BY <1>2, CmdsSent, QueueType DEF BodyEnds, TypeOK
  <2>. QED
    BY <1>2, <2>1 DEF TypeOK, BodyEnds
<1>3. CASE StmtOk(t)
  <2>1. sent[t] \in 1..MaxStmts
    <3>1. queue[client[t]] # <<>> /\ client[t] \in Conns
      BY <1>3 DEF StmtOk, Awaited, Answered
    <3>2. Head(queue[client[t]]) \in Command /\ Head(queue[client[t]]).op = "stmt"
          /\ Head(queue[client[t]]).k = sent[t]
      BY <1>3, <3>1, QueueHead DEF StmtOk, Awaited, Answered
    <3>. QED
      BY <3>2 DEF Command
  <2>2. acked' \in [Tasks -> SUBSET (1..MaxStmts)]
    BY <1>3, <2>1 DEF TypeOK, StmtOk
  <2>3. queue' \in [Conns -> Seq(Command)]
    BY <1>3, <1>a, <1>b DEF StmtOk, Awaited, Pop
  <2>. QED
    BY <1>3, <2>2, <2>3 DEF TypeOK, StmtOk, Pop
<1>4. CASE StmtError(t)
  <2>1. CASE nest[t]
    BY <1>4, <2>1, <1>a, <1>b, ZenonT(30) DEF TypeOK, StmtError, Awaited
  <2>2. CASE ~nest[t]
    BY <1>4, <2>2, <1>a, <1>c DEF TypeOK, StmtError, Awaited
  <2>. QED
    BY <2>1, <2>2
<1>5. CASE StmtDropped(t)
  BY <1>5, <1>a, <1>b DEF TypeOK, StmtDropped, Pop
<1>6. CASE NestBegin(t)
  BY <1>6, CmdsSent, QueueType DEF TypeOK, NestBegin
<1>7. CASE NestBeginReply(t)
  <2>1. CASE Succeeded(client[t])
    BY <1>7, <2>1, <1>a, <1>b, ZenonT(30) DEF TypeOK, NestBeginReply
  <2>2. CASE ~Succeeded(client[t])
    BY <1>7, <2>2, <1>a, <1>c, ZenonT(30) DEF TypeOK, NestBeginReply
  <2>. QED
    BY <2>1, <2>2
<1>8. ASSUME NEW op \in {"commit", "rollback"}, NestEnds(t, op) PROVE TypeOK'
  <2>1. queue' \in [Conns -> Seq(Command)]
    BY <1>8, CmdsSent, QueueType DEF NestEnds, TypeOK
  <2>. QED
    BY <1>8, <2>1 DEF TypeOK, NestEnds
<1>9. CASE NestCommitReply(t)
  <2>1. queue' \in [Conns -> Seq(Command)]
    BY <1>9, <1>a, <1>b DEF NestCommitReply
  <2>2. body' \in {[body EXCEPT ![t] = "ready"], [body EXCEPT ![t] = "nrollback"]}
    BY <1>9 DEF NestCommitReply
  <2>3. nest' \in {nest, [nest EXCEPT ![t] = FALSE]}
    BY <1>9 DEF NestCommitReply
  <2>4. result' = [result EXCEPT ![client[t]] = "none"]
        /\ UNCHANGED <<callVars, sent, acked, aborted, slot, up, sessVars, breaks>>
    BY <1>9 DEF NestCommitReply
  <2>5. body' \in [Tasks -> {"off", "ready", "await", "nbegin", "ncommit", "nrollback", "over"}]
    BY <2>2 DEF TypeOK
  <2>6. nest' \in [Tasks -> BOOLEAN]
    BY <2>3 DEF TypeOK
  <2>. QED
    BY <2>1, <2>4, <2>5, <2>6 DEF TypeOK
<1>10. CASE NestRollbackReply(t)
  BY <1>10, <1>a, <1>c DEF TypeOK, NestRollbackReply
<1>. QED
  BY <1>1, <1>2, <1>3, <1>4, <1>5, <1>6, <1>7, <1>8, <1>9, <1>10 DEF Fn

\* Every step of the server, and the loss of a connection, too.
LEMMA ServerType ==
  ASSUME TypeOK, NEW c \in Conns, Server(c) \/ Break(c)
  PROVE  TypeOK'
<1>a. ASSUME NEW op, Runs(c, op)
      PROVE  Head(queue[c]) \in Command /\ Head(queue[c]).op = op
  BY <1>a, QueueHead DEF Runs
<1>b. ASSUME NEW how \in {"committed", "discarded"}, EndTx(c, how),
         UNCHANGED acked
      PROVE  /\ committed' \in SUBSET Writes /\ pend' \in [Conns -> SUBSET Writes]
             /\ doomed' \in [Conns -> BOOLEAN]
             /\ fate' \in [Tasks -> {"open", "committed", "discarded"}]
  BY <1>b DEF TypeOK, EndTx
<1>1. CASE ServerBegin(c)
  <2>1. Head(queue[c]).task \in Tasks
    BY <1>1, <1>a DEF ServerBegin, Command
  <2>2. UNCHANGED sessVars \/ (/\ owner' = [owner EXCEPT ![c] = Head(queue[c]).task]
                               /\ EndTx(c, "committed"))
    BY <1>1 DEF ServerBegin, BeginTx
  <2>3. /\ UNCHANGED <<callVars, bodyVars, aborted, slot, queue, up, breaks>>
        /\ \E r \in {"ok", "error"} : result' = [result EXCEPT ![c] = r]
    BY <1>1 DEF ServerBegin, Answer
  <2>4. CASE UNCHANGED sessVars
    BY <2>3, <2>4 DEF TypeOK, sessVars, callVars, bodyVars
  <2>5. CASE owner' = [owner EXCEPT ![c] = Head(queue[c]).task] /\ EndTx(c, "committed")
    <3>1. owner' \in [Conns -> Tasks \cup {NoTask}]
      BY <2>1, <2>5 DEF TypeOK
    <3>2. acked' = acked
      BY <2>3 DEF bodyVars
    <3>3. /\ committed' \in SUBSET Writes /\ pend' \in [Conns -> SUBSET Writes]
          /\ doomed' \in [Conns -> BOOLEAN]
          /\ fate' \in [Tasks -> {"open", "committed", "discarded"}]
      BY <2>5, <3>2, <1>b
    <3>4. result' \in [Conns -> {"none", "ok", "error"}]
      BY <2>3 DEF TypeOK
    <3>. QED
      BY <2>3, <3>1, <3>3, <3>4 DEF TypeOK, callVars, bodyVars
  <2>. QED
    BY <2>2, <2>4, <2>5
<1>2. CASE ServerStmt(c)
  <2>. DEFINE w == <<Head(queue[c]).task, Head(queue[c]).k>>
  <2>1. w \in Writes
    BY <1>2, <1>a DEF ServerStmt, Command, Writes
  <2>2. committed' \in {committed, committed \cup {w}}
    BY <1>2 DEF ServerStmt
  <2>3. pend' \in {pend, [pend EXCEPT ![c] = @ \cup {w}]}
    BY <1>2 DEF ServerStmt
  <2>4. result' = [result EXCEPT ![c] = "ok"]
        /\ UNCHANGED <<callVars, bodyVars, aborted, slot, queue, up, owner, doomed, fate,
                       breaks>>
    BY <1>2 DEF ServerStmt, Answer
  <2>. HIDE DEF w
  <2>5. committed' \in SUBSET Writes
    BY <2>1, <2>2 DEF TypeOK
  <2>6. pend' \in [Conns -> SUBSET Writes]
    <3>1. pend \in [Conns -> SUBSET Writes]
      BY DEF TypeOK
    <3>2. pend[c] \cup {w} \in SUBSET Writes
      BY <2>1, <3>1
    <3>. QED
      BY <2>3, <3>1, <3>2
  <2>. QED
    BY <2>4, <2>5, <2>6 DEF TypeOK
<1>3. CASE ServerStmtFails(c)
  BY <1>3 DEF TypeOK, ServerStmtFails, Answer
<1>4. CASE ServerCommit(c)
  BY <1>4, <1>b, ZenonT(30) DEF TypeOK, ServerCommit, Answer
<1>5. CASE ServerRollback(c)
  BY <1>5, <1>b DEF TypeOK, ServerRollback, Answer
<1>6. CASE Break(c)
  <2>1. breaks' \in 0..MaxBreaks
    BY <1>6, PoolAssumption DEF TypeOK, Break
  <2>. QED
    BY <1>6, <1>b, <2>1 DEF TypeOK, Break
<1>. QED
  BY <1>1, <1>2, <1>3, <1>4, <1>5, <1>6 DEF Server

\* The state of calls, connections and sessions is well typed.
THEOREM TypeCorrect == Spec => []TypeOK
<1>1. TypeOK /\ [Next]_vars => TypeOK'
  <2>. SUFFICES ASSUME TypeOK, [Next]_vars PROVE TypeOK'
    OBVIOUS
  <2>1. CASE UNCHANGED vars
    BY <2>1 DEF TypeOK
  <2>. QED
    BY <2>1, CallType, FnType, ServerType DEF Next, Quiet
<1>. QED
  BY InitType, <1>1, PTL DEF Spec

-----------------------------------------------------------------------------
(* Clients are exclusive, whatever bodies, signals and connections do.       *)

\* A step that takes or releases no client and keeps open calls open, or
\* settles them, keeps the bookkeeping of clients.
LEMMA ClientsKept ==
  ASSUME ClientInv, ExclusiveClient, UNCHANGED <<client, held, slot>>,
         \A t \in Tasks : Active(t)' => Active(t),
         \A t \in Tasks : Active(t) => Active(t)' \/ main'[t] = "settled",
         \A t \in Tasks : main[t] = "settled" => main'[t] = "settled"
  PROVE  ClientInv' /\ ExclusiveClient'
BY DEF ClientInv, ExclusiveClient

\* Releasing the client of an open call as it settles keeps it too.
LEMMA ClientReleased ==
  ASSUME TypeOK, ClientInv, ExclusiveClient, NEW t \in Tasks, Active(t), Release(t),
         main' = [main EXCEPT ![t] = "settled"], UNCHANGED client
  PROVE  ClientInv' /\ ExclusiveClient'
<1>1. held[t] /\ client[t] \in Conns
  BY DEF ClientInv
<1>2. \A u \in Tasks \ {t} : held[u] => client[u] # client[t]
  BY <1>1 DEF ExclusiveClient
<1>3. \A u \in Tasks \ {t} : /\ main'[u] = main[u] /\ held'[u] = held[u]
                             /\ client'[u] = client[u]
                             /\ held[u] => slot'[client[u]] = slot[client[u]]
  BY <1>2 DEF TypeOK, Release, ClientInv
<1>4. ~held'[t] /\ main'[t] = "settled"
  BY DEF TypeOK, Release
<1>. QED
  BY <1>3, <1>4 DEF ClientInv, ExclusiveClient, Active

\* No step of any kind gives two open calls the same client.
LEMMA ClientStep ==
  ASSUME TypeOK, ClientInv, ExclusiveClient, Next
  PROVE  ClientInv' /\ ExclusiveClient'
<1>1. ASSUME NEW t \in Tasks, Call(t) PROVE ClientInv' /\ ExclusiveClient'
  <2>1. CASE Start(t)
    BY <2>1, ClientsKept DEF TypeOK, Start, Active
  <2>2. ASSUME NEW c \in Conns, Connect(t, c) PROVE ClientInv' /\ ExclusiveClient'
    <3>1. ~held[t]
      BY <2>2 DEF ClientInv, Active, Connect
    <3>2. \A u \in Tasks : held[u] => client[u] # c
      BY <2>2 DEF ClientInv, Connect
    <3>3. \A u \in Tasks \ {t} : /\ main'[u] = main[u] /\ held'[u] = held[u]
                                 /\ client'[u] = client[u]
                                 /\ held[u] => slot'[client[u]] = slot[client[u]]
      BY <2>2, <3>2 DEF TypeOK, Connect, ClientInv
    <3>4. held'[t] /\ client'[t] = c /\ slot'[c] = "out" /\ main'[t] = "begin"
      BY <2>2 DEF TypeOK, Connect
    <3>. QED
      BY <3>2, <3>3, <3>4 DEF ClientInv, ExclusiveClient, Active
  <2>3. CASE BeginOk(t)
    BY <2>3, ClientsKept DEF TypeOK, BeginOk, Active
  <2>4. CASE BeginOkAborted(t)
    BY <2>4, ClientsKept DEF TypeOK, BeginOkAborted, Active
  <2>5. CASE BeginFails(t)
    BY <2>5, ClientsKept DEF TypeOK, BeginFails, Active
  <2>6. CASE CommitOk(t)
    BY <2>6, ClientReleased DEF CommitOk, Active
  <2>7. CASE CommitFails(t)
    BY <2>7, ClientsKept DEF TypeOK, CommitFails, Active
  <2>8. CASE RollbackDone(t)
    BY <2>8, ClientReleased DEF RollbackDone, Active
  <2>. QED
    BY <1>1, <2>1, <2>2, <2>3, <2>4, <2>5, <2>6, <2>7, <2>8 DEF Call
<1>2. ASSUME NEW t \in Tasks, Fn(t) PROVE ClientInv' /\ ExclusiveClient'
  <2>1. UNCHANGED <<client, held, slot>>
    BY <1>2 DEF Fn, Send, BodyEnds, StmtOk, StmtError, StmtDropped, NestBegin, NestBeginReply,
                NestEnds, NestCommitReply, NestRollbackReply
  <2>2. \/ UNCHANGED main
        \/ main[t] = "running" /\ \E op \in {"commit", "rollback"} :
                                     main' = [main EXCEPT ![t] = op]
    BY <1>2 DEF Fn, Send, BodyEnds, StmtOk, StmtError, StmtDropped, NestBegin, NestBeginReply,
                NestEnds, NestCommitReply, NestRollbackReply, Throws
  <2>. QED
    BY <2>1, <2>2, ClientsKept DEF TypeOK, Active
<1>3. ASSUME NEW t \in Tasks, Abort(t) PROVE ClientInv' /\ ExclusiveClient'
  BY <1>3, ClientsKept DEF TypeOK, Abort, Active
<1>4. ASSUME NEW c \in Conns, Server(c) \/ Break(c) PROVE ClientInv' /\ ExclusiveClient'
  <2>1. UNCHANGED <<main, client, held, slot>>
    BY <1>4 DEF Server, ServerBegin, ServerStmt, ServerStmtFails, ServerCommit, ServerRollback,
                Break
  <2>. QED
    BY <2>1, ClientsKept DEF Active
<1>5. CASE Quiet
  BY <1>5, ClientsKept DEF Quiet, Active
<1>. QED
  BY <1>1, <1>2, <1>3, <1>4, <1>5 DEF Next

LEMMA ClientsAlways == Spec => [](ClientInv /\ ExclusiveClient)
<1>1. Init => ClientInv /\ ExclusiveClient
  BY DEF Init, ClientInv, ExclusiveClient, Active
<1>2. TypeOK /\ ClientInv /\ ExclusiveClient /\ [Next]_vars
        => (ClientInv /\ ExclusiveClient)'
  <2>1. UNCHANGED vars /\ ClientInv /\ ExclusiveClient => (ClientInv /\ ExclusiveClient)'
    BY DEF ClientInv, ExclusiveClient, Active
  <2>. QED
    BY <2>1, ClientStep
<1>. QED
  BY <1>1, <1>2, TypeCorrect, PTL DEF Spec

\* Two open calls of transaction() never use the same client at a time: the
\* pool hands a client out again only after release() of the call that had it,
\* and no other path gives one away.
THEOREM ClientsAreExclusive == Spec => []ExclusiveClient
BY ClientsAlways, PTL

-----------------------------------------------------------------------------
(* Orderly calls: isolation and atomicity.                                   *)

\* Commands and owners are of tasks.
LEMMA Elements ==
  ASSUME TypeOK, NEW c \in Conns
  PROVE  /\ Len(queue[c]) \in Nat
         /\ \A i \in 1..Len(queue[c]) : queue[c][i] \in Command /\ queue[c][i].task \in Tasks
         /\ queue[c] # <<>> => /\ Head(queue[c]) = queue[c][1] /\ 1 \in 1..Len(queue[c])
                               /\ Head(queue[c]).task \in Tasks
         /\ owner[c] \in Tasks \cup {NoTask}
<1>1. queue[c] \in Seq(Command) /\ owner[c] \in Tasks \cup {NoTask}
  BY DEF TypeOK
<1>2. \A i \in 1..Len(queue[c]) : queue[c][i] \in Command
  BY <1>1, ElementOfSeq
<1>3. \A q \in Command : q.task \in Tasks
  BY DEF Command
<1>4. queue[c] # <<>> => Head(queue[c]) = queue[c][1] /\ 1 \in 1..Len(queue[c])
  BY <1>1, EmptySeq, HeadTailProperties
<1>. QED
  BY <1>1, <1>2, <1>3, <1>4

LEMMA EmptyQueue ==
  ASSUME NEW q \in Seq(Command), Len(q) = 0
  PROVE  q = <<>>
BY EmptySeq

\* Sequences of one and of two commands.
LEMMA Appended ==
  ASSUME NEW x \in Command, NEW y \in Command
  PROVE  LET q == Append(Append(<<>>, x), y) IN
         Append(<<>>, x) = <<x>> /\ Len(q) = 2 /\ q[1] = x /\ q[2] = y
<1>1. <<>> \in Seq(Command) /\ <<x>> \in Seq(Command)
  OBVIOUS
<1>2. Append(<<>>, x) = <<x>>
  BY <1>1
<1>. QED
  BY <1>1, <1>2

\* Two calls that hold one connection are the same call.
LEMMA OneCall ==
  ASSUME ClientInv, ExclusiveClient, NEW t \in Tasks, NEW u \in Tasks,
         Active(t) \/ held[t], Active(u) \/ held[u], client[t] = client[u]
  PROVE  t = u
BY DEF ClientInv, ExclusiveClient

\* What the answered command of t at the head of its queue implies: a command
\* of transaction() itself is the only one in the queue.
LEMMA HeadFacts ==
  ASSUME OrderlyInv, NEW t \in Tasks, NEW by, NEW op, Answered(t, by, op)
  PROVE  LET c == client[t] IN
         /\ c \in Conns /\ queue[c] # <<>> /\ Active(t)
         /\ Head(queue[c]) = queue[c][1] /\ Head(queue[c]).op = op /\ Head(queue[c]).task = t
         /\ Tail(queue[c]) \in Seq(Command) /\ Len(queue[c]) \in Nat \ {0}
         /\ Len(Tail(queue[c])) = Len(queue[c]) - 1
         /\ \A i \in 1..Len(Tail(queue[c])) : Tail(queue[c])[i] = queue[c][i + 1]
         /\ op # "stmt" => Len(queue[c]) = 1 /\ Tail(queue[c]) = <<>> /\ main[t] = op
<1>1. PICK c : c = client[t]
  OBVIOUS
<1>2. c \in Conns /\ queue[c] # <<>> /\ Head(queue[c]).op = op /\ Head(queue[c]).task = t
  BY <1>1 DEF Answered
<1>3. /\ Head(queue[c]) = queue[c][1] /\ Tail(queue[c]) \in Seq(Command)
      /\ Len(queue[c]) \in Nat \ {0} /\ Len(Tail(queue[c])) = Len(queue[c]) - 1
      /\ \A i \in 1..Len(Tail(queue[c])) : Tail(queue[c])[i] = queue[c][i + 1]
  BY <1>2, QueueHead DEF OrderlyInv
<1>4. 1 \in 1..Len(queue[c]) /\ QueueOK(c)
  BY <1>2, <1>3 DEF OrderlyInv
<1>5. /\ Active(queue[c][1].task)
      /\ queue[c][1].op # "stmt" => 1 = Len(queue[c]) /\ main[queue[c][1].task] = queue[c][1].op
  BY <1>4 DEF QueueOK
<1>6. queue[c][1].op = op /\ queue[c][1].task = t
  BY <1>2, <1>3
<1>7. Active(t) /\ (op # "stmt" => Len(queue[c]) = 1 /\ main[t] = op)
  BY <1>5, <1>6
<1>8. Len(queue[c]) = 1 => Tail(queue[c]) = <<>>
  <2>1. Len(queue[c]) = 1 => Len(Tail(queue[c])) = 0
    BY <1>3
  <2>. QED
    BY <1>3, <2>1, EmptyQueue
<1>. QED
  BY <1>1, <1>2, <1>3, <1>7, <1>8

\* Where the queues differ after a command was sent.
LEMMA PushFacts ==
  ASSUME TypeOK, NEW c \in Conns, NEW cmd \in Command, Push(c, cmd)
  PROVE  /\ Len(queue[c]) \in Nat /\ Len(queue'[c]) = Len(queue[c]) + 1
         /\ \A i \in 1..Len(queue[c]) : queue'[c][i] = queue[c][i]
         /\ queue'[c][Len(queue[c]) + 1] = cmd
         /\ queue'[c] # <<>>
         /\ queue[c] # <<>> => Head(queue'[c]) = Head(queue[c])
         /\ \A d \in Conns \ {c} : queue'[d] = queue[d]
<1>1. queue[c] \in Seq(Command) /\ queue' = [queue EXCEPT ![c] = Append(@, cmd)]
      /\ queue \in [Conns -> Seq(Command)]
  BY DEF TypeOK, Push
<1>. QED
  BY <1>1, SMTT(30)

\* A step of one call, on its own connection, disturbs no other call, queue or
\* session.
LEMMA Elsewhere ==
  ASSUME OrderlyInv, NEW t \in Tasks, NEW c,
         client[t] = c \/ ~held[t],
         \A u \in Tasks \ {t} : /\ main'[u] = main[u] /\ client'[u] = client[u]
                                /\ body'[u] = body[u] /\ nest'[u] = nest[u]
                                /\ acked'[u] = acked[u] /\ aborted'[u] = aborted[u]
                                /\ held'[u] = held[u],
         \A d \in Conns \ {c} : queue'[d] = queue[d] /\ result'[d] = result[d],
         UNCHANGED <<up, owner, doomed, pend, committed, fate>>
  PROVE  /\ \A u \in Tasks \ {t} : FnOK(u)' /\ FateOK(u)'
         /\ \A d \in Conns \ {c} : QueueOK(d)' /\ AnswerOK(d)' /\ SessionOK(d)'
<1>1. ASSUME NEW u \in Tasks \ {t} PROVE FnOK(u)' /\ FateOK(u)'
  BY DEF OrderlyInv, FnOK, FateOK, Durable
<1>2. ASSUME NEW d \in Conns \ {c} PROVE QueueOK(d)'
  <2>1. \A i \in 1..Len(queue[d]) : queue[d][i].task \in Tasks \ {t}
    <3>1. \A i \in 1..Len(queue[d]) : queue[d][i].task \in Tasks
      BY Elements DEF OrderlyInv
    <3>. QED
      BY <3>1 DEF OrderlyInv, QueueOK, ClientInv
  <2>2. QueueOK(d)
    BY DEF OrderlyInv
  <2>. QED
    BY <2>1, <2>2 DEF QueueOK, Active
<1>3. ASSUME NEW d \in Conns \ {c} PROVE AnswerOK(d)'
  BY DEF OrderlyInv, AnswerOK
<1>4. ASSUME NEW d \in Conns \ {c} PROVE SessionOK(d)'
  <2>1. SessionOK(d) /\ owner[d] \in Tasks \cup {NoTask}
    BY Elements DEF OrderlyInv
  <2>2. owner[d] # NoTask => owner[d] \in Tasks \ {t}
    BY <2>1 DEF SessionOK
  <2>. QED
    BY <2>1, <2>2 DEF SessionOK
<1>. QED
  BY <1>1, <1>2, <1>3, <1>4

\* The queue and the session of the connection an open call has checked out.
LEMMA OwnQueue ==
  ASSUME OrderlyInv, NEW t \in Tasks, NEW c, c = client[t], Active(t)
  PROVE  /\ c \in Conns /\ held[t] /\ slot[c] = "out"
         /\ queue[c] \in Seq(Command) /\ Len(queue[c]) \in Nat
         /\ \A i \in 1..Len(queue[c]) :
              /\ queue[c][i] \in Command /\ queue[c][i].task = t
              /\ queue[c][i].op # "stmt" => main[t] = queue[c][i].op /\ i = Len(queue[c])
                                            /\ queue[c][i].by = "main"
              /\ queue[c][i].op = "stmt" => main[t] \in {"running", "rollback"}
                                            /\ (up[c] => owner[c] = t)
         /\ main[t] = "running" /\ body[t] = "ready" => queue[c] = <<>>
         /\ main[t] = "running" /\ queue[c] # <<>> => Len(queue[c]) = 1 /\ Tail(queue[c]) = <<>>
         /\ owner[c] \in {NoTask, t}
         /\ QueueOK(c) /\ AnswerOK(c) /\ SessionOK(c) /\ FnOK(t) /\ FateOK(t)
<1>1. c \in Conns /\ held[t] /\ slot[c] = "out"
  BY DEF OrderlyInv, ClientInv
<1>2. queue[c] \in Seq(Command) /\ Len(queue[c]) \in Nat
  BY <1>1 DEF OrderlyInv, TypeOK
<1>3. QueueOK(c) /\ AnswerOK(c) /\ SessionOK(c) /\ FnOK(t) /\ FateOK(t)
  BY <1>1 DEF OrderlyInv
<1>4. ASSUME NEW i \in 1..Len(queue[c])
      PROVE  /\ queue[c][i] \in Command /\ queue[c][i].task = t
             /\ queue[c][i].op # "stmt" => main[t] = queue[c][i].op /\ i = Len(queue[c])
                                           /\ queue[c][i].by = "main"
             /\ queue[c][i].op = "stmt" => main[t] \in {"running", "rollback"}
                                           /\ (up[c] => owner[c] = t)
  <2>1. queue[c][i] \in Command /\ queue[c][i].task \in Tasks
    BY <1>1, Elements DEF OrderlyInv
  <2>2. Active(queue[c][i].task) /\ client[queue[c][i].task] = c
    BY <1>3 DEF QueueOK
  <2>3. queue[c][i].task = t
    BY <2>1, <2>2, OneCall DEF OrderlyInv
  <2>. QED
    BY <1>3, <2>1, <2>3 DEF QueueOK
<1>6. main[t] = "running" /\ queue[c] # <<>>
        => body[t] = "await" /\ Len(queue[c]) = 1 /\ Tail(queue[c]) = <<>>
  <2>. SUFFICES ASSUME main[t] = "running", queue[c] # <<>>
                PROVE  body[t] = "await" /\ Len(queue[c]) = 1 /\ Tail(queue[c]) = <<>>
    OBVIOUS
  <2>1. 1 \in 1..Len(queue[c]) /\ Tail(queue[c]) \in Seq(Command)
        /\ Len(Tail(queue[c])) = Len(queue[c]) - 1
    BY <1>1, QueueHead DEF OrderlyInv
  <2>2. queue[c][1].op = "stmt" /\ queue[c][1].task = t
    <3>1. queue[c][1].op # "running"
      BY <1>4, <2>1 DEF Command
    <3>. QED
      BY <1>4, <2>1, <3>1
  <2>3. body[t] = "await" /\ Len(queue[c]) = 1
    BY <1>3, <2>1, <2>2 DEF QueueOK
  <2>4. Len(Tail(queue[c])) = 0
    BY <2>1, <2>3
  <2>. QED
    BY <2>1, <2>3, <2>4, EmptyQueue
<1>5. owner[c] \in {NoTask, t}
  <2>1. owner[c] \in Tasks \cup {NoTask}
    BY <1>1, Elements DEF OrderlyInv
  <2>2. owner[c] # NoTask => held[owner[c]] /\ client[owner[c]] = c
    BY <1>3 DEF SessionOK
  <2>. QED
    BY <2>1, <2>2, OneCall DEF OrderlyInv
<1>. QED
  BY <1>1, <1>2, <1>3, <1>4, <1>5, <1>6

\* A step of one call keeps the invariant when it keeps the part of that call
\* and of its connection.
LEMMA OwnStep ==
  ASSUME OrderlyInv, NEW t \in Tasks, NEW c \in Conns,
         TypeOK', ClientInv', ExclusiveClient',
         client[t] = c \/ ~held[t],
         \A u \in Tasks \ {t} : /\ main'[u] = main[u] /\ client'[u] = client[u]
                                /\ body'[u] = body[u] /\ nest'[u] = nest[u]
                                /\ acked'[u] = acked[u] /\ aborted'[u] = aborted[u]
                                /\ held'[u] = held[u],
         \A d \in Conns \ {c} : queue'[d] = queue[d] /\ result'[d] = result[d],
         UNCHANGED <<up, owner, doomed, pend, committed, fate>>,
         FnOK(t)', FateOK(t)', QueueOK(c)', AnswerOK(c)', SessionOK(c)'
  PROVE  OrderlyInv'
<1>1. /\ \A u \in Tasks \ {t} : FnOK(u)' /\ FateOK(u)'
      /\ \A d \in Conns \ {c} : QueueOK(d)' /\ AnswerOK(d)' /\ SessionOK(d)'
  BY Elsewhere
<1>. QED
  BY <1>1 DEF OrderlyInv

\* A connection the pool may hand out has nothing queued and no transaction.
LEMMA FreeIsClean ==
  ASSUME OrderlyInv, NEW c \in Conns, slot[c] # "out"
  PROVE  queue[c] = <<>> /\ result[c] = "none" /\ owner[c] = NoTask
<1>1. QueueOK(c) /\ SessionOK(c)
  BY DEF OrderlyInv
<1>2. \A u \in Tasks : Active(u) \/ held[u] => client[u] # c
  BY DEF OrderlyInv, ClientInv
<1>3. queue[c] = <<>>
  BY <1>1, <1>2, Elements DEF OrderlyInv, QueueOK
<1>4. owner[c] = NoTask
  BY <1>1, <1>2, Elements DEF OrderlyInv, SessionOK
<1>. QED
  BY <1>1, <1>3, <1>4 DEF QueueOK

LEMMA StartOrderly ==
  ASSUME OrderlyInv, NEW t \in Tasks, Start(t), TypeOK', ClientInv', ExclusiveClient'
  PROVE  OrderlyInv'
<1>1. /\ main[t] = "idle" /\ main'[t] = "connecting" /\ ~held[t]
      /\ \A u \in Tasks \ {t} : main'[u] = main[u]
  BY DEF OrderlyInv, TypeOK, ClientInv, Start, Active
<1>2. UNCHANGED <<outcome, client, held, bodyVars, aborted, queue, result, up, sessVars>>
  BY DEF Start
<1>3. /\ \A u \in Tasks \ {t} : FnOK(u)' /\ FateOK(u)'
      /\ \A d \in Conns : QueueOK(d)' /\ AnswerOK(d)' /\ SessionOK(d)'
  BY <1>1, <1>2, Elsewhere, PoolAssumption
<1>4. FnOK(t)' /\ FateOK(t)'
  BY <1>1, <1>2 DEF OrderlyInv, FnOK, FateOK, Durable
<1>. QED
  BY <1>3, <1>4 DEF OrderlyInv

LEMMA ConnectOrderly ==
  ASSUME OrderlyInv, NEW t \in Tasks, NEW c \in Conns, Connect(t, c),
         TypeOK', ClientInv', ExclusiveClient'
  PROVE  OrderlyInv'
<1>1. /\ main[t] = "connecting" /\ main'[t] = "begin" /\ client'[t] = c
      /\ ~held[t] /\ Active(t)'
      /\ \A u \in Tasks \ {t} : main'[u] = main[u] /\ client'[u] = client[u]
                               /\ held'[u] = held[u]
  <2>1. main[t] = "connecting" => ~held[t]
    BY DEF OrderlyInv, ClientInv, Active
  <2>. QED
    BY <2>1 DEF OrderlyInv, TypeOK, Connect, Active
<1>2. UNCHANGED <<outcome, bodyVars, aborted, result, up, sessVars>>
  BY DEF Connect
<1>3. queue[c] = <<>> /\ result[c] = "none" /\ owner[c] = NoTask
  BY FreeIsClean DEF Connect
<1>4. /\ queue'[c] = <<Cmd(t, "main", "begin", 0)>>
      /\ \A d \in Conns \ {c} : queue'[d] = queue[d]
  BY <1>3 DEF Connect, Push, OrderlyInv, TypeOK
<1>5. QueueOK(c)' /\ AnswerOK(c)'
  BY <1>1, <1>2, <1>3, <1>4 DEF QueueOK, AnswerOK, Cmd
<1>6. SessionOK(c)'
  BY <1>2, <1>3 DEF OrderlyInv, SessionOK
<1>7. FnOK(t)' /\ FateOK(t)'
  BY <1>1, <1>2 DEF OrderlyInv, FnOK, FateOK, Durable
<1>. QED
  BY <1>1, <1>2, <1>4, <1>5, <1>6, <1>7, OwnStep

\* The answer to BEGIN.
LEMMA BeginOrderly ==
  ASSUME OrderlyInv, Orderly, NEW t \in Tasks,
         BeginOk(t) \/ BeginOkAborted(t) \/ BeginFails(t), TypeOK', ClientInv', ExclusiveClient'
  PROVE  OrderlyInv'
<1>1. PICK c : c = client[t]
  OBVIOUS
<1>2. /\ main[t] = "begin" /\ Active(t) /\ c \in Conns /\ Answered(t, "main", "begin")
  BY <1>1 DEF BeginOk, BeginOkAborted, BeginFails, Active, Answered
<1>3. /\ queue[c] # <<>> /\ Head(queue[c]).op = "begin" /\ Head(queue[c]).task = t
      /\ Tail(queue[c]) = <<>>
  BY <1>1, <1>2, HeadFacts
<1>4. /\ SessionOK(c) /\ AnswerOK(c) /\ FnOK(t) /\ FateOK(t) /\ owner[c] \in {NoTask, t}
  BY <1>1, <1>2, OwnQueue
<1>5. UNCHANGED <<client, held, nest, acked, aborted, up, sessVars>> /\ result'[c] = "none"
      /\ \A d \in Conns \ {c} : result'[d] = result[d]
  BY <1>1, <1>2 DEF BeginOk, BeginOkAborted, BeginFails, Pop, OrderlyInv, TypeOK
<1>6. Succeeded(c) => owner[c] = t /\ fate[t] = "open"
  <2>1. Succeeded(c) => owner[c] = t
    BY <1>3, <1>4 DEF AnswerOK, Succeeded
  <2>. QED
    BY <1>1, <1>2, <1>4, <2>1 DEF Succeeded, FateOK
<1>7. \A u \in Tasks \ {t} : main'[u] = main[u] /\ body'[u] = body[u]
  BY <1>2 DEF BeginOk, BeginOkAborted, BeginFails, OrderlyInv, TypeOK
<1>8. \A d \in Conns \ {c} : queue'[d] = queue[d]
  BY <1>1, <1>2 DEF BeginOk, BeginOkAborted, BeginFails, Pop, OrderlyInv, TypeOK
<1>9. CASE BeginOk(t)
  <2>1. main'[t] = "running" /\ body'[t] = "ready" /\ queue'[c] = <<>> /\ Succeeded(c)
        /\ ~aborted[t]
    BY <1>1, <1>2, <1>3, <1>9 DEF BeginOk, Pop, OrderlyInv, TypeOK
  <2>2. QueueOK(c)' /\ AnswerOK(c)'
    BY <2>1, <1>5 DEF QueueOK, AnswerOK
  <2>3. SessionOK(c)'
    BY <2>1, <1>1, <1>2, <1>4, <1>5, <1>6 DEF SessionOK, Active
  <2>4. FnOK(t)' /\ FateOK(t)'
    BY <2>1, <1>1, <1>2, <1>4, <1>5, <1>6 DEF FnOK, FateOK, Durable
  <2>. QED
    BY <1>1, <1>2, <1>5, <1>7, <1>8, <2>2, <2>3, <2>4, OwnStep
<1>10. CASE BeginOkAborted(t)
  <2>1. main'[t] = "rollback" /\ body'[t] = "over" /\ Succeeded(c)
    BY <1>1, <1>2, <1>10 DEF BeginOkAborted, OrderlyInv, TypeOK, Orderly
  <2>2. \/ queue'[c] = <<Cmd(t, "main", "rollback", 0)>>
        \/ /\ Len(queue'[c]) = 2 /\ queue'[c][1] = Cmd(t, "body", "stmt", 1)
           /\ queue'[c][2] = Cmd(t, "main", "rollback", 0)
    <3>1. PICK n \in 0..1 : n <= MaxStmts /\
            queue' = [queue EXCEPT ![c] =
                        Append(IF n = 1 THEN Append(Tail(queue[c]), Cmd(t, "body", "stmt", 1))
                               ELSE Tail(queue[c]), Cmd(t, "main", "rollback", 0))]
      BY <1>1, <1>10 DEF BeginOkAborted
    <3>2. queue \in [Conns -> Seq(Command)]
      BY DEF OrderlyInv, TypeOK
    <3>3. queue'[c] = Append(IF n = 1 THEN Append(Tail(queue[c]), Cmd(t, "body", "stmt", 1))
                             ELSE Tail(queue[c]), Cmd(t, "main", "rollback", 0))
      BY <1>2, <3>1, <3>2
    <3>4. queue'[c] = Append(IF n = 1 THEN Append(<<>>, Cmd(t, "body", "stmt", 1))
                             ELSE <<>>, Cmd(t, "main", "rollback", 0))
      BY <1>3, <3>3
    <3>5. n = 1 => 1 \in 1..MaxStmts
      BY <1>10, <3>1, PoolAssumption
    <3>. QED
      <4>1. Cmd(t, "main", "rollback", 0) \in Command
            /\ (n = 1 => Cmd(t, "body", "stmt", 1) \in Command)
        BY <3>5, CmdsSent DEF OrderlyInv
      <4>2. CASE n = 0
        BY <3>4, <4>1, <4>2, Appended
      <4>3. CASE n = 1
        BY <3>4, <4>1, <4>3, Appended
      <4>. QED
        BY <4>2, <4>3
  <2>3. QueueOK(c)'
    <3>1. CASE queue'[c] = <<Cmd(t, "main", "rollback", 0)>>
      BY <2>1, <1>1, <1>5, <3>1 DEF QueueOK, Active, Cmd
    <3>2. CASE /\ Len(queue'[c]) = 2 /\ queue'[c][1] = Cmd(t, "body", "stmt", 1)
               /\ queue'[c][2] = Cmd(t, "main", "rollback", 0)
      <4>1. up'[c] => owner'[c] = t
        BY <2>1, <1>5, <1>6
      <4>. QED
        BY <2>1, <1>1, <1>5, <3>2, <4>1 DEF QueueOK, Active, Cmd
    <3>. QED
      BY <2>2, <3>1, <3>2
  <2>4. AnswerOK(c)'
    BY <1>5 DEF AnswerOK
  <2>5. SessionOK(c)'
    BY <2>1, <1>1, <1>2, <1>4, <1>5, <1>6 DEF SessionOK, Active
  <2>6. FnOK(t)' /\ FateOK(t)'
    BY <2>1, <1>1, <1>2, <1>4, <1>5, <1>6 DEF FnOK, FateOK, Durable
  <2>. QED
    BY <1>1, <1>2, <1>5, <1>7, <1>8, <2>3, <2>4, <2>5, <2>6, OwnStep
<1>11. CASE BeginFails(t)
  <2>1. main'[t] = "settled" /\ body'[t] = body[t] /\ queue'[c] = <<>> /\ ~Succeeded(c)
    BY <1>1, <1>2, <1>3, <1>11 DEF BeginFails, Pop, OrderlyInv, TypeOK
  <2>3. QueueOK(c)' /\ AnswerOK(c)'
    BY <2>1, <1>5 DEF QueueOK, AnswerOK
  <2>4. SessionOK(c)'
    BY <2>1, <1>1, <1>2, <1>4, <1>5 DEF SessionOK
  <2>5. FnOK(t)' /\ FateOK(t)'
    BY <2>1, <1>1, <1>2, <1>4, <1>5, <1>6 DEF FnOK, FateOK, Durable
  <2>. QED
    BY <1>1, <1>2, <1>5, <1>7, <1>8, <2>3, <2>4, <2>5, OwnStep
<1>. QED
  BY <1>9, <1>10, <1>11

\* The answers to COMMIT and to ROLLBACK: the session holds nothing any more.
LEMMA EndOrderly ==
  ASSUME OrderlyInv, NEW t \in Tasks, CommitOk(t) \/ CommitFails(t) \/ RollbackDone(t),
         TypeOK', ClientInv', ExclusiveClient'
  PROVE  OrderlyInv'
<1>1. PICK c : c = client[t]
  OBVIOUS
<1>2. PICK op \in {"commit", "rollback"} : main[t] = op /\ Answered(t, "main", op)
  BY DEF CommitOk, CommitFails, RollbackDone
<1>3. Active(t) /\ c \in Conns
  BY <1>1, <1>2 DEF Active, Answered
<1>4. /\ queue[c] # <<>> /\ Head(queue[c]).op = op /\ Head(queue[c]).task = t
      /\ Tail(queue[c]) = <<>>
  BY <1>1, <1>2, HeadFacts
<1>5. /\ SessionOK(c) /\ AnswerOK(c) /\ FnOK(t) /\ FateOK(t)
  BY <1>1, <1>3, OwnQueue
<1>6. owner[c] = NoTask
  BY <1>1, <1>2, <1>4, <1>5 DEF AnswerOK, SessionOK, Answered
<1>7. /\ UNCHANGED <<client, body, nest, acked, aborted, up, owner, doomed, pend, committed,
                     fate>>
      /\ result'[c] = "none"
      /\ \A d \in Conns \ {c} : result'[d] = result[d] /\ queue'[d] = queue[d]
      /\ \A u \in Tasks \ {t} : main'[u] = main[u] /\ held'[u] = held[u]
  BY <1>1, <1>3 DEF CommitOk, CommitFails, RollbackDone, Pop, Release, OrderlyInv, TypeOK
<1>8. \/ main'[t] = "settled" /\ queue'[c] = <<>>
      \/ main'[t] = "rollback" /\ queue'[c] = <<Cmd(t, "main", "rollback", 0)>>
  <2>1. main \in [Tasks -> {"idle", "connecting", "begin", "running", "commit",
                           "rollback", "settled"}]
        /\ queue \in [Conns -> Seq(Command)]
    BY DEF OrderlyInv, TypeOK
  <2>2. CASE CommitOk(t)
    BY <1>1, <1>3, <1>4, <2>1, <2>2 DEF CommitOk, Pop
  <2>3. CASE CommitFails(t)
    <3>1. main'[t] = "rollback" /\ queue'[c] = Append(Tail(queue[c]), Cmd(t, "main", "rollback", 0))
      BY <1>1, <1>3, <2>1, <2>3 DEF CommitFails
    <3>. QED
      BY <1>4, <3>1, Appended, CmdsSent DEF OrderlyInv
  <2>4. CASE RollbackDone(t)
    BY <1>1, <1>3, <1>4, <2>1, <2>4 DEF RollbackDone, Pop
  <2>. QED
    BY <2>2, <2>3, <2>4
<1>9. QueueOK(c)'
  <2>1. CASE queue'[c] = <<>>
    BY <1>7, <2>1 DEF QueueOK
  <2>2. CASE main'[t] = "rollback" /\ queue'[c] = <<Cmd(t, "main", "rollback", 0)>>
    BY <1>1, <1>7, <2>2 DEF QueueOK, Active, Cmd
  <2>. QED
    BY <1>8, <2>1, <2>2
<1>10. AnswerOK(c)' /\ SessionOK(c)'
  BY <1>5, <1>6, <1>7 DEF AnswerOK, SessionOK
<1>11. FnOK(t)' /\ FateOK(t)'
  BY <1>2, <1>5, <1>7, <1>8 DEF FnOK, FateOK, Durable
<1>. QED
  <2>1. UNCHANGED <<up, owner, doomed, pend, committed, fate>>
        /\ \A u \in Tasks \ {t} : /\ main'[u] = main[u] /\ client'[u] = client[u]
                                  /\ body'[u] = body[u] /\ nest'[u] = nest[u]
                                  /\ acked'[u] = acked[u] /\ aborted'[u] = aborted[u]
                                  /\ held'[u] = held[u]
    BY <1>7
  <2>. QED
    BY <1>1, <1>3, <1>7, <1>9, <1>10, <1>11, <2>1, OwnStep

\* What one command at the end of an empty queue does to it.
LEMMA PushOnEmpty ==
  ASSUME TypeOK, NEW c \in Conns, NEW cmd \in Command, queue[c] = <<>>, Push(c, cmd)
  PROVE  /\ queue'[c] = <<cmd>>
         /\ \A d \in Conns \ {c} : queue'[d] = queue[d]
<1>1. queue'[c] = Append(<<>>, cmd) /\ \A d \in Conns \ {c} : queue'[d] = queue[d]
  BY DEF TypeOK, Push
<1>. QED
  BY <1>1, Appended

\* fn sends a statement, or ends: the race is on and nothing is queued.
LEMMA SendOrderly ==
  ASSUME OrderlyInv, NEW t \in Tasks,
         Send(t) \/ BodyEnds(t, "commit") \/ BodyEnds(t, "rollback"),
         TypeOK', ClientInv', ExclusiveClient'
  PROVE  OrderlyInv'
<1>1. PICK c : c = client[t]
  OBVIOUS
<1>2. body[t] = "ready" /\ main[t] = "running" /\ Active(t)
  BY DEF Send, BodyEnds, OrderlyInv, FnOK, Active
<1>3. /\ c \in Conns /\ queue[c] = <<>> /\ SessionOK(c) /\ AnswerOK(c) /\ QueueOK(c)
      /\ FnOK(t) /\ FateOK(t) /\ owner[c] \in {NoTask, t}
  BY <1>1, <1>2, OwnQueue
<1>4. result[c] = "none"
  BY <1>3 DEF QueueOK
<1>5. UNCHANGED <<client, held, nest, acked, aborted, result, up, owner, doomed, pend, committed,
                  fate>>
  BY DEF Send, BodyEnds
<1>6. \A u \in Tasks \ {t} : main'[u] = main[u] /\ body'[u] = body[u]
  BY <1>2 DEF Send, BodyEnds, OrderlyInv, TypeOK
<1>7. CASE Send(t)
  <2>1. PICK k \in 1..MaxStmts : Push(c, Cmd(t, "body", "stmt", k))
    <3>1. sent[t] + 1 \in 1..MaxStmts
      BY <1>7, PoolAssumption DEF Send, OrderlyInv, TypeOK
    <3>. QED
      BY <1>1, <1>7, <3>1 DEF Send
  <2>2. /\ queue'[c] = <<Cmd(t, "body", "stmt", k)>>
        /\ \A d \in Conns \ {c} : queue'[d] = queue[d]
    BY <1>3, <2>1, CmdsSent, PushOnEmpty DEF OrderlyInv
  <2>3. main'[t] = "running" /\ body'[t] = "await" /\ ~aborted[t]
    BY <1>2, <1>3, <1>7 DEF Send, FnOK, OrderlyInv, TypeOK
  <2>4. up[c] => owner[c] = t
    BY <1>1, <1>2, <1>3 DEF FateOK
  <2>5. QueueOK(c)' /\ AnswerOK(c)'
    BY <1>1, <1>4, <1>5, <2>2, <2>3, <2>4 DEF QueueOK, AnswerOK, Active, Cmd
  <2>6. SessionOK(c)'
    BY <1>1, <1>2, <1>3, <1>5, <1>6, <2>3 DEF SessionOK, Active
  <2>7. FnOK(t)' /\ FateOK(t)'
    BY <1>1, <1>2, <1>3, <1>5, <2>3 DEF FnOK, FateOK, Durable
  <2>. QED
    BY <1>1, <1>3, <1>5, <1>6, <2>2, <2>5, <2>6, <2>7, OwnStep
<1>8. ASSUME NEW op \in {"commit", "rollback"}, BodyEnds(t, op) PROVE OrderlyInv'
  <2>1. /\ queue'[c] = <<Cmd(t, "main", op, 0)>>
        /\ \A d \in Conns \ {c} : queue'[d] = queue[d]
    <3>1. Push(c, Cmd(t, "main", op, 0))
      BY <1>1, <1>2, <1>8 DEF BodyEnds
    <3>. QED
      BY <1>3, <3>1, CmdsSent, PushOnEmpty DEF OrderlyInv
  <2>2. main'[t] = op /\ body'[t] = "over"
    BY <1>2, <1>8 DEF BodyEnds, OrderlyInv, TypeOK
  <2>3. QueueOK(c)' /\ AnswerOK(c)'
    BY <1>1, <1>4, <1>5, <2>1, <2>2 DEF QueueOK, AnswerOK, Active, Cmd
  <2>4. SessionOK(c)'
    BY <1>1, <1>2, <1>3, <1>5, <1>6, <2>2 DEF SessionOK, Active
  <2>5. FnOK(t)' /\ FateOK(t)'
    BY <1>1, <1>2, <1>3, <1>5, <2>2 DEF FnOK, FateOK, Durable
  <2>. QED
    BY <1>1, <1>3, <1>5, <1>6, <2>1, <2>3, <2>4, <2>5, OwnStep
<1>. QED
  BY <1>7, <1>8

\* The answer to the statement fn awaits: nothing else is queued.
LEMMA AnswerOrderly ==
  ASSUME OrderlyInv, NEW t \in Tasks, StmtOk(t) \/ StmtError(t),
         TypeOK', ClientInv', ExclusiveClient'
  PROVE  OrderlyInv'
<1>1. PICK c : c = client[t]
  OBVIOUS
<1>2. body[t] = "await" /\ Answered(t, "body", "stmt") /\ Head(queue[c]).k = sent[t]
  BY <1>1 DEF StmtOk, StmtError, Awaited
<1>3. main[t] = "running" /\ Active(t) /\ ~nest[t] /\ ~aborted[t]
  BY <1>2 DEF OrderlyInv, FnOK, Active
<1>4. /\ c \in Conns /\ queue[c] # <<>> /\ Head(queue[c]).task = t
      /\ Head(queue[c]).op = "stmt" /\ (result[c] # "none" \/ ~up[c])
  BY <1>1, <1>2 DEF Answered
<1>5. /\ Tail(queue[c]) = <<>> /\ AnswerOK(c) /\ SessionOK(c) /\ FnOK(t) /\ FateOK(t)
      /\ owner[c] \in {NoTask, t}
  BY <1>1, <1>3, <1>4, OwnQueue
<1>6. UNCHANGED <<client, held, nest, aborted, up, owner, doomed, pend, committed, fate>>
  BY <1>3 DEF StmtOk, StmtError
<1>7. \A u \in Tasks \ {t} : /\ main'[u] = main[u] /\ body'[u] = body[u]
                             /\ acked'[u] = acked[u]
  BY <1>3 DEF StmtOk, StmtError, Throws, OrderlyInv, TypeOK
<1>8. result'[c] = "none" /\ \A d \in Conns \ {c} : result'[d] = result[d]
  BY <1>1, <1>4 DEF StmtOk, StmtError, Pop, OrderlyInv, TypeOK
<1>9. AnswerOK(c)'
  BY <1>8 DEF AnswerOK
<1>10. CASE StmtOk(t)
  <2>1. /\ main'[t] = "running" /\ body'[t] = "ready" /\ queue'[c] = <<>>
        /\ acked'[t] = acked[t] \cup {sent[t]}
        /\ \A d \in Conns \ {c} : queue'[d] = queue[d]
    BY <1>1, <1>3, <1>4, <1>5, <1>10 DEF StmtOk, Pop, OrderlyInv, TypeOK
  <2>2. up[c] /\ result[c] = "ok"
    BY <1>1, <1>10 DEF StmtOk, Succeeded
  <2>3. owner[c] = t /\ <<t, sent[t]>> \in pend[c]
    BY <1>1, <1>2, <1>3, <1>4, <1>5, <2>2 DEF AnswerOK, FateOK
  <2>4. QueueOK(c)'
    BY <1>8, <2>1 DEF QueueOK
  <2>5. SessionOK(c)'
    BY <1>1, <1>3, <1>5, <1>6, <2>1, <2>3 DEF SessionOK, Active
  <2>6. FnOK(t)' /\ FateOK(t)'
    BY <1>1, <1>3, <1>5, <1>6, <2>1 DEF FnOK, FateOK, Durable
  <2>. QED
    BY <1>1, <1>4, <1>6, <1>7, <1>8, <1>9, <2>1, <2>4, <2>5, <2>6, OwnStep
<1>11. CASE StmtError(t)
  <2>1. /\ acked' = acked
        /\ \/ main'[t] = "rollback" /\ body'[t] = "over"
              /\ queue' = [queue EXCEPT ![c] = Append(Tail(@), Cmd(t, "main", "rollback", 0))]
           \/ main'[t] = "running" /\ body'[t] = "ready"
              /\ queue' = [queue EXCEPT ![c] = Tail(@)]
    BY <1>1, <1>3, <1>11 DEF StmtError, Throws, OrderlyInv, TypeOK
  <2>2. /\ \/ main'[t] = "rollback" /\ body'[t] = "over"
              /\ queue'[c] = <<Cmd(t, "main", "rollback", 0)>>
           \/ main'[t] = "running" /\ body'[t] = "ready" /\ queue'[c] = <<>>
        /\ \A d \in Conns \ {c} : queue'[d] = queue[d]
    <3>1. queue \in [Conns -> Seq(Command)]
      BY DEF OrderlyInv, TypeOK
    <3>2. Append(Tail(queue[c]), Cmd(t, "main", "rollback", 0))
            = <<Cmd(t, "main", "rollback", 0)>>
      BY <1>5, Appended, CmdsSent DEF OrderlyInv
    <3>. QED
      BY <1>4, <1>5, <2>1, <3>1, <3>2
  <2>3. QueueOK(c)'
    <3>1. CASE queue'[c] = <<>>
      BY <1>8, <3>1 DEF QueueOK
    <3>2. CASE main'[t] = "rollback" /\ queue'[c] = <<Cmd(t, "main", "rollback", 0)>>
      BY <1>1, <1>6, <1>8, <3>2 DEF QueueOK, Active, Cmd
    <3>. QED
      BY <2>2, <3>1, <3>2
  <2>4. SessionOK(c)'
    BY <1>1, <1>3, <1>5, <1>6, <2>1 DEF SessionOK, Active
  <2>5. FnOK(t)' /\ FateOK(t)'
    BY <1>1, <1>3, <1>5, <1>6, <2>1 DEF FnOK, FateOK, Durable
  <2>. QED
    BY <1>1, <1>4, <1>6, <1>7, <1>8, <1>9, <2>1, <2>2, <2>3, <2>4, <2>5, OwnStep
<1>. QED
  BY <1>10, <1>11

\* The answer to a statement nobody awaits any more.
LEMMA DroppedOrderly ==
  ASSUME OrderlyInv, NEW t \in Tasks, StmtDropped(t), TypeOK', ClientInv', ExclusiveClient'
  PROVE  OrderlyInv'
<1>1. PICK c : c = client[t]
  OBVIOUS
<1>2. Answered(t, "body", "stmt")
  BY DEF StmtDropped
<1>3. /\ c \in Conns /\ queue[c] # <<>> /\ Active(t) /\ Len(queue[c]) \in Nat \ {0}
      /\ Tail(queue[c]) \in Seq(Command) /\ Len(Tail(queue[c])) = Len(queue[c]) - 1
      /\ \A i \in 1..Len(Tail(queue[c])) : Tail(queue[c])[i] = queue[c][i + 1]
  BY <1>1, <1>2, HeadFacts
<1>4. QueueOK(c) /\ AnswerOK(c) /\ SessionOK(c) /\ FnOK(t) /\ FateOK(t)
  BY <1>1, <1>3, OwnQueue
<1>5. UNCHANGED <<main, client, held, body, nest, acked, aborted, up, owner, doomed, pend, committed,
                  fate>>
  BY DEF StmtDropped
<1>6. /\ queue'[c] = Tail(queue[c]) /\ result'[c] = "none"
      /\ \A d \in Conns \ {c} : queue'[d] = queue[d] /\ result'[d] = result[d]
  BY <1>1, <1>3 DEF StmtDropped, Pop, OrderlyInv, TypeOK
<1>7. QueueOK(c)'
  <2>1. \A i \in 1..Len(queue'[c]) :
          i + 1 \in 1..Len(queue[c]) /\ queue'[c][i] = queue[c][i + 1]
    BY <1>3, <1>6
  <2>2. Len(queue'[c]) = Len(queue[c]) - 1
    BY <1>3, <1>6
  <2>. QED
    BY <1>3, <1>4, <1>5, <1>6, <2>1, <2>2 DEF QueueOK, Active
<1>8. AnswerOK(c)'
  BY <1>6 DEF AnswerOK
<1>9. SessionOK(c)'
  <2>1. owner[c] # NoTask /\ main[owner[c]] = "begin" => FALSE
    BY <1>1, <1>3, <1>4, <1>2, OwnQueue, QueueHead DEF Answered, OrderlyInv
  <2>. QED
    BY <1>4, <1>5, <2>1 DEF SessionOK, Active
<1>10. FnOK(t)' /\ FateOK(t)'
  BY <1>4, <1>5 DEF FnOK, FateOK, Durable
<1>. QED
  BY <1>1, <1>3, <1>5, <1>6, <1>7, <1>8, <1>9, <1>10, OwnStep

\* The signal fires: a running race ends with ROLLBACK behind the statement fn
\* awaits; any other call only takes note of it.
LEMMA AbortOrderly ==
  ASSUME OrderlyInv, Orderly, NEW t \in Tasks, Abort(t), TypeOK', ClientInv', ExclusiveClient'
  PROVE  OrderlyInv'
<1>1. PICK c : c = client[t]
  OBVIOUS
<1>2. UNCHANGED <<client, held, nest, acked, result, up, owner, doomed, pend, committed, fate>>
      /\ \A u \in Tasks \ {t} : aborted'[u] = aborted[u]
  BY DEF Abort, OrderlyInv, TypeOK
<1>3. CASE main[t] = "running"
  <2>1. main'[t] = "rollback" /\ body'[t] = "over" /\ Push(c, Cmd(t, "main", "rollback", 0))
        /\ \A u \in Tasks \ {t} : main'[u] = main[u] /\ body'[u] = body[u]
    BY <1>1, <1>3 DEF Abort, Orderly, OrderlyInv, TypeOK
  <2>2. Active(t)
    BY <1>3 DEF Active
  <2>3. /\ c \in Conns /\ QueueOK(c) /\ AnswerOK(c) /\ SessionOK(c) /\ FnOK(t) /\ FateOK(t)
        /\ owner[c] \in {NoTask, t}
        /\ \A i \in 1..Len(queue[c]) :
             queue[c][i].task = t /\ queue[c][i] \in Command
               /\ (queue[c][i].op # "stmt" => main[t] = queue[c][i].op)
    BY <1>1, <2>2, OwnQueue
  <2>4. /\ Len(queue[c]) \in Nat /\ Len(queue'[c]) = Len(queue[c]) + 1
        /\ \A i \in 1..Len(queue[c]) : queue'[c][i] = queue[c][i]
        /\ queue'[c][Len(queue[c]) + 1] = Cmd(t, "main", "rollback", 0)
        /\ queue'[c] # <<>>
        /\ queue[c] # <<>> => Head(queue'[c]) = Head(queue[c])
        /\ \A d \in Conns \ {c} : queue'[d] = queue[d]
    BY <2>1, <2>3, CmdsSent, PushFacts DEF OrderlyInv
  <2>5. \A i \in 1..Len(queue[c]) : queue[c][i].op = "stmt"
    BY <1>3, <2>3 DEF Command
  <2>6. QueueOK(c)'
    <3>1. \A i \in 1..Len(queue'[c]) : i \in 1..Len(queue[c]) \/ i = Len(queue[c]) + 1
      BY <2>4
    <3>2. \A i \in 1..Len(queue[c]) : up[c] => owner[c] = t
      BY <2>3, <2>5 DEF QueueOK
    <3>3. ASSUME NEW i \in 1..Len(queue'[c])
          PROVE  /\ queue'[c][i].task = t
                 /\ queue'[c][i].op # "stmt" => /\ i = Len(queue'[c])
                                                /\ queue'[c][i].by = "main"
                                                /\ queue'[c][i].op = "rollback"
                 /\ queue'[c][i].op = "stmt" => (up[c] => owner[c] = t)
      <4>1. CASE i \in 1..Len(queue[c])
        BY <2>3, <2>4, <2>5, <3>2, <4>1
      <4>2. CASE i = Len(queue[c]) + 1
        <5>1. queue'[c][i] = Cmd(t, "main", "rollback", 0)
          BY <2>4, <4>2
        <5>. QED
          BY <2>4, <4>2, <5>1 DEF Cmd
      <4>. QED
        BY <3>1, <4>1, <4>2
    <3>. QED
      BY <1>1, <1>2, <2>1, <2>4, <3>3 DEF QueueOK, Active
  <2>7. AnswerOK(c)'
    BY <1>2, <2>3, <2>4 DEF AnswerOK, QueueOK
  <2>8. SessionOK(c)'
    BY <1>1, <1>2, <1>3, <2>1, <2>3 DEF SessionOK, Active
  <2>9. FnOK(t)' /\ FateOK(t)'
    BY <1>1, <1>2, <1>3, <2>1, <2>3 DEF FnOK, FateOK, Durable
  <2>. QED
    BY <1>1, <1>2, <2>1, <2>3, <2>4, <2>6, <2>7, <2>8, <2>9, OwnStep
<1>4. CASE main[t] # "running"
  <2>1. UNCHANGED <<main, body, queue>>
    BY <1>4 DEF Abort
  <2>2. \A u \in Tasks : FnOK(u)' /\ FateOK(u)'
    BY <1>2, <1>4, <2>1 DEF OrderlyInv, FnOK, FateOK, Durable
  <2>3. \A d \in Conns : QueueOK(d)'
    BY <1>2, <2>1 DEF OrderlyInv, QueueOK, Active
  <2>4. \A d \in Conns : AnswerOK(d)' /\ SessionOK(d)'
    BY <1>2, <2>1 DEF OrderlyInv, AnswerOK, SessionOK, Active
  <2>. QED
    BY <2>2, <2>3, <2>4 DEF OrderlyInv
<1>. QED
  BY <1>3, <1>4

\* A step of the server on one connection disturbs no other connection and no
\* other call than the one that has the connection checked out.
LEMMA ServerStep ==
  ASSUME OrderlyInv, NEW c \in Conns, NEW t, TypeOK', ClientInv', ExclusiveClient',
         t \in Tasks => held[t] /\ client[t] = c,
         \A u \in Tasks : held[u] /\ client[u] = c => u = t,
         UNCHANGED <<main, client, held, body, nest, acked, aborted, queue>>,
         \A d \in Conns \ {c} : /\ result'[d] = result[d] /\ up'[d] = up[d]
                                /\ owner'[d] = owner[d] /\ doomed'[d] = doomed[d]
                                /\ pend'[d] = pend[d],
         \A u \in Tasks \ {t} : fate'[u] = fate[u] /\ Durable(u)' = Durable(u),
         QueueOK(c)', AnswerOK(c)', SessionOK(c)', t \in Tasks => FateOK(t)'
  PROVE  OrderlyInv'
<1>1. \A u \in Tasks : FnOK(u)'
  BY DEF OrderlyInv, FnOK
<1>2. ASSUME NEW u \in Tasks \ {t} PROVE FateOK(u)'
  <2>1. FateOK(u) /\ fate'[u] = fate[u] /\ Durable(u)' = Durable(u)
    BY DEF OrderlyInv
  <2>2. Active(u) => client[u] \in Conns \ {c}
    BY DEF OrderlyInv, ClientInv
  <2>3. main[u] \in {"begin", "running"}
          => up'[client'[u]] = up[client[u]] /\ owner'[client'[u]] = owner[client[u]]
    BY <2>2 DEF Active
  <2>. QED
    BY <2>1, <2>3 DEF FateOK
<1>3. ASSUME NEW d \in Conns \ {c} PROVE QueueOK(d)' /\ AnswerOK(d)' /\ SessionOK(d)'
  <2>1. QueueOK(d) /\ AnswerOK(d) /\ SessionOK(d)
    BY DEF OrderlyInv
  <2>2. QueueOK(d)' /\ AnswerOK(d)'
    BY <2>1 DEF QueueOK, AnswerOK, Active
  <2>3. owner[d] # NoTask => owner[d] \in Tasks \ {t}
    BY <2>1, Elements DEF OrderlyInv, SessionOK
  <2>4. owner[d] # NoTask => fate'[owner[d]] = fate[owner[d]]
    BY <2>3
  <2>5. SessionOK(d)'
    BY <2>1, <2>4 DEF SessionOK, Active
  <2>. QED
    BY <2>2, <2>5
<1>4. \A u \in Tasks : FateOK(u)'
  BY <1>2
<1>5. \A d \in Conns : QueueOK(d)' /\ AnswerOK(d)' /\ SessionOK(d)'
  BY <1>3
<1>. QED
  BY <1>1, <1>4, <1>5 DEF OrderlyInv

\* Every statement whose success the fn of u has seen is durable.
Kept(u) == acked[u] \subseteq Durable(u)

\* What the end of the session's transaction does: to its owner, whose writes
\* become durable or vanish as one, and to nobody else.
LEMMA EndTxFacts ==
  ASSUME OrderlyInv, NEW c \in Conns, NEW how \in {"committed", "discarded"}, EndTx(c, how),
         UNCHANGED acked
  PROVE  /\ pend'[c] = {} /\ doomed'[c] = FALSE
         /\ \A d \in Conns \ {c} : pend'[d] = pend[d] /\ doomed'[d] = doomed[d]
         /\ \A u \in Tasks : u # owner[c] => fate'[u] = fate[u] /\ Durable(u)' = Durable(u)
         /\ \A u \in Tasks : u = owner[c] =>
              /\ fate'[u] = how
              /\ how = "committed" => Kept(u)'
              /\ how = "discarded" => Durable(u)' = {}
<1>1. SessionOK(c) /\ owner[c] \in Tasks \cup {NoTask}
  BY Elements DEF OrderlyInv
<1>2. /\ pend'[c] = {} /\ doomed'[c] = FALSE
      /\ \A d \in Conns \ {c} : pend'[d] = pend[d] /\ doomed'[d] = doomed[d]
  BY DEF EndTx, OrderlyInv, TypeOK
<1>3. \A w \in pend[c] : w[1] = owner[c]
  BY <1>1 DEF SessionOK
<1>4. \A u \in Tasks : u # owner[c] => Durable(u)' = Durable(u)
  BY <1>3 DEF EndTx, Durable
<1>5. \A u \in Tasks : u # owner[c] => fate'[u] = fate[u]
  BY DEF EndTx, OrderlyInv, TypeOK
<1>6. ASSUME NEW u \in Tasks, u = owner[c]
      PROVE  /\ fate'[u] = how
             /\ how = "committed" => Kept(u)'
             /\ how = "discarded" => Durable(u)' = {}
  <2>1. u # NoTask
    BY PoolAssumption
  <2>2. /\ fate[u] = "open" /\ \A k \in acked[u] : <<u, k>> \in pend[c]
        /\ acked[u] \subseteq 1..MaxStmts
    BY <1>1, <1>6, <2>1 DEF SessionOK, OrderlyInv, TypeOK
  <2>3. fate'[u] = how
    BY <1>6, <2>1, <2>2 DEF EndTx, OrderlyInv, TypeOK
  <2>4. Durable(u) = {}
    BY <2>2 DEF OrderlyInv, FateOK
  <2>5. how = "discarded" => Durable(u)' = {}
    BY <2>4 DEF EndTx, Durable
  <2>6. how = "committed" => Kept(u)'
    <3>1. acked' = acked => (how = "committed" => Kept(u)')
      BY <2>2 DEF EndTx, Durable, Kept
    <3>. QED
      BY <3>1
  <2>. QED
    BY <2>3, <2>5, <2>6
<1>. QED
  BY <1>2, <1>4, <1>5, <1>6

LEMMA ServerOrderly ==
  ASSUME OrderlyInv, NEW c \in Conns, Server(c), TypeOK', ClientInv', ExclusiveClient'
  PROVE  OrderlyInv'
<1>1. /\ up[c] /\ result[c] = "none" /\ queue[c] # <<>>
      /\ UNCHANGED <<main, client, held, body, nest, acked, aborted, queue, up>>
  BY DEF Server, ServerBegin, ServerStmt, ServerStmtFails, ServerCommit, ServerRollback, Runs
<1>2. \A d \in Conns \ {c} : /\ result'[d] = result[d] /\ up'[d] = up[d]
                              /\ owner'[d] = owner[d] /\ doomed'[d] = doomed[d]
                              /\ pend'[d] = pend[d]
  BY SMTT(30) DEF Server, ServerBegin, BeginTx, ServerStmt, ServerStmtFails, ServerCommit, ServerRollback, Answer,
         EndTx, OrderlyInv, TypeOK
<1>3. PICK q \in Command : q = Head(queue[c]) /\ q = queue[c][1] /\ 1 \in 1..Len(queue[c])
  BY <1>1, QueueHead, Elements DEF OrderlyInv
<1>4. PICK t \in Tasks : t = q.task
  BY <1>3 DEF Command
<1>5. Active(t) /\ held[t] /\ client[t] = c /\ SessionOK(c) /\ AnswerOK(c) /\ QueueOK(c) /\ FateOK(t)
  BY <1>3, <1>4 DEF OrderlyInv, QueueOK, ClientInv
<1>6. owner[c] \in {NoTask, t} /\ \A u \in Tasks : held[u] /\ client[u] = c => u = t
  BY <1>4, <1>5, OneCall, OwnQueue DEF OrderlyInv
<1>7. /\ q.op # "stmt" => main[t] = q.op /\ Len(queue[c]) = 1
      /\ q.op = "stmt" => main[t] \in {"running", "rollback"} /\ owner[c] = t
  <2>1. /\ queue[c][1].op # "stmt" =>
             1 = Len(queue[c]) /\ main[queue[c][1].task] = queue[c][1].op
        /\ queue[c][1].op = "stmt" => /\ main[queue[c][1].task] \in {"running", "rollback"}
                                      /\ up[c] => owner[c] = queue[c][1].task
    BY <1>3, <1>5 DEF QueueOK
  <2>2. queue[c][1] = q
    BY <1>3
  <2>. QED
    BY <1>1, <1>4, <2>1, <2>2
<1>8. t # NoTask
  BY PoolAssumption
<1>9. ASSUME q.op # "stmt" \/ owner'[c] = owner[c] PROVE QueueOK(c)'
  <2>1. \A i \in 1..Len(queue[c]) : queue[c][i].op = "stmt" => q.op = "stmt"
    BY <1>3, <1>7
  <2>2. \A i \in 1..Len(queue[c]) : queue[c][i].op = "stmt" => owner'[c] = owner[c]
    BY <1>9, <2>1
  <2>. QED
    BY <1>1, <1>5, <2>2 DEF QueueOK, Active
<1>10. CASE ServerBegin(c)
  <2>1. q.op = "begin" /\ main[t] = "begin"
    BY <1>3, <1>7, <1>10 DEF ServerBegin, Runs
  <2>2. owner[c] = NoTask /\ pend[c] = {} /\ ~doomed[c]
    BY <1>1, <1>5, <1>6, <2>1 DEF SessionOK
  <2>3. /\ result'[c] # "none"
        /\ result'[c] = "error" => c \in Rejecting
        /\ \/ owner'[c] = t /\ EndTx(c, "committed")
           \/ result'[c] = "error" /\ UNCHANGED sessVars
    <3>1. BeginTx(c) => owner'[c] = t /\ EndTx(c, "committed")
      BY <1>3, <1>4, <2>2 DEF BeginTx, OrderlyInv, TypeOK
    <3>2. /\ Answer(c, "ok") => result'[c] = "ok"
          /\ Answer(c, "error") => result'[c] = "error"
      BY DEF Answer, OrderlyInv, TypeOK
    <3>. QED
      BY <1>10, <2>2, <3>1, <3>2 DEF ServerBegin
  <2>4. pend'[c] = {} /\ \A u \in Tasks : fate'[u] = fate[u] /\ Durable(u)' = Durable(u)
    <3>1. CASE EndTx(c, "committed")
      BY <1>1, <2>2, <3>1, EndTxFacts, PoolAssumption
    <3>2. CASE UNCHANGED sessVars
      BY <2>2, <3>2 DEF Durable
    <3>. QED
      BY <2>3, <3>1, <3>2
  <2>5. fate[t] = "open" /\ acked[t] = {}
    BY <1>1, <1>5, <2>1 DEF FateOK
  <2>6. QueueOK(c)' /\ AnswerOK(c)'
    BY <1>1, <1>3, <1>4, <1>9, <2>1, <2>3 DEF AnswerOK
  <2>7. SessionOK(c)'
    BY <1>1, <1>5, <1>8, <2>1, <2>2, <2>3, <2>4, <2>5 DEF SessionOK
  <2>8. FateOK(t)'
    BY <1>1, <1>5, <2>1, <2>4, <2>5 DEF FateOK
  <2>. QED
    BY <1>1, <1>2, <1>5, <1>6, <2>4, <2>6, <2>7, <2>8, ServerStep
<1>11. CASE ServerStmt(c)
  <2>1. q.op = "stmt" /\ result'[c] = "ok" /\ ~doomed[c]
    BY <1>3, <1>11 DEF ServerStmt, Runs, Answer, OrderlyInv, TypeOK
  <2>2. owner[c] = t /\ main[t] \in {"running", "rollback"}
    BY <1>7, <2>1
  <2>3. /\ pend'[c] = pend[c] \cup {<<t, q.k>>}
        /\ UNCHANGED <<owner, doomed, committed, fate>>
    BY <1>3, <1>4, <1>8, <1>11, <2>2 DEF ServerStmt, OrderlyInv, TypeOK
  <2>4. QueueOK(c)' /\ AnswerOK(c)'
    BY <1>1, <1>3, <1>4, <1>9, <2>1, <2>3 DEF AnswerOK
  <2>5. SessionOK(c)'
    BY <1>1, <1>5, <1>8, <2>2, <2>3 DEF SessionOK, Active
  <2>6. FateOK(t)'
    BY <1>1, <1>5, <2>3 DEF FateOK, Durable
  <2>7. \A u \in Tasks : fate'[u] = fate[u] /\ Durable(u)' = Durable(u)
    BY <2>3 DEF Durable
  <2>. QED
    BY <1>1, <1>2, <1>5, <1>6, <2>4, <2>5, <2>6, <2>7, ServerStep
<1>12. CASE ServerStmtFails(c)
  <2>1. q.op = "stmt" /\ result'[c] = "error"
    BY <1>3, <1>12 DEF ServerStmtFails, Runs, Answer, OrderlyInv, TypeOK
  <2>2. owner[c] = t /\ main[t] \in {"running", "rollback"}
    BY <1>7, <2>1
  <2>3. UNCHANGED <<owner, pend, committed, fate>>
    BY <1>12 DEF ServerStmtFails
  <2>4. QueueOK(c)' /\ AnswerOK(c)'
    BY <1>1, <1>3, <1>9, <2>1, <2>3 DEF AnswerOK
  <2>5. SessionOK(c)'
    BY <1>1, <1>5, <1>8, <2>2, <2>3 DEF SessionOK, Active
  <2>6. FateOK(t)'
    BY <1>1, <1>5, <2>3 DEF FateOK, Durable
  <2>7. \A u \in Tasks : fate'[u] = fate[u] /\ Durable(u)' = Durable(u)
    BY <2>3 DEF Durable
  <2>. QED
    BY <1>1, <1>2, <1>5, <1>6, <2>4, <2>5, <2>6, <2>7, ServerStep
<1>13. CASE ServerCommit(c) \/ ServerRollback(c)
  <2>1. /\ q.op \in {"commit", "rollback"} /\ main[t] = q.op /\ owner'[c] = NoTask
        /\ \E how \in {"committed", "discarded"} :
             EndTx(c, how) /\ (how = "committed" => q.op = "commit")
    BY <1>3, <1>7, <1>13 DEF ServerCommit, ServerRollback, Runs, OrderlyInv, TypeOK
  <2>2. PICK how \in {"committed", "discarded"} :
          EndTx(c, how) /\ (how = "committed" => q.op = "commit")
    BY <2>1
  <2>3. /\ pend'[c] = {} /\ ~doomed'[c]
        /\ \A u \in Tasks \ {t} : fate'[u] = fate[u] /\ Durable(u)' = Durable(u)
        /\ owner[c] # t => fate'[t] = fate[t] /\ Durable(t)' = Durable(t)
        /\ owner[c] = t => /\ fate'[t] = how
                           /\ how = "committed" => acked[t] \subseteq Durable(t)'
                           /\ how = "discarded" => Durable(t)' = {}
    <3>1. how \in {"committed", "discarded"} /\ EndTx(c, how)
      BY <2>2
    <3>2. \A u \in Tasks \ {t} : u # owner[c]
      BY <1>6, PoolAssumption
    <3>3. /\ pend'[c] = {} /\ ~doomed'[c]
          /\ \A u \in Tasks \ {t} : fate'[u] = fate[u] /\ Durable(u)' = Durable(u)
      BY <1>1, <3>1, <3>2, EndTxFacts
    <3>4. owner[c] # t => fate'[t] = fate[t] /\ Durable(t)' = Durable(t)
      BY <1>1, <3>1, EndTxFacts
    <3>5. CASE how = "committed"
      <4>1. EndTx(c, "committed")
        BY <3>1, <3>5
      <4>2. owner[c] = t => fate'[t] = "committed" /\ Kept(t)'
        BY <1>1, <4>1, EndTxFacts
      <4>. QED
        BY <1>1, <3>3, <3>4, <3>5, <4>2 DEF Kept
    <3>6. CASE how = "discarded"
      <4>1. EndTx(c, "discarded")
        BY <3>1, <3>6
      <4>2. owner[c] = t => fate'[t] = "discarded" /\ Durable(t)' = {}
        BY <1>1, <4>1, EndTxFacts
      <4>. QED
        BY <3>3, <3>4, <3>6, <4>2
    <3>. QED
      BY <3>1, <3>5, <3>6
  <2>4. QueueOK(c)' /\ AnswerOK(c)'
    BY <1>1, <1>3, <1>9, <2>1 DEF AnswerOK
  <2>5. SessionOK(c)'
    BY <2>1, <2>3 DEF SessionOK
  <2>6. FateOK(t)'
    BY <1>1, <1>5, <2>1, <2>3 DEF FateOK
  <2>. QED
    BY <1>1, <1>2, <1>5, <1>6, <2>3, <2>4, <2>5, <2>6, ServerStep
<1>. QED
  BY <1>10, <1>11, <1>12, <1>13 DEF Server

\* The loss of a connection: its session's transaction is rolled back.
LEMMA BreakOrderly ==
  ASSUME OrderlyInv, NEW c \in Conns, Break(c), TypeOK', ClientInv', ExclusiveClient'
  PROVE  OrderlyInv'
<1>1. /\ UNCHANGED <<main, client, held, body, nest, acked, aborted, queue, result>>
      /\ ~up'[c] /\ owner'[c] = NoTask /\ EndTx(c, "discarded")
  BY DEF Break, OrderlyInv, TypeOK
<1>2. \A d \in Conns \ {c} : /\ result'[d] = result[d] /\ up'[d] = up[d]
                              /\ owner'[d] = owner[d] /\ doomed'[d] = doomed[d]
                              /\ pend'[d] = pend[d]
  BY DEF Break, EndTx, OrderlyInv, TypeOK
<1>3. SessionOK(c) /\ AnswerOK(c) /\ QueueOK(c) /\ owner[c] \in Tasks \cup {NoTask}
  BY Elements DEF OrderlyInv
<1>4. pend'[c] = {} /\ ~doomed'[c]
  BY <1>1, EndTxFacts
<1>5. QueueOK(c)'
  BY <1>1, <1>3 DEF QueueOK, Active
<1>6. AnswerOK(c)' /\ SessionOK(c)'
  BY <1>1, <1>3, <1>4 DEF AnswerOK, SessionOK
<1>7. \A u \in Tasks : u # owner[c] => fate'[u] = fate[u] /\ Durable(u)' = Durable(u)
  BY <1>1, EndTxFacts
<1>8. CASE \E u \in Tasks : held[u] /\ client[u] = c
  <2>1. PICK t \in Tasks : held[t] /\ client[t] = c
    BY <1>8
  <2>2. owner[c] \in {NoTask, t} /\ FateOK(t)
        /\ \A u \in Tasks : held[u] /\ client[u] = c => u = t
    BY <1>3, <2>1, OneCall DEF OrderlyInv, SessionOK
  <2>3. \A u \in Tasks \ {t} : fate'[u] = fate[u] /\ Durable(u)' = Durable(u)
    BY <1>7, <2>2, PoolAssumption
  <2>4. \/ fate'[t] = fate[t] /\ Durable(t)' = Durable(t)
        \/ fate'[t] = "discarded" /\ Durable(t)' = {}
    BY <1>1, <1>7, EndTxFacts
  <2>5. FateOK(t)'
    <3>1. client[t] = c /\ ~up'[c] /\ UNCHANGED <<main, acked, client>>
      BY <1>1, <2>1
    <3>2. CASE fate'[t] = fate[t] /\ Durable(t)' = Durable(t)
      BY <2>2, <3>1, <3>2 DEF FateOK
    <3>3. CASE fate'[t] = "discarded" /\ Durable(t)' = {}
      <4>1. main[t] \notin {"idle", "connecting"}
        BY <2>1 DEF OrderlyInv, ClientInv, Active
      <4>. QED
        BY <2>2, <3>1, <3>3, <4>1 DEF FateOK
    <3>. QED
      BY <2>4, <3>2, <3>3
  <2>. QED
    BY <1>1, <1>2, <1>5, <1>6, <2>1, <2>2, <2>3, <2>5, ServerStep
<1>9. CASE ~ \E u \in Tasks : held[u] /\ client[u] = c
  <2>1. owner[c] \notin Tasks
    BY <1>3, <1>9, PoolAssumption DEF SessionOK
  <2>2. \A u \in Tasks \ {NoTask} : fate'[u] = fate[u] /\ Durable(u)' = Durable(u)
    BY <1>7, <2>1
  <2>. QED
    BY <1>1, <1>2, <1>5, <1>6, <1>9, <2>2, ServerStep, PoolAssumption
<1>. QED
  BY <1>8, <1>9

LEMMA OrderlyInit == Init => OrderlyInv
<1>. SUFFICES ASSUME Init PROVE OrderlyInv
  OBVIOUS
<1>1. TypeOK
  BY InitType
<1>2. ClientInv /\ ExclusiveClient
  BY DEF Init, ClientInv, ExclusiveClient, Active
<1>3. \A t \in Tasks : FnOK(t) /\ FateOK(t)
  BY DEF Init, FnOK, FateOK, Durable
<1>4. \A c \in Conns : QueueOK(c) /\ AnswerOK(c) /\ SessionOK(c)
  BY DEF Init, QueueOK, AnswerOK, SessionOK
<1>. QED
  BY <1>1, <1>2, <1>3, <1>4 DEF OrderlyInv

LEMMA OrderlyAsIs ==
  ASSUME OrderlyInv, UNCHANGED vars
  PROVE  OrderlyInv'
<1>1. TypeOK' /\ ClientInv' /\ ExclusiveClient'
  BY DEF OrderlyInv, TypeOK, ClientInv, ExclusiveClient, Active
<1>2. \A t \in Tasks : FnOK(t)' /\ FateOK(t)'
  BY DEF OrderlyInv, FnOK, FateOK, Durable
<1>3. \A c \in Conns : QueueOK(c)' /\ AnswerOK(c)' /\ SessionOK(c)'
  BY DEF OrderlyInv, QueueOK, AnswerOK, SessionOK, Active
<1>. QED
  BY <1>1, <1>2, <1>3 DEF OrderlyInv

LEMMA OrderlyStep ==
  ASSUME OrderlyInv, Orderly, Next
  PROVE  OrderlyInv'
<1>1. ClientInv' /\ ExclusiveClient'
  BY ClientStep DEF OrderlyInv
<1>2. TypeOK'
  BY CallType, FnType, ServerType DEF OrderlyInv, Next, Quiet, TypeOK
<1>3. ASSUME NEW t \in Tasks, Call(t) PROVE OrderlyInv'
  BY <1>1, <1>2, <1>3, StartOrderly, ConnectOrderly, BeginOrderly, EndOrderly DEF Call
<1>4. ASSUME NEW t \in Tasks, Fn(t) PROVE OrderlyInv'
  <2>1. ~nest[t] /\ body[t] \notin {"nbegin", "ncommit", "nrollback"} /\ t \notin Nesting
    BY DEF OrderlyInv, FnOK, Orderly
  <2>2. \/ Send(t) \/ BodyEnds(t, "commit") \/ BodyEnds(t, "rollback")
        \/ StmtOk(t) \/ StmtError(t) \/ StmtDropped(t)
    BY <1>4, <2>1 DEF Fn, NestBegin, NestBeginReply, NestEnds, NestCommitReply, NestRollbackReply
  <2>. QED
    BY <1>1, <1>2, <2>2, SendOrderly, AnswerOrderly, DroppedOrderly
<1>5. ASSUME NEW t \in Tasks, Abort(t) PROVE OrderlyInv'
  BY <1>1, <1>2, <1>5, AbortOrderly
<1>6. ASSUME NEW c \in Conns, Server(c) \/ Break(c) PROVE OrderlyInv'
  BY <1>1, <1>2, <1>6, ServerOrderly, BreakOrderly
<1>7. CASE UNCHANGED vars
  BY <1>7, OrderlyAsIs
<1>. QED
  BY <1>3, <1>4, <1>5, <1>6, <1>7 DEF Next, Quiet

LEMMA OrderlyAlways == ASSUME Orderly PROVE Spec => []OrderlyInv
<1>1. Orderly
  OBVIOUS
<1>2. OrderlyInv /\ [Next]_vars => OrderlyInv'
  <2>. SUFFICES ASSUME OrderlyInv, [Next]_vars PROVE OrderlyInv'
    OBVIOUS
  <2>1. CASE UNCHANGED vars
    BY <2>1, OrderlyAsIs
  <2>. QED
    BY <2>1, <1>1, OrderlyStep
<1>. QED
  BY <1>2, OrderlyInit, PTL DEF Spec

\* Statements run in the transaction of the call that sent them: no statement
\* of one call ever joins a transaction that another call opened.
THEOREM Isolation == ASSUME Orderly PROVE Spec => []NoForeignWrites
<1>1. OrderlyInv => NoForeignWrites
  BY DEF OrderlyInv, SessionOK, NoForeignWrites
<1>. QED
  BY <1>1, OrderlyAlways, PTL

\* All statements of a call become durable together or none does, those whose
\* success fn saw included, whatever the signals, failures and lost connections.
THEOREM Atomicity == ASSUME Orderly PROVE Spec => []AllOrNothing
<1>1. OrderlyInv => AllOrNothing
  BY DEF OrderlyInv, FateOK, AllOrNothing
<1>. QED
  BY <1>1, OrderlyAlways, PTL

\* The pool only ever holds connections without a transaction and without a
\* command under way: nothing leaks from one call into the next.
THEOREM PoolStaysClean == ASSUME Orderly PROVE Spec => []CleanPool
<1>1. OrderlyInv => CleanPool
  BY FreeIsClean DEF OrderlyInv, CleanPool
<1>. QED
  BY <1>1, OrderlyAlways, PTL

\* Nothing of a call is durable while its fn still runs.
THEOREM NothingEarly == ASSUME Orderly PROVE Spec => []NoEarlyCommit
<1>1. OrderlyInv => NoEarlyCommit
  BY DEF OrderlyInv, FateOK, NoEarlyCommit
<1>. QED
  BY <1>1, OrderlyAlways, PTL

\* Once the promise of a call has settled, nothing it did becomes durable or
\* stops being durable.
THEOREM SettledForGood == ASSUME Orderly PROVE Spec => SettledIsFinal
<1>. DEFINE Final == \A t \in Tasks : main[t] = "settled" =>
                       \A k \in 1..MaxStmts : (<<t, k>> \in committed') <=> (<<t, k>> \in committed)
<1>1. OrderlyInv /\ [Next]_vars => Final
  <2>. SUFFICES ASSUME OrderlyInv, [Next]_vars, NEW t \in Tasks, main[t] = "settled"
                PROVE  \A k \in 1..MaxStmts : (<<t, k>> \in committed') <=> (<<t, k>> \in committed)
    OBVIOUS
  <2>1. CASE UNCHANGED committed
    BY <2>1
  <2>2. ASSUME NEW c \in Conns, ServerStmt(c) PROVE UNCHANGED committed
    <3>1. up[c] /\ queue[c] # <<>> /\ Head(queue[c]).op = "stmt"
      BY <2>2 DEF ServerStmt, Runs
    <3>2. /\ Head(queue[c]) = queue[c][1] /\ 1 \in 1..Len(queue[c]) /\ QueueOK(c)
          /\ Head(queue[c]).task \in Tasks
      BY <3>1, Elements DEF OrderlyInv
    <3>3. owner[c] = Head(queue[c]).task
      BY <3>1, <3>2 DEF QueueOK
    <3>. QED
      BY <2>2, <3>2, <3>3, PoolAssumption DEF ServerStmt
  <2>3. ASSUME NEW c \in Conns, NEW how \in {"committed", "discarded"}, EndTx(c, how)
        PROVE  \A k \in 1..MaxStmts : (<<t, k>> \in committed') <=> (<<t, k>> \in committed)
    <3>1. owner[c] = t => pend[c] = {}
      BY PoolAssumption DEF OrderlyInv, SessionOK
    <3>2. \A w \in pend[c] : w[1] # t
      BY <3>1 DEF OrderlyInv, SessionOK
    <3>. QED
      BY <2>3, <3>2 DEF EndTx
  <2>4. \/ UNCHANGED committed
        \/ \E c \in Conns : ServerStmt(c)
        \/ \E c \in Conns, how \in {"committed", "discarded"} : EndTx(c, how)
    <3>1. ASSUME NEW u \in Tasks, Call(u) \/ Abort(u) PROVE UNCHANGED committed
      BY <3>1 DEF Call, Abort, Start, Connect, BeginOk, BeginOkAborted, BeginFails, CommitOk,
                  CommitFails, RollbackDone
    <3>2. ASSUME NEW u \in Tasks, Fn(u) PROVE UNCHANGED committed
      BY <3>2 DEF Fn, Send, BodyEnds, StmtOk, StmtError, StmtDropped, NestBegin, NestBeginReply,
                  NestEnds, NestCommitReply, NestRollbackReply
    <3>3. ASSUME NEW c \in Conns, Server(c) \/ Break(c), ~ServerStmt(c)
          PROVE  UNCHANGED committed \/ \E how \in {"committed", "discarded"} : EndTx(c, how)
      BY <3>3 DEF Server, ServerBegin, BeginTx, ServerStmtFails, ServerCommit, ServerRollback, Break
    <3>. QED
      BY <3>1, <3>2, <3>3 DEF Next, Quiet
  <2>. QED
    BY <2>1, <2>2, <2>3, <2>4
<1>2. SettledIsFinal <=> [][Final]_vars
  BY DEF SettledIsFinal
<1>. HIDE DEF Final
<1>. QED
  BY <1>1, <1>2, OrderlyAlways, PTL DEF Spec

-----------------------------------------------------------------------------
(* What a call of driver.transaction reports is what the server did, on top  *)
(* of the invariant of orderly calls.                                        *)

\* A lost connection stays lost, a connection the pool has closed stays closed.
LEMMA LossIsFinal ==
  ASSUME TypeOK, ClientInv, Next
  PROVE  \A d \in Conns : /\ ~up[d] => ~up'[d]
                          /\ slot[d] = "closed" => slot'[d] = "closed"
<1>1. ASSUME NEW t \in Tasks, Call(t)
      PROVE  \A d \in Conns : up'[d] = up[d] /\ (slot[d] = "closed" => slot'[d] = "closed")
  <2>1. UNCHANGED up
    BY <1>1 DEF Call, Start, Connect, BeginOk, BeginOkAborted, BeginFails, CommitOk, CommitFails,
                RollbackDone
  <2>2. ASSUME NEW c \in Conns, Connect(t, c)
        PROVE  \A d \in Conns : slot[d] = "closed" => slot'[d] = "closed"
    BY <2>2 DEF Connect, TypeOK
  <2>3. ASSUME CommitOk(t) \/ RollbackDone(t)
        PROVE  \A d \in Conns : slot[d] = "closed" => slot'[d] = "closed"
    <3>1. main[t] \in {"commit", "rollback"} /\ Release(t)
      BY <2>3 DEF CommitOk, RollbackDone
    <3>2. client[t] \in Conns /\ slot[client[t]] = "out"
      BY <3>1 DEF ClientInv, Active
    <3>. QED
      BY <3>1, <3>2 DEF Release, TypeOK
  <2>4. Start(t) \/ BeginOk(t) \/ BeginOkAborted(t) \/ BeginFails(t) \/ CommitFails(t)
          => UNCHANGED slot
    BY DEF Start, BeginOk, BeginOkAborted, BeginFails, CommitFails
  <2>. QED
    BY <1>1, <2>1, <2>2, <2>3, <2>4 DEF Call
<1>2. ASSUME NEW t \in Tasks, Fn(t) \/ Abort(t) PROVE UNCHANGED <<up, slot>>
  BY <1>2 DEF Fn, Abort, Send, BodyEnds, StmtOk, StmtError, StmtDropped, NestBegin, NestBeginReply,
              NestEnds, NestCommitReply, NestRollbackReply
<1>3. ASSUME NEW c \in Conns, Server(c) PROVE UNCHANGED <<up, slot>>
  BY <1>3 DEF Server, ServerBegin, ServerStmt, ServerStmtFails, ServerCommit, ServerRollback
<1>4. ASSUME NEW c \in Conns, Break(c)
      PROVE  UNCHANGED slot /\ \A d \in Conns : ~up[d] => ~up'[d]
  BY <1>4 DEF Break, TypeOK
<1>. QED
  BY <1>1, <1>2, <1>3, <1>4 DEF Next, Quiet

\* A step that leaves a call, its fate and its connection alone leaves what the
\* call reports alone.
LEMMA ReportKept ==
  ASSUME OutcomeInv, NEW u \in Tasks,
         \A d \in Conns : /\ ~up[d] => ~up'[d]
                          /\ slot[d] = "closed" => slot'[d] = "closed",
         UNCHANGED <<main[u], outcome[u], client[u], sent[u], fate[u]>>,
         Active(u) => LET d == client[u] IN
                      UNCHANGED <<queue[d], result[d], up[d], owner[d], doomed[d]>>
  PROVE  ReportOK(u)' /\ CommitOK(u)'
<1>1. ReportOK(u) /\ CommitOK(u)
  BY DEF OutcomeInv
<1>2. Active(u) => client[u] \in Conns
  BY DEF OutcomeInv, OrderlyInv, ClientInv
<1>3. CommitOK(u)'
  BY <1>1 DEF CommitOK, Active, Granted, Excused
<1>4. main[u] = "settled" => /\ client[u] \in Conns
                             /\ slot[client[u]] = "closed" => slot'[client[u]] = "closed"
  BY <1>1 DEF ReportOK
<1>5. outcome[u] = "rejected" => main[u] = "settled"
  BY <1>1 DEF ReportOK
<1>. QED
  BY <1>1, <1>2, <1>3, <1>4, <1>5 DEF ReportOK, Active, Granted, Excused

\* The steps of fn when no body nests a transaction.
LEMMA FnSteps ==
  ASSUME OrderlyInv, Orderly, NEW t \in Tasks, Fn(t)
  PROVE  \/ Send(t) \/ BodyEnds(t, "commit") \/ BodyEnds(t, "rollback")
         \/ StmtOk(t) \/ StmtError(t) \/ StmtDropped(t)
<1>1. ~nest[t] /\ body[t] \notin {"nbegin", "ncommit", "nrollback"} /\ t \notin Nesting
  BY DEF OrderlyInv, FnOK, Orderly
<1>. QED
  BY <1>1 DEF Fn, NestBegin, NestBeginReply, NestEnds, NestCommitReply, NestRollbackReply

\* A step of one call changes the state of that call and of the connection it
\* has or takes, nothing of another call and nothing the server knows.
LEMMA OwnChanges ==
  ASSUME OutcomeInv, Orderly, NEW t \in Tasks, Call(t) \/ Fn(t) \/ Abort(t)
  PROVE  /\ UNCHANGED <<up, owner, doomed, pend, committed, fate>>
         /\ \A u \in Tasks \ {t} : /\ main'[u] = main[u] /\ outcome'[u] = outcome[u]
                                   /\ client'[u] = client[u] /\ sent'[u] = sent[u]
         /\ \/ UNCHANGED <<queue, result>>
            \/ \E c \in Conns : /\ Connect(t, c) \/ (Active(t) /\ c = client[t])
                                /\ \A d \in Conns \ {c} : queue'[d] = queue[d]
                                                          /\ result'[d] = result[d]
<1>0. TypeOK /\ OrderlyInv /\ ClientInv
  BY DEF OutcomeInv, OrderlyInv
<1>1. CASE Start(t)
  BY <1>0, <1>1 DEF Start, TypeOK
<1>2. ASSUME NEW c \in Conns, Connect(t, c)
      PROVE  /\ UNCHANGED <<up, owner, doomed, pend, committed, fate, outcome, sent, result>>
             /\ \A u \in Tasks \ {t} : main'[u] = main[u] /\ client'[u] = client[u]
             /\ \A d \in Conns \ {c} : queue'[d] = queue[d]
  BY <1>0, <1>2 DEF Connect, Push, TypeOK
<1>3. ASSUME \/ BeginOk(t) \/ BeginOkAborted(t) \/ BeginFails(t)
             \/ CommitOk(t) \/ CommitFails(t) \/ RollbackDone(t)
      PROVE  /\ UNCHANGED <<up, owner, doomed, pend, committed, fate, client>>
             /\ Active(t) /\ client[t] \in Conns
             /\ \A u \in Tasks \ {t} : main'[u] = main[u] /\ outcome'[u] = outcome[u]
                                       /\ sent'[u] = sent[u]
             /\ \A d \in Conns \ {client[t]} : queue'[d] = queue[d] /\ result'[d] = result[d]
  <2>1. UNCHANGED <<up, owner, doomed, pend, committed, fate, client>>
    BY <1>3 DEF BeginOk, BeginOkAborted, BeginFails, CommitOk, CommitFails, RollbackDone
  <2>2. Active(t) /\ client[t] \in Conns
    BY <1>3 DEF BeginOk, BeginOkAborted, BeginFails, CommitOk, CommitFails, RollbackDone, Answered, Active
  <2>3. \A u \in Tasks \ {t} : main'[u] = main[u]
    BY <1>0, <1>3 DEF BeginOk, BeginOkAborted, BeginFails, CommitOk, CommitFails, RollbackDone, TypeOK
  <2>4. \A u \in Tasks \ {t} : outcome'[u] = outcome[u]
    BY <1>0, <1>3 DEF BeginOk, BeginOkAborted, BeginFails, CommitOk, CommitFails, RollbackDone, TypeOK
  <2>5. \A u \in Tasks \ {t} : sent'[u] = sent[u]
    BY <1>0, <1>3 DEF BeginOk, BeginOkAborted, BeginFails, CommitOk, CommitFails, RollbackDone, TypeOK
  <2>6. \A d \in Conns \ {client[t]} : queue'[d] = queue[d] /\ result'[d] = result[d]
    BY <1>0, <1>3 DEF BeginOk, BeginOkAborted, BeginFails, CommitOk, CommitFails, RollbackDone, Pop, TypeOK
  <2>. QED
    BY <2>1, <2>2, <2>3, <2>4, <2>5, <2>6
<1>4. ASSUME Send(t) \/ BodyEnds(t, "commit") \/ BodyEnds(t, "rollback")
      PROVE  /\ UNCHANGED <<up, owner, doomed, pend, committed, fate, client, outcome, result>>
             /\ Active(t) /\ client[t] \in Conns
             /\ \A u \in Tasks \ {t} : main'[u] = main[u] /\ sent'[u] = sent[u]
             /\ \A d \in Conns \ {client[t]} : queue'[d] = queue[d]
  <2>1. main[t] = "running"
    BY <1>0, <1>4 DEF Send, BodyEnds, OrderlyInv, FnOK
  <2>2. Active(t) /\ client[t] \in Conns
    BY <1>0, <2>1 DEF Active, ClientInv
  <2>. QED
    BY <1>0, <1>4, <2>1, <2>2 DEF Send, BodyEnds, Push, TypeOK
<1>5. ASSUME StmtOk(t) \/ StmtError(t) \/ StmtDropped(t)
      PROVE  /\ UNCHANGED <<up, owner, doomed, pend, committed, fate, client, outcome, sent>>
             /\ Active(t) /\ client[t] \in Conns
             /\ \A u \in Tasks \ {t} : main'[u] = main[u]
             /\ \A d \in Conns \ {client[t]} : queue'[d] = queue[d] /\ result'[d] = result[d]
  <2>1. Answered(t, "body", "stmt")
    BY <1>5 DEF StmtOk, StmtError, StmtDropped, Awaited
  <2>2. Active(t) /\ client[t] \in Conns
    BY <1>0, <2>1, HeadFacts
  <2>3. ~nest[t]
    BY <1>0 DEF OrderlyInv, FnOK
  <2>. QED
    BY <1>0, <1>5, <2>2, <2>3 DEF StmtOk, StmtError, StmtDropped, Throws, Pop, TypeOK
<1>6. CASE Abort(t)
  <2>1. /\ UNCHANGED <<up, owner, doomed, pend, committed, fate, client, outcome, sent, result>>
        /\ \A u \in Tasks \ {t} : main'[u] = main[u]
    BY <1>0, <1>6 DEF Abort, TypeOK
  <2>2. CASE main[t] # "running"
    BY <1>6, <2>1, <2>2 DEF Abort
  <2>3. CASE main[t] = "running"
    <3>1. Active(t) /\ client[t] \in Conns
      BY <1>0, <2>3 DEF Active, ClientInv
    <3>2. \A d \in Conns \ {client[t]} : queue'[d] = queue[d]
      BY <1>0, <1>6, <2>3 DEF Abort, Push, TypeOK
    <3>. QED
      BY <2>1, <3>1, <3>2
  <2>. QED
    BY <2>2, <2>3
<1>7. CASE Call(t)
  BY <1>1, <1>2, <1>3, <1>7 DEF Call
<1>8. CASE Fn(t)
  BY <1>0, <1>4, <1>5, <1>8, FnSteps
<1>. QED
  BY <1>6, <1>7, <1>8

\* What the other calls report is untouched by a step of one call.
LEMMA OthersReport ==
  ASSUME OutcomeInv, Orderly, Next, NEW t \in Tasks, Call(t) \/ Fn(t) \/ Abort(t)
  PROVE  \A u \in Tasks \ {t} : ReportOK(u)' /\ CommitOK(u)'
<1>. SUFFICES ASSUME NEW u \in Tasks \ {t} PROVE ReportOK(u)' /\ CommitOK(u)'
  OBVIOUS
<1>0. TypeOK /\ ClientInv /\ ExclusiveClient
  BY DEF OutcomeInv, OrderlyInv
<1>1. \A d \in Conns : (~up[d] => ~up'[d]) /\ (slot[d] = "closed" => slot'[d] = "closed")
  BY <1>0, LossIsFinal
<1>2. UNCHANGED <<main[u], outcome[u], client[u], sent[u], fate[u]>>
  BY OwnChanges
<1>3. UNCHANGED <<up, owner, doomed>>
  BY OwnChanges
<1>4. ASSUME Active(u)
      PROVE  UNCHANGED <<queue[client[u]], result[client[u]]>>
  <2>1. client[u] \in Conns /\ slot[client[u]] = "out"
    BY <1>0, <1>4 DEF ClientInv
  <2>2. \A c \in Conns : Connect(t, c) => c # client[u]
    BY <2>1 DEF Connect
  <2>3. Active(t) => client[t] # client[u]
    BY <1>0, <1>4, OneCall
  <2>4. \/ UNCHANGED <<queue, result>>
        \/ \E c \in Conns : /\ Connect(t, c) \/ (Active(t) /\ c = client[t])
                            /\ \A d \in Conns \ {c} : queue'[d] = queue[d]
                                                      /\ result'[d] = result[d]
    BY OwnChanges
  <2>. QED
    BY <1>2, <2>1, <2>2, <2>3, <2>4
<1>. QED
  BY <1>1, <1>2, <1>3, <1>4, ReportKept

\* Until BEGIN is answered there is nothing to report; the answer to it starts
\* fn in a sound transaction or leads to a rejection of an uncommitted call.
LEMMA BeginReport ==
  ASSUME OutcomeInv, NEW t \in Tasks, TypeOK',
         \/ Start(t) \/ (\E c \in Conns : Connect(t, c))
         \/ BeginOk(t) \/ BeginOkAborted(t) \/ BeginFails(t)
  PROVE  ReportOK(t)' /\ CommitOK(t)'
<1>0. TypeOK /\ FateOK(t) /\ ReportOK(t) /\ CommitOK(t) /\ OrderlyInv
  BY DEF OutcomeInv, OrderlyInv
<1>1. CASE Start(t)
  BY <1>0, <1>1 DEF Start, TypeOK, ReportOK, CommitOK, Granted
<1>2. ASSUME NEW c \in Conns, Connect(t, c) PROVE ReportOK(t)' /\ CommitOK(t)'
  <2>1. /\ main[t] = "connecting" /\ main'[t] = "begin" /\ client'[t] = c
        /\ UNCHANGED <<outcome, up, owner, doomed, fate>>
    BY <1>0, <1>2 DEF Connect, TypeOK
  <2>2. owner[c] = NoTask
    BY <1>0, <1>2, FreeIsClean DEF Connect
  <2>. QED
    BY <1>0, <2>1, <2>2, PoolAssumption DEF ReportOK, CommitOK, Granted
<1>3. ASSUME BeginOk(t) \/ BeginOkAborted(t) \/ BeginFails(t)
      PROVE  ReportOK(t)' /\ CommitOK(t)'
  <2>1. /\ main[t] = "begin" /\ client[t] \in Conns /\ Answered(t, "main", "begin")
        /\ UNCHANGED <<client, up, owner, doomed, fate>>
    BY <1>3 DEF BeginOk, BeginOkAborted, BeginFails, Answered
  <2>2. fate[t] # "committed" /\ Tail(queue[client[t]]) = <<>> /\ AnswerOK(client[t])
        /\ Head(queue[client[t]]).op = "begin"
    BY <1>0, <2>1, HeadFacts, OwnQueue DEF FateOK, Active
  <2>3. CASE BeginOk(t)
    <3>1. main'[t] = "running" /\ queue'[client[t]] = <<>> /\ outcome' = outcome
      BY <1>0, <2>1, <2>2, <2>3 DEF BeginOk, Pop, TypeOK
    <3>2. result[client[t]] = "ok"
      BY <2>3 DEF BeginOk, Succeeded
    <3>. QED
      BY <1>0, <2>1, <3>1, <3>2 DEF ReportOK, CommitOK, Granted
  <2>4. CASE BeginOkAborted(t)
    <3>1. main'[t] = "rollback" /\ outcome' = outcome
      BY <1>0, <2>1, <2>4 DEF BeginOkAborted, TypeOK
    <3>. QED
      BY <1>0, <2>1, <2>2, <3>1 DEF ReportOK, CommitOK, Granted
  <2>5. CASE BeginFails(t)
    <3>1. main'[t] = "settled" /\ outcome'[t] = "rejected"
      BY <1>0, <2>1, <2>5 DEF BeginFails, TypeOK
    <3>. QED
      BY <1>0, <2>1, <2>2, <3>1 DEF ReportOK, CommitOK, Granted
  <2>. QED
    BY <1>3, <2>3, <2>4, <2>5
<1>. QED
  BY <1>1, <1>2, <1>3

\* The answer to COMMIT settles the call the way the server ended it, or leads to
\* ROLLBACK of a call that has committed only if its connection was lost.
LEMMA EndReport ==
  ASSUME OutcomeInv, NEW t \in Tasks, CommitOk(t) \/ CommitFails(t) \/ RollbackDone(t)
  PROVE  ReportOK(t)' /\ CommitOK(t)'
<1>0. TypeOK /\ ReportOK(t) /\ CommitOK(t)
  BY DEF OutcomeInv, OrderlyInv
<1>1. /\ main[t] \in {"commit", "rollback"} /\ client[t] \in Conns
      /\ result[client[t]] # "none" \/ ~up[client[t]]
      /\ UNCHANGED <<client, up, owner, doomed, fate>>
  BY DEF CommitOk, CommitFails, RollbackDone, Answered
<1>2. CASE CommitOk(t)
  <2>1. main'[t] = "settled" /\ outcome'[t] = "resolved"
    BY <1>0, <1>1, <1>2 DEF CommitOk, TypeOK
  <2>2. Granted(t)
    BY <1>0, <1>2 DEF CommitOk, CommitOK, Succeeded
  <2>. QED
    BY <1>1, <2>1, <2>2 DEF ReportOK, CommitOK, Granted, Excused
<1>3. CASE CommitFails(t)
  <2>1. main'[t] = "rollback" /\ outcome' = outcome
    BY <1>0, <1>1, <1>3 DEF CommitFails, TypeOK
  <2>2. up[client[t]] => fate[t] # "committed"
    <3>1. main[t] = "commit" /\ (up[client[t]] => result[client[t]] \notin {"ok", "none"})
      BY <1>1, <1>3 DEF CommitFails, Succeeded
    <3>2. result[client[t]] \in {"none", "ok", "error"}
      BY <1>0, <1>1 DEF TypeOK
    <3>. QED
      BY <1>0, <3>1, <3>2 DEF CommitOK
  <2>. QED
    BY <1>0, <1>1, <2>1, <2>2 DEF ReportOK, CommitOK, Granted
<1>4. CASE RollbackDone(t)
  <2>1. /\ main'[t] = "settled" /\ outcome'[t] = "rejected" /\ main[t] = "rollback"
        /\ ~up[client[t]] => slot'[client[t]] = "closed"
    BY <1>0, <1>1, <1>4 DEF RollbackDone, Release, TypeOK
  <2>. QED
    BY <1>0, <1>1, <2>1 DEF ReportOK, CommitOK, Granted
<1>. QED
  BY <1>2, <1>3, <1>4

\* fn sends a statement, or ends while its transaction is open.
LEMMA SendReport ==
  ASSUME OutcomeInv, NEW t \in Tasks,
         Send(t) \/ BodyEnds(t, "commit") \/ BodyEnds(t, "rollback")
  PROVE  ReportOK(t)' /\ CommitOK(t)'
<1>0. TypeOK /\ ReportOK(t) /\ CommitOK(t) /\ FateOK(t) /\ OrderlyInv
  BY DEF OutcomeInv, OrderlyInv
<1>1. body[t] = "ready" /\ main[t] = "running" /\ Active(t)
  BY <1>0 DEF Send, BodyEnds, OrderlyInv, FnOK, Active
<1>2. /\ client[t] \in Conns /\ queue[client[t]] = <<>> /\ QueueOK(client[t])
  BY <1>0, <1>1, OwnQueue
<1>3. result[client[t]] = "none" /\ fate[t] # "committed"
      /\ (up[client[t]] => owner[client[t]] = t)
  BY <1>0, <1>1, <1>2 DEF QueueOK, FateOK
<1>4. UNCHANGED <<client, outcome, result, up, owner, doomed, fate>>
  BY DEF Send, BodyEnds
<1>5. CASE Send(t)
  <2>1. main'[t] = "running" /\ sent'[t] = sent[t] + 1
    BY <1>0, <1>1, <1>5 DEF Send, TypeOK
  <2>2. Head(queue'[client[t]]) = Cmd(t, "body", "stmt", sent[t] + 1)
    <3>1. queue'[client[t]] = Append(<<>>, Cmd(t, "body", "stmt", sent[t] + 1))
      BY <1>0, <1>2, <1>5 DEF Send, Push, TypeOK
    <3>2. sent[t] + 1 \in 1..MaxStmts
      BY <1>0, <1>5, PoolAssumption DEF Send, TypeOK
    <3>3. queue'[client[t]] = <<Cmd(t, "body", "stmt", sent[t] + 1)>>
      BY <1>0, <3>1, <3>2, CmdsSent, Appended
    <3>. QED
      BY <3>3
  <2>. QED
    BY <1>0, <1>1, <1>3, <1>4, <2>1, <2>2 DEF ReportOK, CommitOK, Granted, Cmd
<1>6. ASSUME NEW op \in {"commit", "rollback"}, BodyEnds(t, op)
      PROVE  ReportOK(t)' /\ CommitOK(t)'
  <2>1. main'[t] = op
    BY <1>0, <1>1, <1>6 DEF BodyEnds, TypeOK
  <2>. QED
    BY <1>0, <1>1, <1>3, <1>4, <2>1 DEF ReportOK, CommitOK, Granted
<1>. QED
  BY <1>5, <1>6

\* The answer to a statement: fn awaits every answer while its race is on, so an
\* error ends fn or is caught.
LEMMA AnswerReport ==
  ASSUME OutcomeInv, NEW t \in Tasks, StmtOk(t) \/ StmtError(t) \/ StmtDropped(t)
  PROVE  ReportOK(t)' /\ CommitOK(t)'
<1>0. TypeOK /\ ReportOK(t) /\ CommitOK(t) /\ FateOK(t) /\ FnOK(t) /\ OrderlyInv
  BY DEF OutcomeInv, OrderlyInv
<1>1. Answered(t, "body", "stmt")
  BY DEF StmtOk, StmtError, StmtDropped, Awaited
<1>2. /\ client[t] \in Conns /\ queue[client[t]] # <<>> /\ Active(t)
      /\ Head(queue[client[t]]) = queue[client[t]][1] /\ Head(queue[client[t]]).op = "stmt"
      /\ 1 \in 1..Len(queue[client[t]]) /\ Head(queue[client[t]]).task = t
  BY <1>0, <1>1, HeadFacts
<1>3. /\ main[t] \in {"running", "rollback"}
      /\ main[t] = "running" => body[t] = "await" /\ Tail(queue[client[t]]) = <<>>
  <2>1. main[t] = "running" => Tail(queue[client[t]]) = <<>>
    BY <1>0, <1>2, OwnQueue
  <2>2. QueueOK(client[t])
    BY <1>0, <1>2, OwnQueue
  <2>3. queue[client[t]][1].op = "stmt" /\ queue[client[t]][1].task = t
    BY <1>2
  <2>. QED
    BY <1>2, <2>1, <2>2, <2>3 DEF QueueOK
<1>4. UNCHANGED <<client, outcome, sent, up, owner, doomed, fate>>
  BY <1>0 DEF StmtOk, StmtError, StmtDropped, FnOK
<1>5. CASE main[t] = "rollback"
  <2>1. UNCHANGED main
    <3>1. body[t] # "await"
      BY <1>0, <1>5 DEF FnOK
    <3>. QED
      BY <3>1 DEF StmtOk, StmtError, StmtDropped, Awaited
  <2>. QED
    BY <1>0, <1>4, <1>5, <2>1 DEF ReportOK, CommitOK, Granted
<1>6. CASE main[t] = "running"
  <2>1. Awaited(t)
    BY <1>0, <1>1, <1>2, <1>3, <1>6 DEF CommitOK, Awaited
  <2>2. CASE StmtOk(t)
    <3>1. main' = main /\ queue'[client[t]] = <<>> /\ (up[client[t]] => result[client[t]] = "ok")
      BY <1>0, <1>2, <1>3, <1>6, <2>2 DEF StmtOk, Pop, Succeeded, TypeOK
    <3>. QED
      BY <1>0, <1>4, <1>6, <3>1 DEF ReportOK, CommitOK, Granted
  <2>3. CASE StmtError(t)
    <3>1. \/ main'[t] = "rollback"
          \/ main'[t] = "running" /\ t \in Catching /\ queue'[client[t]] = <<>>
      BY <1>0, <1>2, <1>3, <1>6, <2>3, ZenonT(30) DEF StmtError, Throws, FnOK, TypeOK
    <3>2. fate[t] # "committed"
      BY <1>0, <1>6 DEF FateOK
    <3>. QED
      BY <1>0, <1>4, <1>6, <3>1, <3>2 DEF ReportOK, CommitOK, Granted
  <2>. QED
    BY <2>1, <2>2, <2>3 DEF StmtDropped
<1>. QED
  BY <1>3, <1>5, <1>6

LEMMA AbortReport ==
  ASSUME OutcomeInv, NEW t \in Tasks, Abort(t)
  PROVE  ReportOK(t)' /\ CommitOK(t)'
<1>0. TypeOK /\ ReportOK(t) /\ CommitOK(t) /\ FateOK(t)
  BY DEF OutcomeInv, OrderlyInv
<1>1. UNCHANGED <<client, outcome, sent, result, up, owner, doomed, fate, slot>>
  BY DEF Abort
<1>2. CASE main[t] = "running"
  <2>1. main'[t] = "rollback" /\ fate[t] # "committed"
    BY <1>0, <1>2 DEF Abort, TypeOK, FateOK
  <2>. QED
    BY <1>0, <1>1, <1>2, <2>1 DEF ReportOK, CommitOK, Granted
<1>3. CASE main[t] # "running"
  BY <1>0, <1>1, <1>3 DEF Abort, ReportOK, CommitOK, Granted, Excused
<1>. QED
  BY <1>2, <1>3

\* A call that is not open on the connection keeps its report when the session of
\* that connection takes a step.
LEMMA ServerOthers ==
  ASSUME OutcomeInv, Next, NEW c \in Conns, Server(c) \/ Break(c),
         NEW u \in Tasks, ~(Active(u) /\ client[u] = c)
  PROVE  ReportOK(u)' /\ CommitOK(u)'
<1>0. TypeOK /\ ClientInv /\ OrderlyInv /\ SessionOK(c)
  BY DEF OutcomeInv, OrderlyInv
<1>1. \A d \in Conns : (~up[d] => ~up'[d]) /\ (slot[d] = "closed" => slot'[d] = "closed")
  BY <1>0, LossIsFinal
<1>2. /\ UNCHANGED <<main, outcome, client, sent, acked, queue>>
      /\ \A d \in Conns \ {c} : /\ result'[d] = result[d] /\ up'[d] = up[d]
                                 /\ owner'[d] = owner[d] /\ doomed'[d] = doomed[d]
  BY <1>0, SMTT(30) DEF Server, Break, ServerBegin, BeginTx, ServerStmt, ServerStmtFails,
              ServerCommit, ServerRollback, Answer, EndTx, TypeOK
<1>3. Active(u) => client[u] \in Conns \ {c}
  BY <1>0 DEF ClientInv
<1>4. CASE u # owner[c]
  <2>1. UNCHANGED fate \/ \E how \in {"committed", "discarded"} : EndTx(c, how)
    BY DEF Server, Break, ServerBegin, BeginTx, ServerStmt, ServerStmtFails, ServerCommit,
           ServerRollback
  <2>2. fate'[u] = fate[u]
    BY <1>0, <1>2, <1>4, <2>1, EndTxFacts
  <2>. QED
    BY <1>1, <1>2, <1>3, <2>2, ReportKept
<1>5. CASE u = owner[c]
  <2>1. held[u] /\ client[u] = c /\ fate[u] = "open" /\ main[u] = "settled"
    BY <1>0, <1>5, PoolAssumption DEF SessionOK, ClientInv
  <2>2. ~Server(c)
    <3>1. Server(c) => queue[c] # <<>>
      BY DEF Server, ServerBegin, ServerStmt, ServerStmtFails, ServerCommit, ServerRollback, Runs
    <3>2. queue[c] # <<>> => \E t \in Tasks : Active(t) /\ client[t] = c
      BY <1>0, Elements DEF OrderlyInv, QueueOK
    <3>. QED
      BY <1>0, <2>1, <3>1, <3>2, OneCall DEF OrderlyInv
  <2>3. fate'[u] = "discarded"
    BY <1>0, <1>5, <2>1, <2>2, PoolAssumption DEF Break, EndTx, TypeOK
  <2>4. outcome[u] # "resolved" /\ ReportOK(u)
    BY <2>1 DEF OutcomeInv, ReportOK, Granted
  <2>. QED
    BY <1>2, <2>1, <2>3, <2>4 DEF ReportOK, CommitOK
<1>. QED
  BY <1>4, <1>5

\* What the server does on the connection of an open call: before it answers
\* COMMIT it has ended the transaction the way its answer says.
LEMMA ServerReport ==
  ASSUME OutcomeInv, NEW c \in Conns, Server(c), NEW t \in Tasks, Active(t), client[t] = c
  PROVE  ReportOK(t)' /\ CommitOK(t)'
<1>0. /\ TypeOK /\ OrderlyInv /\ ReportOK(t) /\ CommitOK(t) /\ SessionOK(c) /\ FateOK(t)
      /\ QueueOK(c)
  BY DEF OutcomeInv, OrderlyInv
<1>1. /\ up[c] /\ result[c] = "none" /\ queue[c] # <<>>
      /\ UNCHANGED <<main, outcome, client, sent, acked, queue, up>>
  BY DEF Server, ServerBegin, ServerStmt, ServerStmtFails, ServerCommit, ServerRollback, Runs
<1>2. Head(queue[c]) = queue[c][1] /\ 1 \in 1..Len(queue[c])
  BY <1>0, <1>1, Elements
<1>3. /\ owner[c] \in {NoTask, t} /\ main[t] \in {"begin", "running", "commit", "rollback"}
      /\ Head(queue[c]).task = t
      /\ Head(queue[c]).op # "stmt" => main[t] = Head(queue[c]).op
      /\ Head(queue[c]).op = "stmt" => main[t] \in {"running", "rollback"}
  <2>1. /\ queue[c][1].task = t /\ owner[c] \in {NoTask, t}
        /\ queue[c][1].op # "stmt" => main[t] = queue[c][1].op
        /\ queue[c][1].op = "stmt" => main[t] \in {"running", "rollback"}
    BY <1>0, <1>2, OwnQueue
  <2>. QED
    BY <1>2, <2>1 DEF Active
<1>4. main[t] # "settled" /\ outcome[t] = "none" /\ (main[t] = "rollback" => fate[t] # "committed")
  BY <1>0, <1>1, <1>3 DEF ReportOK
<1>5. t # NoTask
  BY PoolAssumption
<1>6. ASSUME main[t] = "rollback" => fate'[t] # "committed" PROVE ReportOK(t)'
  BY <1>1, <1>4, <1>6 DEF ReportOK
<1>7. CASE ServerBegin(c)
  <2>1. main[t] = "begin"
    BY <1>3, <1>7 DEF ServerBegin, Runs
  <2>2. owner[c] = NoTask
    BY <1>0, <1>1, <1>3, <2>1 DEF SessionOK
  <2>3. ~doomed'[c]
    BY <1>0, <1>7, <2>2 DEF ServerBegin, BeginTx, EndTx, SessionOK, TypeOK
  <2>. QED
    BY <1>1, <1>6, <2>1, <2>3 DEF CommitOK
<1>8. CASE ServerStmt(c)
  <2>1. main[t] \in {"running", "rollback"} /\ UNCHANGED <<fate, owner, doomed>> /\ ~doomed[c]
    BY <1>3, <1>8 DEF ServerStmt, Runs
  <2>. QED
    BY <1>0, <1>1, <1>4, <1>6, <2>1 DEF CommitOK
<1>9. CASE ServerStmtFails(c)
  <2>1. /\ main[t] \in {"running", "rollback"} /\ UNCHANGED <<fate, owner>>
        /\ result'[c] = "error" /\ (doomed'[c] => doomed[c] \/ Dialect = "pg")
    BY <1>0, <1>3, <1>9 DEF ServerStmtFails, Runs, Answer, TypeOK
  <2>. QED
    BY <1>0, <1>1, <1>4, <1>6, <2>1 DEF CommitOK
<1>10. CASE ServerCommit(c)
  <2>1. main[t] = "commit" /\ owner'[c] = NoTask /\ owner[c] = t
    BY <1>0, <1>1, <1>3, <1>10 DEF ServerCommit, Runs, CommitOK, TypeOK
  <2>2. fate[t] = "open"
    BY <1>0, <1>5, <2>1 DEF SessionOK
  <2>3. \/ fate'[t] = "committed" /\ result'[c] = "ok"
        \/ fate'[t] = "discarded" /\ result'[c] = "ok" /\ doomed[c]
        \/ fate'[t] = "discarded" /\ result'[c] = "error"
    BY <1>0, <1>5, <1>10, <2>1, <2>2 DEF ServerCommit, Answer, EndTx, TypeOK
  <2>4. doomed[c] => Excused(t)
    BY <1>0, <1>1, <2>1 DEF CommitOK, Excused
  <2>5. result'[c] = "ok" => Granted(t)'
    BY <2>3, <2>4 DEF Granted, Excused
  <2>. QED
    BY <1>1, <1>5, <1>6, <2>1, <2>3, <2>5 DEF CommitOK
<1>11. CASE ServerRollback(c)
  <2>1. main[t] = "rollback" /\ EndTx(c, "discarded")
    BY <1>3, <1>11 DEF ServerRollback, Runs
  <2>2. fate'[t] # "committed"
    BY <1>0, <1>4, <2>1 DEF EndTx, TypeOK
  <2>. QED
    BY <1>1, <1>6, <2>1, <2>2 DEF CommitOK
<1>. QED
  BY <1>7, <1>8, <1>9, <1>10, <1>11 DEF Server

LEMMA BreakReport ==
  ASSUME OutcomeInv, NEW c \in Conns, Break(c), NEW t \in Tasks, Active(t), client[t] = c
  PROVE  ReportOK(t)' /\ CommitOK(t)'
<1>0. TypeOK /\ ReportOK(t) /\ CommitOK(t)
  BY DEF OutcomeInv, OrderlyInv
<1>1. UNCHANGED <<main, outcome, client, sent, queue, result>> /\ ~up'[c]
  BY <1>0 DEF Break, TypeOK
<1>2. main[t] # "settled" /\ outcome[t] = "none"
  BY <1>0 DEF ReportOK, Active
<1>3. ReportOK(t)'
  BY <1>1, <1>2 DEF ReportOK
<1>4. CommitOK(t)'
  BY <1>0, <1>1 DEF CommitOK
<1>. QED
  BY <1>3, <1>4

LEMMA OutcomeInit == Init => OutcomeInv
<1>. SUFFICES ASSUME Init PROVE OutcomeInv
  OBVIOUS
<1>1. OrderlyInv
  BY OrderlyInit
<1>2. \A t \in Tasks : ReportOK(t) /\ CommitOK(t)
  BY DEF Init, ReportOK, CommitOK, Granted
<1>. QED
  BY <1>1, <1>2 DEF OutcomeInv

LEMMA OutcomeAsIs ==
  ASSUME OutcomeInv, UNCHANGED vars
  PROVE  OutcomeInv'
<1>1. OrderlyInv'
  BY OrderlyAsIs DEF OutcomeInv
<1>2. ASSUME NEW u \in Tasks PROVE ReportOK(u)' /\ CommitOK(u)'
  BY ReportKept
<1>. QED
  BY <1>1, <1>2 DEF OutcomeInv

LEMMA OutcomeStep ==
  ASSUME OutcomeInv, Orderly, Next
  PROVE  OutcomeInv'
<1>1. OrderlyInv'
  BY OrderlyStep DEF OutcomeInv
<1>2. ASSUME NEW t \in Tasks, Call(t) \/ Fn(t) \/ Abort(t)
      PROVE  \A u \in Tasks : ReportOK(u)' /\ CommitOK(u)'
  <2>1. \A u \in Tasks \ {t} : ReportOK(u)' /\ CommitOK(u)'
    BY <1>2, OthersReport
  <2>2. TypeOK'
    BY <1>1 DEF OrderlyInv
  <2>3. ReportOK(t)' /\ CommitOK(t)'
    <3>1. CASE Call(t)
      BY <2>2, <3>1, BeginReport, EndReport DEF Call
    <3>2. CASE Fn(t)
      BY <3>2, FnSteps, SendReport, AnswerReport DEF OutcomeInv
    <3>3. CASE Abort(t)
      BY <3>3, AbortReport
    <3>. QED
      BY <1>2, <3>1, <3>2, <3>3
  <2>. QED
    BY <2>1, <2>3
<1>3. ASSUME NEW c \in Conns, Server(c) \/ Break(c)
      PROVE  \A u \in Tasks : ReportOK(u)' /\ CommitOK(u)'
  <2>. SUFFICES ASSUME NEW u \in Tasks PROVE ReportOK(u)' /\ CommitOK(u)'
    OBVIOUS
  <2>1. CASE Active(u) /\ client[u] = c
    BY <1>3, <2>1, ServerReport, BreakReport
  <2>2. CASE ~(Active(u) /\ client[u] = c)
    BY <1>3, <2>2, ServerOthers
  <2>. QED
    BY <2>1, <2>2
<1>4. ASSUME UNCHANGED vars PROVE \A u \in Tasks : ReportOK(u)' /\ CommitOK(u)'
  <2>1. OutcomeInv'
    BY <1>4, OutcomeAsIs
  <2>. QED
    BY <2>1 DEF OutcomeInv
<1>5. \A u \in Tasks : ReportOK(u)' /\ CommitOK(u)'
  BY <1>2, <1>3, <1>4 DEF Next, Quiet
<1>. QED
  BY <1>1, <1>5 DEF OutcomeInv

LEMMA OutcomeAlways == ASSUME Orderly PROVE Spec => []OutcomeInv
<1>1. Orderly
  OBVIOUS
<1>2. OutcomeInv /\ [Next]_vars => OutcomeInv'
  <2>. SUFFICES ASSUME OutcomeInv, [Next]_vars PROVE OutcomeInv'
    OBVIOUS
  <2>1. CASE UNCHANGED vars
    BY <2>1, OutcomeAsIs
  <2>. QED
    BY <2>1, <1>1, OutcomeStep
<1>. QED
  BY <1>2, OutcomeInit, PTL DEF Spec

\* A call of transaction() that resolves has committed, even if its COMMIT failed,
\* its signal fired or its connection was lost on the way.  The exception is a body
\* that caught the error of a statement on PostgreSQL.
THEOREM ResolvedMeansCommitted == ASSUME Orderly PROVE Spec => []ResolvedIsCommitted
<1>1. OutcomeInv => ResolvedIsCommitted
  BY DEF OutcomeInv, ReportOK, Granted, Excused, ResolvedIsCommitted
<1>. QED
  BY <1>1, OutcomeAlways, PTL

\* A call that rejects has left nothing durable behind, unless its connection was
\* lost between the server's COMMIT and its answer.
THEOREM RejectedMeansDiscarded == ASSUME Orderly PROVE Spec => []RejectedIsDiscarded
<1>1. OutcomeInv => RejectedIsDiscarded
  BY DEF OutcomeInv, ReportOK, RejectedIsDiscarded
<1>. QED
  BY <1>1, OutcomeAlways, PTL

-----------------------------------------------------------------------------
(* Clients that are not given back, whatever the server answers and whatever   *)
(* bodies, signals, losses and nested transactions do.                         *)

\* A step of fn leaves fn called, and the client where it is.
LEMMA FnKeeps ==
  ASSUME TypeOK, LeakOK, ClientInv, NEW t \in Tasks, Fn(t)
  PROVE  LeakOK'
<1>1. UNCHANGED held
  BY DEF Fn, Send, BodyEnds, StmtOk, StmtError, StmtDropped, NestBegin, NestBeginReply,
         NestEnds, NestCommitReply, NestRollbackReply
<1>2. \/ UNCHANGED main
      \/ /\ main[t] = "running"
         /\ \E where \in {"commit", "rollback"} : main' = [main EXCEPT ![t] = where]
  BY DEF Fn, Send, BodyEnds, StmtOk, StmtError, StmtDropped, NestBegin, NestBeginReply,
         NestEnds, NestCommitReply, NestRollbackReply, Throws
<1>3. \/ UNCHANGED body
      \/ body[t] # "off" /\ \E b : b # "off" /\ body' = [body EXCEPT ![t] = b]
  BY DEF Fn, Send, BodyEnds, StmtOk, StmtError, StmtDropped, Awaited, NestBegin, NestBeginReply,
         NestEnds, NestCommitReply, NestRollbackReply, Throws
<1>4. ASSUME NEW u \in Tasks
      PROVE  /\ \/ main'[u] = main[u]
                \/ main[u] = "running" /\ main'[u] \in {"commit", "rollback"}
             /\ body'[u] = "off" <=> body[u] = "off"
  BY <1>2, <1>3 DEF TypeOK
<1>. QED
  BY <1>1, <1>4 DEF LeakOK

LEMMA LeakStep ==
  ASSUME TypeOK, ClientInv, LeakOK, Next
  PROVE  LeakOK'
<1>1. ASSUME NEW t \in Tasks, Call(t) PROVE LeakOK'
  <2>1. CASE Start(t)
    BY <2>1 DEF Start, LeakOK, TypeOK
  <2>2. ASSUME NEW c \in Conns, Connect(t, c) PROVE LeakOK'
    BY <2>2 DEF Connect, LeakOK, TypeOK
  <2>3. CASE BeginOk(t)
    BY <2>3 DEF BeginOk, LeakOK, TypeOK
  <2>4. CASE BeginOkAborted(t)
    BY <2>4 DEF BeginOkAborted, LeakOK, TypeOK
  <2>5. CASE BeginFails(t)
    <3>1. /\ main[t] = "begin" /\ main' = [main EXCEPT ![t] = "settled"]
          /\ UNCHANGED <<body, held>>
      BY <2>5 DEF BeginFails
    <3>2. body[t] = "off" /\ held[t]
      BY <3>1 DEF LeakOK, ClientInv, Active
    <3>. QED
      BY <3>1, <3>2 DEF LeakOK, TypeOK
  <2>6. CASE CommitFails(t)
    BY <2>6 DEF CommitFails, LeakOK, TypeOK
  <2>7. CASE CommitOk(t) \/ RollbackDone(t)
    <3>1. /\ main[t] \in {"commit", "rollback"} /\ UNCHANGED body
          /\ main' = [main EXCEPT ![t] = "settled"] /\ held' = [held EXCEPT ![t] = FALSE]
      BY <2>7 DEF CommitOk, RollbackDone, Release
    <3>2. body[t] # "off"
      BY <3>1 DEF LeakOK
    <3>. QED
      BY <3>1, <3>2 DEF LeakOK, TypeOK
  <2>. QED
    BY <1>1, <2>1, <2>2, <2>3, <2>4, <2>5, <2>6, <2>7 DEF Call
<1>2. ASSUME NEW t \in Tasks, Fn(t) PROVE LeakOK'
  BY <1>2, FnKeeps
<1>3. ASSUME NEW t \in Tasks, Abort(t) PROVE LeakOK'
  <2>1. /\ UNCHANGED held
        /\ \/ UNCHANGED <<main, body>>
           \/ /\ main[t] = "running" /\ main' = [main EXCEPT ![t] = "rollback"]
              /\ \E b \in {body[t], "ready", "over"} : body' = [body EXCEPT ![t] = b]
    BY <1>3 DEF Abort
  <2>2. main[t] = "running" => body[t] # "off"
    BY DEF LeakOK
  <2>. QED
    BY <2>1, <2>2 DEF LeakOK, TypeOK
<1>4. ASSUME NEW c \in Conns, Server(c) \/ Break(c) PROVE UNCHANGED <<main, body, held>>
  BY <1>4 DEF Server, ServerBegin, ServerStmt, ServerStmtFails, ServerCommit, ServerRollback,
              Break
<1>5. UNCHANGED <<main, body, held>> => LeakOK'
  BY DEF LeakOK
<1>. QED
  BY <1>1, <1>2, <1>3, <1>4, <1>5 DEF Next, Quiet

LEMMA LeakAlways == Spec => []LeakOK
<1>1. Init => LeakOK
  BY DEF Init, LeakOK
<1>2. TypeOK /\ ClientInv /\ LeakOK /\ [Next]_vars => LeakOK'
  <2>1. LeakOK /\ UNCHANGED vars => LeakOK'
    BY DEF LeakOK
  <2>. QED
    BY <2>1, LeakStep
<1>. QED
  BY <1>1, <1>2, TypeCorrect, ClientsAlways, PTL DEF Spec

\* A settled call has kept its client exactly if its fn was never called, and
\* a client that was kept is out of the pool.
OnlyBeginLeaks ==
  \A t \in Tasks : main[t] = "settled" =>
    /\ held[t] <=> body[t] = "off"
    /\ held[t] => slot[client[t]] = "out"

\* transaction() leaks its client when BEGIN is rejected, for whatever reason the
\* client or the server has, and in no other way: once fn is called, every path
\* through COMMIT, ROLLBACK, the signal and a loss releases it.
THEOREM LeaksOnlyAtBegin == Spec => []OnlyBeginLeaks
<1>1. ClientInv /\ LeakOK => OnlyBeginLeaks
  BY DEF ClientInv, LeakOK, OnlyBeginLeaks
<1>. QED
  BY <1>1, LeakAlways, ClientsAlways, PTL

-----------------------------------------------------------------------------
(* Clients that are given back: connections that stay up and take every BEGIN, *)
(* with bodies that outlive the race and nested transactions.                  *)

\* No BEGIN, COMMIT or ROLLBACK of t is under way in s.
Free(s, t) == \A i \in 1..Len(s) : s[i].task = t => s[i].op = "stmt"

\* The commands behind the head of a queue; behind a BEGIN, COMMIT or ROLLBACK
\* there is no other one of its call.
LEMMA TailOK ==
  ASSUME NEW c, NEW s \in Seq(Command), s # <<>>, CommandsOK(s, c)
  PROVE  /\ Tail(s) \in Seq(Command) /\ CommandsOK(Tail(s), c)
         /\ Head(s).op # "stmt" => Free(Tail(s), Head(s).task)
         /\ Head(s) \in Command /\ client[Head(s).task] = c
         /\ Head(s).op # "stmt" => Expects(Head(s))
<1>1. /\ Tail(s) \in Seq(Command) /\ Head(s) = s[1] /\ Len(s) \in Nat \ {0} /\ s[1] \in Command
      /\ Len(Tail(s)) = Len(s) - 1
      /\ \A i \in 1..Len(Tail(s)) : Tail(s)[i] = s[i + 1]
  BY HeadTailProperties, EmptySeq
<1>2. ASSUME NEW i \in 1..Len(Tail(s))
      PROVE  i + 1 \in 1..Len(s) /\ i + 1 # 1 /\ Tail(s)[i] = s[i + 1]
  BY <1>1
<1>3. ASSUME NEW i \in 1..Len(Tail(s)), NEW j \in 1..Len(Tail(s)), j # i PROVE j + 1 # i + 1
  BY <1>1, <1>3
<1>4. 1 \in 1..Len(s)
  BY <1>1
<1>5. CommandsOK(Tail(s), c)
  BY <1>2, <1>3 DEF CommandsOK
<1>6. Head(s).op # "stmt" => Free(Tail(s), Head(s).task)
  BY <1>1, <1>2, <1>4 DEF CommandsOK, Free
<1>7. client[s[1].task] = c /\ (s[1].op # "stmt" => Expects(s[1]))
  BY <1>4 DEF CommandsOK
<1>. QED
  BY <1>1, <1>5, <1>6, <1>7

\* Calls that neither wait for an answer of main nor for one of fn have nothing
\* but statements under way.
LEMMA NothingExpected ==
  ASSUME NEW c, NEW t \in Tasks, NEW s \in Seq(Command), CommandsOK(s, c)
  PROVE  (client[t] # c \/ (main[t] \notin {"begin", "commit", "rollback"} /\ ~Nested(t)))
           => Free(s, t)
<1>1. \A i \in 1..Len(s) : s[i] \in Command
  BY ElementOfSeq
<1>2. ASSUME NEW i \in 1..Len(s), s[i].task = t, s[i].op # "stmt"
      PROVE  /\ client[t] = c
             /\ main[t] \in {"begin", "commit", "rollback"} \/ Nested(t)
  <2>1. client[t] = c /\ Expects(s[i])
    BY <1>2 DEF CommandsOK
  <2>2. s[i].by = "main" => s[i].op \in {"begin", "commit", "rollback"}
    BY <1>1, <1>2 DEF Command
  <2>. QED
    BY <1>2, <2>1, <2>2 DEF Expects
<1>. QED
  BY <1>2 DEF Free

\* A step of t leaves the commands it finds in order, if it waits for none of
\* them or goes on waiting.
LEMMA CommandsKept ==
  ASSUME NEW c, NEW t \in Tasks, NEW s \in Seq(Command), CommandsOK(s, c),
         \A u \in Tasks \ {t} : client'[u] = client[u] /\ main'[u] = main[u] /\ body'[u] = body[u],
         client'[t] = client[t] \/ client[t] # c,
         Free(s, t) \/ (main'[t] = main[t] /\ (Nested(t) => Nested(t)'))
  PROVE  CommandsOK(s, c)'
<1>1. \A i \in 1..Len(s) : s[i] \in Command /\ s[i].task \in Tasks
  <2>1. \A i \in 1..Len(s) : s[i] \in Command
    BY ElementOfSeq
  <2>. QED
    BY <2>1 DEF Command
<1>2. ASSUME NEW i \in 1..Len(s) PROVE client'[s[i].task] = c
  <2>1. client[s[i].task] = c
    BY DEF CommandsOK
  <2>. QED
    BY <1>1, <2>1
<1>3. ASSUME NEW i \in 1..Len(s), s[i].op # "stmt" PROVE Expects(s[i])'
  <2>1. Expects(s[i])
    BY <1>3 DEF CommandsOK
  <2>2. s[i].task = t => main'[t] = main[t] /\ (Nested(t) => Nested(t)')
    BY <1>3 DEF Free
  <2>3. s[i].task # t => UNCHANGED <<main[s[i].task], body[s[i].task]>>
    BY <1>1
  <2>. QED
    BY <2>1, <2>2, <2>3 DEF Expects, Nested
<1>4. \A i \in 1..Len(s) : s[i].op # "stmt" =>
        \A j \in 1..Len(s) : j # i /\ s[j].task = s[i].task => s[j].op = "stmt"
  BY DEF CommandsOK
<1>. QED
  BY <1>2, <1>3, <1>4 DEF CommandsOK

\* A command may follow when it is a statement, or when its call waits for it
\* and for no other.
LEMMA CommandSent ==
  ASSUME NEW c, NEW s \in Seq(Command), NEW cmd \in Command, CommandsOK(s, c)',
         client'[cmd.task] = c,
         cmd.op = "stmt" \/ (Free(s, cmd.task) /\ Expects(cmd)')
  PROVE  CommandsOK(Append(s, cmd), c)'
<1>1. PICK r : r = Append(s, cmd)
  OBVIOUS
<1>2. /\ Len(s) \in Nat /\ Len(r) = Len(s) + 1 /\ r[Len(s) + 1] = cmd
      /\ \A i \in 1..Len(s) : r[i] = s[i]
  BY <1>1
<1>3. \A i \in 1..Len(r) : i \in 1..Len(s) \/ (i = Len(s) + 1 /\ r[i] = cmd)
  BY <1>2
<1>4. ASSUME NEW i \in 1..Len(r) PROVE client'[r[i].task] = c
  BY <1>2, <1>3 DEF CommandsOK
<1>5. ASSUME NEW i \in 1..Len(r), r[i].op # "stmt" PROVE Expects(r[i])'
  BY <1>2, <1>3, <1>5 DEF CommandsOK
<1>6. ASSUME NEW i \in 1..Len(r), r[i].op # "stmt", NEW j \in 1..Len(r), j # i,
             r[j].task = r[i].task
      PROVE  r[j].op = "stmt"
  <2>1. CASE i \in 1..Len(s) /\ j \in 1..Len(s)
    <3>1. \A k \in 1..Len(s) : s[k].op # "stmt" =>
            \A l \in 1..Len(s) : l # k /\ s[l].task = s[k].task => s[l].op = "stmt"
      BY DEF CommandsOK
    <3>. QED
      BY <1>2, <1>6, <2>1, <3>1
  <2>2. CASE r[i] = cmd /\ j \in 1..Len(s)
    BY <1>2, <1>6, <2>2 DEF Free
  <2>3. CASE i \in 1..Len(s) /\ r[j] = cmd
    BY <1>2, <1>6, <2>3 DEF Free
  <2>. QED
    BY <1>2, <1>3, <1>6, <2>1, <2>2, <2>3
<1>7. CommandsOK(r, c)'
  BY <1>4, <1>5, <1>6 DEF CommandsOK
<1>. QED
  BY <1>1, <1>7

\* What a step of t does with the queue of its client c: it finds b there, a
\* part of the queue, and sends at most one command behind it.  If it has taken
\* the answered head off, that was a command of t, and t does not wait for the
\* answer to BEGIN any more.
Moves(t, c, b) ==
  /\ b \in Seq(Command) /\ CommandsOK(b, c)
  /\ \/ b = queue[c] /\ result'[c] = result[c]
     \/ /\ result'[c] = "none" /\ queue[c] # <<>> /\ Head(queue[c]).task = t
        /\ main'[t] = "begin" => Head(queue[c]).by = "body"
  /\ Free(b, t) \/ (main'[t] = main[t] /\ (Nested(t) => Nested(t)'))
  /\ \/ queue'[c] = b
     \/ \E cmd \in Command : /\ queue'[c] = Append(b, cmd) /\ cmd.task = t
                             /\ cmd.op = "stmt" \/ (Free(b, t) /\ Expects(cmd)')

\* The other calls, the other connections and the sessions of a step of t.
Leaves(t, c) ==
  /\ \A u \in Tasks \ {t} : /\ main'[u] = main[u] /\ body'[u] = body[u] /\ nest'[u] = nest[u]
                            /\ aborted'[u] = aborted[u] /\ held'[u] = held[u]
                            /\ client'[u] = client[u]
  /\ \A d \in Conns \ {c} : queue'[d] = queue[d] /\ result'[d] = result[d]
  /\ UNCHANGED <<up, owner, doomed>>

\* A session that t does not own, or a queue that t leaves alone.
LEMMA OwnedElsewhere ==
  ASSUME ReleaseInv, NEW t \in Tasks, NEW c, Leaves(t, c), NEW d \in Conns \ {c}, owner[d] # t
  PROVE  OwnedOK(d)'
<1>1. OwnedOK(d) /\ owner[d] \in Tasks \cup {NoTask}
  BY DEF ReleaseInv, TypeOK
<1>2. /\ queue'[d] = queue[d] /\ result'[d] = result[d]
      /\ owner'[d] = owner[d] /\ doomed'[d] = doomed[d]
  BY DEF Leaves
<1>3. owner[d] # NoTask => /\ main'[owner[d]] = main[owner[d]] /\ held'[owner[d]] = held[owner[d]]
                           /\ client'[owner[d]] = client[owner[d]]
  BY <1>1 DEF Leaves
<1>. QED
  BY <1>1, <1>2, <1>3 DEF OwnedOK

\* A step of a call on its own client keeps the invariant.
LEMMA OwnReleases ==
  ASSUME ReleaseInv, NEW t \in Tasks, NEW c \in Conns, client[t] = c, client'[t] = c,
         TypeOK', ClientInv', ExclusiveClient', StageOK(t)', Leaves(t, c),
         NEW b, Moves(t, c, b),
         main'[t] = "begin" => main[t] = "begin",
         held'[t] = held[t] \/ (~held'[t] /\ owner[c] = NoTask),
         main'[t] = "settled" => main[t] = "settled" \/ ~held'[t]
  PROVE  ReleaseInv'
<1>0. /\ TypeOK /\ SettledReleases
      /\ \A u \in Tasks : StageOK(u)
      /\ \A d \in Conns : CommandsOK(queue[d], d) /\ OwnedOK(d) /\ up[d]
      /\ \A d \in Conns : owner[d] \in Tasks \cup {NoTask} /\ queue[d] \in Seq(Command)
  BY DEF ReleaseInv, TypeOK
<1>1. \A u \in Tasks \ {t} : StageOK(u)'
  BY <1>0 DEF StageOK, Nested, Leaves
<1>2. SettledReleases'
  <2>1. held'[t] => main'[t] # "settled"
    BY <1>0, PoolAssumption DEF SettledReleases, OwnedOK
  <2>. QED
    BY <1>0, <2>1 DEF SettledReleases, Leaves
<1>3. ASSUME NEW d \in Conns \ {c} PROVE CommandsOK(queue[d], d)'
  <2>1. PICK s : s = queue[d] /\ s \in Seq(Command)
    BY <1>0
  <2>2. CommandsOK(s, d)
    BY <1>0, <2>1
  <2>3. Free(s, t)
    BY <2>1, <2>2, NothingExpected
  <2>4. CommandsOK(s, d)'
    BY <2>1, <2>2, <2>3, CommandsKept DEF Leaves
  <2>. QED
    BY <2>1, <2>4 DEF Leaves
<1>4. CommandsOK(queue[c], c)'
  <2>1. b \in Seq(Command) /\ CommandsOK(b, c)
        /\ (Free(b, t) \/ (main'[t] = main[t] /\ (Nested(t) => Nested(t)')))
    BY DEF Moves
  <2>2. CommandsOK(b, c)'
    BY <2>1, CommandsKept DEF Leaves
  <2>3. CASE queue'[c] = b
    BY <2>2, <2>3
  <2>4. ASSUME NEW cmd \in Command, queue'[c] = Append(b, cmd), cmd.task = t,
               cmd.op = "stmt" \/ (Free(b, t) /\ Expects(cmd)')
        PROVE  CommandsOK(queue[c], c)'
    <3>1. CommandsOK(Append(b, cmd), c)'
      BY <2>1, <2>2, <2>4, CommandSent
    <3>. QED
      BY <2>4, <3>1
  <2>. QED
    BY <2>3, <2>4 DEF Moves
<1>5. ASSUME NEW d \in Conns \ {c} PROVE OwnedOK(d)'
  <2>1. owner[d] # t
    BY <1>0, PoolAssumption DEF OwnedOK
  <2>. QED
    BY <2>1, OwnedElsewhere
<1>6. OwnedOK(c)'
  <2>1. owner'[c] = owner[c] /\ doomed'[c] = doomed[c]
    BY DEF Leaves
  <2>2. owner[c] # NoTask => held'[owner[c]] /\ client'[owner[c]] = c
    BY <1>0 DEF OwnedOK, Leaves
  <2>3. owner[c] # NoTask /\ main'[owner[c]] = "begin" => main[owner[c]] = "begin"
    BY <1>0 DEF Leaves
  <2>4. CASE b = queue[c] /\ result'[c] = result[c]
    <3>1. queue[c] # <<>> => queue'[c] # <<>> /\ Head(queue'[c]) = Head(queue[c])
      <4>1. CASE queue'[c] = queue[c]
        BY <4>1
      <4>2. ASSUME NEW cmd \in Command, queue'[c] = Append(queue[c], cmd)
            PROVE  queue[c] # <<>> => queue'[c] # <<>> /\ Head(queue'[c]) = Head(queue[c])
        BY <1>0, <4>2
      <4>. QED
        BY <2>4, <4>1, <4>2 DEF Moves
    <3>. QED
      BY <1>0, <2>1, <2>2, <2>3, <2>4, <3>1 DEF OwnedOK
  <2>5. CASE /\ result'[c] = "none" /\ queue[c] # <<>> /\ Head(queue[c]).task = t
             /\ main'[t] = "begin" => Head(queue[c]).by = "body"
    <3>1. owner[c] # NoTask => main'[owner[c]] # "begin"
      <4>1. owner[c] # NoTask /\ main'[owner[c]] = "begin" =>
              Head(queue[c]).task = owner[c] /\ Head(queue[c]).by = "main"
        BY <1>0, <2>3 DEF OwnedOK
      <4>2. "main" # "body"
        OBVIOUS
      <4>. QED
        BY <2>5, <4>1, <4>2
    <3>. QED
      BY <1>0, <2>1, <2>2, <2>5, <3>1 DEF OwnedOK
  <2>. QED
    BY <2>4, <2>5 DEF Moves
<1>7. \A d \in Conns : up'[d]
  BY <1>0 DEF Leaves
<1>. QED
  BY <1>1, <1>2, <1>3, <1>4, <1>5, <1>6, <1>7 DEF ReleaseInv

\* The answered command of t at the head of its queue.
LEMMA AnswerFacts ==
  ASSUME ReleaseInv, NEW t \in Tasks, NEW by \in {"main", "body"}, NEW op, Answered(t, by, op)
  PROVE  LET c == client[t] IN
         /\ c \in Conns /\ queue[c] # <<>> /\ up[c] /\ result[c] # "none" /\ OwnedOK(c)
         /\ Head(queue[c]).task = t /\ Head(queue[c]).by = by /\ Head(queue[c]).op = op
         /\ Tail(queue[c]) \in Seq(Command) /\ CommandsOK(Tail(queue[c]), c)
         /\ op # "stmt" => Free(Tail(queue[c]), t)
         /\ op # "stmt" /\ by = "main" => main[t] = op
         /\ op # "stmt" /\ by = "body" => main[t] = "running" /\ Nested(t)
<1>1. PICK c : c = client[t]
  OBVIOUS
<1>2. c \in Conns /\ queue[c] # <<>> /\ Head(queue[c]).op = op /\ Head(queue[c]).task = t
      /\ Head(queue[c]).by = by /\ (result[c] # "none" \/ ~up[c])
  BY <1>1 DEF Answered
<1>3. PICK s : s = queue[c] /\ s \in Seq(Command) /\ s # <<>> /\ CommandsOK(s, c)
  BY <1>2 DEF ReleaseInv, TypeOK
<1>4. /\ Tail(s) \in Seq(Command) /\ CommandsOK(Tail(s), c)
      /\ Head(s).op # "stmt" => Free(Tail(s), Head(s).task) /\ Expects(Head(s))
  BY <1>3, TailOK
<1>5. up[c] /\ OwnedOK(c)
  BY <1>2 DEF ReleaseInv
<1>6. /\ op # "stmt" /\ by = "main" => main[t] = op
      /\ op # "stmt" /\ by = "body" => main[t] = "running" /\ Nested(t)
  BY <1>2, <1>3, <1>4 DEF Expects
<1>. QED
  BY <1>1, <1>2, <1>3, <1>4, <1>5, <1>6

\* The answers to BEGIN, COMMIT and ROLLBACK of transaction().  BEGIN is never
\* answered with an error, and COMMIT and ROLLBACK leave no transaction open.
LEMMA CallReleases ==
  ASSUME ReleaseInv, NEW t \in Tasks, TypeOK', ClientInv', ExclusiveClient',
         \/ BeginOk(t) \/ BeginOkAborted(t) \/ BeginFails(t)
         \/ CommitOk(t) \/ CommitFails(t) \/ RollbackDone(t)
  PROVE  ReleaseInv'
<1>0. TypeOK /\ StageOK(t)
  BY DEF ReleaseInv
<1>1. PICK c : c = client[t]
  OBVIOUS
<1>2. PICK op \in {"begin", "commit", "rollback"} : Answered(t, "main", op)
  BY DEF BeginOk, BeginOkAborted, BeginFails, CommitOk, CommitFails, RollbackDone
<1>3. /\ c \in Conns /\ queue[c] # <<>> /\ up[c] /\ result[c] # "none" /\ OwnedOK(c)
      /\ Head(queue[c]).task = t /\ Head(queue[c]).by = "main" /\ Head(queue[c]).op = op
      /\ Tail(queue[c]) \in Seq(Command) /\ CommandsOK(Tail(queue[c]), c)
      /\ Free(Tail(queue[c]), t) /\ main[t] = op
  BY <1>1, <1>2, AnswerFacts
<1>4. /\ op = "begin" => result[c] = "ok"
      /\ op # "begin" => owner[c] = NoTask
  BY <1>3 DEF OwnedOK
<1>5. ~BeginFails(t)
  BY <1>1, <1>3, <1>4 DEF BeginFails, Succeeded
<1>6. /\ UNCHANGED <<client, nest, aborted, up, owner, doomed>>
      /\ \A u \in Tasks \ {t} : main'[u] = main[u] /\ body'[u] = body[u]
      /\ \A d \in Conns \ {c} : queue'[d] = queue[d] /\ result'[d] = result[d]
      /\ result'[c] = "none"
  <2>1. UNCHANGED <<client, nest, aborted, up, owner, doomed>>
    BY <1>5 DEF BeginOk, BeginOkAborted, CommitOk, CommitFails, RollbackDone
  <2>2. \A u \in Tasks \ {t} : main'[u] = main[u] /\ body'[u] = body[u]
    BY <1>0, <1>5 DEF TypeOK, BeginOk, BeginOkAborted, CommitOk, CommitFails, RollbackDone
  <2>3. /\ \A d \in Conns \ {c} : queue'[d] = queue[d] /\ result'[d] = result[d]
        /\ result'[c] = "none"
    BY <1>0, <1>1, <1>3, <1>5 DEF TypeOK, BeginOk, BeginOkAborted, CommitOk, CommitFails,
                                  RollbackDone, Pop
  <2>. QED
    BY <2>1, <2>2, <2>3
<1>7. CASE BeginOk(t) \/ CommitOk(t) \/ RollbackDone(t)
  <2>1. queue'[c] = Tail(queue[c]) /\ main'[t] # "begin"
    BY <1>0, <1>1, <1>3, <1>7 DEF TypeOK, BeginOk, CommitOk, RollbackDone, Pop
  <2>2. Moves(t, c, Tail(queue[c]))
    BY <1>3, <1>6, <2>1 DEF Moves
  <2>3. \/ main'[t] = "running" /\ body'[t] = "ready" /\ UNCHANGED held /\ ~aborted[t]
        \/ /\ main'[t] = "settled" /\ body'[t] = body[t] /\ main[t] \in {"commit", "rollback"}
           /\ held' = [held EXCEPT ![t] = FALSE]
    BY <1>0, <1>7 DEF TypeOK, BeginOk, CommitOk, RollbackDone, Release
  <2>4. StageOK(t)'
    BY <1>0, <1>1, <1>3, <1>6, <2>3 DEF StageOK, Nested
  <2>5. Leaves(t, c)
    BY <1>0, <1>6, <2>3 DEF Leaves, TypeOK
  <2>6. /\ held'[t] = held[t] \/ (~held'[t] /\ owner[c] = NoTask)
        /\ main'[t] = "settled" => ~held'[t]
    BY <1>0, <1>3, <1>4, <2>3 DEF TypeOK
  <2>. QED
    BY <1>1, <1>3, <1>6, <2>1, <2>2, <2>4, <2>5, <2>6, OwnReleases
<1>8. CASE CommitFails(t)
  <2>1. PICK cmd \in Command : cmd = Cmd(t, "main", "rollback", 0)
    BY <1>0, CmdsSent
  <2>2. /\ queue'[c] = Append(Tail(queue[c]), cmd) /\ main'[t] = "rollback"
        /\ UNCHANGED <<body, held>>
    BY <1>0, <1>1, <1>3, <1>8, <2>1 DEF TypeOK, CommitFails
  <2>3. cmd.task = t /\ Expects(cmd)'
    BY <2>1, <2>2 DEF Expects, Cmd
  <2>4. Moves(t, c, Tail(queue[c]))
    BY <1>3, <1>6, <2>2, <2>3 DEF Moves
  <2>5. StageOK(t)'
    BY <1>0, <1>3, <1>6, <1>8, <2>2 DEF StageOK, Nested, CommitFails
  <2>6. Leaves(t, c)
    BY <1>6, <2>2 DEF Leaves
  <2>. QED
    BY <1>1, <1>3, <1>6, <2>2, <2>4, <2>5, <2>6, OwnReleases
<1>9. CASE BeginOkAborted(t)
  <2>1. PICK cmd \in Command : cmd = Cmd(t, "main", "rollback", 0)
    BY <1>0, CmdsSent
  <2>2. PICK n \in 0..1 :
          /\ n <= MaxStmts
          /\ queue' = [queue EXCEPT ![c] =
                         Append(IF n = 1 THEN Append(Tail(queue[c]), Cmd(t, "body", "stmt", 1))
                                ELSE Tail(queue[c]), cmd)]
    BY <1>1, <1>9, <2>1 DEF BeginOkAborted
  <2>3. PICK b : b = IF n = 1 THEN Append(Tail(queue[c]), Cmd(t, "body", "stmt", 1))
                     ELSE Tail(queue[c])
    OBVIOUS
  <2>4. b \in Seq(Command) /\ CommandsOK(b, c) /\ Free(b, t)
    <3>1. CASE n = 0
      BY <1>3, <2>3, <3>1
    <3>2. CASE n = 1
      <4>1. PICK stmt \in Command : stmt = Cmd(t, "body", "stmt", 1)
        BY <1>0, <2>2, <3>2, CmdsSent, PoolAssumption
      <4>2. b = Append(Tail(queue[c]), stmt) /\ stmt.op = "stmt" /\ stmt.task = t
        BY <2>3, <3>2, <4>1 DEF Cmd
      <4>3. PICK s : s = Tail(queue[c]) /\ s \in Seq(Command) /\ CommandsOK(s, c) /\ Free(s, t)
        BY <1>3
      <4>4. /\ b \in Seq(Command) /\ Len(s) \in Nat /\ Len(b) = Len(s) + 1
            /\ b[Len(s) + 1] = stmt /\ \A i \in 1..Len(s) : b[i] = s[i]
        BY <4>2, <4>3
      <4>5. \A i \in 1..Len(b) : i \in 1..Len(s) \/ b[i] = stmt
        BY <4>4
      <4>6. Free(b, t)
        BY <4>2, <4>3, <4>4, <4>5 DEF Free
      <4>7. CommandsOK(b, c)
        <5>1. /\ \A i \in 1..Len(s) : client[s[i].task] = c /\ (s[i].op # "stmt" => Expects(s[i]))
              /\ \A i, j \in 1..Len(s) : s[i].op # "stmt" /\ j # i /\ s[j].task = s[i].task
                                          => s[j].op = "stmt"
          BY <4>3 DEF CommandsOK
        <5>2. stmt.op = "stmt" /\ client[stmt.task] = c
          BY <1>1, <4>2
        <5>3. \A i \in 1..Len(b) : b[i] = stmt \/ (i \in 1..Len(s) /\ b[i] = s[i])
          BY <4>4, <4>5
        <5>4. ASSUME NEW i \in 1..Len(b)
              PROVE  client[b[i].task] = c /\ (b[i].op # "stmt" => Expects(b[i]))
          BY <5>1, <5>2, <5>3
        <5>5. ASSUME NEW i \in 1..Len(b), NEW j \in 1..Len(b), b[i].op # "stmt", j # i,
                     b[j].task = b[i].task
              PROVE  b[j].op = "stmt"
          BY <5>1, <5>2, <5>3, <5>5
        <5>. QED
          BY <5>4, <5>5 DEF CommandsOK
      <4>. QED
        BY <4>4, <4>6, <4>7
    <3>. QED
      BY <3>1, <3>2
  <2>5. queue'[c] = Append(b, cmd) /\ main'[t] = "rollback" /\ UNCHANGED held
        /\ (body'[t] = "over" \/ (t \in Detached /\ body'[t] = "ready"))
    <3>1. queue' = [queue EXCEPT ![c] = Append(b, cmd)]
      BY <2>2, <2>3
    <3>2. queue'[c] = Append(b, cmd)
      BY <1>0, <1>3, <3>1 DEF TypeOK
    <3>3. /\ main' = [main EXCEPT ![t] = "rollback"] /\ UNCHANGED held
          /\ body' = [body EXCEPT ![t] = IF t \in Detached THEN "ready" ELSE "over"]
      BY <1>9 DEF BeginOkAborted
    <3>. QED
      BY <1>0, <3>2, <3>3 DEF TypeOK
  <2>6. cmd.task = t /\ Expects(cmd)'
    BY <2>1, <2>5 DEF Expects, Cmd
  <2>7. Moves(t, c, b)
    BY <1>3, <1>6, <2>4, <2>5, <2>6 DEF Moves
  <2>8. StageOK(t)'
    <3>1. aborted[t] /\ main[t] = "begin"
      BY <1>9 DEF BeginOkAborted
    <3>2. t \in Signalled /\ client[t] \in Conns /\ (nest[t] => t \in Nesting)
      BY <1>0, <3>1 DEF StageOK
    <3>3. ~Nested(t)'
      BY <2>5 DEF Nested
    <3>. QED
      BY <1>6, <2>5, <3>2, <3>3 DEF StageOK
  <2>9. Leaves(t, c)
    BY <1>6, <2>5 DEF Leaves
  <2>. QED
    BY <1>1, <1>3, <1>6, <2>5, <2>7, <2>8, <2>9, OwnReleases
<1>. QED
  BY <1>5, <1>7, <1>8, <1>9

\* An error that ends fn or is caught, as the answer to a command of fn.
LEMMA ThrowReleases ==
  ASSUME ReleaseInv, NEW t \in Tasks, TypeOK', ClientInv', ExclusiveClient',
         NEW op, Answered(t, "body", op), Throws(t),
         op # "stmt" \/ ~Nested(t), body[t] \notin {"off", "over"},
         result' = [result EXCEPT ![client[t]] = "none"],
         nest'[t] => nest[t], \A u \in Tasks \ {t} : nest'[u] = nest[u],
         UNCHANGED <<client, held, aborted, up, owner, doomed>>
  PROVE  ReleaseInv'
<1>0. TypeOK /\ StageOK(t)
  BY DEF ReleaseInv
<1>1. PICK c : c = client[t]
  OBVIOUS
<1>2. PICK s : s = Tail(queue[c])
  OBVIOUS
<1>3. /\ c \in Conns /\ queue[c] # <<>> /\ Head(queue[c]).task = t /\ Head(queue[c]).by = "body"
      /\ s \in Seq(Command) /\ CommandsOK(s, c) /\ (op # "stmt" => Free(s, t))
  BY <1>1, <1>2, AnswerFacts
<1>4. main[t] = "running" => Free(s, t)
  BY <1>3, NothingExpected
<1>5. PICK cmd \in Command : cmd = Cmd(t, "main", "rollback", 0)
  BY <1>0, CmdsSent
<1>6. /\ \A u \in Tasks \ {t} : main'[u] = main[u] /\ body'[u] = body[u]
      /\ \A d \in Conns \ {c} : queue'[d] = queue[d] /\ result'[d] = result[d]
      /\ result'[c] = "none"
      /\ body'[t] \in {"over", "ready"}
      /\ \/ /\ main[t] = "running" /\ main'[t] = "rollback" /\ body'[t] = "over"
            /\ queue'[c] = Append(s, cmd)
         \/ main'[t] = main[t] /\ queue'[c] = s
  <2>1. /\ \A u \in Tasks \ {t} : main'[u] = main[u]
        /\ body'[t] \in {"over", "ready"} /\ \A u \in Tasks \ {t} : body'[u] = body[u]
    BY <1>0 DEF Throws, TypeOK
  <2>2. /\ \A d \in Conns \ {c} : queue'[d] = queue[d] /\ result'[d] = result[d]
        /\ result'[c] = "none"
    BY <1>0, <1>1, <1>3 DEF Throws, TypeOK
  <2>3. \/ /\ main[t] = "running" /\ main'[t] = "rollback" /\ body'[t] = "over"
           /\ queue'[c] = Append(s, cmd)
        \/ main'[t] = main[t] /\ queue'[c] = s
    BY <1>0, <1>1, <1>2, <1>3, <1>5 DEF Throws, TypeOK
  <2>. QED
    BY <2>1, <2>2, <2>3
<1>7. Free(s, t) \/ (main'[t] = main[t] /\ (Nested(t) => Nested(t)'))
  BY <1>3, <1>4, <1>6
<1>8. \/ queue'[c] = s
      \/ queue'[c] = Append(s, cmd) /\ cmd.task = t /\ Free(s, t) /\ Expects(cmd)'
  BY <1>4, <1>5, <1>6 DEF Expects, Cmd
<1>9. Moves(t, c, s)
  BY <1>3, <1>6, <1>7, <1>8 DEF Moves
<1>10. StageOK(t)'
  <2>1. ~Nested(t)'
    BY <1>6 DEF Nested
  <2>2. body'[t] \notin {"off", "over"} /\ t \notin Signalled => main'[t] = "running"
    BY <1>0, <1>6 DEF StageOK
  <2>3. main'[t] \in {"idle", "connecting"} => main'[t] = main[t]
    BY <1>6
  <2>. QED
    BY <1>0, <2>1, <2>2, <2>3 DEF StageOK
<1>11. Leaves(t, c)
  BY <1>6 DEF Leaves
<1>12. main'[t] \in {"begin", "settled"} => main[t] = main'[t]
  BY <1>6
<1>. QED
  BY <1>1, <1>3, <1>9, <1>10, <1>11, <1>12, OwnReleases

\* The answers to statements.
LEMMA StmtReleases ==
  ASSUME ReleaseInv, NEW t \in Tasks, TypeOK', ClientInv', ExclusiveClient',
         StmtOk(t) \/ StmtError(t) \/ StmtDropped(t)
  PROVE  ReleaseInv'
<1>0. TypeOK /\ StageOK(t)
  BY DEF ReleaseInv
<1>1. PICK c : c = client[t]
  OBVIOUS
<1>2. Answered(t, "body", "stmt")
  BY DEF StmtOk, StmtError, StmtDropped, Awaited
<1>3. /\ c \in Conns /\ queue[c] # <<>> /\ Head(queue[c]).task = t /\ Head(queue[c]).by = "body"
      /\ Tail(queue[c]) \in Seq(Command) /\ CommandsOK(Tail(queue[c]), c)
  BY <1>1, <1>2, AnswerFacts
<1>4. CASE StmtOk(t) \/ StmtDropped(t)
  <2>1. /\ UNCHANGED <<main, nest, client, held, aborted, up, owner, doomed>>
        /\ \A u \in Tasks \ {t} : body'[u] = body[u]
        /\ \A d \in Conns \ {c} : queue'[d] = queue[d] /\ result'[d] = result[d]
        /\ result'[c] = "none" /\ queue'[c] = Tail(queue[c])
        /\ body'[t] = body[t] \/ (body[t] = "await" /\ body'[t] = "ready")
    BY <1>0, <1>1, <1>3, <1>4 DEF TypeOK, StmtOk, StmtDropped, Awaited, Pop
  <2>2. Nested(t) => Nested(t)'
    BY <2>1 DEF Nested
  <2>3. Moves(t, c, Tail(queue[c]))
    BY <1>3, <2>1, <2>2 DEF Moves
  <2>4. StageOK(t)'
    BY <1>0, <2>1 DEF StageOK, Nested
  <2>5. Leaves(t, c)
    BY <2>1 DEF Leaves
  <2>. QED
    BY <1>1, <1>3, <2>1, <2>3, <2>4, <2>5, OwnReleases
<1>5. CASE StmtError(t) /\ nest[t]
  <2>1. PICK cmd \in Command : cmd = Cmd(t, "body", "rollback", 0)
    BY <1>0, CmdsSent
  <2>2. /\ UNCHANGED <<main, nest, client, held, aborted, up, owner, doomed>>
        /\ \A u \in Tasks \ {t} : body'[u] = body[u]
        /\ \A d \in Conns \ {c} : queue'[d] = queue[d] /\ result'[d] = result[d]
        /\ result'[c] = "none" /\ queue'[c] = Append(Tail(queue[c]), cmd)
        /\ body[t] = "await" /\ body'[t] = "nrollback"
    BY <1>0, <1>1, <1>3, <1>5, <2>1 DEF TypeOK, StmtError, Awaited
  <2>3. t \in Nesting /\ main[t] = "running"
    BY <1>0, <1>5, <2>2, PoolAssumption DEF StageOK
  <2>4. PICK s : s = Tail(queue[c]) /\ s \in Seq(Command) /\ CommandsOK(s, c)
    BY <1>3
  <2>5. Free(s, t)
    BY <1>3, <2>2, <2>3, <2>4, NothingExpected DEF Nested
  <2>6. cmd.task = t /\ Expects(cmd)'
    BY <2>1, <2>2, <2>3 DEF Expects, Cmd, Nested
  <2>7. Moves(t, c, s)
    BY <1>3, <2>2, <2>4, <2>5, <2>6 DEF Moves
  <2>8. StageOK(t)'
    BY <1>0, <2>2, <2>3 DEF StageOK, Nested
  <2>9. Leaves(t, c)
    BY <2>2 DEF Leaves
  <2>. QED
    BY <1>1, <1>3, <2>2, <2>7, <2>8, <2>9, OwnReleases
<1>6. CASE StmtError(t) /\ ~nest[t]
  <2>1. /\ body[t] = "await" /\ Throws(t) /\ result' = [result EXCEPT ![client[t]] = "none"]
        /\ UNCHANGED <<client, held, nest, aborted, up, owner, doomed>>
    BY <1>6 DEF StmtError, Awaited
  <2>2. ~Nested(t)
    BY <2>1 DEF Nested
  <2>. QED
    BY <1>2, <2>1, <2>2, ThrowReleases
<1>. QED
  BY <1>4, <1>5, <1>6

\* What fn sends, and its end.
LEMMA SendReleases ==
  ASSUME ReleaseInv, NEW t \in Tasks, TypeOK', ClientInv', ExclusiveClient',
         \/ Send(t) \/ BodyEnds(t, "commit") \/ BodyEnds(t, "rollback")
         \/ NestBegin(t) \/ NestEnds(t, "commit") \/ NestEnds(t, "rollback")
  PROVE  ReleaseInv'
<1>0. TypeOK /\ StageOK(t)
  BY DEF ReleaseInv
<1>1. PICK c : c = client[t]
  OBVIOUS
<1>2. body[t] = "ready" /\ ~Nested(t)
  BY DEF Send, BodyEnds, NestBegin, NestEnds, Nested
<1>3. /\ UNCHANGED <<client, held, nest, aborted, result, up, owner, doomed>>
      /\ \A u \in Tasks \ {t} : main'[u] = main[u] /\ body'[u] = body[u]
      /\ \A d \in Conns \ {c} : queue'[d] = queue[d] /\ result'[d] = result[d]
  BY <1>0, <1>1 DEF Send, BodyEnds, NestBegin, NestEnds, Push, TypeOK
<1>4. Leaves(t, c)
  BY <1>3 DEF Leaves
<1>5. CASE c \in Conns
  <2>1. PICK s : s = queue[c] /\ s \in Seq(Command) /\ CommandsOK(s, c)
    BY <1>5 DEF ReleaseInv, TypeOK
  <2>2. main[t] = "running" => Free(s, t)
    BY <1>2, <2>1, NothingExpected
  <2>3. CASE Send(t)
    <3>1. PICK cmd \in Command : cmd = Cmd(t, "body", "stmt", sent[t] + 1)
      BY <1>0, <2>3, CmdsSent, PoolAssumption DEF Send, TypeOK
    <3>2. queue'[c] = Append(s, cmd) /\ main'[t] = main[t] /\ body'[t] \in {"await", "ready"}
      BY <1>0, <1>1, <1>5, <2>1, <2>3, <3>1 DEF Send, Push, TypeOK
    <3>3. cmd.task = t /\ cmd.op = "stmt"
      BY <3>1 DEF Cmd
    <3>4. Moves(t, c, s)
      BY <1>2, <1>3, <1>5, <2>1, <3>2, <3>3 DEF Moves
    <3>5. StageOK(t)'
      BY <1>0, <1>2, <1>3, <3>2 DEF StageOK, Nested
    <3>. QED
      BY <1>1, <1>3, <1>4, <1>5, <3>2, <3>4, <3>5, OwnReleases
  <2>4. ASSUME NEW op \in {"commit", "rollback"}, BodyEnds(t, op) PROVE ReleaseInv'
    <3>1. PICK cmd \in Command : cmd = Cmd(t, "main", op, 0)
      BY <1>0, CmdsSent
    <3>2. /\ body'[t] = "over"
          /\ \/ main[t] = "running" /\ main'[t] = op /\ queue'[c] = Append(s, cmd)
             \/ main'[t] = main[t] /\ queue'[c] = s
      BY <1>0, <1>1, <1>5, <2>1, <2>4, <3>1 DEF BodyEnds, Push, TypeOK
    <3>3. /\ Free(s, t) \/ (main'[t] = main[t] /\ (Nested(t) => Nested(t)'))
          /\ \/ queue'[c] = s
             \/ queue'[c] = Append(s, cmd) /\ cmd.task = t /\ Free(s, t) /\ Expects(cmd)'
      BY <1>2, <2>2, <3>1, <3>2 DEF Expects, Cmd
    <3>4. Moves(t, c, s)
      BY <1>3, <1>5, <2>1, <3>3 DEF Moves
    <3>5. StageOK(t)'
      BY <1>0, <1>2, <1>3, <3>2 DEF StageOK, Nested
    <3>6. main'[t] \in {"begin", "settled"} => main[t] = main'[t]
      BY <3>2
    <3>. QED
      BY <1>1, <1>3, <1>4, <1>5, <3>4, <3>5, <3>6, OwnReleases
  <2>5. ASSUME NEW op \in {"begin", "commit", "rollback"},
               IF op = "begin" THEN NestBegin(t) ELSE NestEnds(t, op)
        PROVE  ReleaseInv'
    <3>1. PICK cmd \in Command : cmd = Cmd(t, "body", op, 0)
      BY <1>0, CmdsSent
    <3>2. /\ main'[t] = main[t] /\ queue'[c] = Append(s, cmd)
          /\ body'[t] \in {"nbegin", "ncommit", "nrollback"}
      BY <1>0, <1>1, <1>5, <2>1, <2>5, <3>1 DEF NestBegin, NestEnds, Push, TypeOK
    <3>3. t \in Nesting /\ main[t] = "running"
      BY <1>0, <1>2, <2>5, PoolAssumption DEF StageOK, NestBegin, NestEnds
    <3>4. cmd.task = t /\ Expects(cmd)' /\ Free(s, t)
      BY <2>2, <3>1, <3>2, <3>3 DEF Expects, Cmd, Nested
    <3>5. Moves(t, c, s)
      BY <1>3, <1>5, <2>1, <3>2, <3>4 DEF Moves
    <3>6. StageOK(t)'
      BY <1>0, <1>3, <3>2, <3>3 DEF StageOK, Nested
    <3>. QED
      BY <1>1, <1>3, <1>4, <1>5, <3>2, <3>3, <3>5, <3>6, OwnReleases
  <2>6. NestBegin(t) => IF "begin" = "begin" THEN NestBegin(t) ELSE NestEnds(t, "begin")
    OBVIOUS
  <2>7. \A op \in {"commit", "rollback"} :
          NestEnds(t, op) => IF op = "begin" THEN NestBegin(t) ELSE NestEnds(t, op)
    OBVIOUS
  <2>. QED
    BY <2>3, <2>4, <2>5, <2>6, <2>7
<1>6. c \in Conns
  BY <1>0, <1>1, <1>2 DEF StageOK
<1>. QED
  BY <1>5, <1>6

\* The answers to the commands of a nested transaction().
LEMMA NestReleases ==
  ASSUME ReleaseInv, NEW t \in Tasks, TypeOK', ClientInv', ExclusiveClient',
         NestBeginReply(t) \/ NestCommitReply(t) \/ NestRollbackReply(t)
  PROVE  ReleaseInv'
<1>0. TypeOK /\ StageOK(t)
  BY DEF ReleaseInv
<1>1. PICK c : c = client[t]
  OBVIOUS
<1>2. PICK op \in {"begin", "commit", "rollback"} : Answered(t, "body", op)
  BY DEF NestBeginReply, NestCommitReply, NestRollbackReply
<1>3. PICK s : s = Tail(queue[c])
  OBVIOUS
<1>4. /\ c \in Conns /\ queue[c] # <<>> /\ Head(queue[c]).task = t /\ Head(queue[c]).by = "body"
      /\ s \in Seq(Command) /\ CommandsOK(s, c) /\ Free(s, t)
      /\ main[t] = "running" /\ Nested(t)
  BY <1>1, <1>2, <1>3, AnswerFacts
<1>5. /\ UNCHANGED <<client, held, aborted, up, owner, doomed>>
      /\ result' = [result EXCEPT ![client[t]] = "none"]
  BY DEF NestBeginReply, NestCommitReply, NestRollbackReply
<1>6. body[t] \notin {"off", "over"} /\ t \in Nesting
  BY <1>0, <1>4 DEF StageOK, Nested
<1>7. CASE Throws(t) /\ (UNCHANGED nest \/ nest' = [nest EXCEPT ![t] = FALSE])
  <2>1. (nest'[t] => nest[t]) /\ \A u \in Tasks \ {t} : nest'[u] = nest[u]
    BY <1>0, <1>7 DEF TypeOK
  <2>2. op # "stmt"
    OBVIOUS
  <2>. QED
    BY <1>2, <1>5, <1>6, <1>7, <2>1, <2>2, ThrowReleases
<1>8. CASE /\ UNCHANGED main
           /\ \E v \in BOOLEAN : nest' = [nest EXCEPT ![t] = v] \/ UNCHANGED nest
           /\ \/ /\ body' = [body EXCEPT ![t] = "ready"]
                 /\ queue' = [queue EXCEPT ![c] = Tail(@)]
              \/ /\ body' = [body EXCEPT ![t] = "nrollback"]
                 /\ queue' = [queue EXCEPT ![c] = Append(Tail(@), Cmd(t, "body", "rollback", 0))]
  <2>1. PICK cmd \in Command : cmd = Cmd(t, "body", "rollback", 0)
    BY <1>0, CmdsSent
  <2>2. /\ \A u \in Tasks \ {t} : main'[u] = main[u] /\ body'[u] = body[u] /\ nest'[u] = nest[u]
        /\ main'[t] = "running" /\ body'[t] \in {"ready", "nrollback"}
    BY <1>0, <1>4, <1>8 DEF TypeOK
  <2>3. /\ \A d \in Conns \ {c} : queue'[d] = queue[d] /\ result'[d] = result[d]
        /\ result'[c] = "none"
    BY <1>0, <1>1, <1>4, <1>5, <1>8 DEF TypeOK
  <2>4. queue'[c] = s \/ (queue'[c] = Append(s, cmd) /\ body'[t] = "nrollback")
    BY <1>0, <1>3, <1>4, <1>8, <2>1 DEF TypeOK
  <2>5. cmd.task = t /\ (body'[t] = "nrollback" => Expects(cmd)')
    BY <2>1, <2>2 DEF Expects, Cmd, Nested
  <2>6. Moves(t, c, s)
    BY <1>4, <2>2, <2>3, <2>4, <2>5 DEF Moves
  <2>7. StageOK(t)'
    BY <1>0, <1>1, <1>4, <1>5, <1>6, <2>2 DEF StageOK, Nested
  <2>8. Leaves(t, c)
    BY <1>5, <2>2, <2>3 DEF Leaves
  <2>. QED
    BY <1>1, <1>4, <1>5, <2>2, <2>6, <2>7, <2>8, OwnReleases
<1>9. CASE NestBeginReply(t)
  BY <1>1, <1>7, <1>8, <1>9 DEF NestBeginReply
<1>10. CASE NestCommitReply(t)
  BY <1>1, <1>8, <1>10 DEF NestCommitReply
<1>11. CASE NestRollbackReply(t)
  BY <1>7, <1>11 DEF NestRollbackReply
<1>. QED
  BY <1>9, <1>10, <1>11

\* The signal.
LEMMA AbortReleases ==
  ASSUME ReleaseInv, NEW t \in Tasks, TypeOK', ClientInv', ExclusiveClient', Abort(t)
  PROVE  ReleaseInv'
<1>0. TypeOK /\ StageOK(t) /\ t \in Signalled /\ t \notin Nesting /\ ~Nested(t)
  BY PoolAssumption DEF ReleaseInv, StageOK, Abort
<1>1. /\ UNCHANGED <<client, held, nest, result, up, owner, doomed>>
      /\ \A u \in Tasks \ {t} : main'[u] = main[u] /\ body'[u] = body[u]
                                /\ aborted'[u] = aborted[u]
  BY <1>0 DEF Abort, TypeOK
<1>2. CASE main[t] # "running"
  <2>1. UNCHANGED <<main, body, queue>>
    BY <1>2 DEF Abort
  <2>2. StageOK(t)' /\ \A u \in Tasks \ {t} : StageOK(u)'
    BY <1>0, <1>1, <2>1 DEF ReleaseInv, StageOK, Nested
  <2>3. \A d \in Conns : CommandsOK(queue[d], d)' /\ OwnedOK(d)' /\ up'[d]
    BY <1>1, <2>1 DEF ReleaseInv, CommandsOK, Expects, Nested, OwnedOK
  <2>4. SettledReleases'
    BY <1>1, <2>1 DEF ReleaseInv, SettledReleases
  <2>. QED
    BY <2>2, <2>3, <2>4 DEF ReleaseInv
<1>3. CASE main[t] = "running"
  <2>1. PICK c \in Conns : c = client[t]
    BY <1>0, <1>3 DEF StageOK
  <2>2. PICK s : s = queue[c] /\ s \in Seq(Command) /\ CommandsOK(s, c)
    BY DEF ReleaseInv, TypeOK
  <2>3. Free(s, t)
    BY <1>0, <1>3, <2>1, <2>2, NothingExpected
  <2>4. PICK cmd \in Command : cmd = Cmd(t, "main", "rollback", 0)
    BY <1>0, CmdsSent
  <2>5. /\ main'[t] = "rollback" /\ body'[t] \in {body[t], "ready", "over"}
        /\ queue'[c] = Append(s, cmd) /\ \A d \in Conns \ {c} : queue'[d] = queue[d]
    BY <1>0, <1>3, <2>1, <2>2, <2>4 DEF Abort, Push, TypeOK
  <2>6. cmd.task = t /\ Expects(cmd)'
    BY <2>4, <2>5 DEF Expects, Cmd
  <2>7. Moves(t, c, s)
    BY <1>1, <2>2, <2>3, <2>5, <2>6 DEF Moves
  <2>8. StageOK(t)'
    BY <1>0, <1>1, <2>1, <2>5 DEF StageOK, Nested
  <2>9. Leaves(t, c)
    BY <1>1, <2>5 DEF Leaves
  <2>. QED
    BY <1>1, <2>1, <2>5, <2>7, <2>8, <2>9, OwnReleases
<1>. QED
  BY <1>2, <1>3

\* A call that starts or takes a client, which nobody else has.
LEMMA ConnectReleases ==
  ASSUME ReleaseInv, NEW t \in Tasks, TypeOK', ClientInv', ExclusiveClient',
         Start(t) \/ \E c \in Conns : Connect(t, c)
  PROVE  ReleaseInv'
<1>0. /\ TypeOK /\ StageOK(t) /\ ~held[t] /\ client[t] = NoConn /\ body[t] = "off"
      /\ \A d \in Conns : OwnedOK(d) /\ owner[d] # t
  <2>1. main[t] \in {"idle", "connecting"}
    BY DEF Start, Connect
  <2>2. TypeOK /\ StageOK(t) /\ ~held[t] /\ client[t] = NoConn /\ body[t] = "off"
    BY <2>1 DEF ReleaseInv, StageOK, ClientInv, Active
  <2>. QED
    BY <2>2, PoolAssumption DEF ReleaseInv, OwnedOK
<1>1. /\ UNCHANGED <<body, nest, aborted, result, up, owner, doomed>>
      /\ \A u \in Tasks \ {t} : main'[u] = main[u] /\ held'[u] = held[u] /\ client'[u] = client[u]
      /\ main'[t] \in {"connecting", "begin"}
  <2>1. CASE Start(t)
    BY <1>0, <2>1 DEF Start, TypeOK
  <2>2. ASSUME NEW c \in Conns, Connect(t, c)
        PROVE  /\ UNCHANGED <<body, nest, aborted, result, up, owner, doomed>>
               /\ main' = [main EXCEPT ![t] = "begin"] /\ held' = [held EXCEPT ![t] = TRUE]
               /\ client' = [client EXCEPT ![t] = c]
    BY <2>2 DEF Connect
  <2>. QED
    BY <1>0, <2>1, <2>2 DEF TypeOK
<1>2. \A u \in Tasks \ {t} : StageOK(u)'
  BY <1>1 DEF ReleaseInv, StageOK, Nested
<1>3. SettledReleases'
  BY <1>1 DEF ReleaseInv, SettledReleases
<1>4. ASSUME NEW d \in Conns, client'[t] = client[t] \/ client[t] # d
      PROVE  \E s \in Seq(Command) : s = queue[d] /\ Free(s, t) /\ CommandsOK(s, d)'
  <2>1. PICK s : s = queue[d] /\ s \in Seq(Command) /\ CommandsOK(s, d)
    BY DEF ReleaseInv, TypeOK
  <2>2. client[t] # d
    BY <1>0, PoolAssumption
  <2>3. Free(s, t)
    BY <2>1, <2>2, NothingExpected
  <2>4. CommandsOK(s, d)'
    BY <1>1, <1>4, <2>1, <2>3, CommandsKept
  <2>. QED
    BY <2>1, <2>3, <2>4
<1>5. \A d \in Conns : client[t] # d
  BY <1>0, PoolAssumption
<1>6. CASE Start(t)
  <2>1. UNCHANGED <<client, queue, held>> /\ main'[t] = "connecting"
    BY <1>0, <1>6 DEF Start, TypeOK
  <2>2. \A d \in Conns : CommandsOK(queue[d], d)'
    BY <1>4, <2>1
  <2>3. \A d \in Conns : OwnedOK(d)'
    <3>1. \A d \in Conns : Leaves(t, NoConn) /\ d \in Conns \ {NoConn}
      BY <1>1, <2>1, PoolAssumption DEF Leaves
    <3>. QED
      BY <1>0, <3>1, OwnedElsewhere
  <2>4. StageOK(t)' /\ \A d \in Conns : up'[d]
    BY <1>0, <1>1, <2>1 DEF StageOK, Nested, ReleaseInv
  <2>. QED
    BY <1>2, <1>3, <2>2, <2>3, <2>4 DEF ReleaseInv
<1>7. ASSUME NEW c \in Conns, Connect(t, c) PROVE ReleaseInv'
  <2>1. PICK cmd \in Command : cmd = Cmd(t, "main", "begin", 0)
    BY <1>0, CmdsSent
  <2>2. /\ main'[t] = "begin" /\ client'[t] = c /\ slot[c] # "out"
        /\ queue'[c] = Append(queue[c], cmd) /\ \A d \in Conns \ {c} : queue'[d] = queue[d]
    BY <1>0, <1>7, <2>1 DEF Connect, Push, TypeOK
  <2>3. PICK s \in Seq(Command) : s = queue[c] /\ Free(s, t) /\ CommandsOK(s, c)'
    BY <1>4, <1>5
  <2>4. cmd.task = t /\ Expects(cmd)'
    BY <2>1, <2>2 DEF Expects, Cmd
  <2>5. CommandsOK(Append(s, cmd), c)'
    BY <2>2, <2>3, <2>4, CommandSent
  <2>6. ASSUME NEW d \in Conns \ {c} PROVE CommandsOK(queue[d], d)'
    BY <1>4, <1>5, <2>2
  <2>7. \A d \in Conns \ {c} : OwnedOK(d)'
    <3>1. Leaves(t, c)
      BY <1>1, <2>2 DEF Leaves
    <3>. QED
      BY <1>0, <3>1, OwnedElsewhere
  <2>8. owner[c] = NoTask
    BY <1>0, <2>2 DEF ReleaseInv, OwnedOK, ClientInv, TypeOK
  <2>9. queue[c] # <<>> => queue'[c] # <<>> /\ Head(queue'[c]) = Head(queue[c])
    BY <2>2, <2>3
  <2>10. OwnedOK(c)'
    BY <1>0, <1>1, <2>8, <2>9 DEF OwnedOK
  <2>11. StageOK(t)' /\ \A d \in Conns : up'[d]
    BY <1>0, <1>1, <2>2 DEF StageOK, Nested, ReleaseInv
  <2>12. CommandsOK(queue[c], c)'
    BY <2>2, <2>3, <2>5
  <2>. QED
    BY <1>2, <1>3, <2>6, <2>7, <2>10, <2>11, <2>12 DEF ReleaseInv
<1>. QED
  BY <1>6, <1>7

\* What the server does, when no connection may be lost or reject a BEGIN.  A
\* BEGIN of transaction() finds a session without a transaction.
LEMMA ServerReleases ==
  ASSUME ReleaseInv, Rejecting = {}, NEW c \in Conns, Server(c),
         TypeOK', ClientInv', ExclusiveClient'
  PROVE  ReleaseInv'
<1>0. /\ TypeOK /\ ClientInv /\ ExclusiveClient /\ OwnedOK(c)
      /\ queue[c] \in Seq(Command) /\ CommandsOK(queue[c], c)
      /\ owner[c] \in Tasks \cup {NoTask}
  BY DEF ReleaseInv, TypeOK
<1>1. UNCHANGED <<main, body, nest, client, held, aborted, queue, up>>
  BY DEF Server, ServerBegin, ServerStmt, ServerStmtFails, ServerCommit, ServerRollback
<1>2. /\ \A t \in Tasks : StageOK(t)'
      /\ \A d \in Conns : CommandsOK(queue[d], d)' /\ up'[d]
      /\ SettledReleases'
  BY <1>1 DEF ReleaseInv, StageOK, CommandsOK, Expects, Nested, SettledReleases
<1>3. \A d \in Conns \ {c} : result'[d] = result[d] /\ owner'[d] = owner[d] /\ doomed'[d] = doomed[d]
  BY <1>0 DEF Server, ServerBegin, BeginTx, ServerStmt, ServerStmtFails, ServerCommit,
              ServerRollback, Answer, EndTx, TypeOK
<1>4. \A d \in Conns \ {c} : OwnedOK(d)'
  BY <1>1, <1>3 DEF ReleaseInv, OwnedOK
<1>5. result[c] = "none" /\ queue[c] # <<>> /\ result'[c] \in {"ok", "error"}
  <2>1. /\ \E op : Runs(c, op)
        /\ Answer(c, "ok") \/ Answer(c, "error")
    BY DEF Server, ServerBegin, ServerStmt, ServerStmtFails, ServerCommit, ServerRollback
  <2>. QED
    BY <1>0, <2>1 DEF Answer, Runs, TypeOK
<1>6. PICK q \in Command : q = Head(queue[c])
  BY <1>0, <1>5, QueueHead
<1>7. q.task \in Tasks /\ client[q.task] = c /\ (q.op # "stmt" => Expects(q))
  <2>1. client[Head(queue[c]).task] = c /\ (Head(queue[c]).op # "stmt" => Expects(Head(queue[c])))
    BY <1>0, <1>5, TailOK
  <2>2. q.task \in Tasks
    BY <1>6 DEF Command
  <2>. QED
    BY <1>6, <2>1, <2>2
<1>8. owner[c] # NoTask => main[owner[c]] # "begin"
  BY <1>0, <1>5 DEF OwnedOK
<1>9. OwnedOK(c)'
  <2>1. CASE ServerBegin(c)
    <3>1. q.op = "begin" /\ Active(q.task) /\ held[q.task]
          /\ main[q.task] = (IF q.by = "main" THEN "begin" ELSE "running")
      BY <1>0, <1>6, <1>7, <2>1 DEF ServerBegin, Runs, Expects, Active, ClientInv
    <3>2. q.by = "main" => owner[c] = NoTask
      BY <1>0, <1>7, <1>8, <3>1 DEF OwnedOK, ExclusiveClient
    <3>3. /\ \/ owner'[c] = q.task
             \/ owner'[c] = owner[c] /\ doomed'[c] = doomed[c] /\ owner[c] # NoTask
          /\ result'[c] = "ok" \/ doomed[c]
      BY <1>0, <1>6, <2>1 DEF ServerBegin, BeginTx, Answer, TypeOK, OwnedOK
    <3>4. q.by = "main" => owner'[c] = q.task /\ result'[c] = "ok"
      BY <1>0, <3>2, <3>3 DEF OwnedOK
    <3>5. q.task # NoTask
      BY <1>7, PoolAssumption
    <3>. QED
      BY <1>0, <1>1, <1>5, <1>6, <1>7, <1>8, <3>1, <3>3, <3>4, <3>5 DEF OwnedOK
  <2>2. CASE ServerStmt(c) \/ ServerStmtFails(c)
    <3>1. owner'[c] = owner[c] /\ (doomed'[c] => doomed[c] \/ owner[c] # NoTask) /\ q.by = "body"
      BY <1>0, <1>6, <2>2 DEF ServerStmt, ServerStmtFails, Runs, TypeOK, Command
    <3>. QED
      BY <1>0, <1>1, <1>5, <1>6, <1>8, <3>1 DEF OwnedOK
  <2>3. CASE ServerCommit(c) \/ ServerRollback(c)
    <3>1. owner'[c] = NoTask /\ ~doomed'[c] /\ q.op # "begin"
      BY <1>0, <1>6, <2>3 DEF ServerCommit, ServerRollback, EndTx, Runs, TypeOK
    <3>. QED
      BY <1>1, <1>5, <1>6, <3>1 DEF OwnedOK
  <2>. QED
    BY <2>1, <2>2, <2>3 DEF Server
<1>. QED
  BY <1>2, <1>4, <1>9 DEF ReleaseInv

LEMMA ReleaseAlways == ASSUME MaxBreaks = 0, Rejecting = {} PROVE Spec => []ReleaseInv
<1>0. MaxBreaks = 0 /\ Rejecting = {}
  OBVIOUS
<1>1. Init => ReleaseInv
  <2>. SUFFICES ASSUME Init PROVE ReleaseInv
    OBVIOUS
  <2>1. TypeOK
    BY InitType
  <2>2. ClientInv /\ ExclusiveClient /\ SettledReleases /\ \A t \in Tasks : StageOK(t)
    BY DEF Init, ClientInv, ExclusiveClient, SettledReleases, StageOK, Nested, Active
  <2>3. \A c \in Conns : queue[c] = <<>> /\ OwnedOK(c) /\ up[c]
    BY DEF Init, OwnedOK
  <2>4. \A c \in Conns : CommandsOK(queue[c], c)
    BY <2>3 DEF CommandsOK
  <2>. QED
    BY <2>1, <2>2, <2>3, <2>4 DEF ReleaseInv
<1>2. TypeOK' /\ ReleaseInv /\ [Next]_vars => ReleaseInv'
  <2>. SUFFICES ASSUME TypeOK', ReleaseInv, [Next]_vars PROVE ReleaseInv'
    OBVIOUS
  <2>1. CASE UNCHANGED vars
    BY <2>1 DEF ReleaseInv, TypeOK, ClientInv, ExclusiveClient, SettledReleases, StageOK,
                CommandsOK, Expects, Nested, OwnedOK, Active
  <2>2. CASE Next
    <3>1. ClientInv' /\ ExclusiveClient'
      BY <2>2, ClientStep DEF ReleaseInv
    <3>2. ASSUME NEW t \in Tasks, Call(t) PROVE ReleaseInv'
      BY <3>1, <3>2, CallReleases, ConnectReleases DEF Call
    <3>3. ASSUME NEW t \in Tasks, Fn(t) PROVE ReleaseInv'
      BY <3>1, <3>3, SendReleases, StmtReleases, NestReleases DEF Fn
    <3>4. ASSUME NEW t \in Tasks, Abort(t) PROVE ReleaseInv'
      BY <3>1, <3>4, AbortReleases
    <3>5. ASSUME NEW c \in Conns, Server(c) PROVE ReleaseInv'
      BY <1>0, <3>1, <3>5, ServerReleases
    <3>6. \A c \in Conns : ~Break(c)
      BY <1>0 DEF ReleaseInv, TypeOK, Break
    <3>7. CASE UNCHANGED vars
      BY <2>1, <3>7
    <3>. QED
      BY <2>2, <3>2, <3>3, <3>4, <3>5, <3>6, <3>7 DEF Next, Quiet
  <2>. QED
    BY <2>1, <2>2
<1>. QED
  BY <1>1, <1>2, TypeCorrect, PTL DEF Spec

\* On connections that stay up and take every BEGIN no call that settles keeps its
\* client, whatever its statements, its signal, a body that outlives the race, an
\* error that fn catches and nested transactions do: no BEGIN ever meets what
\* another call left open.
THEOREM SettledReleased ==
  ASSUME MaxBreaks = 0, Rejecting = {} PROVE Spec => []SettledReleases
<1>1. ReleaseInv => SettledReleases
  BY DEF ReleaseInv
<1>. QED
  BY <1>1, ReleaseAlways, PTL

-----------------------------------------------------------------------------
(* The driver implements the contract of Driver.transaction.                   *)

\* No body catches an error that dooms its transaction.
NothingDoomedIsCaught == Dialect = "mysql" \/ Catching = {}

\* The writes of an open session are those of the one call that owns it.
LEMMA DoneIsPending ==
  ASSUME OrderlyInv, NEW c \in Conns
  PROVE  /\ \A t \in Tasks : owner[c] = t => pend[c] = {t} \X Done[t]
         /\ owner[c] = NoTask => pend[c] = {}
         /\ \A d \in Conns \ {c} : owner[c] # NoTask => owner[d] # owner[c]
         /\ \A t \in Tasks : (\A d \in Conns : owner[d] # t) => Done[t] = {}
<1>1. \A d \in Conns : SessionOK(d) /\ owner[d] \in Tasks \cup {NoTask} /\ pend[d] \subseteq Writes
  BY Elements DEF OrderlyInv, TypeOK
<1>2. \A d \in Conns : \A w \in pend[d] : w[1] = owner[d]
  BY <1>1 DEF SessionOK
<1>3. \A d \in Conns \ {c} : owner[c] # NoTask => owner[d] # owner[c]
  BY <1>1 DEF SessionOK
<1>4. ASSUME NEW t \in Tasks, owner[c] = t PROVE pend[c] = {t} \X Done[t]
  <2>1. t # NoTask
    BY PoolAssumption
  <2>2. \A d \in Conns, k \in 1..MaxStmts : <<t, k>> \in pend[d] => d = c
    BY <1>2, <1>3, <1>4, <2>1
  <2>3. Done[t] = {k \in 1..MaxStmts : <<t, k>> \in pend[c]}
    BY <2>2 DEF Done
  <2>4. \A w \in pend[c] : w \in Tasks \X (1..MaxStmts) /\ w[1] = t
    BY <1>1, <1>2, <1>4 DEF Writes
  <2>. QED
    BY <2>3, <2>4
<1>5. ASSUME NEW t \in Tasks, \A d \in Conns : owner[d] # t PROVE Done[t] = {}
  BY <1>2, <1>5 DEF Done
<1>6. owner[c] = NoTask => pend[c] = {}
  BY <1>1 DEF SessionOK
<1>. QED
  BY <1>3, <1>4, <1>5, <1>6

\* A step on the client's side is no step of the contract, unless the call
\* settles: then it resolves or rejects.
LEMMA CallImplements ==
  ASSUME OutcomeInv, OutcomeInv', Orderly, NothingDoomedIsCaught, Next,
         NEW t \in Tasks, Call(t) \/ Fn(t) \/ Abort(t)
  PROVE  [Contract!Next]_(Contract!vars)
<1>0. TypeOK /\ TypeOK' /\ OrderlyInv /\ ReportOK(t)' /\ ReportOK(t)
  BY DEF OutcomeInv, OrderlyInv
<1>1. /\ UNCHANGED <<owner, pend, committed, fate>>
      /\ \A u \in Tasks \ {t} : main'[u] = main[u] /\ outcome'[u] = outcome[u]
  BY OwnChanges
<1>2. UNCHANGED Done
  BY <1>1 DEF Done
<1>3. \A u \in Tasks \ {t} : Stage'[u] = Stage[u]
  BY <1>1 DEF Stage
<1>4. main[t] = "settled" => main'[t] = "settled" /\ outcome'[t] = outcome[t]
  <2>1. CASE Call(t)
    BY <1>0, <2>1 DEF Call, Start, Connect, BeginOk, BeginOkAborted, BeginFails, CommitOk,
                      CommitFails, RollbackDone
  <2>2. CASE Fn(t) \/ Abort(t)
    <3>1. UNCHANGED outcome
      BY <2>2 DEF Fn, Abort, Send, BodyEnds, StmtOk, StmtError, StmtDropped, NestBegin,
                  NestBeginReply, NestEnds, NestCommitReply, NestRollbackReply
    <3>2. main[t] = "settled" => UNCHANGED main
      BY <2>2 DEF Fn, Abort, Send, BodyEnds, StmtOk, StmtError, StmtDropped, NestBegin,
                  NestBeginReply, NestEnds, NestCommitReply, NestRollbackReply, Throws
    <3>. QED
      BY <3>1, <3>2
  <2>. QED
    BY <2>1, <2>2
<1>5. CASE main[t] = "settled" \/ main'[t] # "settled"
  <2>1. Stage'[t] = Stage[t]
    BY <1>1, <1>4, <1>5 DEF Stage
  <2>2. UNCHANGED Stage
    BY <1>3, <2>1 DEF Stage
  <2>. QED
    BY <1>1, <1>2, <2>2 DEF Contract!vars
<1>6. CASE main[t] # "settled" /\ main'[t] = "settled"
  <2>1. Stage[t] = fate[t] /\ fate[t] \in {"open", "committed", "discarded"}
    BY <1>0, <1>6 DEF Stage, TypeOK
  <2>2. Stage' = [Stage EXCEPT ![t] = outcome'[t]]
    BY <1>3, <1>6 DEF Stage
  <2>3. CASE outcome'[t] = "resolved"
    <3>1. Granted(t)' /\ ~Excused(t)
      BY <1>0, <2>3 DEF ReportOK, Excused, NothingDoomedIsCaught
    <3>2. Stage[t] = "committed"
      BY <1>1, <2>1, <3>1 DEF Granted, Excused
    <3>3. Contract!Resolve(t)
      BY <1>1, <1>2, <2>2, <2>3, <3>2 DEF Contract!Resolve
    <3>. QED
      BY <3>3 DEF Contract!Next
  <2>4. CASE outcome'[t] = "rejected"
    <3>1. \A d \in Conns : owner[d] = t => pend[d] = {}
      <4>1. \A d \in Conns : SessionOK(d)'
        BY DEF OutcomeInv, OrderlyInv
      <4>. QED
        BY <1>1, <1>6, <4>1, PoolAssumption DEF SessionOK
    <3>2. Done[t] = {}
      BY <3>1, <1>0 DEF Done, OrderlyInv, SessionOK
    <3>3. Contract!Reject(t)
      BY <1>1, <1>2, <2>1, <2>2, <2>4, <3>2 DEF Contract!Reject
    <3>. QED
      BY <3>3 DEF Contract!Next
  <2>5. outcome'[t] \in {"resolved", "rejected"}
    BY <1>0, <1>6 DEF ReportOK, TypeOK
  <2>. QED
    BY <2>3, <2>4, <2>5
<1>. QED
  BY <1>5, <1>6

\* The end of a session's transaction commits or discards the work of its call.
LEMMA EndImplements ==
  ASSUME OutcomeInv, NEW c \in Conns, NEW how \in {"committed", "discarded"}, EndTx(c, how),
         UNCHANGED <<main, outcome>>
  PROVE  [Contract!Next]_(Contract!vars)
<1>0. TypeOK /\ OrderlyInv /\ SessionOK(c) /\ owner[c] \in Tasks \cup {NoTask}
  BY Elements DEF OutcomeInv, OrderlyInv
<1>1. /\ pend' = [pend EXCEPT ![c] = {}]
      /\ committed' = IF how = "committed" THEN committed \cup pend[c] ELSE committed
  BY DEF EndTx
<1>2. CASE owner[c] = NoTask
  <2>1. pend[c] = {} /\ fate' = fate
    BY <1>0, <1>2 DEF EndTx, SessionOK
  <2>2. UNCHANGED <<pend, committed>>
    BY <1>0, <1>1, <2>1 DEF TypeOK
  <2>. QED
    BY <2>1, <2>2 DEF Contract!vars, Stage, Done
<1>3. ASSUME NEW t \in Tasks, owner[c] = t PROVE [Contract!Next]_(Contract!vars)
  <2>1. t # NoTask
    BY PoolAssumption
  <2>2. fate[t] = "open" /\ fate' = [fate EXCEPT ![t] = how]
    BY <1>0, <1>3, <2>1 DEF SessionOK, EndTx
  <2>3. CASE main[t] = "settled"
    <3>1. pend[c] = {}
      BY <1>0, <1>3, <2>1, <2>3 DEF SessionOK
    <3>2. UNCHANGED <<pend, committed>>
      BY <1>0, <1>1, <3>1 DEF TypeOK
    <3>3. UNCHANGED Stage
      BY <1>0, <2>2, <2>3 DEF Stage, TypeOK
    <3>. QED
      BY <3>2, <3>3 DEF Contract!vars, Done
  <2>4. pend[c] = {t} \X Done[t] /\ \A d \in Conns \ {c} : owner[d] # t
    BY <1>0, <1>3, <2>1, DoneIsPending
  <2>5. Done' = [Done EXCEPT ![t] = {}]
    <3>1. \A d \in Conns \ {c} : pend'[d] = pend[d] /\ \A w \in pend[d] : w[1] # t
      BY <1>0, <1>1, <2>4 DEF TypeOK, OrderlyInv, SessionOK
    <3>2. pend'[c] = {} /\ \A w \in pend[c] : w[1] = t
      BY <1>0, <1>1, <1>3 DEF TypeOK, SessionOK
    <3>3. Done'[t] = {}
      BY <3>1, <3>2 DEF Done
    <3>4. ASSUME NEW u \in Tasks \ {t} PROVE Done'[u] = Done[u]
      BY <3>1, <3>2 DEF Done
    <3>. QED
      BY <3>3, <3>4 DEF Done
  <2>6. CASE main[t] # "settled"
    <3>1. Stage[t] = "open" /\ Stage' = [Stage EXCEPT ![t] = how]
      BY <1>0, <2>2, <2>6 DEF Stage, TypeOK
    <3>2. Contract!Commit(t) \/ Contract!Discard(t)
      BY <1>1, <3>1, <2>4, <2>5 DEF Contract!Commit, Contract!Discard
    <3>. QED
      BY <3>2 DEF Contract!Next
  <2>. QED
    BY <2>3, <2>6
<1>. QED
  BY <1>0, <1>2, <1>3

\* A step of the server is a step of the contract or none.
LEMMA ServerImplements ==
  ASSUME OutcomeInv, NEW c \in Conns, Server(c) \/ Break(c)
  PROVE  [Contract!Next]_(Contract!vars)
<1>0. TypeOK /\ OrderlyInv /\ QueueOK(c) /\ SessionOK(c)
  BY DEF OutcomeInv, OrderlyInv
<1>1. UNCHANGED <<main, outcome>>
  BY DEF Server, Break, ServerBegin, ServerStmt, ServerStmtFails, ServerCommit, ServerRollback
<1>2. CASE ServerStmt(c)
  <2>1. up[c] /\ queue[c] # <<>> /\ Head(queue[c]).op = "stmt"
    BY <1>2 DEF ServerStmt, Runs
  <2>2. /\ Head(queue[c]) = queue[c][1] /\ 1 \in 1..Len(queue[c])
        /\ Head(queue[c]) \in Command
    BY <1>0, <2>1, Elements
  <2>3. PICK t \in Tasks, k \in 1..MaxStmts : t = Head(queue[c]).task /\ k = Head(queue[c]).k
    BY <2>1, <2>2 DEF Command
  <2>4. owner[c] = t /\ t # NoTask
    BY <1>0, <2>1, <2>2, <2>3, PoolAssumption DEF QueueOK
  <2>5. pend' = [pend EXCEPT ![c] = @ \cup {<<t, k>>}] /\ UNCHANGED <<committed, fate>>
    BY <1>2, <2>3, <2>4 DEF ServerStmt
  <2>6. fate[t] = "open" /\ main[t] # "settled"
    <3>1. Active(t)
      BY <1>0, <2>2, <2>3 DEF QueueOK
    <3>. QED
      BY <1>0, <2>4, <3>1 DEF SessionOK, Active
  <2>7. Stage[t] = "open" /\ UNCHANGED Stage
    BY <1>1, <2>5, <2>6 DEF Stage
  <2>8. Done' = [Done EXCEPT ![t] = @ \cup {k}]
    <3>1. \A d \in Conns \ {c} : pend'[d] = pend[d]
      BY <1>0, <2>5 DEF TypeOK
    <3>2. pend'[c] = pend[c] \cup {<<t, k>>}
      BY <1>0, <2>5 DEF TypeOK
    <3>3. Done'[t] = Done[t] \cup {k}
      BY <3>1, <3>2 DEF Done
    <3>4. ASSUME NEW u \in Tasks \ {t} PROVE Done'[u] = Done[u]
      BY <3>1, <3>2 DEF Done
    <3>. QED
      BY <3>3, <3>4 DEF Done
  <2>9. CASE k \in Done[t]
    <3>1. UNCHANGED Done
      BY <2>8, <2>9 DEF Done
    <3>. QED
      BY <2>5, <2>7, <3>1 DEF Contract!vars
  <2>10. CASE k \notin Done[t]
    <3>1. Contract!Work(t)
      BY <2>5, <2>7, <2>8, <2>10 DEF Contract!Work
    <3>. QED
      BY <3>1 DEF Contract!Next
  <2>. QED
    BY <2>9, <2>10
<1>3. CASE ServerStmtFails(c)
  BY <1>1, <1>3 DEF ServerStmtFails, Contract!vars, Stage, Done
<1>4. CASE ServerBegin(c) /\ UNCHANGED sessVars
  BY <1>1, <1>4 DEF Contract!vars, Stage, Done
<1>5. \/ ServerStmt(c) \/ ServerStmtFails(c) \/ (ServerBegin(c) /\ UNCHANGED sessVars)
      \/ \E how \in {"committed", "discarded"} : EndTx(c, how)
  BY DEF Server, Break, ServerBegin, BeginTx, ServerCommit, ServerRollback
<1>. QED
  BY <1>1, <1>2, <1>3, <1>4, <1>5, EndImplements

\* The driver, its pool and the sessions of the server implement the contract:
\* the statements of a call take effect together in one step, before the call
\* settles, and a call that resolves has taken effect.
THEOREM DriverImplementsContract ==
  ASSUME Orderly, NothingDoomedIsCaught
  PROVE  Spec => ImplementsContract
<1>1. Init => Contract!Init
  BY DEF Init, Contract!Init, Stage, Done
<1>2. OutcomeInv /\ OutcomeInv' /\ [Next]_vars => [Contract!Next]_(Contract!vars)
  <2>1. CASE UNCHANGED vars
    BY <2>1 DEF Contract!vars, Stage, Done
  <2>2. Quiet => UNCHANGED vars
    BY DEF Quiet
  <2>. QED
    BY <2>1, <2>2, CallImplements, ServerImplements DEF Next
<1>. QED
  BY <1>1, <1>2, OutcomeAlways, PTL DEF Spec, ImplementsContract, Contract!Spec
=============================================================================
