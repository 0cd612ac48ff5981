------------------------- MODULE SharedHandle_proofs -------------------------
(***************************************************************************)
(* What transactions on one shared handle guarantee, for every number of   *)
(* calls, plain statements, readers and statements of a body.              *)
(***************************************************************************)
EXTENDS SharedHandle, TLAPS

LEMMA ConstantFacts ==
  /\ Captured \subseteq Tasks /\ Catching \subseteq Tasks
  /\ MaxStmts \in Nat /\ MaxLosses \in Nat
  /\ Tasks \cap Plain = {} /\ None \notin Tasks
BY HandleAssumption

\* A statement of a task and a plain statement are writes.
LEMMA WriteType ==
  /\ \A t \in Tasks, k \in 1..MaxStmts : <<t, k>> \in Writes
  /\ \A p \in Plain : <<p, 1>> \in Writes
<1>1. 1 \in 1..(MaxStmts + 1) /\ \A k \in 1..MaxStmts : k \in 1..(MaxStmts + 1)
  BY ConstantFacts
<1> QED
  BY <1>1 DEF Writes

-----------------------------------------------------------------------------
(* Typing *)

\* The end of the session's transaction, whoever asked for it.
LEMMA EndType ==
  ASSUME TypeOK, NEW how \in {"committed", "discarded"}, EndTx(how)
  PROVE  /\ owner' = None /\ pend' = {} /\ committed' \subseteq Writes
         /\ fate' \in [Tasks -> {"open", "committed", "discarded"}]
         /\ \A t \in Tasks : fate'[t] = IF t = owner THEN how ELSE fate[t]
<1>1. /\ owner' = None /\ pend' = {}
      /\ committed' \in {committed, committed \cup pend}
      /\ fate' = [fate EXCEPT ![owner] = how]
  BY DEF EndTx
<1>2. pend \subseteq Writes /\ committed \subseteq Writes
      /\ fate \in [Tasks -> {"open", "committed", "discarded"}]
  BY DEF TypeOK
<1> QED
  BY <1>1, <1>2

TxType == /\ owner \in Tasks \cup {None}
          /\ pend \subseteq Writes /\ committed \subseteq Writes
          /\ fate \in [Tasks -> {"open", "committed", "discarded"}]

LEMMA RollbackType ==
  ASSUME TypeOK, NEW t \in Tasks, Rollback(t)
  PROVE  TxType' /\ refused' \subseteq Tasks
<1>1. CASE UNCHANGED txVars /\ refused' \subseteq Tasks
  BY <1>1 DEF TypeOK, TxType, txVars
<1>2. CASE EndTx("discarded") /\ refused' = refused
  BY <1>2, EndType DEF TypeOK, TxType
<1>3. refused' \subseteq Tasks
  BY DEF TypeOK, Rollback
<1> QED
  BY <1>1, <1>2, <1>3 DEF Rollback

LEMMA WriteEffect ==
  ASSUME TypeOK, NEW w \in Writes, Write(w) \/ WriteFails
  PROVE  TxType' /\ losses' \in 0..MaxLosses
<1>1. CASE Write(w)
  <2>1. owner' = owner /\ fate' = fate /\ losses' = losses
    BY <1>1 DEF Write
  <2>2. pend' \in {pend, pend \cup {w}} /\ committed' \in {committed, committed \cup {w}}
    BY <1>1 DEF Write
  <2> QED
    BY <2>1, <2>2 DEF TypeOK, TxType
<1>2. CASE UNCHANGED <<txVars, losses>>
  BY <1>2 DEF TypeOK, TxType, txVars
<1>3. CASE EndTx("discarded") /\ losses < MaxLosses /\ losses' = losses + 1
  <2>1. losses' \in 0..MaxLosses
    BY <1>3, ConstantFacts DEF TypeOK
  <2> QED
    BY <1>3, <2>1, EndType DEF TxType
<1> QED
  BY <1>1, <1>2, <1>3 DEF WriteFails

LEMMA TypeStep ==
  ASSUME TypeOK, CallInv, [Next]_vars
  PROVE  TypeOK'
<1> USE DEF fnVars, readVars, txVars
<1>1. ASSUME NEW t \in Tasks, BeginFails(t) PROVE TypeOK'
  BY <1>1 DEF TypeOK, BeginFails, Settle
<1>2. ASSUME NEW t \in Tasks, BeginOk(t) PROVE TypeOK'
  BY <1>2 DEF TypeOK, BeginOk
<1>3. ASSUME NEW t \in Tasks, BodyStarts(t) PROVE TypeOK'
  BY <1>3 DEF TypeOK, BodyStarts
<1>4. ASSUME NEW t \in Tasks, Send(t) PROVE TypeOK'
  <2>1. sent[t] + 1 \in 1..MaxStmts
    BY <1>4, ConstantFacts DEF TypeOK, Send
  <2>2. Write(<<t, sent[t] + 1>>) \/ WriteFails
    BY <1>4 DEF Send
  <2>3. TxType' /\ losses' \in 0..MaxLosses
    BY <2>1, <2>2, WriteType, WriteEffect
  <2>4. reply' \in [Tasks -> {"none", "ok", "error"}]
    BY <1>4 DEF TypeOK, Send
  <2>5. sent' \in [Tasks -> 0..MaxStmts] /\ body' \in [Tasks -> {"off", "ready", "await", "returned", "threw"}]
    BY <1>4, <2>1, ConstantFacts DEF TypeOK, Send
  <2>6. UNCHANGED <<main, outcome, acked, said, readVars, refused>>
    BY <1>4 DEF Send
  <2> QED
    BY <2>3, <2>4, <2>5, <2>6 DEF TypeOK, TxType
<1>5. ASSUME NEW t \in Tasks, Resume(t) PROVE TypeOK'
  <2>1. sent[t] \in 1..MaxStmts
    BY <1>5, ConstantFacts DEF TypeOK, Resume, CallInv
  <2>2. acked' \in [Tasks -> SUBSET (1..MaxStmts)]
    BY <1>5, <2>1 DEF TypeOK, Resume
  <2>3. body' \in [Tasks -> {"off", "ready", "await", "returned", "threw"}]
    BY <1>5 DEF TypeOK, Resume
  <2> QED
    BY <1>5, <2>2, <2>3 DEF TypeOK, Resume
<1>6. ASSUME NEW t \in Tasks, NEW how \in {"returned", "threw"}, BodyEnds(t, how) PROVE TypeOK'
  BY <1>6 DEF TypeOK, BodyEnds
<1>7. ASSUME NEW t \in Tasks, CommitOk(t) PROVE TypeOK'
  <2>1. TxType'
    BY <1>7, EndType DEF CommitOk, TxType
  <2> QED
    BY <1>7, <2>1 DEF TypeOK, CommitOk, Settle, TxType
<1>8. ASSUME NEW t \in Tasks, CommitFails(t) PROVE TypeOK'
  <2>1. CASE t \in Captured
    <3>1. TxType' /\ refused' \subseteq Tasks
      BY <1>8, <2>1, RollbackType DEF CommitFails
    <3> QED
      BY <1>8, <2>1, <3>1 DEF TypeOK, CommitFails, Settle, TxType
  <2>2. CASE t \notin Captured
    BY <1>8, <2>2 DEF TypeOK, CommitFails
  <2> QED
    BY <2>1, <2>2
<1>9. ASSUME NEW t \in Tasks, RollsBack(t) PROVE TypeOK'
  <2>1. TxType' /\ refused' \subseteq Tasks
    BY <1>9, RollbackType DEF RollsBack
  <2> QED
    BY <1>9, <2>1 DEF TypeOK, RollsBack, Settle, TxType
<1>10. ASSUME NEW p \in Plain, Say(p) PROVE TypeOK'
  <2>1. TxType' /\ losses' \in 0..MaxLosses
    BY <1>10, WriteType, WriteEffect DEF Say
  <2> QED
    BY <1>10, <2>1 DEF TypeOK, Say, TxType
<1>11. ASSUME NEW r \in Readers, Open(r) PROVE TypeOK'
  BY <1>11 DEF TypeOK, Open
<1>12. ASSUME NEW r \in Readers, Close(r) PROVE TypeOK'
  BY <1>12 DEF TypeOK, Close
<1>13. CASE UNCHANGED vars
  BY <1>13 DEF TypeOK, vars
<1> QED
  BY <1>1, <1>2, <1>3, <1>4, <1>5, <1>6, <1>7, <1>8, <1>9, <1>10, <1>11, <1>12, <1>13
  DEF Next, Call, Done

-----------------------------------------------------------------------------
(* Where a call and its fn stand *)

\* Whatever happens to the session's transaction, it stays with its task or ends.
LEMMA OwnerStays ==
  ASSUME TypeOK
  PROVE  /\ \A w : Write(w) \/ WriteFails => owner' \in {owner, None}
         /\ \A t \in Tasks : Rollback(t) =>
              /\ owner' \in {owner, None}
              /\ owner' = None \/ refused' = refused \cup {t}
              /\ refused \subseteq refused'
<1>1. \A w : Write(w) \/ WriteFails => owner' \in {owner, None}
  BY DEF Write, WriteFails, EndTx, txVars
<1>2. ASSUME NEW t \in Tasks, Rollback(t)
      PROVE  /\ owner' \in {owner, None}
             /\ owner' = None \/ refused' = refused \cup {t}
             /\ refused \subseteq refused'
  BY <1>2 DEF Rollback, EndTx, txVars
<1> QED
  BY <1>1, <1>2

LEMMA CallStep ==
  ASSUME TypeOK, CallInv, [Next]_vars
  PROVE  CallInv'
<1> USE DEF fnVars, readVars, txVars, CallInv
<1>n. None \notin Tasks
  BY ConstantFacts
<1>1. ASSUME NEW t \in Tasks, BeginFails(t) PROVE CallInv'
  BY <1>1 DEF TypeOK, BeginFails, Settle
<1>2. ASSUME NEW t \in Tasks, BeginOk(t) PROVE CallInv'
  BY <1>2, <1>n DEF TypeOK, BeginOk
<1>3. ASSUME NEW t \in Tasks, BodyStarts(t) PROVE CallInv'
  BY <1>3 DEF TypeOK, BodyStarts
<1>4. ASSUME NEW t \in Tasks, Send(t) PROVE CallInv'
  <2>1. owner' \in {owner, None}
    BY <1>4, OwnerStays DEF Send
  <2>2. sent' = [sent EXCEPT ![t] = @ + 1] /\ sent[t] + 1 # 0 /\ body' = [body EXCEPT ![t] = "await"]
        /\ body[t] = "ready"
    BY <1>4 DEF TypeOK, Send
  <2>3. \A u \in Tasks : u # t => reply'[u] = reply[u]
    BY <1>4 DEF TypeOK, Send
  <2>4. UNCHANGED <<main, acked, refused>>
    BY <1>4 DEF Send
  <2> QED
    BY <2>1, <2>2, <2>3, <2>4, <1>n DEF TypeOK
<1>5. ASSUME NEW t \in Tasks, Resume(t) PROVE CallInv'
  BY <1>5 DEF TypeOK, Resume
<1>6. ASSUME NEW t \in Tasks, NEW how \in {"returned", "threw"}, BodyEnds(t, how) PROVE CallInv'
  BY <1>6 DEF TypeOK, BodyEnds
<1>7. ASSUME NEW t \in Tasks, CommitOk(t) PROVE CallInv'
  BY <1>7, <1>n DEF TypeOK, CommitOk, EndTx, Settle
<1>8. ASSUME NEW t \in Tasks, CommitFails(t) PROVE CallInv'
  <2>1. CASE t \in Captured
    <3>1. /\ owner' \in {owner, None} /\ refused \subseteq refused'
          /\ owner' = None \/ t \in refused'
      BY <1>8, <2>1, OwnerStays DEF CommitFails
    <3> QED
      BY <1>8, <2>1, <3>1, <1>n DEF TypeOK, CommitFails, Settle
  <2>2. CASE t \notin Captured
    BY <1>8, <2>2 DEF TypeOK, CommitFails
  <2> QED
    BY <2>1, <2>2
<1>9. ASSUME NEW t \in Tasks, RollsBack(t) PROVE CallInv'
  <2>1. /\ owner' \in {owner, None} /\ refused \subseteq refused'
        /\ owner' = None \/ t \in refused'
    BY <1>9, OwnerStays DEF RollsBack
  <2> QED
    BY <1>9, <2>1, <1>n DEF TypeOK, RollsBack, Settle
<1>10. ASSUME NEW p \in Plain, Say(p) PROVE CallInv'
  <2>1. owner' \in {owner, None}
    BY <1>10, OwnerStays DEF Say
  <2> QED
    BY <1>10, <2>1, <1>n DEF TypeOK, Say
<1>11. ASSUME NEW r \in Readers, Open(r) PROVE CallInv'
  BY <1>11 DEF Open
<1>12. ASSUME NEW r \in Readers, Close(r) PROVE CallInv'
  BY <1>12 DEF Close
<1>13. CASE UNCHANGED vars
  BY <1>13 DEF vars
<1> QED
  BY <1>1, <1>2, <1>3, <1>4, <1>5, <1>6, <1>7, <1>8, <1>9, <1>10, <1>11, <1>12, <1>13
  DEF Next, Call, Done

-----------------------------------------------------------------------------
(* While no error has ended a transaction *)

Calm(t) ==
  /\ Inside(t) => owner = t
  /\ main[t] = "idle" \/ owner = t => fate[t] = "open"
  /\ reply[t] = "ok" => <<t, sent[t]>> \in pend
  /\ owner = t => \A k \in acked[t] : <<t, k>> \in pend
  /\ owner # t => \A k \in 1..MaxStmts : <<t, k>> \notin pend
  /\ fate[t] = "committed" => acked[t] \subseteq Durable(t)
  /\ fate[t] # "committed" => Durable(t) = {}
  /\ main[t] = "settled" => (outcome[t] = "resolved" <=> fate[t] = "committed")

CalmAll == (owner = None => pend = {}) /\ \A t \in Tasks : Calm(t)

\* ROLLBACK of the call that is alone.
LEMMA CalmRollback ==
  ASSUME TypeOK, CallInv, CalmAll, NEW t \in Tasks, Inside(t),
         Rollback(t), Settle(t, "rejected"), body[t] \in {"returned", "threw"},
         UNCHANGED <<fnVars, losses>>
  PROVE  CalmAll'
<1>1. owner = t /\ fate[t] = "open" /\ Durable(t) = {}
  BY DEF CalmAll, Calm
<1>2. t # None
  BY ConstantFacts
<1>3. /\ main' = [main EXCEPT ![t] = "settled"]
      /\ outcome' = [outcome EXCEPT ![t] = "rejected"]
      /\ UNCHANGED <<body, sent, reply, acked>>
  BY DEF Settle, fnVars
<1>4. CASE UNCHANGED txVars
  <2>1. \A u \in Tasks : Durable(u)' = Durable(u)
    BY <1>4 DEF Durable, txVars
  <2>2. UNCHANGED <<owner, pend, fate>>
    BY <1>4 DEF txVars
  <2> QED
    BY <1>1, <1>3, <2>1, <2>2 DEF CalmAll, Calm, Inside, TypeOK
<1>5. CASE EndTx("discarded")
  <2>1. owner' = None /\ pend' = {} /\ fate' = [fate EXCEPT ![t] = "discarded"]
    BY <1>1, <1>5 DEF EndTx
  <2>2. \A u \in Tasks : Durable(u)' = Durable(u)
    BY <1>5 DEF EndTx, Durable
  <2>3. \A u \in Tasks : reply[u] # "ok"
    <3> SUFFICES ASSUME NEW u \in Tasks, reply[u] = "ok" PROVE FALSE
      OBVIOUS
    <3>1. body[u] = "await" /\ Inside(u)
      BY DEF CallInv, Inside
    <3> QED
      BY <1>1, <3>1 DEF CalmAll, Calm
  <2>4. \A u \in Tasks : u # t => ~Inside(u)
    BY <1>1 DEF CalmAll, Calm
  <2>5. Calm(t)'
    BY <1>1, <1>2, <1>3, <2>1, <2>2, <2>3 DEF Calm, Inside, TypeOK
  <2>6. ASSUME NEW u \in Tasks, u # t PROVE Calm(u)'
    <3>1. Calm(u) /\ u # None
      BY ConstantFacts DEF CalmAll
    <3> QED
      BY <1>1, <1>3, <2>1, <2>2, <2>3, <2>4, <2>6, <3>1 DEF Calm, Inside, TypeOK
  <2> QED
    BY <2>1, <2>5, <2>6 DEF CalmAll
<1> QED
  BY <1>4, <1>5 DEF Rollback

LEMMA CalmStep ==
  ASSUME TypeOK, CallInv, CalmInv, [Next]_vars
  PROVE  CalmInv'
<1>l. losses = 0 \/ losses' # 0
  <2>1. losses \in Nat
    BY DEF TypeOK
  <2>2. losses' = losses \/ losses' = losses + 1
    BY DEF Next, Call, Done, vars, BeginFails, BeginOk, BodyStarts, Send, Resume, BodyEnds,
       CommitOk, CommitFails, RollsBack, Say, Open, Close, Write, WriteFails
  <2> QED
    BY <2>1, <2>2
<1>s. SUFFICES ASSUME losses = 0, losses' = 0
               PROVE  CalmAll'
  BY <1>l DEF CalmInv, CalmAll, Calm
<1>c. CalmAll
  BY <1>s DEF CalmInv, CalmAll, Calm
<1>n. None \notin Tasks
  BY ConstantFacts
<1> USE DEF fnVars, readVars, txVars
<1>1. ASSUME NEW t \in Tasks, BeginFails(t) PROVE CalmAll'
  <2>1. \A u \in Tasks : Durable(u)' = Durable(u)
    BY <1>1 DEF BeginFails, Durable
  <2> QED
    BY <1>1, <1>c, <2>1 DEF CalmAll, Calm, Inside, TypeOK, BeginFails, Settle
<1>2. ASSUME NEW t \in Tasks, BeginOk(t) PROVE CalmAll'
  <2>1. \A u \in Tasks : Durable(u)' = Durable(u)
    BY <1>2 DEF BeginOk, Durable
  <2>2. owner = None /\ pend = {} /\ \A u \in Tasks : ~Inside(u)
    BY <1>2, <1>c, <1>n DEF BeginOk, CalmAll, Calm
  <2>3. acked[t] = {} /\ fate[t] = "open"
    BY <1>2, <1>c DEF BeginOk, CallInv, CalmAll, Calm
  <2> QED
    BY <1>2, <1>c, <1>n, <2>1, <2>2, <2>3 DEF CalmAll, Calm, Inside, TypeOK, BeginOk
<1>3. ASSUME NEW t \in Tasks, BodyStarts(t) PROVE CalmAll'
  <2>1. \A u \in Tasks : Durable(u)' = Durable(u)
    BY <1>3 DEF BodyStarts, Durable
  <2> QED
    BY <1>3, <1>c, <2>1 DEF CalmAll, Calm, Inside, TypeOK, BodyStarts
<1>4. ASSUME NEW t \in Tasks, Send(t) PROVE CalmAll'
  <2>1. owner = t /\ t # None
    BY <1>4, <1>c, <1>n DEF Send, CallInv, CalmAll, Calm, Inside
  <2>2. /\ sent' = [sent EXCEPT ![t] = @ + 1] /\ UNCHANGED <<main, outcome, acked>>
        /\ \A u \in Tasks : u # t => reply'[u] = reply[u] /\ sent'[u] = sent[u]
    BY <1>4 DEF Send, TypeOK
  <2>3. CASE UNCHANGED txVars /\ reply' = [reply EXCEPT ![t] = "error"]
    <3>1. \A u \in Tasks : Durable(u)' = Durable(u)
      BY <2>3 DEF Durable
    <3> QED
      BY <1>c, <2>2, <2>3, <3>1 DEF CalmAll, Calm, Inside, TypeOK
  <2>4. CASE Write(<<t, sent[t] + 1>>) /\ reply' = [reply EXCEPT ![t] = "ok"]
    <3>1. /\ UNCHANGED <<owner, fate, committed>>
          /\ pend' = pend \cup {<<t, sent[t] + 1>>}
      BY <2>1, <2>4 DEF Write
    <3>2. \A u \in Tasks : Durable(u)' = Durable(u)
      BY <3>1 DEF Durable
    <3>3. sent'[t] = sent[t] + 1
      BY <2>2 DEF TypeOK
    <3>4. ASSUME NEW u \in Tasks PROVE Calm(u)'
      BY <1>c, <2>1, <2>2, <2>4, <3>1, <3>2, <3>3 DEF CalmAll, Calm, Inside, TypeOK
    <3> QED
      BY <2>1, <3>1, <3>4 DEF CalmAll
  <2> QED
    BY <1>4, <1>s, <2>3, <2>4 DEF Send, WriteFails
<1>5. ASSUME NEW t \in Tasks, Resume(t) PROVE CalmAll'
  <2>1. owner = t /\ fate[t] = "open"
    BY <1>5, <1>c DEF Resume, CallInv, CalmAll, Calm, Inside
  <2>2. \A u \in Tasks : Durable(u)' = Durable(u)
    BY <1>5 DEF Resume, Durable
  <2>3. /\ UNCHANGED <<main, outcome, sent, owner, pend, fate>>
        /\ reply' = [reply EXCEPT ![t] = "none"]
        /\ acked' = acked \/ (reply[t] = "ok" /\ acked' = [acked EXCEPT ![t] = @ \cup {sent[t]}])
    BY <1>5 DEF Resume
  <2>4. \A k \in acked'[t] : <<t, k>> \in pend
    <3>1. \A k \in acked[t] : <<t, k>> \in pend
      BY <1>c, <2>1 DEF CalmAll, Calm
    <3>2. CASE acked' = acked
      BY <3>1, <3>2
    <3>3. CASE reply[t] = "ok" /\ acked' = [acked EXCEPT ![t] = @ \cup {sent[t]}]
      <4>1. <<t, sent[t]>> \in pend
        BY <1>c, <3>3 DEF CalmAll, Calm
      <4>2. acked'[t] = acked[t] \cup {sent[t]}
        BY <3>3 DEF TypeOK
      <4> QED
        BY <3>1, <4>1, <4>2
    <3> QED
      BY <2>3, <3>2, <3>3
  <2>5. \A u \in Tasks : u # t => acked'[u] = acked[u]
    BY <2>3 DEF TypeOK
  <2> QED
    BY <1>c, <2>1, <2>2, <2>3, <2>4, <2>5 DEF CalmAll, Calm, Inside, TypeOK
<1>6. ASSUME NEW t \in Tasks, NEW how \in {"returned", "threw"}, BodyEnds(t, how) PROVE CalmAll'
  <2>1. \A u \in Tasks : Durable(u)' = Durable(u)
    BY <1>6 DEF BodyEnds, Durable
  <2> QED
    BY <1>6, <1>c, <2>1 DEF CalmAll, Calm, Inside, TypeOK, BodyEnds
<1>7. ASSUME NEW t \in Tasks, CommitOk(t) PROVE CalmAll'
  <2>1. owner = t /\ fate[t] = "open"
    BY <1>7, <1>c DEF CommitOk, CalmAll, Calm, Inside
  <2>2. /\ owner' = None /\ pend' = {} /\ committed' = committed \cup pend
        /\ fate' = [fate EXCEPT ![t] = "committed"]
    BY <1>7, <2>1 DEF CommitOk, EndTx
  <2>3. /\ main' = [main EXCEPT ![t] = "settled"] /\ outcome' = [outcome EXCEPT ![t] = "resolved"]
        /\ UNCHANGED <<sent, reply, acked>>
    BY <1>7 DEF CommitOk, Settle
  <2>4. \A u \in Tasks : reply[u] # "ok"
    <3> SUFFICES ASSUME NEW u \in Tasks, reply[u] = "ok" PROVE FALSE
      OBVIOUS
    <3>1. body[u] = "await" /\ Inside(u)
      BY DEF CallInv, Inside
    <3>2. u = t
      BY <1>c, <2>1, <3>1 DEF CalmAll, Calm
    <3> QED
      BY <1>7, <3>1, <3>2 DEF CommitOk
  <2>5. acked[t] \subseteq Durable(t)'
    <3>1. acked[t] \subseteq 1..MaxStmts /\ \A k \in acked[t] : <<t, k>> \in pend
      BY <1>c, <2>1 DEF CalmAll, Calm, TypeOK
    <3> QED
      BY <2>2, <3>1 DEF Durable
  <2>6. ASSUME NEW u \in Tasks, u # t PROVE Durable(u)' = Durable(u)
    <3>1. \A k \in 1..MaxStmts : <<u, k>> \notin pend
      BY <1>c, <2>1, <2>6 DEF CalmAll, Calm
    <3> QED
      BY <2>2, <3>1 DEF Durable
  <2>7. ASSUME NEW u \in Tasks PROVE Calm(u)'
    <3>1. CASE u = t
      BY <1>n, <2>2, <2>3, <2>4, <2>5, <3>1 DEF Calm, Inside, TypeOK
    <3>2. CASE u # t
      <4>1. ~Inside(u) /\ Calm(u)
        BY <1>c, <2>1, <3>2 DEF CalmAll, Calm
      <4> QED
        BY <1>n, <2>1, <2>2, <2>3, <2>4, <2>6, <3>2, <4>1 DEF Calm, Inside, TypeOK
    <3> QED
      BY <3>1, <3>2
  <2> QED
    BY <2>2, <2>7 DEF CalmAll
<1>8. ASSUME NEW t \in Tasks, CommitFails(t) PROVE CalmAll'
  <2>1. CASE t \in Captured
    BY <1>8, <1>c, <2>1, CalmRollback DEF CommitFails, Inside
  <2>2. CASE t \notin Captured
    <3>1. \A u \in Tasks : Durable(u)' = Durable(u)
      BY <1>8, <2>2 DEF CommitFails, Durable
    <3> QED
      BY <1>8, <1>c, <2>2, <3>1 DEF CalmAll, Calm, Inside, TypeOK, CommitFails
  <2> QED
    BY <2>1, <2>2
<1>9. ASSUME NEW t \in Tasks, RollsBack(t) PROVE CalmAll'
  <2>1. Inside(t) /\ body[t] \in {"returned", "threw"}
    BY <1>9 DEF RollsBack, Inside, CallInv, TypeOK
  <2> QED
    BY <1>9, <1>c, <2>1, CalmRollback DEF RollsBack
<1>10. ASSUME NEW p \in Plain, Say(p) PROVE CalmAll'
  <2>1. p \notin Tasks
    BY ConstantFacts
  <2>2. UNCHANGED <<main, outcome, sent, reply, acked>>
    BY <1>10 DEF Say
  <2>3. CASE UNCHANGED txVars
    <3>1. \A u \in Tasks : Durable(u)' = Durable(u)
      BY <2>3 DEF Durable
    <3> QED
      BY <1>c, <2>2, <2>3, <3>1 DEF CalmAll, Calm, Inside
  <2>4. CASE Write(<<p, 1>>)
    <3>1. /\ UNCHANGED <<owner, fate>>
          /\ owner = None => pend' = pend
          /\ pend' \in {pend, pend \cup {<<p, 1>>}}
          /\ committed' \in {committed, committed \cup {<<p, 1>>}}
      BY <2>4 DEF Write
    <3>2. \A u \in Tasks, k \in 1..MaxStmts :
            /\ <<u, k>> \in committed' <=> <<u, k>> \in committed
            /\ <<u, k>> \in pend' <=> <<u, k>> \in pend
      BY <2>1, <3>1
    <3>3. \A u \in Tasks : Durable(u)' = Durable(u)
      BY <3>2 DEF Durable
    <3>4. \A w : w \in pend => w \in pend'
      BY <3>1
    <3> QED
      BY <1>c, <2>2, <3>1, <3>2, <3>3, <3>4 DEF CalmAll, Calm, Inside
  <2> QED
    BY <1>10, <1>s, <2>3, <2>4 DEF Say, WriteFails
<1>11. ASSUME NEW r \in Readers, Open(r) PROVE CalmAll'
  BY <1>11, <1>c DEF CalmAll, Calm, Inside, Durable, Open
<1>12. ASSUME NEW r \in Readers, Close(r) PROVE CalmAll'
  BY <1>12, <1>c DEF CalmAll, Calm, Inside, Durable, Close
<1>13. CASE UNCHANGED vars
  BY <1>13, <1>c DEF CalmAll, Calm, Inside, Durable, vars
<1> QED
  BY <1>1, <1>2, <1>3, <1>4, <1>5, <1>6, <1>7, <1>8, <1>9, <1>10, <1>11, <1>12, <1>13
  DEF Next, Call, Done

-----------------------------------------------------------------------------

HandleInv == TypeOK /\ CallInv /\ CalmInv

LEMMA HandleAlways == Spec => []HandleInv
<1>1. Init => HandleInv
  <2> SUFFICES ASSUME Init PROVE HandleInv
    OBVIOUS
  <2>1. TypeOK
    BY ConstantFacts DEF Init, TypeOK
  <2>2. CallInv
    BY ConstantFacts DEF Init, CallInv
  <2>3. CalmInv
    BY ConstantFacts DEF Init, CalmInv, Inside, Durable
  <2> QED
    BY <2>1, <2>2, <2>3 DEF HandleInv
<1>2. HandleInv /\ [Next]_vars => HandleInv'
  BY TypeStep, CallStep, CalmStep DEF HandleInv
<1> QED
  BY <1>1, <1>2, PTL DEF Spec

\* Every variable keeps its type.
THEOREM HandleTypes == Spec => []TypeOK
BY HandleAlways, PTL DEF HandleInv

\* While no error has rolled a transaction back, a call under way is alone on
\* the handle: BEGIN is refused to every other one.
THEOREM CallsAreAlone == Spec => []OwnTransaction
<1>1. HandleInv => OwnTransaction
  BY DEF HandleInv, CalmInv, OwnTransaction
<1> QED
  BY <1>1, HandleAlways, PTL

\* ... its statements become durable together or not at all.
THEOREM HandleAtomicity == Spec => []AllOrNothing
<1>1. HandleInv => AllOrNothing
  BY DEF HandleInv, CalmInv, AllOrNothing
<1> QED
  BY <1>1, HandleAlways, PTL

\* ... and its promise resolves exactly if they did.
THEOREM HandleTruth == Spec => []OutcomeTrue
<1>1. HandleInv => OutcomeTrue
  BY DEF HandleInv, CalmInv, OutcomeTrue
<1> QED
  BY <1>1, HandleAlways, PTL

\* Whatever happens, only a refused ROLLBACK leaves a settled call's transaction
\* open.
THEOREM HandleIsClosed == Spec => []SettledCloses
<1>1. HandleInv => SettledCloses
  BY DEF HandleInv, CallInv, SettledCloses
<1> QED
  BY <1>1, HandleAlways, PTL
=============================================================================
