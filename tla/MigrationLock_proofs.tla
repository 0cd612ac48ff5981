------------------------ MODULE MigrationLock_proofs ------------------------
(***************************************************************************)
(* What the migration lock guarantees, for every number of calls,          *)
(* connections and steps, and under which assumptions.  MigrationShared    *)
(* shows what becomes of them on a shared pool.                            *)
(***************************************************************************)
EXTENDS MigrationLock, TLAPS

LEMMA ConstantFacts ==
  /\ Pool \in [Runs -> SUBSET Conns]
  /\ InTx \subseteq Runs /\ Locking \subseteq Runs
  /\ MaxSteps \in Nat /\ MaxReaps \in Nat
  /\ NoConn \notin Conns
  /\ \A r \in Runs : NoConn \notin Pool[r]
BY MigrationAssumption

-----------------------------------------------------------------------------
(* Typing *)

\* What Drop does to the lock, whichever statement loses or releases it.
LEMMA DropFacts ==
  ASSUME TypeOK, NEW c \in Conns, NEW all \in BOOLEAN, Drop(c, all),
         holder = NoConn \/ depth > 0
  PROVE  /\ depth' \in Nat
         /\ holder' \in {holder, NoConn}
         /\ holder # c => holder' = holder /\ depth' = depth
         /\ holder = c /\ (all \/ depth = 1) => holder' = NoConn /\ depth' = 0
         /\ holder' = NoConn \/ depth' > 0
<1>1. depth \in Nat
  BY DEF TypeOK
<1>2. CASE holder # c
  BY <1>1, <1>2 DEF Drop
<1>3. CASE holder = c
  <2>1. c # NoConn
    BY ConstantFacts
  <2>2. depth' = IF all THEN 0 ELSE depth - 1
    BY <1>3 DEF Drop
  <2>3. holder' = IF depth' = 0 THEN NoConn ELSE holder
    BY <1>3 DEF Drop
  <2> QED
    BY <1>1, <1>3, <2>1, <2>2, <2>3
<1> QED
  BY <1>2, <1>3

\* The lock is held as often as it was taken: at least once.
HeldInv == holder = NoConn \/ depth > 0

LEMMA TypeStep ==
  ASSUME TypeOK, HeldInv, ConnInv, [Next]_vars
  PROVE  TypeOK' /\ HeldInv'
<1> USE DEF TypeOK, HeldInv
<1>a. MaxSteps \in Nat /\ MaxReaps \in Nat /\ Pool \in [Runs -> SUBSET Conns]
  BY ConstantFacts
<1>1. ASSUME NEW r \in Runs, Start(r) PROVE TypeOK' /\ HeldInv'
  BY <1>1 DEF Start, Settle
<1>2. ASSUME NEW r \in Runs, NEW c \in Conns, Acquire(r, c) PROVE TypeOK' /\ HeldInv'
  BY <1>2 DEF Acquire, CheckOut
<1>3. ASSUME NEW r \in Runs, Granted(r) PROVE TypeOK' /\ HeldInv'
  <2>1. conn[r] \in Conns
    BY <1>3, <1>a DEF Granted, ConnInv
  <2> QED
    BY <1>3, <2>1 DEF Granted, CheckIn
<1>4. ASSUME NEW r \in Runs, AcquireFails(r) PROVE TypeOK' /\ HeldInv'
  BY <1>4 DEF AcquireFails, CheckIn, Settle
<1>5. ASSUME NEW r \in Runs, Open(r) PROVE TypeOK' /\ HeldInv'
  BY <1>5 DEF Open, CheckOut
<1>6. ASSUME NEW r \in Runs, Step(r) PROVE TypeOK' /\ HeldInv'
  <2>1. applied[r] \in Nat /\ plan[r] \in 0..MaxSteps
    OBVIOUS
  <2>2. applied[r] + 1 \in 0..MaxSteps
    BY <1>6, <1>a, <2>1 DEF Step
  <2> QED
    BY <1>6, <2>2 DEF Step
<1>7. ASSUME NEW r \in Runs, StepFails(r) PROVE TypeOK' /\ HeldInv'
  <2>1. After(r) \in {"release", "done"}
    BY DEF After
  <2>2. pc' \in [Runs -> {"idle", "acquire", "waiting", "open", "ddl", "release", "done"}]
    BY <1>7, <2>1 DEF StepFails
  <2>3. outcome' \in [Runs -> {"none", "applied", "failed"}]
    BY <1>7 DEF StepFails, Settle
  <2>4. applied' \in [Runs -> 0..MaxSteps]
    BY <1>7, <1>a DEF StepFails
  <2>5. conn' \in [Runs -> Conns \cup {NoConn}] /\ busy' \in [Conns -> BOOLEAN]
    BY <1>7 DEF StepFails, CheckIn
  <2> QED
    BY <1>7, <2>2, <2>3, <2>4, <2>5 DEF StepFails
<1>8. ASSUME NEW r \in Runs, Finish(r) PROVE TypeOK' /\ HeldInv'
  <2>1. After(r) \in {"release", "done"}
    BY DEF After
  <2>2. pc' \in [Runs -> {"idle", "acquire", "waiting", "open", "ddl", "release", "done"}]
    BY <1>8, <2>1 DEF Finish
  <2>3. outcome' \in [Runs -> {"none", "applied", "failed"}]
    BY <1>8 DEF Finish, Settle
  <2>4. conn' \in [Runs -> Conns \cup {NoConn}] /\ busy' \in [Conns -> BOOLEAN]
    BY <1>8 DEF Finish, CheckIn
  <2> QED
    BY <1>8, <2>2, <2>3, <2>4 DEF Finish
<1>9. ASSUME NEW r \in Runs, NEW c \in Conns, Unlock(r, c) PROVE TypeOK' /\ HeldInv'
  <2>1. PICK lost \in BOOLEAN : Drop(c, lost)
    BY <1>9 DEF Unlock
  <2>2. depth' \in Nat /\ holder' \in Conns \cup {NoConn} /\ HeldInv'
    BY <2>1, DropFacts
  <2> QED
    BY <1>9, <2>2 DEF Unlock
<1>10. ASSUME NEW c \in Conns, Reap(c) PROVE TypeOK' /\ HeldInv'
  <2>1. depth' \in Nat /\ holder' \in Conns \cup {NoConn} /\ HeldInv'
    BY <1>10, DropFacts DEF Reap
  <2>2. reaps' \in 0..MaxReaps
    BY <1>10, <1>a DEF Reap
  <2> QED
    BY <1>10, <2>1, <2>2 DEF Reap
<1>11. CASE UNCHANGED vars
  BY <1>11 DEF vars
<1> QED
  BY <1>1, <1>2, <1>3, <1>4, <1>5, <1>6, <1>7, <1>8, <1>9, <1>10, <1>11
  DEF Next, Run, Progress, AllDone

\* A call has a connection of its own pool.
LEMMA ConnStep ==
  ASSUME TypeOK, ConnInv, [Next]_vars
  PROVE  ConnInv'
<1> USE DEF TypeOK, ConnInv
<1>a. \A r \in Runs : NoConn \notin Pool[r]
  BY ConstantFacts
<1>1. ASSUME NEW r \in Runs, Start(r) PROVE ConnInv'
  BY <1>1 DEF Start
<1>2. ASSUME NEW r \in Runs, NEW c \in Conns, Acquire(r, c) PROVE ConnInv'
  BY <1>2, <1>a DEF Acquire, CheckOut, Free
<1>3. ASSUME NEW r \in Runs, Granted(r) PROVE ConnInv'
  BY <1>3 DEF Granted, CheckIn
<1>4. ASSUME NEW r \in Runs, AcquireFails(r) PROVE ConnInv'
  BY <1>4 DEF AcquireFails, CheckIn
<1>5. ASSUME NEW r \in Runs, Open(r) PROVE ConnInv'
  BY <1>5, <1>a DEF Open, CheckOut, Free
<1>6. ASSUME NEW r \in Runs, Step(r) PROVE ConnInv'
  BY <1>6 DEF Step
<1>7. ASSUME NEW r \in Runs, StepFails(r) PROVE ConnInv'
  <2>1. After(r) = "done" \/ (After(r) = "release" /\ r \in Locking)
    BY DEF After
  <2>2. \A q \in Runs : conn'[q] = conn[q] \/ conn'[q] = NoConn
    BY <1>7 DEF StepFails, CheckIn
  <2>3. \A q \in Runs : q # r => pc'[q] = pc[q] /\ conn'[q] = conn[q]
    BY <1>7 DEF StepFails, CheckIn
  <2>4. pc'[r] = After(r)
    BY <1>7 DEF StepFails
  <2> QED
    BY <2>1, <2>2, <2>3, <2>4
<1>8. ASSUME NEW r \in Runs, Finish(r) PROVE ConnInv'
  <2>1. After(r) = "done" \/ (After(r) = "release" /\ r \in Locking)
    BY DEF After
  <2>2. \A q \in Runs : conn'[q] = conn[q] \/ conn'[q] = NoConn
    BY <1>8 DEF Finish, CheckIn
  <2>3. \A q \in Runs : q # r => pc'[q] = pc[q] /\ conn'[q] = conn[q]
    BY <1>8 DEF Finish, CheckIn
  <2>4. pc'[r] = After(r)
    BY <1>8 DEF Finish
  <2> QED
    BY <2>1, <2>2, <2>3, <2>4
<1>9. ASSUME NEW r \in Runs, NEW c \in Conns, Unlock(r, c) PROVE ConnInv'
  BY <1>9 DEF Unlock
<1>10. ASSUME NEW c \in Conns, Reap(c) PROVE ConnInv'
  BY <1>10 DEF Reap
<1>11. CASE UNCHANGED vars
  BY <1>11 DEF vars
<1> QED
  BY <1>1, <1>2, <1>3, <1>4, <1>5, <1>6, <1>7, <1>8, <1>9, <1>10, <1>11
  DEF Next, Run, Progress, AllDone

BaseInv == TypeOK /\ HeldInv /\ ConnInv

LEMMA BaseAlways == Spec => []BaseInv
<1>1. Init => BaseInv
  BY ConstantFacts DEF Init, BaseInv, TypeOK, HeldInv, ConnInv
<1>2. BaseInv /\ [Next]_vars => BaseInv'
  BY TypeStep, ConnStep DEF BaseInv
<1> QED
  BY <1>1, <1>2, PTL DEF Spec

\* Every variable keeps its type.
THEOREM MigrationTypes == Spec => []TypeOK
BY BaseAlways, PTL DEF BaseInv

-----------------------------------------------------------------------------
(* Mutual exclusion *)

\* While nothing ends a session, a call that has passed its lock statement has
\* the lock in its own pool: only its own release statement reaches that pool.
LEMMA HolderStep ==
  ASSUME Deploys, BaseInv, HolderInv, [Next]_vars
  PROVE  HolderInv'
<1> USE DEF TypeOK, HolderInv
<1>c. reaps = 0 \/ reaps' # 0
  <2>1. reaps \in 0..MaxReaps /\ MaxReaps \in Nat
    BY ConstantFacts DEF BaseInv
  <2>2. reaps' = reaps \/ reaps' = reaps + 1
    BY DEF Next, Run, Progress, AllDone, vars, Start, Acquire, Granted,
       AcquireFails, Open, Step, StepFails, Finish, Unlock, Reap
  <2> QED
    BY <2>1, <2>2
<1>r. SUFFICES ASSUME reaps = 0, reaps' = 0
               PROVE  HolderInv'
  BY <1>c
<1>t. TypeOK /\ HeldInv /\ ConnInv
  BY DEF BaseInv
<1>a. /\ Locking \subseteq Runs
      /\ \A r \in Runs : NoConn \notin Pool[r]
      /\ \A r, s \in Runs : r # s => Pool[r] \cap Pool[s] = {}
  BY ConstantFacts DEF Deploys
<1>1. ASSUME NEW r \in Runs, Start(r) PROVE HolderInv'
  BY <1>1, <1>t, <1>a DEF Start
<1>2. ASSUME NEW r \in Runs, NEW c \in Conns, Acquire(r, c) PROVE HolderInv'
  BY <1>2, <1>t, <1>a DEF Acquire
<1>3. ASSUME NEW r \in Runs, Granted(r) PROVE HolderInv'
  <2>1. conn[r] \in Pool[r] /\ holder' = conn[r] /\ holder \in {NoConn, conn[r]}
    BY <1>3, <1>t DEF Granted, ConnInv
  <2>2. pc' = [pc EXCEPT ![r] = "open"]
    BY <1>3 DEF Granted
  <2>3. ASSUME NEW s \in Locking, pc'[s] \in {"open", "ddl"} PROVE holder' \in Pool[s]
    <3>1. CASE s = r
      BY <2>1, <3>1
    <3>2. CASE s # r
      <4>1. holder \in Pool[s]
        BY <2>2, <2>3, <3>2, <1>r, <1>t, <1>a
      <4> QED
        BY <2>1, <4>1, <3>2, <1>a
    <3> QED
      BY <3>1, <3>2
  <2> QED
    BY <2>3
<1>4. ASSUME NEW r \in Runs, AcquireFails(r) PROVE HolderInv'
  BY <1>4, <1>t, <1>a DEF AcquireFails
<1>5. ASSUME NEW r \in Runs, Open(r) PROVE HolderInv'
  BY <1>5, <1>t, <1>a DEF Open
<1>6. ASSUME NEW r \in Runs, Step(r) PROVE HolderInv'
  BY <1>6, <1>t, <1>a DEF Step
<1>7. ASSUME NEW r \in Runs, StepFails(r) PROVE HolderInv'
  BY <1>7, <1>t, <1>a DEF StepFails, After
<1>8. ASSUME NEW r \in Runs, Finish(r) PROVE HolderInv'
  BY <1>8, <1>t, <1>a DEF Finish, After
<1>9. ASSUME NEW r \in Runs, NEW c \in Conns, Unlock(r, c) PROVE HolderInv'
  <2>1. PICK lost \in BOOLEAN : Drop(c, lost)
    BY <1>9 DEF Unlock
  <2>2. holder # c => holder' = holder
    BY <2>1, <1>t, DropFacts DEF HeldInv
  <2>3. c \in Pool[r] /\ pc[r] = "release" /\ pc' = [pc EXCEPT ![r] = "done"]
    BY <1>9 DEF Unlock, Free
  <2>4. ASSUME NEW s \in Locking, pc'[s] \in {"open", "ddl"} PROVE holder' \in Pool[s]
    <3>1. s # r /\ s \in Runs /\ pc[s] \in {"open", "ddl"}
      BY <2>3, <2>4, <1>t, <1>a
    <3>2. holder \in Pool[s] /\ holder # c
      BY <3>1, <2>3, <1>r, <1>a
    <3> QED
      BY <3>2, <2>2
  <2> QED
    BY <2>4
<1>10. ASSUME NEW c \in Conns, Reap(c) PROVE HolderInv'
  BY <1>10, <1>r DEF Reap
<1>11. CASE UNCHANGED vars
  BY <1>11 DEF vars
<1> QED
  BY <1>1, <1>2, <1>3, <1>4, <1>5, <1>6, <1>7, <1>8, <1>9, <1>10, <1>11
  DEF Next, Run, Progress, AllDone

\* Deploys of separate processes whose sessions stay open execute their DDL one
\* after the other, whatever connection each statement of theirs runs on.
THEOREM DeploysAreSerialized ==
  ASSUME Deploys
  PROVE  Spec => []Serialized
<1>1. Init => HolderInv
  BY ConstantFacts DEF Init, HolderInv
<1>2. BaseInv /\ HolderInv /\ [Next]_vars => HolderInv'
  BY HolderStep
<1>3. HolderInv => Serialized
  <2> SUFFICES ASSUME HolderInv, reaps = 0, NEW r \in Locking, NEW s \in Locking, r # s,
                      pc[r] \in {"open", "ddl"}, pc[s] \in {"open", "ddl"}
               PROVE  FALSE
    BY DEF Serialized
  <2>1. holder \in Pool[r] /\ holder \in Pool[s]
    BY DEF HolderInv
  <2> QED
    BY <2>1, ConstantFacts DEF Deploys
<1> QED
  BY <1>1, <1>2, <1>3, BaseAlways, PTL DEF Spec

-----------------------------------------------------------------------------
(* The lock comes back *)

\* With one connection per deploy the release statement reaches the session
\* that holds the lock.
LEMMA ReleaserStep ==
  ASSUME Dedicated, BaseInv, ReleaserInv, [Next]_vars
  PROVE  ReleaserInv'
<1> USE DEF TypeOK, ReleaserInv
<1>t. TypeOK /\ HeldInv /\ ConnInv
  BY DEF BaseInv
<1>a. /\ Locking \subseteq Runs
      /\ \A r \in Runs : NoConn \notin Pool[r]
      /\ \A r, s \in Runs : r # s => Pool[r] \cap Pool[s] = {}
      /\ \A r \in Runs : \E c \in Conns : Pool[r] = {c}
  BY ConstantFacts DEF Dedicated, Deploys
<1>b. depth = (IF holder = NoConn THEN 0 ELSE 1)
  OBVIOUS
<1>1. ASSUME NEW r \in Runs, Start(r) PROVE ReleaserInv'
  BY <1>1, <1>t, <1>a DEF Start
<1>2. ASSUME NEW r \in Runs, NEW c \in Conns, Acquire(r, c) PROVE ReleaserInv'
  BY <1>2, <1>t, <1>a DEF Acquire
<1>3. ASSUME NEW r \in Runs, Granted(r) PROVE ReleaserInv'
  <2>1. conn[r] \in Pool[r] /\ holder' = conn[r] /\ r \in Locking /\ pc[r] = "waiting"
    BY <1>3, <1>t DEF Granted, ConnInv
  <2>2. holder = NoConn
    BY <1>3, <2>1 DEF Granted
  <2>3. holder' # NoConn /\ depth' = 1
    BY <1>3, <2>1, <2>2, <1>a, <1>b DEF Granted
  <2>4. pc' = [pc EXCEPT ![r] = "open"]
    BY <1>3 DEF Granted
  <2>5. ASSUME NEW s \in Runs, holder' \in Pool[s]
        PROVE  s \in Locking /\ pc'[s] \in {"open", "ddl", "release"}
    <3>1. s = r
      BY <2>1, <2>5, <1>a
    <3> QED
      BY <3>1, <2>1, <2>4, <1>t
  <2> QED
    BY <2>3, <2>5
<1>4. ASSUME NEW r \in Runs, AcquireFails(r) PROVE ReleaserInv'
  BY <1>4, <1>t, <1>a DEF AcquireFails
<1>5. ASSUME NEW r \in Runs, Open(r) PROVE ReleaserInv'
  BY <1>5, <1>t, <1>a DEF Open
<1>6. ASSUME NEW r \in Runs, Step(r) PROVE ReleaserInv'
  BY <1>6, <1>t, <1>a DEF Step
<1>7. ASSUME NEW r \in Runs, StepFails(r) PROVE ReleaserInv'
  BY <1>7, <1>t, <1>a DEF StepFails, After
<1>8. ASSUME NEW r \in Runs, Finish(r) PROVE ReleaserInv'
  BY <1>8, <1>t, <1>a DEF Finish, After
<1>9. ASSUME NEW r \in Runs, NEW c \in Conns, Unlock(r, c) PROVE ReleaserInv'
  <2>1. PICK lost \in BOOLEAN : Drop(c, lost)
    BY <1>9 DEF Unlock
  <2>2. Pool[r] = {c} /\ pc[r] = "release" /\ pc' = [pc EXCEPT ![r] = "done"]
    BY <1>9, <1>a DEF Unlock, Free
  <2>3. CASE holder = c
    <3>1. depth = 1
      BY <2>2, <2>3, <1>a, <1>b
    <3>2. holder' = NoConn /\ depth' = 0
      BY <2>1, <2>3, <3>1, <1>t, DropFacts DEF HeldInv
    <3> QED
      BY <3>2, <1>a
  <2>4. CASE holder # c
    <3>1. holder' = holder /\ depth' = depth
      BY <2>1, <2>4, <1>t, DropFacts DEF HeldInv
    <3>2. \A s \in Runs : holder \in Pool[s] => s # r
      BY <2>2, <2>4
    <3> QED
      BY <3>1, <3>2, <2>2, <1>t
  <2> QED
    BY <2>3, <2>4
<1>10. ASSUME NEW c \in Conns, Reap(c) PROVE ReleaserInv'
  <2>1. Drop(c, TRUE) /\ pc' = pc
    BY <1>10 DEF Reap
  <2>2. CASE holder = c
    <3>1. holder' = NoConn /\ depth' = 0
      BY <2>1, <2>2, <1>t, DropFacts DEF HeldInv
    <3> QED
      BY <3>1, <1>a
  <2>3. CASE holder # c
    <3>1. holder' = holder /\ depth' = depth
      BY <2>1, <2>3, <1>t, DropFacts DEF HeldInv
    <3> QED
      BY <3>1, <2>1
  <2> QED
    BY <2>2, <2>3
<1>11. CASE UNCHANGED vars
  BY <1>11 DEF vars
<1> QED
  BY <1>1, <1>2, <1>3, <1>4, <1>5, <1>6, <1>7, <1>8, <1>9, <1>10, <1>11
  DEF Next, Run, Progress, AllDone

\* A deploy whose pool is one connection leaves no lock behind, whatever fails
\* and whichever session is lost.
THEOREM LockComesBack ==
  ASSUME Dedicated
  PROVE  Spec => []LockReturned
<1>1. Init => ReleaserInv
  BY ConstantFacts DEF Init, ReleaserInv
<1>2. BaseInv /\ ReleaserInv /\ [Next]_vars => ReleaserInv'
  BY ReleaserStep
<1>3. ReleaserInv => LockReturned
  BY DEF ReleaserInv, LockReturned
<1> QED
  BY <1>1, <1>2, <1>3, BaseAlways, PTL DEF Spec
=============================================================================
