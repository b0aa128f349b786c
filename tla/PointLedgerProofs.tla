-------------------------- MODULE PointLedgerProofs --------------------------
(***************************************************************************)
(* Theorems about PointLedger, for any users, requests and amounts.        *)
(***************************************************************************)
EXTENDS PointLedger, FiniteSums

LEMMA ConstantsType ==
    /\ Ops \subseteq AllOps
    /\ Faults \subseteq AllFaults
    /\ Amount \subseteq Nat
    /\ Amount \subseteq Int
    /\ InitBalance \in Int
    /\ Lookups \in Nat
    /\ PoolSize \in Nat
    /\ None \notin Request
    /\ None \notin Int
  BY ConstantsAssumption DEF ConstantsAssumption

LEMMA RequestType ==
    ASSUME TypeOK, NEW r \in Request
    PROVE  /\ req[r].op \in AllOps
           /\ req[r].amt \in Int
           /\ Owner(r) \in User
           /\ pc[r] \in Steps(req[r].op)
  BY ConstantsType DEF TypeOK, Owner

LEMMA DeltaType ==
    ASSUME TypeOK, NEW r \in Request
    PROVE  Delta(r) \in Int
  BY RequestType DEF Delta, AllOps

\* The step after a step of a flow is a step of the same operation.
LEMMA FlowType ==
    ASSUME NEW op \in AllOps, NEW s \in Steps(op),
           s \notin {"miss", "fill", "unlock", "done"}
    PROVE  Flow(op)[s] \in Steps(op)
  <1>1. ASSUME NEW t \in Steps("deposit"),
               t \notin {"miss", "fill", "unlock", "done"}
        PROVE  DepositFlow[t] \in Steps("deposit")
    BY <1>1 DEF Steps, DepositFlow
  <1>2. ASSUME NEW t \in Steps("withdraw"),
               t \notin {"miss", "fill", "unlock", "done"}
        PROVE  WithdrawFlow[t] \in Steps("withdraw")
    BY <1>2 DEF Steps, WithdrawFlow
  <1>3. ASSUME NEW t \in Steps("consume"),
               t \notin {"miss", "fill", "unlock", "done"}
        PROVE  ConsumeFlow[t] \in Steps("consume")
    BY <1>3 DEF Steps, ConsumeFlow
  <1>4. ASSUME NEW t \in Steps("grant"),
               t \notin {"miss", "fill", "unlock", "done"}
        PROVE  GrantFlow[t] \in Steps("grant")
    BY <1>4 DEF Steps, GrantFlow
  <1>5. ASSUME NEW t \in Steps("increase"),
               t \notin {"miss", "fill", "unlock", "done"}
        PROVE  IncreaseFlow[t] \in Steps("increase")
    BY <1>5 DEF Steps, IncreaseFlow
  <1>6. ASSUME NEW t \in Steps("read"),
               t \notin {"miss", "fill", "unlock", "done"}
        PROVE  ReadFlow[t] \in Steps("read")
    BY <1>6 DEF Steps, ReadFlow
  <1>7. /\ Flow("deposit") = DepositFlow   /\ Flow("withdraw") = WithdrawFlow
        /\ Flow("consume") = ConsumeFlow   /\ Flow("grant") = GrantFlow
        /\ Flow("increase") = IncreaseFlow /\ Flow("read") = ReadFlow
    BY DEF Flow
  <1>. QED
    BY <1>1, <1>2, <1>3, <1>4, <1>5, <1>6, <1>7 DEF AllOps

LEMMA AfterType ==
    ASSUME TypeOK, NEW r \in Request,
           pc[r] \notin {"miss", "fill", "unlock", "done"}
    PROVE  After(r, pc[r]) \in Steps(req[r].op)
  BY RequestType, FlowType DEF After

\* Who reads a balance, where the flow goes on after it, and who may be at
\* which end: the facts about the tables the proofs below need.
LEMMA StepFacts ==
    ASSUME NEW op \in AllOps
    PROVE  /\ Steps(op) \subseteq Labels
           /\ "done" \in Steps(op)
           /\ "start" \in Steps(op)
           /\ op # "read" => "unlock" \in Steps(op)
           /\ "balance" \in Steps(op) <=> "miss" \in Steps(op)
           /\ "balance" \in Steps(op) <=> "fill" \in Steps(op)
           /\ op = "read" => /\ "begin" \notin Steps(op)
                             /\ "write" \notin Steps(op)
                             /\ "publish" \notin Steps(op)
                             /\ "commit" \notin Steps(op)
                             /\ "update" \notin Steps(op)
                             /\ "cache" \notin Steps(op)
                             /\ "unlock" \notin Steps(op)
  <1>1. CASE op = "deposit"   BY <1>1 DEF Steps, Labels
  <1>2. CASE op = "withdraw"  BY <1>2 DEF Steps, Labels
  <1>3. CASE op = "consume"   BY <1>3 DEF Steps, Labels
  <1>4. CASE op = "grant"     BY <1>4 DEF Steps, Labels
  <1>5. CASE op = "increase"  BY <1>5 DEF Steps, Labels
  <1>6. CASE op = "read"      BY <1>6 DEF Steps, Labels
  <1>. QED  BY <1>1, <1>2, <1>3, <1>4, <1>5, <1>6 DEF AllOps

\* After a missed cache read the flow goes on as after "balance".
LEMMA AfterFillType ==
    ASSUME TypeOK, NEW r \in Request, pc[r] \in {"balance", "fill"}
    PROVE  After(r, "balance") \in Steps(req[r].op)
  <1>1. "balance" \in Steps(req[r].op)
    BY RequestType, StepFacts
  <1>. QED  BY <1>1, RequestType, FlowType DEF After

LEMMA GotoType ==
    ASSUME TypeOK, NEW r \in Request, NEW s \in Steps(req[r].op),
           Goto(r, s), UNCHANGED req
    PROVE  /\ pc' \in [Request -> Labels]
           /\ \A q \in Request : pc'[q] \in Steps(req'[q].op)
  BY RequestType, StepFacts DEF TypeOK, Goto

\* A request that fails outside the lock is done, inside it must unlock.
LEMMA FailType ==
    ASSUME TypeOK, NEW r \in Request, Fail(r), UNCHANGED req
    PROVE  /\ pc' \in [Request -> Labels]
           /\ \A q \in Request : pc'[q] \in Steps(req'[q].op)
           /\ outcome' \in [Request -> {"none", "ok", "failed", "unsure"}]
  <1>. DEFINE s == IF InLock(r) THEN "unlock" ELSE "done"
  <1>1. s \in Steps(req[r].op) 
    BY RequestType, StepFacts DEF InLock, LockedStep
  <1>2. Goto(r, s)
    BY DEF Fail
  <1>3. outcome' \in [Request -> {"none", "ok", "failed", "unsure"}]
    BY DEF Fail, TypeOK
  <1>. QED  BY <1>1, <1>2, <1>3, GotoType

LEMMA CheckedType ==
    ASSUME TypeOK, NEW r \in Request, NEW b, Checked(r, b), UNCHANGED req,
           pc[r] \in {"balance", "fill"}
    PROVE  /\ pc' \in [Request -> Labels]
           /\ \A q \in Request : pc'[q] \in Steps(req'[q].op)
           /\ outcome' \in [Request -> {"none", "ok", "failed", "unsure"}]
  <1>1. CASE Insufficient(r, b)
    BY <1>1, FailType DEF Checked
  <1>2. CASE ~Insufficient(r, b)
    <2>1. Goto(r, After(r, "balance"))
      BY <1>2 DEF Checked
    <2>2. outcome' \in [Request -> {"none", "ok", "failed", "unsure"}]
      BY <1>2 DEF Checked, TypeOK
    <2>. QED  BY <2>1, <2>2, AfterFillType, GotoType
  <1>. QED  BY <1>1, <1>2

\* The other holders of connections share nothing else with the requests.
LEMMA WorkFrame ==
    ASSUME NEW t \in Task, Work(t)
    PROVE  UNCHANGED <<req, pc, row, bal, outcome, db, booked, cache, lock,
                       sent>>
  BY DEF Work, BeginTask, LookupTask, EndTask

LEMMA WorkType ==
    ASSUME TypeOK, NEW t \in Task, Work(t)
    PROVE  task' \in [Task -> TaskStates]
  <1>1. task[t].left \in 0..Lookups /\ 0 \in 0..Lookups
    BY ConstantsType DEF TypeOK, TaskStates
  <1>2. CASE BeginTask(t)
    BY <1>1, <1>2 DEF BeginTask, TypeOK, TaskStates
  <1>3. CASE LookupTask(t)
    <2>1. task[t].left - 1 \in 0..Lookups
      BY <1>1, <1>3, ConstantsType DEF LookupTask, TaskAsking
    <2>2. [task[t] EXCEPT !.left = @ - 1] \in TaskStates
      BY <2>1 DEF TypeOK, TaskStates
    <2>3. task' = [task EXCEPT ![t] = [task[t] EXCEPT !.left = @ - 1]]
      BY <1>3 DEF LookupTask
    <2>. QED  BY <2>2, <2>3 DEF TypeOK
  <1>4. CASE EndTask(t)
    BY <1>1, <1>4 DEF EndTask, TypeOK, TaskStates
  <1>. QED  BY <1>2, <1>3, <1>4 DEF Work

\* Every step of the service keeps the types.
LEMMA TypeStep == TypeOK /\ [Next]_vars => TypeOK'
  <1>. SUFFICES ASSUME TypeOK, [Next]_vars
                PROVE  TypeOK'
    OBVIOUS
  <1>. USE DEF TypeOK
  <1>1. ASSUME NEW r \in Request, Arrive(r)
        PROVE  TypeOK'
    BY <1>1, AfterType, GotoType DEF Arrive
  <1>2. ASSUME NEW r \in Request, Throw(r)
        PROVE  TypeOK'
    BY <1>2, FailType DEF Throw
  <1>3. ASSUME NEW r \in Request, Acquire(r)
        PROVE  TypeOK'
    BY <1>3, AfterType, GotoType, RequestType DEF Acquire
  <1>4. ASSUME NEW r \in Request, AcquireTimeout(r)
        PROVE  TypeOK'
    BY <1>4, FailType DEF AcquireTimeout
  <1>5. ASSUME NEW r \in Request, ReadRow(r)
        PROVE  TypeOK'
    BY <1>5, AfterType, GotoType, RequestType DEF ReadRow
  <1>6. ASSUME NEW r \in Request, ReadCache(r)
        PROVE  TypeOK'
    <2>1. CASE cache[Owner(r)] = None
      <3>1. "miss" \in Steps(req[r].op)
        BY <1>6, RequestType, StepFacts DEF ReadCache
      <3>. QED  BY <1>6, <2>1, <3>1, GotoType DEF ReadCache
    <2>2. CASE cache[Owner(r)] # None
      <3>1. cache[Owner(r)] \in Int
        BY <2>2, RequestType
      <3>2. Checked(r, cache[Owner(r)]) /\ bal' \in [Request -> Int]
        BY <1>6, <2>2, <3>1 DEF ReadCache
      <3>. QED  BY <1>6, <3>2, CheckedType DEF ReadCache
    <2>. QED  BY <2>1, <2>2
  <1>7. ASSUME NEW r \in Request, ReadMissed(r)
        PROVE  TypeOK'
    <2>1. "fill" \in Steps(req[r].op)
      BY <1>7, RequestType, StepFacts DEF ReadMissed
    <2>2. bal' \in [Request -> Int]
      BY <1>7, RequestType DEF ReadMissed
    <2>. QED  BY <1>7, <2>1, <2>2, GotoType DEF ReadMissed
  <1>8. ASSUME NEW r \in Request, FillCache(r)
        PROVE  TypeOK'
    <2>1. cache' \in [User -> Int \cup {None}]
      BY <1>8, RequestType DEF FillCache, SetCache
    <2>. QED  BY <1>8, <2>1, CheckedType DEF FillCache
  <1>9. ASSUME NEW r \in Request, BeginTxn(r)
        PROVE  TypeOK'
    BY <1>9, AfterType, GotoType DEF BeginTxn
  <1>10. ASSUME NEW r \in Request, WriteBalance(r)
         PROVE  TypeOK'
    <2>1. cache' \in [User -> Int \cup {None}]
      BY <1>10, RequestType, DeltaType DEF WriteBalance, SetCache
    <2>. QED  BY <1>10, <2>1, AfterType, GotoType DEF WriteBalance
  <1>11. ASSUME NEW r \in Request, Publish(r)
         PROVE  TypeOK'
    BY <1>11, AfterType, GotoType DEF Publish
  <1>12. ASSUME NEW r \in Request, Commit(r)
         PROVE  TypeOK'
    <2>1. db' \in [User -> Int]
      BY <1>12, RequestType, DeltaType DEF Commit
    <2>2. outcome' \in [Request -> {"none", "ok", "failed", "unsure"}]
      BY <1>12 DEF Commit, Unsure
    <2>. QED  BY <1>12, <2>1, <2>2, AfterType, GotoType DEF Commit
  <1>13. ASSUME NEW r \in Request, Rollback(r)
         PROVE  TypeOK'
    BY <1>13, FailType DEF Rollback
  <1>14. ASSUME NEW r \in Request, UpdateBalance(r)
         PROVE  TypeOK'
    <2>1. db' \in [User -> Int]
      BY <1>14, RequestType, DeltaType DEF UpdateBalance
    <2>2. outcome' \in [Request -> {"none", "ok", "failed", "unsure"}]
      BY <1>14 DEF UpdateBalance, Unsure
    <2>3. PICK s \in Steps(req[r].op) : Goto(r, s)
      <3>1. "unlock" \in Steps(req[r].op)
        BY <1>14, RequestType, StepFacts DEF UpdateBalance
      <3>. QED  BY <1>14, <3>1, AfterType DEF UpdateBalance
    <2>. QED  BY <1>14, <2>1, <2>2, <2>3, GotoType DEF UpdateBalance
  <1>15. ASSUME NEW r \in Request, CacheBalance(r)
         PROVE  TypeOK'
    <2>1. cache' \in [User -> Int \cup {None}]
      BY <1>15, RequestType, DeltaType DEF CacheBalance, SetCache
    <2>. QED  BY <1>15, <2>1, AfterType, GotoType DEF CacheBalance
  <1>16. ASSUME NEW r \in Request, Release(r)
         PROVE  TypeOK'
    <2>1. "done" \in Steps(req[r].op)
      BY RequestType, StepFacts
    <2>2. lock' \in [User -> Request \cup {None}]
      BY <1>16, RequestType DEF Release
    <2>3. outcome' \in [Request -> {"none", "ok", "failed", "unsure"}]
      <3>1. outcome' = [outcome EXCEPT ![r] = IF @ = "none" THEN "ok" ELSE @]
        BY <1>16 DEF Release
      <3>. QED  BY <3>1
    <2>. QED  BY <1>16, <2>1, <2>2, <2>3, GotoType DEF Release
  <1>20. ASSUME NEW r \in Request, ReleaseFails(r)
         PROVE  TypeOK'
    <2>1. "done" \in Steps(req[r].op)
      BY RequestType, StepFacts
    <2>2. lock' \in [User -> Request \cup {None}]
      BY <1>20 DEF ReleaseFails
    <2>3. outcome' \in [Request -> {"none", "ok", "failed", "unsure"}]
      BY <1>20 DEF ReleaseFails, Unsure
    <2>. QED  BY <1>20, <2>1, <2>2, <2>3, GotoType DEF ReleaseFails
  <1>21. ASSUME NEW t \in Task, Work(t)
         PROVE  TypeOK'
    BY <1>21, WorkFrame, WorkType
  <1>17. ASSUME NEW u \in User, CacheExpire(u) \/ LockExpire(u)
         PROVE  TypeOK'
    BY <1>17 DEF CacheExpire, LockExpire
  <1>18. CASE Crash
    <2>1. \A r \in Request : "done" \in Steps(req[r].op)
      BY RequestType, StepFacts
    <2>2. task' \in [Task -> TaskStates]
      BY <1>18, ConstantsType DEF Crash, TaskStates
    <2>. QED  BY <1>18, <2>1, <2>2 DEF Crash, Labels
  <1>19. CASE UNCHANGED vars
    BY <1>19 DEF vars
  <1>. QED
    BY <1>1, <1>2, <1>3, <1>4, <1>5, <1>6, <1>7, <1>8, <1>9, <1>10, <1>11,
       <1>12, <1>13, <1>14, <1>15, <1>16, <1>17, <1>18, <1>19, <1>20, <1>21
       DEF Next, Step, Serve, Terminated

\* TypeOK is an invariant: in particular each request is always at a step
\* that its own method has.
THEOREM TypeCorrect == Spec => []TypeOK
  <1>1. Init => TypeOK
    <2>1. ASSUME Init, NEW r \in Request
          PROVE  "start" \in Steps(req[r].op) /\ "start" \in Labels
      BY <2>1, ConstantsType, StepFacts DEF Init, Labels
    <2>. QED  BY <2>1, ConstantsType DEF Init, TypeOK, TaskStates
  <1>. QED  BY <1>1, TypeStep, PTL DEF Spec
-----------------------------------------------------------------------------
(***************************************************************************)
(* Mutual exclusion.                                                       *)
(***************************************************************************)
LocksOutlive == "lockExpiry" \notin Faults

\* Only the step after "lock" enters the callback of executeWithLock.
LEMMA FlowLock ==
    ASSUME NEW op \in AllOps, NEW s \in Steps(op),
           s \notin {"miss", "fill", "unlock", "done", "lock"},
           LockedStep(op, Flow(op)[s])
    PROVE  LockedStep(op, s)
  <1>1. CASE op = "deposit"
    BY <1>1 DEF Steps, Flow, LockedStep, DepositFlow
  <1>2. CASE op = "withdraw"
    BY <1>2 DEF Steps, Flow, LockedStep, WithdrawFlow
  <1>3. CASE op = "consume"
    BY <1>3 DEF Steps, Flow, LockedStep, ConsumeFlow
  <1>4. CASE op = "grant"
    BY <1>4 DEF Steps, Flow, LockedStep, GrantFlow
  <1>5. CASE op = "increase"
    BY <1>5 DEF Steps, Flow, LockedStep, IncreaseFlow
  <1>6. CASE op = "read"
    BY <1>6 DEF Steps, Flow, LockedStep, ReadFlow
  <1>. QED  BY <1>1, <1>2, <1>3, <1>4, <1>5, <1>6 DEF AllOps

LEMMA AfterLock ==
    ASSUME TypeOK, NEW r \in Request,
           pc[r] \notin {"miss", "fill", "unlock", "done", "lock"},
           LockedStep(req[r].op, After(r, pc[r]))
    PROVE  InLock(r)
  BY RequestType, FlowLock DEF After, InLock

LEMMA CheckedLock ==
    ASSUME TypeOK, NEW r \in Request, pc[r] \in {"balance", "fill"},
           NEW b, Checked(r, b)
    PROVE  \E s : Goto(r, s) /\ (LockedStep(req[r].op, s) => InLock(r))
  <1>1. CASE Insufficient(r, b)
    <2>1. Goto(r, IF InLock(r) THEN "unlock" ELSE "done")
      BY <1>1 DEF Checked, Fail
    <2>2. ~LockedStep(req[r].op, "done")
      BY DEF LockedStep
    <2>. QED  BY <2>1, <2>2
  <1>2. CASE ~Insufficient(r, b)
    <2>1. Goto(r, After(r, "balance"))
      BY <1>2 DEF Checked
    <2>2. "balance" \in Steps(req[r].op)
      BY RequestType, StepFacts
    <2>3. LockedStep(req[r].op, After(r, "balance"))
            => LockedStep(req[r].op, "balance")
      BY <2>2, RequestType, FlowLock DEF After
    <2>4. LockedStep(req[r].op, "balance") => InLock(r)
      BY DEF InLock, LockedStep
    <2>. QED  BY <2>1, <2>3, <2>4
  <1>. QED  BY <1>1, <1>2

\* Apart from taking and releasing the lock, no step of a request touches it
\* or brings the request inside.
LEMMA StepKeepsLock ==
    ASSUME TypeOK, NEW r \in Request, Step(r), ~Acquire(r), ~Release(r),
           ~ReleaseFails(r)
    PROVE  /\ lock' = lock /\ req' = req
           /\ \E s : Goto(r, s) /\ (LockedStep(req[r].op, s) => InLock(r))
  <1>. DEFINE P == \E s : Goto(r, s)
                          /\ (LockedStep(req[r].op, s) => InLock(r))
  <1>1. ~LockedStep(req[r].op, "done")
    BY DEF LockedStep
  <1>2. ASSUME Fail(r) PROVE P
    <2>1. Goto(r, IF InLock(r) THEN "unlock" ELSE "done")
      BY <1>2 DEF Fail
    <2>. QED  BY <1>1, <2>1
  <1>3. CASE Arrive(r)
    BY <1>3, AfterLock DEF Arrive
  <1>4. CASE Throw(r)
    BY <1>2, <1>4 DEF Throw
  <1>5. CASE AcquireTimeout(r)
    BY <1>2, <1>5 DEF AcquireTimeout
  <1>6. CASE ReadRow(r)
    BY <1>6, AfterLock DEF ReadRow
  <1>7. CASE ReadCache(r)
    <2>1. CASE cache[Owner(r)] = None
      <3>1. LockedStep(req[r].op, "miss") => InLock(r)
        BY <1>7 DEF ReadCache, LockedStep, InLock
      <3>. QED  BY <1>7, <2>1, <3>1 DEF ReadCache
    <2>2. CASE cache[Owner(r)] # None
      BY <1>7, <2>2, CheckedLock DEF ReadCache
    <2>. QED  BY <2>1, <2>2
  <1>8. CASE ReadMissed(r)
    <2>1. LockedStep(req[r].op, "fill") => InLock(r)
      BY <1>8 DEF ReadMissed, LockedStep, InLock
    <2>. QED  BY <1>8, <2>1 DEF ReadMissed
  <1>9. CASE FillCache(r)
    BY <1>9, CheckedLock DEF FillCache
  <1>10. CASE BeginTxn(r)
    BY <1>10, AfterLock DEF BeginTxn
  <1>11. CASE WriteBalance(r)
    BY <1>11, AfterLock DEF WriteBalance
  <1>12. CASE Publish(r)
    BY <1>12, AfterLock DEF Publish
  <1>13. CASE Commit(r)
    BY <1>13, AfterLock DEF Commit
  <1>14. CASE Rollback(r)
    BY <1>2, <1>14 DEF Rollback
  <1>15. CASE UpdateBalance(r)
    <2>1. InLock(r)
      BY <1>15 DEF UpdateBalance, InLock, LockedStep
    <2>. QED  BY <1>15, <2>1 DEF UpdateBalance
  <1>16. CASE CacheBalance(r)
    BY <1>16, AfterLock DEF CacheBalance
  <1>. QED
    BY <1>3, <1>4, <1>5, <1>6, <1>7, <1>8, <1>9, <1>10, <1>11, <1>12, <1>13,
       <1>14, <1>15, <1>16 DEF Step, Serve

LEMMA LockStep ==
    ASSUME LocksOutlive, TypeOK, LockExclusive, [Next]_vars
    PROVE  LockExclusive'
  <1>1. ASSUME NEW r \in Request, Step(r), ~Acquire(r), ~Release(r),
               ~ReleaseFails(r)
        PROVE  LockExclusive'
    <2>1. PICK s : Goto(r, s) /\ (LockedStep(req[r].op, s) => InLock(r))
      BY <1>1, StepKeepsLock
    <2>2. lock' = lock /\ req' = req
      BY <1>1, StepKeepsLock
    <2>3. \A q \in Request : InLock(q)' => InLock(q)
      BY <2>1, <2>2 DEF Goto, InLock, TypeOK
    <2>. QED  BY <2>2, <2>3 DEF LockExclusive, Owner
  <1>2. ASSUME NEW r \in Request, Acquire(r)
        PROVE  LockExclusive'
    <2>1. \A q \in Request : InLock(q) => Owner(q) # Owner(r)
      BY <1>2, ConstantsType DEF Acquire, LockExclusive
    <2>2. \A q \in Request : InLock(q)' => InLock(q) \/ q = r
      BY <1>2 DEF Acquire, Goto, InLock, TypeOK
    <2>3. \A q \in Request : Owner(q)' = Owner(q) /\ Owner(q) \in User
      BY <1>2, RequestType DEF Acquire, Owner
    <2>4. /\ lock'[Owner(r)] = r
          /\ \A u \in User : u # Owner(r) => lock'[u] = lock[u]
      BY <1>2, RequestType DEF Acquire, TypeOK
    <2>. QED  BY <2>1, <2>2, <2>3, <2>4 DEF LockExclusive
  <1>3. ASSUME NEW r \in Request, Release(r) \/ ReleaseFails(r)
        PROVE  LockExclusive'
    <2>1. InLock(r)
      BY <1>3 DEF Release, ReleaseFails, InLock, LockedStep
    <2>2. lock[Owner(r)] = r
      BY <2>1 DEF LockExclusive
    <2>3. Goto(r, "done") /\ req' = req
      BY <1>3 DEF Release, ReleaseFails
    <2>4. \A q \in Request : InLock(q)' => InLock(q) /\ q # r
      BY <2>3 DEF Goto, InLock, LockedStep, TypeOK
    <2>5. \A q \in Request : Owner(q)' = Owner(q) /\ Owner(q) \in User
      BY <2>3, RequestType DEF Owner
    <2>6. lock' \in {lock, [lock EXCEPT ![Owner(r)] = None]}
      BY <1>3 DEF Release, ReleaseFails
    <2>7. \A u \in User : u # Owner(r) => lock'[u] = lock[u]
      BY <2>6 DEF TypeOK
    <2>8. \A q \in Request : InLock(q)' => Owner(q) # Owner(r)
      BY <2>1, <2>4 DEF LockExclusive
    <2>. QED  BY <2>4, <2>5, <2>7, <2>8 DEF LockExclusive
  <1>4. ASSUME NEW u \in User, CacheExpire(u)
        PROVE  LockExclusive'
    BY <1>4 DEF CacheExpire, LockExclusive, InLock, Owner
  <1>5. ASSUME NEW u \in User, LockExpire(u)
        PROVE  LockExclusive'
    <2>1. lock[u] \in Request /\ pc[lock[u]] = "done"
      BY <1>5, ConstantsType DEF LockExpire, LocksOutlive, TypeOK
    <2>2. \A q \in Request : InLock(q) => Owner(q) # u
      BY <2>1 DEF LockExclusive, InLock, LockedStep
    <2>3. \A q \in Request : (InLock(q)' <=> InLock(q)) /\ Owner(q)' = Owner(q)
      BY <1>5 DEF LockExpire, InLock, Owner
    <2>4. \A v \in User : v # u => lock'[v] = lock[v]
      BY <1>5 DEF LockExpire, TypeOK
    <2>. QED  BY <2>2, <2>3, <2>4, RequestType DEF LockExclusive
  <1>6. CASE Crash
    <2>1. \A q \in Request : InLock(q)' => InLock(q)
      BY <1>6 DEF Crash, InLock, LockedStep, TypeOK
    <2>2. lock' = lock /\ req' = req
      BY <1>6 DEF Crash
    <2>. QED  BY <2>1, <2>2 DEF LockExclusive, Owner
  <1>7. CASE UNCHANGED vars
    BY <1>7 DEF vars, LockExclusive, InLock, Owner
  <1>8. ASSUME NEW t \in Task, Work(t)
        PROVE  LockExclusive'
    BY <1>8, WorkFrame DEF LockExclusive, InLock, Owner
  <1>. QED
    BY <1>1, <1>2, <1>3, <1>4, <1>5, <1>6, <1>7, <1>8 DEF Next, Terminated

\* redlock.service.ts: as long as no lock expires under its holder, at most
\* one request of a user is inside executeWithLock, whatever fails, times
\* out or crashes.
THEOREM MutualExclusion ==
    ASSUME LocksOutlive
    PROVE  Spec => []LockExclusive
  <1>1. Init => LockExclusive
    BY DEF Init, LockExclusive, InLock, LockedStep
  <1>2. TypeOK /\ LockExclusive /\ [Next]_vars => LockExclusive'
    BY LockStep
  <1>. QED  BY <1>1, <1>2, TypeCorrect, PTL DEF Spec

-----------------------------------------------------------------------------
(***************************************************************************)
(* What the caller is told.                                                *)
(***************************************************************************)

\* The answer of a request is decided by what it committed.
Decided ==
    \A r \in Request :
        /\ pc[r] = "cache" => r \in booked
        /\ pc[r] = "unlock" => r \in booked \/ outcome[r] = "failed"
        /\ outcome[r] = "ok" /\ req[r].op # "read" => r \in booked

LEMMA FlowEnds ==
    ASSUME NEW op \in AllOps, NEW s \in Steps(op),
           s \notin {"miss", "fill", "unlock", "done"}
    PROVE  /\ Flow(op)[s] = "unlock" => s \in {"commit", "cache"}
           /\ Flow(op)[s] = "cache" => s = "update"
  <1>1. CASE op = "deposit"
    BY <1>1 DEF Steps, Flow, DepositFlow
  <1>2. CASE op = "withdraw"
    BY <1>2 DEF Steps, Flow, WithdrawFlow
  <1>3. CASE op = "consume"
    BY <1>3 DEF Steps, Flow, ConsumeFlow
  <1>4. CASE op = "grant"
    BY <1>4 DEF Steps, Flow, GrantFlow
  <1>5. CASE op = "increase"
    BY <1>5 DEF Steps, Flow, IncreaseFlow
  <1>6. CASE op = "read"
    BY <1>6 DEF Steps, Flow, ReadFlow
  <1>. QED  BY <1>1, <1>2, <1>3, <1>4, <1>5, <1>6 DEF AllOps

LEMMA AfterEnds ==
    ASSUME TypeOK, NEW r \in Request,
           pc[r] \notin {"miss", "fill", "unlock", "done"}
    PROVE  /\ After(r, pc[r]) = "unlock" => pc[r] \in {"commit", "cache"}
           /\ After(r, pc[r]) = "cache" => pc[r] = "update"
  BY RequestType, FlowEnds DEF After

\* One step of r keeps Decided when it books r if it must.
LEMMA DecidedGoto ==
    ASSUME TypeOK, Decided, NEW r \in Request, NEW s, Goto(r, s),
           UNCHANGED req, booked \subseteq booked',
           \A q \in Request \ {r} : outcome'[q] = outcome[q],
           s = "cache" => r \in booked',
           s = "unlock" => r \in booked' \/ outcome'[r] = "failed",
           outcome'[r] = "ok" /\ req[r].op # "read" => r \in booked'
    PROVE  Decided'
  BY DEF Decided, Goto, TypeOK

LEMMA DecidedFail ==
    ASSUME TypeOK, Decided, NEW r \in Request, Fail(r), UNCHANGED <<req, booked>>
    PROVE  Decided'
  <1>1. Goto(r, IF InLock(r) THEN "unlock" ELSE "done")
    BY DEF Fail
  <1>2. /\ outcome'[r] = "failed"
        /\ \A q \in Request \ {r} : outcome'[q] = outcome[q]
    BY DEF Fail, TypeOK
  <1>. QED  BY <1>1, <1>2, DecidedGoto

LEMMA DecidedChecked ==
    ASSUME TypeOK, Decided, NEW r \in Request, NEW b, Checked(r, b),
           pc[r] \in {"balance", "fill"}, UNCHANGED <<req, booked>>
    PROVE  Decided'
  <1>1. CASE Insufficient(r, b)
    BY <1>1, DecidedFail DEF Checked
  <1>2. CASE ~Insufficient(r, b)
    <2>1. /\ Goto(r, After(r, "balance"))
          /\ outcome' = [outcome EXCEPT
                 ![r] = IF req[r].op = "read" THEN "ok" ELSE @]
      BY <1>2 DEF Checked
    <2>2. "balance" \in Steps(req[r].op)
      BY RequestType, StepFacts
    <2>3. After(r, "balance") \notin {"unlock", "cache"}
      BY <2>2, RequestType, FlowEnds DEF After
    <2>4. /\ \A q \in Request \ {r} : outcome'[q] = outcome[q]
          /\ req[r].op # "read" => outcome'[r] = outcome[r]
      BY <2>1 DEF TypeOK
    <2>5. outcome'[r] = "ok" /\ req[r].op # "read" => r \in booked'
      BY <2>4 DEF Decided
    <2>. QED  BY <2>1, <2>3, <2>4, <2>5, DecidedGoto
  <1>. QED  BY <1>1, <1>2

LEMMA DecidedStep ==
    ASSUME TypeOK, Decided, [Next]_vars
    PROVE  Decided'
  <1>1. ASSUME NEW r \in Request,
               Arrive(r) \/ ReadRow(r) \/ BeginTxn(r) \/ WriteBalance(r)
                 \/ Publish(r) \/ Acquire(r)
        PROVE  Decided'
    <2>1. /\ Goto(r, After(r, pc[r])) /\ UNCHANGED <<req, booked, outcome>>
          /\ pc[r] \in {"start", "row", "begin", "write", "publish", "lock"}
      BY <1>1 DEF Arrive, ReadRow, BeginTxn, WriteBalance, Publish, Acquire
    <2>2. After(r, pc[r]) \notin {"unlock", "cache"}
      BY <2>1, AfterEnds
    <2>3. outcome[r] = "ok" /\ req[r].op # "read" => r \in booked
      BY DEF Decided
    <2>. QED  BY <2>1, <2>2, <2>3, DecidedGoto
  <1>2. ASSUME NEW r \in Request,
               Throw(r) \/ AcquireTimeout(r) \/ Rollback(r)
        PROVE  Decided'
    BY <1>2, DecidedFail DEF Throw, AcquireTimeout, Rollback
  <1>3. ASSUME NEW r \in Request, ReadCache(r)
        PROVE  Decided'
    <2>1. CASE cache[Owner(r)] = None
      BY <1>3, <2>1 DEF ReadCache, Decided, Goto, TypeOK
    <2>2. CASE cache[Owner(r)] # None
      BY <1>3, <2>2, DecidedChecked DEF ReadCache
    <2>. QED  BY <2>1, <2>2
  <1>4. ASSUME NEW r \in Request, ReadMissed(r)
        PROVE  Decided'
    BY <1>4 DEF ReadMissed, Decided, Goto, TypeOK
  <1>5. ASSUME NEW r \in Request, FillCache(r)
        PROVE  Decided'
    BY <1>5, DecidedChecked DEF FillCache
  <1>6. ASSUME NEW r \in Request, Commit(r) \/ UpdateBalance(r)
        PROVE  Decided'
    <2>1. /\ \E s : Goto(r, s)
          /\ UNCHANGED req /\ booked' = booked \cup {r}
          /\ outcome' = outcome \/ Unsure(r)
      BY <1>6 DEF Commit, UpdateBalance
    <2>2. \A q \in Request \ {r} : outcome'[q] = outcome[q]
      BY <2>1 DEF Unsure, TypeOK
    <2>. QED  BY <2>1, <2>2, DecidedGoto
  <1>7. ASSUME NEW r \in Request, CacheBalance(r)
        PROVE  Decided'
    <2>1. /\ Goto(r, After(r, pc[r])) /\ UNCHANGED <<req, outcome, booked>>
          /\ r \in booked
      BY <1>7 DEF CacheBalance, Decided
    <2>. QED  BY <2>1, DecidedGoto
  <1>8. ASSUME NEW r \in Request, Release(r) \/ ReleaseFails(r)
        PROVE  Decided'
    <2>1. /\ Goto(r, "done") /\ UNCHANGED <<req, booked>>
          /\ r \in booked \/ outcome[r] = "failed"
      BY <1>8 DEF Release, ReleaseFails, Decided
    <2>2. CASE Release(r)
      <3>1. /\ \A q \in Request \ {r} : outcome'[q] = outcome[q]
            /\ outcome[r] = "failed" => outcome'[r] = "failed"
        BY <2>2 DEF Release, TypeOK
      <3>. QED  BY <2>1, <3>1, DecidedGoto
    <2>3. CASE ReleaseFails(r)
      <3>1. /\ \A q \in Request \ {r} : outcome'[q] = outcome[q]
            /\ outcome'[r] = "unsure"
        BY <2>3 DEF ReleaseFails, Unsure, TypeOK
      <3>. QED  BY <2>1, <3>1, DecidedGoto
    <2>. QED  BY <1>8, <2>2, <2>3
  <1>9. ASSUME NEW u \in User, CacheExpire(u) \/ LockExpire(u)
        PROVE  Decided'
    BY <1>9 DEF CacheExpire, LockExpire, Decided
  <1>10. CASE Crash
    BY <1>10 DEF Crash, Decided, TypeOK
  <1>11. CASE UNCHANGED vars
    BY <1>11 DEF vars, Decided
  <1>12. ASSUME NEW t \in Task, Work(t)
         PROVE  Decided'
    BY <1>12, WorkFrame DEF Decided
  <1>. QED
    BY <1>1, <1>2, <1>3, <1>4, <1>5, <1>6, <1>7, <1>8, <1>9, <1>10, <1>11,
       <1>12
       DEF Next, Step, Serve, Terminated

\* A request is only ever told "ok" when its effect is committed, for every
\* fault, including locks that expire under their holders.
THEOREM DurableSuccess == Spec => []SuccessIsDurable
  <1>1. Init => Decided
    BY DEF Init, Decided
  <1>2. TypeOK /\ Decided /\ [Next]_vars => Decided'
    BY DecidedStep
  <1>3. Decided => SuccessIsDurable
    BY DEF Decided, SuccessIsDurable
  <1>. QED  BY <1>1, <1>2, <1>3, TypeCorrect, PTL DEF Spec
-----------------------------------------------------------------------------
(***************************************************************************)
(* A failure is told only of a request without effect.                     *)
(***************************************************************************)
\* A request that has booked was not failed, and has not yet to book.
Truthful ==
    \A r \in Request :
        /\ pc[r] \notin {"cache", "unlock", "done"}
              => r \notin booked /\ outcome[r] # "failed"
        /\ r \in booked => outcome[r] # "failed"

\* What follows the steps that book, and a message.
LEMMA FlowBooks ==
    ASSUME NEW op \in AllOps
    PROVE  /\ "commit" \in Steps(op) => Flow(op)["commit"] = "unlock"
           /\ "update" \in Steps(op) => Flow(op)["update"] = "cache"
           /\ "cache" \in Steps(op) => Flow(op)["cache"] = "unlock"
           /\ "publish" \in Steps(op) => Flow(op)["publish"] = "commit"
  <1>1. CASE op = "deposit"   BY <1>1 DEF Steps, Flow, DepositFlow
  <1>2. CASE op = "withdraw"  BY <1>2 DEF Steps, Flow, WithdrawFlow
  <1>3. CASE op = "consume"   BY <1>3 DEF Steps, Flow, ConsumeFlow
  <1>4. CASE op = "grant"     BY <1>4 DEF Steps, Flow, GrantFlow
  <1>5. CASE op = "increase"  BY <1>5 DEF Steps, Flow, IncreaseFlow
  <1>6. CASE op = "read"      BY <1>6 DEF Steps, Flow, ReadFlow
  <1>. QED  BY <1>1, <1>2, <1>3, <1>4, <1>5, <1>6 DEF AllOps

\* One step of r keeps Truthful when it tells the truth about r.
LEMMA TruthfulGoto ==
    ASSUME TypeOK, Truthful, NEW r \in Request, NEW s, Goto(r, s),
           booked' \subseteq booked \cup {r},
           \A q \in Request \ {r} : outcome'[q] = outcome[q],
           s \notin {"cache", "unlock", "done"}
              => r \notin booked' /\ outcome'[r] # "failed",
           r \in booked' => outcome'[r] # "failed"
    PROVE  Truthful'
  <1>1. /\ pc'[r] = s
        /\ \A q \in Request \ {r} : pc'[q] = pc[q]
    BY DEF Goto, TypeOK
  <1>. QED  BY <1>1 DEF Truthful

LEMMA TruthfulFail ==
    ASSUME TypeOK, Truthful, NEW r \in Request, Fail(r), UNCHANGED booked,
           pc[r] \notin {"cache", "unlock", "done"}
    PROVE  Truthful'
  <1>1. Goto(r, IF InLock(r) THEN "unlock" ELSE "done")
    BY DEF Fail
  <1>2. \A q \in Request \ {r} : outcome'[q] = outcome[q]
    BY DEF Fail, TypeOK
  <1>3. r \notin booked'
    BY DEF Truthful
  <1>. QED  BY <1>1, <1>2, <1>3, TruthfulGoto

LEMMA TruthfulChecked ==
    ASSUME TypeOK, Truthful, NEW r \in Request, NEW b, Checked(r, b),
           pc[r] \in {"balance", "fill"}, UNCHANGED booked
    PROVE  Truthful'
  <1>1. CASE Insufficient(r, b)
    BY <1>1, TruthfulFail DEF Checked
  <1>2. CASE ~Insufficient(r, b)
    <2>1. /\ Goto(r, After(r, "balance"))
          /\ outcome' = [outcome EXCEPT
                 ![r] = IF req[r].op = "read" THEN "ok" ELSE @]
      BY <1>2 DEF Checked
    <2>2. /\ \A q \in Request \ {r} : outcome'[q] = outcome[q]
          /\ outcome'[r] \in {"ok", outcome[r]}
      BY <2>1 DEF TypeOK
    <2>3. r \notin booked' /\ outcome[r] # "failed"
      BY DEF Truthful
    <2>. QED  BY <2>1, <2>2, <2>3, TruthfulGoto
  <1>. QED  BY <1>1, <1>2

LEMMA TruthfulStep ==
    ASSUME TypeOK, Truthful, [Next]_vars
    PROVE  Truthful'
  <1>1. ASSUME NEW r \in Request,
               Arrive(r) \/ ReadRow(r) \/ BeginTxn(r) \/ WriteBalance(r)
                 \/ Publish(r) \/ Acquire(r)
        PROVE  Truthful'
    <2>1. /\ Goto(r, After(r, pc[r])) /\ UNCHANGED <<booked, outcome>>
          /\ pc[r] \in {"start", "row", "begin", "write", "publish", "lock"}
      BY <1>1 DEF Arrive, ReadRow, BeginTxn, WriteBalance, Publish, Acquire
    <2>2. r \notin booked /\ outcome[r] # "failed"
      BY <2>1 DEF Truthful
    <2>. QED  BY <2>1, <2>2, TruthfulGoto
  <1>2. ASSUME NEW r \in Request,
               Throw(r) \/ AcquireTimeout(r) \/ Rollback(r)
        PROVE  Truthful'
    BY <1>2, TruthfulFail DEF Throw, AcquireTimeout, Rollback
  <1>3. ASSUME NEW r \in Request, ReadCache(r)
        PROVE  Truthful'
    <2>1. CASE cache[Owner(r)] = None
      <3>1. Goto(r, "miss") /\ UNCHANGED <<booked, outcome>>
        BY <1>3, <2>1 DEF ReadCache
      <3>2. r \notin booked /\ outcome[r] # "failed"
        BY <1>3 DEF ReadCache, Truthful
      <3>. QED  BY <3>1, <3>2, TruthfulGoto
    <2>2. CASE cache[Owner(r)] # None
      BY <1>3, <2>2, TruthfulChecked DEF ReadCache
    <2>. QED  BY <2>1, <2>2
  <1>4. ASSUME NEW r \in Request, ReadMissed(r)
        PROVE  Truthful'
    <2>1. Goto(r, "fill") /\ UNCHANGED <<booked, outcome>>
      BY <1>4 DEF ReadMissed
    <2>2. r \notin booked /\ outcome[r] # "failed"
      BY <1>4 DEF ReadMissed, Truthful
    <2>. QED  BY <2>1, <2>2, TruthfulGoto
  <1>5. ASSUME NEW r \in Request, FillCache(r)
        PROVE  Truthful'
    BY <1>5, TruthfulChecked DEF FillCache
  <1>6. ASSUME NEW r \in Request, Commit(r) \/ UpdateBalance(r)
        PROVE  Truthful'
    <2>1. /\ Goto(r, After(r, pc[r])) \/ Goto(r, "unlock")
          /\ outcome' = outcome \/ Unsure(r)
          /\ booked' = booked \cup {r} /\ pc[r] \in {"commit", "update"}
      BY <1>6 DEF Commit, UpdateBalance
    <2>2. After(r, pc[r]) \in {"unlock", "cache"}
      BY <2>1, RequestType, FlowBooks DEF After
    <2>3. /\ \A q \in Request \ {r} : outcome'[q] = outcome[q]
          /\ outcome'[r] \in {outcome[r], "unsure"}
      BY <2>1 DEF Unsure, TypeOK
    <2>4. outcome[r] # "failed"
      BY <2>1 DEF Truthful
    <2>. QED  BY <2>1, <2>2, <2>3, <2>4, TruthfulGoto
  <1>7. ASSUME NEW r \in Request, CacheBalance(r)
        PROVE  Truthful'
    <2>1. /\ Goto(r, After(r, pc[r])) /\ UNCHANGED <<outcome, booked>>
          /\ pc[r] = "cache"
      BY <1>7 DEF CacheBalance
    <2>2. After(r, pc[r]) = "unlock"
      BY <2>1, RequestType, FlowBooks DEF After
    <2>3. r \in booked => outcome[r] # "failed"
      BY DEF Truthful
    <2>. QED  BY <2>1, <2>2, <2>3, TruthfulGoto
  <1>8. ASSUME NEW r \in Request, Release(r) \/ ReleaseFails(r)
        PROVE  Truthful'
    <2>1. Goto(r, "done") /\ UNCHANGED booked
      BY <1>8 DEF Release, ReleaseFails
    <2>2. /\ \A q \in Request \ {r} : outcome'[q] = outcome[q]
          /\ outcome[r] # "failed" => outcome'[r] # "failed"
      BY <1>8 DEF Release, ReleaseFails, Unsure, TypeOK
    <2>3. r \in booked => outcome[r] # "failed"
      BY DEF Truthful
    <2>. QED  BY <2>1, <2>2, <2>3, TruthfulGoto
  <1>9. ASSUME NEW u \in User, CacheExpire(u) \/ LockExpire(u)
        PROVE  Truthful'
    BY <1>9 DEF CacheExpire, LockExpire, Truthful
  <1>10. CASE Crash
    <2>1. \A r \in Request :
              \/ pc'[r] = "done" /\ outcome'[r] = "unsure"
              \/ pc'[r] = pc[r] /\ outcome'[r] = outcome[r]
      BY <1>10 DEF Crash, TypeOK
    <2>2. booked' = booked
      BY <1>10 DEF Crash
    <2>. QED  BY <2>1, <2>2 DEF Truthful
  <1>11. CASE UNCHANGED vars
    BY <1>11 DEF vars, Truthful
  <1>12. ASSUME NEW t \in Task, Work(t)
         PROVE  Truthful'
    BY <1>12, WorkFrame DEF Truthful
  <1>. QED
    BY <1>1, <1>2, <1>3, <1>4, <1>5, <1>6, <1>7, <1>8, <1>9, <1>10, <1>11,
       <1>12
       DEF Next, Step, Serve, Terminated

\* A request that is told it failed has no effect, for all operations and
\* every fault: failing commits and caches, lost messages, expiring locks,
\* crashes.  The errors that say nothing of the effect are the others: a
\* release that throws, an answer of the database that is lost, the end of
\* the server.
THEOREM FailuresHaveNoEffect == Spec => []FailureHasNoEffect
  <1>1. Init => Truthful
    BY DEF Init, Truthful
  <1>2. TypeOK /\ Truthful /\ [Next]_vars => Truthful'
    BY TruthfulStep
  <1>3. Truthful => FailureHasNoEffect
    BY DEF Truthful, FailureHasNoEffect
  <1>. QED  BY <1>1, <1>2, <1>3, TypeCorrect, PTL DEF Spec

-----------------------------------------------------------------------------
(***************************************************************************)
(* A message is about a row.                                               *)
(***************************************************************************)
CommitsWork == Faults \cap {"commit", "crash"} = {}

\* Between its message and its row a request has only its commit to do.
LEMMA SentStep ==
    ASSUME CommitsWork, TypeOK, SentIsBooked, [Next]_vars
    PROVE  SentIsBooked'
  <1>1. ASSUME NEW r \in Request, pc[r] # "commit", UNCHANGED <<sent, booked>>,
               \A q \in Request \ {r} : pc'[q] = pc[q]
        PROVE  SentIsBooked'
    BY <1>1 DEF SentIsBooked, TypeOK
  <1>2. ASSUME NEW r \in Request, Publish(r)
        PROVE  SentIsBooked'
    <2>1. /\ pc[r] = "publish" /\ Goto(r, After(r, "publish"))
          /\ sent' \subseteq sent \cup {r} /\ UNCHANGED booked
      BY <1>2 DEF Publish
    <2>2. After(r, "publish") = "commit"
      BY <2>1, RequestType, FlowBooks DEF After
    <2>3. \A q \in Request : pc[q] = "commit" \/ q = r => pc'[q] = "commit"
      BY <2>1, <2>2 DEF Goto, TypeOK
    <2>. QED  BY <2>1, <2>3 DEF SentIsBooked, TypeOK
  <1>3. ASSUME NEW r \in Request, Commit(r) \/ UpdateBalance(r)
        PROVE  SentIsBooked'
    <2>1. /\ booked' = booked \cup {r} /\ UNCHANGED sent
          /\ \A q \in Request \ {r} : pc'[q] = pc[q]
      BY <1>3 DEF Commit, UpdateBalance, Goto, TypeOK
    <2>. QED  BY <2>1 DEF SentIsBooked, TypeOK
  <1>4. ASSUME NEW r \in Request, Step(r), ~Publish(r), ~Commit(r),
               ~UpdateBalance(r)
        PROVE  SentIsBooked'
    <2>1. ASSUME NEW b, Checked(r, b)
          PROVE  \A q \in Request \ {r} : pc'[q] = pc[q]
      BY <2>1 DEF Checked, Fail, Goto, TypeOK
    <2>2. ~Rollback(r)
      BY DEF Rollback, CommitsWork
    <2>3. /\ pc[r] # "commit" /\ UNCHANGED <<sent, booked>>
          /\ \A q \in Request \ {r} : pc'[q] = pc[q]
      <3>1. CASE ReadCache(r) \/ FillCache(r)
        BY <3>1, <2>1 DEF ReadCache, FillCache, Goto, TypeOK
      <3>2. CASE Arrive(r) \/ Acquire(r) \/ ReadRow(r) \/ ReadMissed(r)
                   \/ BeginTxn(r) \/ WriteBalance(r) \/ CacheBalance(r)
                   \/ Release(r) \/ ReleaseFails(r)
        BY <3>2 DEF Arrive, Acquire, ReadRow, ReadMissed, BeginTxn,
                    WriteBalance, CacheBalance, Release, ReleaseFails, Goto,
                    TypeOK
      <3>3. CASE Throw(r) \/ AcquireTimeout(r)
        BY <3>3 DEF Throw, AcquireTimeout, Fail, Goto, TypeOK
      <3>. QED  BY <1>4, <2>2, <3>1, <3>2, <3>3 DEF Step, Serve
    <2>. QED  BY <1>1, <2>3
  <1>5. ASSUME NEW u \in User, CacheExpire(u) \/ LockExpire(u)
        PROVE  SentIsBooked'
    BY <1>5 DEF CacheExpire, LockExpire, SentIsBooked
  <1>6. ~Crash
    BY DEF Crash, CommitsWork
  <1>7. CASE UNCHANGED vars
    BY <1>7 DEF vars, SentIsBooked
  <1>8. ASSUME NEW t \in Task, Work(t)
        PROVE  SentIsBooked'
    BY <1>8, WorkFrame DEF SentIsBooked
  <1>. QED
    BY <1>2, <1>3, <1>4, <1>5, <1>6, <1>7, <1>8 DEF Next, Terminated

\* While commits work and the server does not stop, no swap message is left
\* without its row: not by lost messages, failing caches or expiring locks.
THEOREM MessagesAreBooked ==
    ASSUME CommitsWork
    PROVE  Spec => []SentIsBooked
  <1>1. Init => SentIsBooked
    BY DEF Init, SentIsBooked
  <1>2. TypeOK /\ SentIsBooked /\ [Next]_vars => SentIsBooked'
    BY SentStep
  <1>. QED  BY <1>1, <1>2, TypeCorrect, PTL DEF Spec
-----------------------------------------------------------------------------
(***************************************************************************)
(* Deposits, withdrawals and readers implement the exact ledger under      *)
(* every fault but the expiry of a held lock.                              *)
(***************************************************************************)
DebitsOnly == Ops \subseteq {"deposit", "withdraw", "read"}

\* A deposit past its read of the row still sees what is committed; no
\* request books twice.
ExactInv ==
    \A r \in Request :
        /\ req[r].op = "deposit" /\ pc[r] \in {"write", "publish", "commit"}
             => row[r] = db[Owner(r)]
        /\ r \in booked => pc[r] \in {"unlock", "done"}

LEMMA DebitSteps ==
    ASSUME DebitsOnly, TypeOK, NEW r \in Request
    PROVE  /\ req[r].op \in {"deposit", "withdraw", "read"}
           /\ pc[r] \in {"write", "row"} => req[r].op = "deposit"
           /\ pc[r] \notin {"update", "cache"}
           /\ pc[r] \in {"publish", "commit"}
                => req[r].op \in {"deposit", "withdraw"}
           /\ pc[r] = "row" => After(r, "row") = "write"
           /\ pc[r] = "write" => After(r, "write") = "publish"
           /\ pc[r] = "publish" => After(r, "publish") = "commit"
           /\ pc[r] = "commit" => After(r, "commit") = "unlock"
           /\ pc[r] \in {"start", "lock", "begin"} /\ req[r].op = "deposit"
                => After(r, pc[r]) \notin {"write", "publish", "commit"}
           /\ pc[r] \in {"balance", "fill"} /\ req[r].op = "deposit"
                => After(r, "balance") \notin {"write", "publish", "commit"}
  <1>1. req[r].op \in {"deposit", "withdraw", "read"}
        /\ pc[r] \in Steps(req[r].op)
    BY RequestType DEF DebitsOnly, TypeOK
  <1>2. CASE req[r].op = "deposit"
    BY <1>1, <1>2 DEF Steps, After, Flow, DepositFlow
  <1>3. CASE req[r].op = "withdraw"
    BY <1>1, <1>3 DEF Steps, After, Flow, WithdrawFlow
  <1>4. CASE req[r].op = "read"
    BY <1>1, <1>4 DEF Steps, After, Flow, ReadFlow
  <1>. QED  BY <1>1, <1>2, <1>3, <1>4

\* Steps that neither write the database nor reach the write of a deposit.
LEMMA ExactGoto ==
    ASSUME TypeOK, ExactInv, NEW r \in Request, r \notin booked,
           NEW s, Goto(r, s), UNCHANGED <<req, row, db, booked>>,
           \/ req[r].op # "deposit" \/ s \notin {"write", "publish", "commit"}
           \/ pc[r] \in {"write", "publish", "commit"}
    PROVE  ExactInv'
  BY DEF ExactInv, Goto, TypeOK, Owner

LEMMA ExactFail ==
    ASSUME TypeOK, ExactInv, NEW r \in Request, Fail(r),
           UNCHANGED <<req, row, db, booked>>
    PROVE  ExactInv'
  <1>1. Goto(r, IF InLock(r) THEN "unlock" ELSE "done")
    BY DEF Fail
  <1>. QED  BY <1>1 DEF ExactInv, Goto, TypeOK, Owner

LEMMA ExactChecked ==
    ASSUME DebitsOnly, TypeOK, ExactInv, NEW r \in Request, NEW b,
           Checked(r, b), pc[r] \in {"balance", "fill"},
           UNCHANGED <<req, row, db, booked>>
    PROVE  ExactInv'
  <1>1. CASE Insufficient(r, b)
    BY <1>1, ExactFail DEF Checked
  <1>2. CASE ~Insufficient(r, b)
    <2>1. Goto(r, After(r, "balance"))
      BY <1>2 DEF Checked
    <2>2. r \notin booked
      BY DEF ExactInv
    <2>. QED  BY <2>1, <2>2, DebitSteps, ExactGoto
  <1>. QED  BY <1>1, <1>2

\* A commit is one Apply of the ledger, anything else leaves it alone.
LEMMA ExactStep ==
    ASSUME DebitsOnly, TypeOK, LockExclusive, ExactInv, [Next]_vars
    PROVE  ExactInv' /\ [Exact!Next]_(Exact!vars)
  <1>. DEFINE Stutter == UNCHANGED <<req, db, booked>>
  <1>0. Stutter => [Exact!Next]_(Exact!vars)
    BY DEF Exact!vars, OwnerMap, DeltaMap, Owner, Delta
  <1>1. ASSUME NEW r \in Request,
               Arrive(r) \/ BeginTxn(r) \/ WriteBalance(r) \/ Publish(r)
                 \/ Acquire(r)
        PROVE  ExactInv' /\ Stutter
    <2>1. /\ Goto(r, After(r, pc[r])) /\ UNCHANGED <<req, row, db, booked>>
          /\ pc[r] \in {"start", "begin", "write", "publish", "lock"}
      BY <1>1 DEF Arrive, BeginTxn, WriteBalance, Publish, Acquire
    <2>2. r \notin booked
      BY <2>1 DEF ExactInv
    <2>3. \/ req[r].op # "deposit"
          \/ After(r, pc[r]) \notin {"write", "publish", "commit"}
          \/ pc[r] \in {"write", "publish", "commit"}
      BY <2>1, DebitSteps
    <2>. QED  BY <2>1, <2>2, <2>3, ExactGoto
  <1>2. ASSUME NEW r \in Request,
               Throw(r) \/ AcquireTimeout(r) \/ Rollback(r)
        PROVE  ExactInv' /\ Stutter
    BY <1>2, ExactFail DEF Throw, AcquireTimeout, Rollback
  <1>3. ASSUME NEW r \in Request, ReadRow(r)
        PROVE  ExactInv' /\ Stutter
    BY <1>3, DebitSteps DEF ReadRow, ExactInv, Goto, TypeOK, Owner
  <1>4. ASSUME NEW r \in Request, ReadCache(r) \/ ReadMissed(r) \/ FillCache(r)
        PROVE  ExactInv' /\ Stutter
    <2>1. UNCHANGED <<req, row, db, booked>>
      BY <1>4 DEF ReadCache, ReadMissed, FillCache
    <2>2. r \notin booked /\ pc[r] \in {"balance", "miss", "fill"}
      BY <1>4 DEF ReadCache, ReadMissed, FillCache, ExactInv
    <2>3. CASE \E b : Checked(r, b) /\ pc[r] \in {"balance", "fill"}
      BY <2>1, <2>3, ExactChecked
    <2>4. CASE Goto(r, "miss") \/ Goto(r, "fill")
      BY <2>1, <2>2, <2>4, ExactGoto
    <2>. QED  BY <1>4, <2>1, <2>3, <2>4 DEF ReadCache, ReadMissed, FillCache
  <1>5. ASSUME NEW r \in Request, Commit(r)
        PROVE  ExactInv' /\ [Exact!Next]_(Exact!vars)
    <2>1. InLock(r) /\ r \notin booked
      BY <1>5 DEF Commit, InLock, LockedStep, ExactInv
    <2>2. req[r].op \in {"deposit", "withdraw"} /\ Owner(r) \in User
      BY <1>5, DebitSteps, RequestType DEF Commit
    <2>3. db' = [db EXCEPT ![Owner(r)] = @ + Delta(r)]
      <3>1. CASE req[r].op = "deposit"
        BY <1>5, <3>1 DEF Commit, WritesRow, ExactInv
      <3>2. CASE req[r].op = "withdraw"
        BY <1>5, <2>2, <3>2 DEF Commit, WritesRow, Delta, TypeOK
      <3>. QED  BY <2>2, <3>1, <3>2
    <2>4. \A q \in Request \ {r} : InLock(q) => db'[Owner(q)] = db[Owner(q)]
      BY <2>1, <2>3, RequestType DEF LockExclusive, TypeOK
    <2>5. ExactInv'
      <3>1. /\ \A q \in Request \ {r} : pc'[q] = pc[q]
            /\ pc'[r] = "unlock"
            /\ row' = row /\ req' = req /\ booked' = booked \cup {r}
        BY <1>5, DebitSteps DEF Commit, Goto, TypeOK
      <3>2. \A q \in Request :
                pc[q] \in {"write", "publish", "commit"} => InLock(q)
        BY DEF InLock, LockedStep
      <3>. QED  BY <2>4, <3>1, <3>2 DEF ExactInv, Owner
    <2>6. Exact!Apply(r)
      <3>1. OwnerMap[r] = Owner(r) /\ DeltaMap[r] = Delta(r)
        BY DEF OwnerMap, DeltaMap
      <3>2. OwnerMap' = OwnerMap /\ DeltaMap' = DeltaMap
        BY <1>5 DEF Commit, OwnerMap, DeltaMap, Owner, Delta
      <3>. QED  BY <1>5, <2>1, <2>3, <3>1, <3>2 DEF Exact!Apply, Commit
    <2>. QED  BY <2>5, <2>6 DEF Exact!Next
  <1>6. ASSUME NEW r \in Request, UpdateBalance(r) \/ CacheBalance(r)
        PROVE  FALSE
    BY <1>6, DebitSteps DEF UpdateBalance, CacheBalance
  <1>7. ASSUME NEW r \in Request, Release(r) \/ ReleaseFails(r)
        PROVE  ExactInv' /\ Stutter
    BY <1>7 DEF Release, ReleaseFails, ExactInv, Goto, TypeOK, Owner
  <1>8. ASSUME NEW u \in User, CacheExpire(u) \/ LockExpire(u)
        PROVE  ExactInv' /\ Stutter
    BY <1>8 DEF CacheExpire, LockExpire, ExactInv, Owner
  <1>9. CASE Crash
    <2>1. ExactInv' /\ Stutter
      BY <1>9 DEF Crash, ExactInv, TypeOK, Owner
    <2>. QED  BY <2>1, <1>0
  <1>10. CASE UNCHANGED vars
    <2>1. ExactInv' /\ Stutter
      BY <1>10 DEF vars, ExactInv, Owner
    <2>. QED  BY <2>1, <1>0
  <1>11. ASSUME NEW t \in Task, Work(t)
         PROVE  ExactInv' /\ Stutter
    BY <1>11, WorkFrame DEF ExactInv, Owner
  <1>. QED
    BY <1>0, <1>1, <1>2, <1>3, <1>4, <1>5, <1>6, <1>7, <1>8, <1>9, <1>10,
       <1>11
       DEF Next, Step, Serve, Terminated

LEMMA MapInit == Init => Exact!Init
  <1>. SUFFICES ASSUME Init PROVE Exact!Init
    OBVIOUS
  <1>1. \A r \in Request : /\ req[r].op \in AllOps
                           /\ req[r].amt \in Int
                           /\ req[r].user \in User
    BY ConstantsType DEF Init
  <1>2. \A r \in Request : Delta(r) \in Int /\ Owner(r) \in User
    BY <1>1 DEF Delta, Owner, AllOps
  <1>. QED  BY <1>2 DEF Init, Exact!Init, OwnerMap, DeltaMap

\* Deposits and withdrawals implement the exact ledger while readers fill
\* the cache, Redis and commits fail, messages are lost and the server
\* crashes: the debit of a deposit rests on the row read under the lock,
\* never on the cache.
THEOREM DepositsAreExact ==
    ASSUME LocksOutlive, DebitsOnly
    PROVE  Spec => ExactLedger
  <1>1. Init => ExactInv /\ Exact!Init
    BY MapInit DEF Init, ExactInv
  <1>2. TypeOK /\ LockExclusive /\ ExactInv /\ [Next]_vars
          => ExactInv' /\ [Exact!Next]_(Exact!vars)
    BY ExactStep
  <1>3. Spec => []LockExclusive
    BY MutualExclusion
  <1>. QED
    BY <1>1, <1>2, <1>3, TypeCorrect, PTL DEF Spec, ExactLedger, Exact!Spec
-----------------------------------------------------------------------------
(***************************************************************************)
(* The swap operations alone (deposit, withdraw and the credit of a        *)
(* withdrawal) implement the covered ledger while nothing but the          *)
(* publishing of messages and the release of locks fails.                  *)
(***************************************************************************)
SwapsOnly ==
    /\ Ops \subseteq {"deposit", "withdraw", "increase"}
    /\ Faults \subseteq {"publish", "release"}

\* What a request inside the lock knows of the committed balance.
Knows(r) ==
    /\ req[r].op = "deposit"
       /\ pc[r] \in {"begin", "row", "write", "publish", "commit"}
         => req[r].amt <= db[Owner(r)]
    /\ req[r].op = "deposit" /\ pc[r] \in {"write", "publish", "commit"}
         => row[r] = db[Owner(r)]
    /\ pc[r] \in {"fill", "update"} => bal[r] = db[Owner(r)]
    /\ pc[r] = "cache" => bal[r] + Delta(r) = db[Owner(r)]
    /\ r \in booked => pc[r] \in {"cache", "unlock", "done"}

\* The request that may make Redis and the database differ for a while.
Ahead(r) ==
    \/ req[r].op = "deposit" /\ pc[r] \in {"publish", "commit"}
    \/ pc[r] = "cache"

\* What a deposit put in Redis stays there until its commit, or expires.
Written(r) ==
    req[r].op = "deposit" /\ pc[r] \in {"publish", "commit"}
        => cache[Owner(r)] \in {None, row[r] + Delta(r)}

Coherent(u) ==
    \/ cache[u] \in {None, db[u]}
    \/ \E r \in Request : Owner(r) = u /\ Ahead(r)

CoverInv ==
    /\ \A r \in Request : Knows(r) /\ Written(r)
    /\ \A u \in User : Coherent(u)

LEMMA SwapSteps ==
    ASSUME SwapsOnly, TypeOK, NEW r \in Request
    PROVE  /\ req[r].op \in {"deposit", "withdraw", "increase"}
           /\ pc[r] \in Steps(req[r].op)
           /\ pc[r] \in {"write", "row"} => req[r].op = "deposit"
           /\ pc[r] \in {"update", "cache"} => req[r].op = "increase"
           /\ pc[r] \in {"balance", "miss", "fill"}
                => req[r].op \in {"deposit", "increase"}
           /\ pc[r] \in {"begin", "publish", "commit"}
                => req[r].op \in {"deposit", "withdraw"}
           /\ pc[r] = "start" => After(r, "start") = "lock"
           /\ pc[r] = "lock" => After(r, "lock") \in {"balance", "begin"}
           /\ pc[r] = "lock" /\ req[r].op = "deposit"
                => After(r, "lock") = "balance"
           /\ pc[r] \in {"balance", "fill"}
                => After(r, "balance") = IF req[r].op = "deposit"
                                         THEN "begin" ELSE "update"
           /\ pc[r] = "begin" => After(r, "begin") \in {"row", "publish"}
           /\ pc[r] = "begin" /\ req[r].op = "deposit"
                => After(r, "begin") = "row"
           /\ pc[r] = "row" => After(r, "row") = "write"
           /\ pc[r] = "write" => After(r, "write") = "publish"
           /\ pc[r] = "publish" => After(r, "publish") = "commit"
           /\ pc[r] = "commit" => After(r, "commit") = "unlock"
           /\ pc[r] = "update" => After(r, "update") = "cache"
           /\ pc[r] = "cache" => After(r, "cache") = "unlock"
  <1>1. req[r].op \in {"deposit", "withdraw", "increase"}
        /\ pc[r] \in Steps(req[r].op)
    BY RequestType DEF SwapsOnly, TypeOK
  <1>2. CASE req[r].op = "deposit"
    BY <1>1, <1>2 DEF Steps, After, Flow, DepositFlow
  <1>3. CASE req[r].op = "withdraw"
    BY <1>1, <1>3 DEF Steps, After, Flow, WithdrawFlow
  <1>4. CASE req[r].op = "increase"
    BY <1>1, <1>4 DEF Steps, After, Flow, IncreaseFlow
  <1>. QED  BY <1>1, <1>2, <1>3, <1>4

LEMMA SwapFaults ==
    ASSUME SwapsOnly
    PROVE  /\ "commit" \notin Faults /\ "crash" \notin Faults
           /\ "cacheSet" \notin Faults /\ "answer" \notin Faults
           /\ LocksOutlive
  BY DEF SwapsOnly, LocksOutlive

\* While r works under the lock of its user, no other request is ahead of
\* the database, so Redis has no value or the committed one.
LEMMA AloneIsCoherent ==
    ASSUME SwapsOnly, TypeOK, LockExclusive, CoverInv, NEW r \in Request,
           InLock(r), ~Ahead(r)
    PROVE  cache[Owner(r)] \in {None, db[Owner(r)]}
  <1>1. \A q \in Request : Ahead(q) => InLock(q)
    BY DEF Ahead, InLock, LockedStep
  <1>. QED  BY <1>1, RequestType DEF LockExclusive, CoverInv, Coherent

\* Writing the cache of r's user does not touch what others put there.
LEMMA OthersWritten ==
    ASSUME SwapsOnly, TypeOK, LockExclusive, CoverInv, NEW r \in Request,
           InLock(r), UNCHANGED <<req, row>>,
           \A q \in Request \ {r} : pc'[q] = pc[q],
           \A u \in User : u # Owner(r) => cache'[u] = cache[u]
    PROVE  \A q \in Request \ {r} : Written(q)'
  <1>. SUFFICES ASSUME NEW q \in Request \ {r},
                       req[q].op = "deposit" /\ pc[q] \in {"publish", "commit"}
                PROVE  cache'[Owner(q)] \in {None, row[q] + Delta(q)}
    BY DEF Written, Owner, Delta
  <1>1. InLock(q)
    BY DEF InLock, LockedStep
  <1>2. Owner(q) # Owner(r) /\ Owner(q) \in User
    BY <1>1, RequestType DEF LockExclusive
  <1>. QED  BY <1>2 DEF CoverInv, Written

\* What the others know stays true when r, inside the lock, changes only the
\* balance of its own user.
LEMMA OthersKnow ==
    ASSUME SwapsOnly, TypeOK, LockExclusive, CoverInv, NEW r \in Request,
           InLock(r), UNCHANGED req,
           \A q \in Request \ {r} : /\ pc'[q] = pc[q]
                                    /\ row'[q] = row[q]
                                    /\ bal'[q] = bal[q]
                                    /\ q \in booked' => q \in booked,
           \A u \in User : u # Owner(r) => db'[u] = db[u]
    PROVE  \A q \in Request \ {r} : Knows(q)'
  <1>. SUFFICES ASSUME NEW q \in Request \ {r} PROVE Knows(q)'
    OBVIOUS
  <1>1. Knows(q) /\ Owner(q)' = Owner(q) /\ Delta(q)' = Delta(q)
    BY DEF CoverInv, Owner, Delta
  <1>2. CASE InLock(q)
    <2>1. db'[Owner(q)] = db[Owner(q)]
      BY <1>2, RequestType DEF LockExclusive
    <2>. QED  BY <1>1, <2>1 DEF Knows
  <1>3. CASE ~InLock(q)
    <2>1. pc[q] \notin {"begin", "write", "publish", "commit", "update",
                        "cache"}
      BY <1>3 DEF InLock, LockedStep
    <2>2. pc[q] \notin {"fill", "row"}
      BY <1>3, SwapSteps DEF InLock, LockedStep
    <2>. QED  BY <1>1, <2>1, <2>2 DEF Knows
  <1>. QED  BY <1>2, <1>3

\* A step of r that leaves database and cache alone, and does not leave a
\* step at which r was ahead.
LEMMA QuietGoto ==
    ASSUME SwapsOnly, TypeOK, CoverInv, NEW r \in Request, NEW s, Goto(r, s),
           UNCHANGED <<req, row, db, booked, cache>>,
           \A q \in Request \ {r} : bal'[q] = bal[q],
           Knows(r)', Written(r)', Ahead(r) => Ahead(r)'
    PROVE  CoverInv'
  <1>1. \A q \in Request \ {r} : Knows(q)' /\ (Ahead(q) => Ahead(q)')
    BY ZenonT(60) DEF CoverInv, Knows, Ahead, Goto, TypeOK, Owner, Delta
  <1>4. \A q \in Request \ {r} : Written(q)'
    BY DEF CoverInv, Written, Goto, TypeOK, Owner, Delta
  <1>2. \A q \in Request : Owner(q)' = Owner(q)
    BY DEF Owner
  <1>3. \A u \in User : Coherent(u)'
    BY <1>1, <1>2 DEF CoverInv, Coherent
  <1>. QED  BY <1>1, <1>3, <1>4 DEF CoverInv

LEMMA QuietFail ==
    ASSUME SwapsOnly, TypeOK, CoverInv, NEW r \in Request, Fail(r), ~Ahead(r),
           UNCHANGED <<req, row, db, booked, cache>>,
           \A q \in Request \ {r} : bal'[q] = bal[q]
    PROVE  CoverInv'
  <1>1. Goto(r, IF InLock(r) THEN "unlock" ELSE "done")
    BY DEF Fail
  <1>2. Knows(r)' /\ Written(r)'
    BY <1>1 DEF Knows, Written, Goto, TypeOK
  <1>. QED  BY <1>1, <1>2, QuietGoto

\* getPointBalance under the lock returned the committed balance.
LEMMA CheckedKnows ==
    ASSUME SwapsOnly, TypeOK, CoverInv, NEW r \in Request,
           pc[r] \in {"balance", "fill"}, NEW b, b = db[Owner(r)],
           Checked(r, b), UNCHANGED <<req, row, db, booked>>,
           bal'[r] = b
    PROVE  Knows(r)' /\ Written(r)'
  <1>0. Owner(r) \in User /\ db[Owner(r)] \in Int /\ req[r].amt \in Int
        /\ Owner(r)' = Owner(r) /\ r \notin booked
    BY RequestType DEF TypeOK, Owner, CoverInv, Knows
  <1>1. CASE Insufficient(r, b)
    <2>1. Goto(r, IF InLock(r) THEN "unlock" ELSE "done")
      BY <1>1 DEF Checked, Fail
    <2>. QED  BY <1>0, <2>1 DEF Knows, Written, Goto, TypeOK
  <1>2. CASE ~Insufficient(r, b)
    <2>1. Goto(r, IF req[r].op = "deposit" THEN "begin" ELSE "update")
      BY <1>2, SwapSteps DEF Checked
    <2>2. req[r].op = "deposit" => req[r].amt <= db[Owner(r)]
      BY <1>0, <1>2 DEF Insufficient
    <2>. QED  BY <1>0, <2>1, <2>2 DEF Knows, Written, Goto, TypeOK
  <1>. QED  BY <1>1, <1>2

\* The step that changes a balance is one Apply of the covered ledger.
LEMMA ApplyStep ==
    ASSUME TypeOK, NEW r \in Request, r \notin booked, UNCHANGED req,
           db' = [db EXCEPT ![Owner(r)] = @ + Delta(r)],
           booked' = booked \cup {r},
           Delta(r) >= 0 \/ db[Owner(r)] + Delta(r) >= 0
    PROVE  Covering!Apply(r)
  <1>1. OwnerMap[r] = Owner(r) /\ DeltaMap[r] = Delta(r)
    BY DEF OwnerMap, DeltaMap
  <1>2. OwnerMap' = OwnerMap /\ DeltaMap' = DeltaMap
    BY DEF OwnerMap, DeltaMap, Owner, Delta
  <1>. QED  BY <1>1, <1>2 DEF Covering!Apply, Covering!Covered

LEMMA CoverStep ==
    ASSUME SwapsOnly, TypeOK, LockExclusive, CoverInv, [Next]_vars
    PROVE  CoverInv' /\ [Covering!Next]_(Covering!vars)
  <1>. DEFINE Stutter == UNCHANGED <<req, db, booked>>
  <1>0. Stutter => [Covering!Next]_(Covering!vars)
    BY DEF Covering!vars, OwnerMap, DeltaMap, Owner, Delta
  <1>1. ASSUME NEW r \in Request, Arrive(r) \/ Acquire(r)
        PROVE  CoverInv' /\ Stutter
    <2>1. /\ Goto(r, After(r, pc[r])) /\ pc[r] \in {"start", "lock"}
          /\ UNCHANGED <<req, row, bal, db, booked, cache>>
      BY <1>1 DEF Arrive, Acquire
    <2>2. Knows(r)' /\ Written(r)' /\ ~Ahead(r)
      BY <2>1, SwapSteps DEF Knows, Written, Ahead, Goto, TypeOK, CoverInv
    <2>. QED  BY <2>1, <2>2, QuietGoto
  <1>2. ASSUME NEW r \in Request, Throw(r) \/ AcquireTimeout(r)
        PROVE  CoverInv' /\ Stutter
    <2>1. ~Ahead(r)
      BY <1>2 DEF Throw, AcquireTimeout, Ahead
    <2>. QED  BY <1>2, <2>1, QuietFail DEF Throw, AcquireTimeout
  <1>3. ASSUME NEW r \in Request, ReadRow(r)
        PROVE  CoverInv' /\ Stutter
    <2>1. pc[r] = "row" /\ Goto(r, "write") /\ req[r].op = "deposit"
          /\ r \notin booked
      BY <1>3, SwapSteps DEF ReadRow, CoverInv, Knows
    <2>2. row' = [row EXCEPT ![r] = db[Owner(r)]]
          /\ UNCHANGED <<req, bal, db, booked, cache>>
      BY <1>3 DEF ReadRow
    <2>3. Knows(r)' /\ Written(r)'
      <3>1. req[r].amt <= db[Owner(r)]
        BY <2>1 DEF CoverInv, Knows
      <3>. QED  BY <2>1, <2>2, <3>1 DEF Knows, Written, Goto, TypeOK, Owner
    <2>4. InLock(r)
      BY <2>1 DEF InLock, LockedStep
    <2>5. \A q \in Request \ {r} : Knows(q)'
      BY <2>1, <2>2, <2>4, OthersKnow DEF Goto, TypeOK
    <2>8. \A q \in Request \ {r} : Written(q)'
      BY <2>1, <2>2 DEF CoverInv, Written, Goto, TypeOK, Owner, Delta
    <2>6. \A q \in Request : Owner(q)' = Owner(q) /\ (Ahead(q) => Ahead(q)')
      BY <2>1, <2>2 DEF Ahead, Owner, Delta, Goto, TypeOK
    <2>7. \A u \in User : Coherent(u)'
      BY <2>2, <2>6 DEF CoverInv, Coherent
    <2>. QED  BY <2>2, <2>3, <2>5, <2>7, <2>8 DEF CoverInv
  <1>4. ASSUME NEW r \in Request, ReadCache(r)
        PROVE  CoverInv' /\ Stutter
    <2>1. pc[r] = "balance" /\ UNCHANGED <<req, row, db, booked, cache>>
          /\ ~Ahead(r) /\ r \notin booked
      BY <1>4 DEF ReadCache, Ahead, CoverInv, Knows
    <2>2. CASE cache[Owner(r)] = None
      <3>1. Goto(r, "miss") /\ UNCHANGED bal
        BY <1>4, <2>2 DEF ReadCache
      <3>2. Knows(r)' /\ Written(r)'
        BY <2>1, <3>1 DEF Knows, Written, Goto, TypeOK
      <3>. QED  BY <2>1, <3>1, <3>2, QuietGoto
    <2>3. CASE cache[Owner(r)] # None
      <3>1. InLock(r)
        BY <2>1, SwapSteps DEF InLock, LockedStep
      <3>2. cache[Owner(r)] = db[Owner(r)]
        BY <2>1, <2>3, <3>1, AloneIsCoherent
      <3>3. /\ Checked(r, cache[Owner(r)])
            /\ bal' = [bal EXCEPT ![r] = cache[Owner(r)]]
        BY <1>4, <2>3 DEF ReadCache
      <3>4. Knows(r)' /\ Written(r)'
        BY <2>1, <3>2, <3>3, CheckedKnows DEF TypeOK
      <3>5. \E s : Goto(r, s)
        BY <3>3 DEF Checked, Fail
      <3>. QED  BY <2>1, <3>3, <3>4, <3>5, QuietGoto DEF TypeOK
    <2>. QED  BY <2>2, <2>3
  <1>5. ASSUME NEW r \in Request, ReadMissed(r)
        PROVE  CoverInv' /\ Stutter
    <2>1. /\ pc[r] = "miss" /\ Goto(r, "fill") /\ ~Ahead(r)
          /\ bal' = [bal EXCEPT ![r] = db[Owner(r)]]
          /\ UNCHANGED <<req, row, db, booked, cache>>
          /\ r \notin booked
      BY <1>5 DEF ReadMissed, Ahead, CoverInv, Knows
    <2>2. Knows(r)' /\ Written(r)'
      BY <2>1 DEF Knows, Written, Goto, TypeOK, Owner
    <2>. QED  BY <2>1, <2>2, QuietGoto DEF TypeOK
  <1>6. ASSUME NEW r \in Request, FillCache(r)
        PROVE  CoverInv' /\ Stutter
    <2>1. /\ pc[r] = "fill" /\ Checked(r, bal[r]) /\ ~Ahead(r)
          /\ UNCHANGED <<req, row, bal, db, booked>>
          /\ bal[r] = db[Owner(r)]
      BY <1>6 DEF FillCache, Ahead, CoverInv, Knows
    <2>2. cache' = [cache EXCEPT ![Owner(r)] = db[Owner(r)]]
      BY <1>6, <2>1, SwapFaults DEF FillCache, SetCache
    <2>3. Knows(r)' /\ Written(r)'
      BY <2>1, CheckedKnows
    <2>4. PICK s : Goto(r, s)
      BY <2>1 DEF Checked, Fail
    <2>5. InLock(r)
      BY <2>1, SwapSteps DEF InLock, LockedStep
    <2>6. \A q \in Request \ {r} : Knows(q)'
      BY <2>1, <2>4, <2>5, OthersKnow DEF Goto, TypeOK
    <2>8. \A q \in Request \ {r} : Written(q)'
      BY <2>1, <2>2, <2>4, <2>5, OthersWritten DEF Goto, TypeOK
    <2>7. \A u \in User : Coherent(u)'
      <3>. SUFFICES ASSUME NEW u \in User PROVE Coherent(u)'
        OBVIOUS
      <3>1. CASE u = Owner(r)
        BY <2>1, <2>2, <3>1 DEF Coherent, TypeOK
      <3>2. CASE u # Owner(r)
        <4>1. cache'[u] = cache[u]
          BY <2>2, <3>2 DEF TypeOK
        <4>2. \A q \in Request : Owner(q) = u /\ Ahead(q)
                                   => Owner(q)' = u /\ Ahead(q)'
          BY <2>1, <2>4, <3>2, <4>1 DEF Ahead, Owner, Delta, Goto, TypeOK
        <4>. QED  BY <2>1, <4>1, <4>2 DEF CoverInv, Coherent
      <3>. QED  BY <3>1, <3>2
    <2>. QED  BY <2>1, <2>3, <2>6, <2>7, <2>8 DEF CoverInv
  <1>7. ASSUME NEW r \in Request, BeginTxn(r)
        PROVE  CoverInv' /\ Stutter
    <2>1. /\ pc[r] = "begin" /\ Goto(r, After(r, "begin")) /\ ~Ahead(r)
          /\ UNCHANGED <<req, row, bal, db, booked, cache>>
      BY <1>7 DEF BeginTxn, Ahead
    <2>2. Knows(r)' /\ Written(r)'
      BY <2>1, SwapSteps DEF CoverInv, Knows, Written, Goto, TypeOK, Owner
    <2>. QED  BY <2>1, <2>2, QuietGoto
  <1>8. ASSUME NEW r \in Request, WriteBalance(r)
        PROVE  CoverInv' /\ Stutter
    <2>1. /\ pc[r] = "write" /\ req[r].op = "deposit" /\ Goto(r, "publish")
          /\ UNCHANGED <<req, row, bal, db, booked>>
      BY <1>8, SwapSteps DEF WriteBalance
    <2>2. cache' = [cache EXCEPT ![Owner(r)] = row[r] + Delta(r)]
      BY <1>8, SwapFaults DEF WriteBalance, SetCache
    <2>3. Knows(r)' /\ Written(r)'
      BY <2>1, <2>2, RequestType
         DEF CoverInv, Knows, Written, Goto, TypeOK, Owner, Delta
    <2>4. InLock(r)
      BY <2>1 DEF InLock, LockedStep
    <2>5. \A q \in Request \ {r} : Knows(q)'
      BY <2>1, <2>4, OthersKnow DEF Goto, TypeOK
    <2>7. \A q \in Request \ {r} : Written(q)'
      BY <2>1, <2>2, <2>4, OthersWritten DEF Goto, TypeOK
    <2>6. \A u \in User : Coherent(u)'
      <3>. SUFFICES ASSUME NEW u \in User PROVE Coherent(u)'
        OBVIOUS
      <3>1. CASE u = Owner(r)
        <4>1. Ahead(r)' /\ Owner(r)' = u
          BY <2>1, <2>2, <3>1 DEF Ahead, Owner, Delta, Goto, TypeOK
        <4>. QED  BY <4>1 DEF Coherent
      <3>2. CASE u # Owner(r)
        <4>1. cache'[u] = cache[u]
          BY <2>2, <3>2 DEF TypeOK
        <4>2. \A q \in Request : Owner(q) = u /\ Ahead(q)
                                   => Owner(q)' = u /\ Ahead(q)'
          BY <2>1, <3>2, <4>1 DEF Ahead, Owner, Delta, Goto, TypeOK
        <4>. QED  BY <2>1, <4>1, <4>2 DEF CoverInv, Coherent
      <3>. QED  BY <3>1, <3>2
    <2>. QED  BY <2>1, <2>3, <2>5, <2>6, <2>7 DEF CoverInv
  <1>9. ASSUME NEW r \in Request, Publish(r)
        PROVE  CoverInv' /\ Stutter
    <2>1. /\ pc[r] = "publish" /\ Goto(r, "commit")
          /\ UNCHANGED <<req, row, bal, db, booked, cache>>
      BY <1>9, SwapSteps DEF Publish
    <2>2. Knows(r)' /\ Written(r)' /\ (Ahead(r) => Ahead(r)')
      BY <2>1 DEF CoverInv, Knows, Written, Ahead, Goto, TypeOK, Owner, Delta
    <2>. QED  BY <2>1, <2>2, QuietGoto
  <1>10. ASSUME NEW r \in Request, Commit(r)
         PROVE  CoverInv' /\ [Covering!Next]_(Covering!vars)
    <2>1. /\ pc[r] = "commit" /\ Goto(r, "unlock") /\ InLock(r)
          /\ req[r].op \in {"deposit", "withdraw"}
          /\ UNCHANGED <<req, row, bal, cache>>
          /\ booked' = booked \cup {r} /\ r \notin booked
      BY <1>10, SwapSteps
         DEF Commit, InLock, LockedStep, CoverInv, Knows
    <2>2. Owner(r) \in User /\ db[Owner(r)] \in Int /\ Delta(r) \in Int
          /\ req[r].amt \in Int
      BY RequestType, DeltaType DEF TypeOK
    <2>3. /\ db' = [db EXCEPT ![Owner(r)] = @ + Delta(r)]
          /\ Delta(r) >= 0 \/ db[Owner(r)] + Delta(r) >= 0
          /\ req[r].op = "deposit" => row[r] = db[Owner(r)]
      <3>1. CASE req[r].op = "deposit"
        <4>1. row[r] = db[Owner(r)] /\ req[r].amt <= db[Owner(r)]
          BY <2>1, <3>1 DEF CoverInv, Knows
        <4>2. Delta(r) = 0 - req[r].amt
          BY <3>1 DEF Delta
        <4>3. db' = [db EXCEPT ![Owner(r)] = row[r] + Delta(r)]
          BY <1>10, <3>1 DEF Commit, WritesRow
        <4>. QED  BY <2>2, <4>1, <4>2, <4>3
      <3>2. CASE req[r].op = "withdraw"
        BY <1>10, <2>2, <3>2 DEF Commit, WritesRow, Delta, TypeOK
      <3>. QED  BY <2>1, <3>1, <3>2
    <2>4. \A u \in User : u # Owner(r) => db'[u] = db[u]
      BY <2>3 DEF TypeOK
    <2>5. \A q \in Request \ {r} : Knows(q)'
      BY <2>1, <2>4, OthersKnow DEF Goto, TypeOK
    <2>6. Knows(r)' /\ Written(r)'
      BY <2>1 DEF Knows, Written, Goto, TypeOK
    <2>9. \A q \in Request \ {r} : Written(q)'
      BY <2>1 DEF CoverInv, Written, Goto, TypeOK, Owner, Delta
    <2>7. \A u \in User : Coherent(u)'
      <3>. SUFFICES ASSUME NEW u \in User PROVE Coherent(u)'
        OBVIOUS
      <3>1. CASE u = Owner(r) /\ req[r].op = "deposit"
        BY <2>1, <2>2, <2>3, <3>1 DEF CoverInv, Written, Coherent, TypeOK
      <3>2. CASE u = Owner(r) /\ req[r].op = "withdraw"
        <4>1. cache[u] \in {None, db[u]}
          BY <2>1, <3>2, AloneIsCoherent DEF Ahead
        <4>2. Delta(r) = 0
          BY <3>2 DEF Delta
        <4>. QED  BY <2>1, <2>2, <2>3, <3>2, <4>1, <4>2 DEF Coherent, TypeOK
      <3>3. CASE u # Owner(r)
        <4>1. \A q \in Request : Owner(q) = u /\ Ahead(q)
                                   => Owner(q)' = u /\ Ahead(q)'
          BY <2>1, <3>3 DEF Ahead, Owner, Goto, TypeOK
        <4>. QED  BY <2>1, <2>4, <3>3, <4>1 DEF CoverInv, Coherent
      <3>. QED  BY <2>1, <3>1, <3>2, <3>3
    <2>8. Covering!Apply(r)
      BY <2>1, <2>3, ApplyStep
    <2>. QED  BY <2>5, <2>6, <2>7, <2>8, <2>9 DEF CoverInv, Covering!Next
  <1>11. ASSUME NEW r \in Request, UpdateBalance(r)
         PROVE  CoverInv' /\ [Covering!Next]_(Covering!vars)
    <2>10. "answer" \notin Faults
      BY SwapFaults
    <2>1. /\ pc[r] = "update" /\ Goto(r, "cache") /\ InLock(r)
          /\ req[r].op = "increase" /\ bal[r] = db[Owner(r)]
          /\ UNCHANGED <<req, row, bal, cache>>
          /\ booked' = booked \cup {r} /\ r \notin booked
          /\ db' = [db EXCEPT ![Owner(r)] = @ + Delta(r)]
      BY <1>11, <2>10, SwapSteps
         DEF UpdateBalance, InLock, LockedStep, CoverInv, Knows
    <2>2. /\ Owner(r) \in User /\ db[Owner(r)] \in Int
          /\ Delta(r) \in Int
      BY RequestType, DeltaType DEF TypeOK
    <2>9. Delta(r) >= 0
      BY <2>1, ConstantsType DEF TypeOK, Delta
    <2>3. \A u \in User : u # Owner(r) => db'[u] = db[u]
      BY <2>1 DEF TypeOK
    <2>4. \A q \in Request \ {r} : Knows(q)'
      BY <2>1, <2>3, OthersKnow DEF Goto, TypeOK
    <2>5. Knows(r)'
      BY <2>1, <2>2 DEF Knows, Goto, TypeOK, Owner, Delta
    <2>6. \A q \in Request : Written(q)'
      BY <2>1 DEF CoverInv, Written, Goto, TypeOK, Owner, Delta
    <2>7. \A u \in User : Coherent(u)'
      <3>. SUFFICES ASSUME NEW u \in User PROVE Coherent(u)'
        OBVIOUS
      <3>1. CASE u = Owner(r)
        BY <2>1, <3>1 DEF Coherent, Ahead, Goto, TypeOK, Owner
      <3>2. CASE u # Owner(r)
        <4>1. \A q \in Request : Owner(q) = u /\ Ahead(q)
                                   => Owner(q)' = u /\ Ahead(q)'
          BY <2>1, <3>2 DEF Ahead, Owner, Goto, TypeOK
        <4>. QED  BY <2>1, <2>3, <3>2, <4>1 DEF CoverInv, Coherent
      <3>. QED  BY <3>1, <3>2
    <2>8. Covering!Apply(r)
      BY <2>1, <2>9, ApplyStep
    <2>. QED  BY <2>4, <2>5, <2>6, <2>7, <2>8 DEF CoverInv, Covering!Next
  <1>12. ASSUME NEW r \in Request, CacheBalance(r)
         PROVE  CoverInv' /\ Stutter
    <2>1. /\ pc[r] = "cache" /\ Goto(r, "unlock") /\ InLock(r)
          /\ UNCHANGED <<req, row, bal, db, booked>>
          /\ bal[r] + Delta(r) = db[Owner(r)]
      BY <1>12, SwapSteps
         DEF CacheBalance, InLock, LockedStep, CoverInv, Knows
    <2>2. cache' = [cache EXCEPT ![Owner(r)] = db[Owner(r)]]
      BY <1>12, <2>1, SwapFaults DEF CacheBalance, SetCache
    <2>3. Knows(r)' /\ Written(r)'
      BY <2>1 DEF Knows, Written, Goto, TypeOK
    <2>4. \A q \in Request \ {r} : Knows(q)'
      BY <2>1, OthersKnow DEF Goto, TypeOK
    <2>5. \A q \in Request \ {r} : Written(q)'
      BY <2>1, <2>2, OthersWritten DEF Goto, TypeOK
    <2>6. \A u \in User : Coherent(u)'
      <3>. SUFFICES ASSUME NEW u \in User PROVE Coherent(u)'
        OBVIOUS
      <3>1. CASE u = Owner(r)
        BY <2>1, <2>2, <3>1 DEF Coherent, TypeOK
      <3>2. CASE u # Owner(r)
        <4>1. cache'[u] = cache[u]
          BY <2>2, <3>2 DEF TypeOK
        <4>2. \A q \in Request : Owner(q) = u /\ Ahead(q)
                                   => Owner(q)' = u /\ Ahead(q)'
          BY <2>1, <3>2 DEF Ahead, Owner, Goto, TypeOK
        <4>. QED  BY <2>1, <4>1, <4>2 DEF CoverInv, Coherent
      <3>. QED  BY <3>1, <3>2
    <2>. QED  BY <2>1, <2>3, <2>4, <2>5, <2>6 DEF CoverInv
  <1>13. ASSUME NEW r \in Request, Release(r) \/ ReleaseFails(r)
         PROVE  CoverInv' /\ Stutter
    <2>1. /\ pc[r] = "unlock" /\ Goto(r, "done") /\ ~Ahead(r)
          /\ UNCHANGED <<req, row, bal, db, booked, cache>>
      BY <1>13 DEF Release, ReleaseFails, Ahead
    <2>2. Knows(r)' /\ Written(r)'
      BY <2>1 DEF Knows, Written, Goto, TypeOK
    <2>. QED  BY <2>1, <2>2, QuietGoto
  <1>14. ASSUME NEW u \in User, CacheExpire(u) \/ LockExpire(u)
         PROVE  CoverInv' /\ Stutter
    <2>1. /\ UNCHANGED <<req, pc, row, bal, db, booked>>
          /\ \A v \in User : cache'[v] \in {None, cache[v]}
      BY <1>14 DEF CacheExpire, LockExpire, TypeOK
    <2>2. \A q \in Request : /\ Owner(q)' = Owner(q) /\ Delta(q)' = Delta(q)
                             /\ Owner(q) \in User
                             /\ Ahead(q)' = Ahead(q)
      BY <2>1, RequestType DEF Owner, Delta, Ahead
    <2>3. \A q \in Request : Knows(q)' /\ Written(q)'
      BY <2>1, <2>2 DEF CoverInv, Knows, Written
    <2>4. \A v \in User : Coherent(v)'
      BY <2>1, <2>2 DEF CoverInv, Coherent
    <2>5. CoverInv'
      BY <2>3, <2>4 DEF CoverInv
    <2>. QED  BY <2>1, <2>5
  <1>15. ASSUME UNCHANGED <<req, pc, row, bal, db, booked, cache>>
         PROVE  CoverInv' /\ Stutter
    <2>1. \A q \in Request : /\ Owner(q)' = Owner(q) /\ Delta(q)' = Delta(q)
                             /\ Ahead(q)' = Ahead(q)
      BY <1>15 DEF Owner, Delta, Ahead
    <2>2. \A q \in Request : Knows(q)' /\ Written(q)'
      BY <1>15, <2>1 DEF CoverInv, Knows, Written
    <2>3. \A v \in User : Coherent(v)'
      BY <1>15, <2>1 DEF CoverInv, Coherent
    <2>4. CoverInv'
      BY <2>2, <2>3 DEF CoverInv
    <2>. QED  BY <1>15, <2>4
  <1>17. CASE UNCHANGED vars
    BY <1>0, <1>15, <1>17 DEF vars
  <1>18. ASSUME NEW t \in Task, Work(t)
         PROVE  CoverInv' /\ Stutter
    BY <1>15, <1>18, WorkFrame
  <1>16. ~Crash /\ \A r \in Request : ~Rollback(r)
    BY SwapFaults DEF Crash, Rollback
  <1>. QED
    BY <1>0, <1>1, <1>2, <1>3, <1>4, <1>5, <1>6, <1>7, <1>8, <1>9, <1>10,
       <1>11, <1>12, <1>13, <1>14, <1>16, <1>17, <1>18
       DEF Next, Step, Serve, Terminated

LEMMA CoverInit == Init => CoverInv /\ Covering!Init
  <1>. SUFFICES ASSUME Init PROVE CoverInv /\ Covering!Init
    OBVIOUS
  <1>1. Covering!Init
    BY MapInit DEF Exact!Init, Covering!Init
  <1>2. CoverInv
    BY DEF Init, CoverInv, Knows, Written, Coherent
  <1>. QED  BY <1>1, <1>2

\* Deposits, withdrawals and credits implement the covered ledger, whatever
\* interleaves: every debit was covered by the balance it debits, because
\* Redis and the database only differ while one request holds the lock.
THEOREM SwapsAreCovered ==
    ASSUME SwapsOnly
    PROVE  Spec => CoveredLedger
  <1>1. Init => CoverInv /\ Covering!Init
    BY CoverInit
  <1>2. TypeOK /\ LockExclusive /\ CoverInv /\ [Next]_vars
          => CoverInv' /\ [Covering!Next]_(Covering!vars)
    BY CoverStep
  <1>3. Spec => []LockExclusive
    BY SwapFaults, MutualExclusion
  <1>. QED
    BY <1>1, <1>2, <1>3, TypeCorrect, PTL
       DEF Spec, CoveredLedger, Covering!Spec

\* ... and outside the locks Redis has no balance or the committed one.
THEOREM CacheIsCoherent ==
    ASSUME SwapsOnly
    PROVE  Spec => []CacheCoherent
  <1>1. CoverInv => CacheCoherent
    <2>1. \A q \in Request : Ahead(q) => InLock(q)
      BY DEF Ahead, InLock, LockedStep
    <2>. QED  BY <2>1 DEF CoverInv, Coherent, CacheCoherent
  <1>2. TypeOK /\ LockExclusive /\ CoverInv /\ [Next]_vars => CoverInv'
    BY CoverStep
  <1>3. Spec => []LockExclusive
    BY SwapFaults, MutualExclusion
  <1>. QED
    BY <1>1, <1>2, <1>3, CoverInit, TypeCorrect, PTL DEF Spec

-----------------------------------------------------------------------------
(***************************************************************************)
(* No balance is invented: each is the start and whole effects.            *)
(***************************************************************************)
\* The steps at which a request may have shown its own effect to others.
LateSteps == {"publish", "commit", "cache", "unlock", "done"}

Spent == {r \in Request : pc[r] \in LateSteps}

\* The value v is a balance of u after the whole effects d[r] of some of the
\* requests of T, each counted once; o names their owners.
Explains(d, o, v, u, T) ==
    \E S \in SUBSET T :
        /\ IsFiniteSet(S) /\ \A q \in S : o[q] = u
        /\ v = InitBalance + SumFunctionOnSet(d, S)

\* The steps at which a request has read its row, and its balance.
RowKnown(op, s) ==
    \/ /\ op \in {"deposit", "consume", "grant"}
       /\ s \in {"write", "publish", "commit"}
    \/ /\ op \in {"consume", "grant"}
       /\ s \in {"balance", "miss", "fill", "lock", "begin"}

BalKnown(op, s) == s = "fill" \/ (op = "increase" /\ s \in {"update", "cache"})

\* What a request read from PostgreSQL or Redis is explained without its own
\* effect, which it is about to add.
Explained ==
    /\ \A u \in User : Explains(DeltaMap, OwnerMap, db[u], u, Spent)
    /\ \A u \in User : cache[u] # None
          => Explains(DeltaMap, OwnerMap, cache[u], u, Spent)
    /\ \A r \in Request : RowKnown(req[r].op, pc[r])
          => Explains(DeltaMap, OwnerMap, row[r], Owner(r), Spent \ {r})
    /\ \A r \in Request : BalKnown(req[r].op, pc[r])
          => Explains(DeltaMap, OwnerMap, bal[r], Owner(r), Spent \ {r})

LEMMA ExplainsMore ==
    ASSUME NEW d, NEW o, NEW v, NEW u, NEW T, NEW U,
           T \subseteq U, Explains(d, o, v, u, T)
    PROVE  Explains(d, o, v, u, U)
  BY DEF Explains

\* The effect of a request on top of a value it is not part of.
LEMMA ExplainsNext ==
    ASSUME TypeOK, NEW r \in Request, NEW v, NEW T \in SUBSET Request, r \notin T,
           Explains(DeltaMap, OwnerMap, v, Owner(r), T)
    PROVE  Explains(DeltaMap, OwnerMap, v + Delta(r), Owner(r), T \cup {r})
  <1>1. PICK S \in SUBSET T :
           /\ IsFiniteSet(S) /\ \A q \in S : OwnerMap[q] = Owner(r)
           /\ v = InitBalance + SumFunctionOnSet(DeltaMap, S)
    BY DEF Explains
  <1>2. \A y \in S \cup {r} : DeltaMap[y] \in Int
    BY DeltaType DEF DeltaMap
  <1>3. r \notin S
    OBVIOUS
  <1>4. /\ SumFunctionOnSet(DeltaMap, S) \in Int
        /\ SumFunctionOnSet(DeltaMap, S \cup {r})
              = SumFunctionOnSet(DeltaMap, S) + DeltaMap[r]
    BY <1>1, <1>2, <1>3, SumWithOneMore
  <1>5. DeltaMap[r] = Delta(r) /\ Delta(r) \in Int /\ OwnerMap[r] = Owner(r)
    BY DeltaType DEF DeltaMap, OwnerMap
  <1>6. v + Delta(r)
           = InitBalance + SumFunctionOnSet(DeltaMap, S \cup {r})
    BY <1>1, <1>4, <1>5, ConstantsType
  <1>7. IsFiniteSet(S \cup {r}) /\ S \cup {r} \in SUBSET (T \cup {r})
    BY <1>1, FS_AddElement
  <1>. QED  BY <1>1, <1>5, <1>6, <1>7 DEF Explains

LEMMA FlowKnown ==
    ASSUME NEW op \in AllOps, NEW s \in Steps(op),
           s \notin {"miss", "fill", "unlock", "done"}
    PROVE  /\ RowKnown(op, Flow(op)[s]) => s = "row" \/ RowKnown(op, s)
           /\ BalKnown(op, Flow(op)[s]) => s = "balance" \/ BalKnown(op, s)
           /\ s \in LateSteps \cup {"write", "update"}
                => Flow(op)[s] \in LateSteps
           /\ s = "write" => RowKnown(op, s)
           /\ s = "commit" /\ op # "withdraw" => RowKnown(op, s)
           /\ s \in {"update", "cache"} => op = "increase"
  <1>. USE DEF Steps, Flow, LateSteps, RowKnown, BalKnown
  <1>1. CASE op = "deposit"   BY <1>1 DEF DepositFlow
  <1>2. CASE op = "withdraw"  BY <1>2 DEF WithdrawFlow
  <1>3. CASE op = "consume"   BY <1>3 DEF ConsumeFlow
  <1>4. CASE op = "grant"     BY <1>4 DEF GrantFlow
  <1>5. CASE op = "increase"  BY <1>5 DEF IncreaseFlow
  <1>6. CASE op = "read"      BY <1>6 DEF ReadFlow
  <1>. QED  BY <1>1, <1>2, <1>3, <1>4, <1>5, <1>6 DEF AllOps

LEMMA AfterKnown ==
    ASSUME TypeOK, NEW r \in Request, NEW s \in Steps(req[r].op),
           s \notin {"miss", "fill", "unlock", "done"}
    PROVE  /\ RowKnown(req[r].op, After(r, s))
                => s = "row" \/ RowKnown(req[r].op, s)
           /\ BalKnown(req[r].op, After(r, s))
                => s = "balance" \/ BalKnown(req[r].op, s)
           /\ s \in LateSteps \cup {"write", "update"}
                => After(r, s) \in LateSteps
           /\ s = "write" => RowKnown(req[r].op, s)
           /\ s = "commit" /\ WritesRow(r) => RowKnown(req[r].op, s)
           /\ s \in {"update", "cache"} => BalKnown(req[r].op, s)
  <1>1. WritesRow(r) => req[r].op # "withdraw"
    BY DEF WritesRow
  <1>. QED  BY <1>1, RequestType, FlowKnown DEF After, BalKnown

LEMMA MapsStay ==
    ASSUME UNCHANGED req
    PROVE  /\ DeltaMap' = DeltaMap /\ OwnerMap' = OwnerMap
           /\ \A q \in Request : Owner(q)' = Owner(q)
  BY DEF DeltaMap, OwnerMap, Owner, Delta

\* One step of r keeps Explained when what it writes and reads is explained.
LEMMA ExplainedGoto ==
    ASSUME TypeOK, Explained, NEW r \in Request, NEW s, Goto(r, s),
           UNCHANGED req, pc[r] \in LateSteps => s \in LateSteps,
           \A u \in User : \/ db'[u] = db[u]
                           \/ Explains(DeltaMap, OwnerMap, db'[u], u, Spent'),
           \A u \in User : \/ cache'[u] \in {None, cache[u]}
                           \/ Explains(DeltaMap, OwnerMap, cache'[u], u, Spent'),
           \A q \in Request \ {r} : row'[q] = row[q] /\ bal'[q] = bal[q],
           RowKnown(req[r].op, s) =>
              \/ RowKnown(req[r].op, pc[r]) /\ row'[r] = row[r]
              \/ Explains(DeltaMap, OwnerMap, row'[r], Owner(r), Spent \ {r}),
           BalKnown(req[r].op, s) =>
              \/ BalKnown(req[r].op, pc[r]) /\ bal'[r] = bal[r]
              \/ Explains(DeltaMap, OwnerMap, bal'[r], Owner(r), Spent \ {r})
    PROVE  Explained'
  <1>1. /\ pc'[r] = s
        /\ \A q \in Request \ {r} : pc'[q] = pc[q]
    BY DEF Goto, TypeOK
  <1>2. /\ Spent \subseteq Spent'
        /\ \A q \in Request : Spent \ {q} \subseteq Spent' \ {q}
    BY <1>1 DEF Spent
  <1>3. /\ DeltaMap' = DeltaMap /\ OwnerMap' = OwnerMap /\ req' = req
        /\ \A q \in Request : Owner(q)' = Owner(q)
    BY MapsStay
  <1>4. ASSUME NEW v, NEW u, Explains(DeltaMap, OwnerMap, v, u, Spent)
        PROVE  Explains(DeltaMap, OwnerMap, v, u, Spent')
    BY <1>2, <1>4, ExplainsMore
  <1>5. ASSUME NEW v, NEW u, NEW q \in Request,
               Explains(DeltaMap, OwnerMap, v, u, Spent \ {q})
        PROVE  Explains(DeltaMap, OwnerMap, v, u, Spent' \ {q})
    BY <1>2, <1>5, ExplainsMore
  <1>6. \A u \in User : Explains(DeltaMap, OwnerMap, db'[u], u, Spent')
    BY <1>4 DEF Explained
  <1>7. \A u \in User : cache'[u] # None
           => Explains(DeltaMap, OwnerMap, cache'[u], u, Spent')
    BY <1>4 DEF Explained
  <1>8. \A q \in Request : RowKnown(req[q].op, pc'[q])
           => Explains(DeltaMap, OwnerMap, row'[q], Owner(q), Spent' \ {q})
    BY <1>1, <1>5 DEF Explained
  <1>9. \A q \in Request : BalKnown(req[q].op, pc'[q])
           => Explains(DeltaMap, OwnerMap, bal'[q], Owner(q), Spent' \ {q})
    BY <1>1, <1>5 DEF Explained
  <1>. QED  BY <1>3, <1>6, <1>7, <1>8, <1>9 DEF Explained

\* A step that goes on in its flow and reads and writes no balance.
LEMMA ExplainedOn ==
    ASSUME TypeOK, Explained, NEW r \in Request, Goto(r, After(r, pc[r])),
           UNCHANGED <<req, row, bal, db, cache>>,
           pc[r] \notin {"row", "balance", "miss", "fill", "unlock", "done"}
    PROVE  Explained'
  <1>1. /\ RowKnown(req[r].op, After(r, pc[r])) => RowKnown(req[r].op, pc[r])
        /\ BalKnown(req[r].op, After(r, pc[r])) => BalKnown(req[r].op, pc[r])
        /\ pc[r] \in LateSteps => After(r, pc[r]) \in LateSteps
    BY AfterKnown, RequestType
  <1>. QED  BY <1>1, ExplainedGoto

LEMMA ExplainedFail ==
    ASSUME TypeOK, Explained, NEW r \in Request, Fail(r),
           UNCHANGED <<req, row, bal, db>>,
           \A u \in User : \/ cache'[u] \in {None, cache[u]}
                           \/ Explains(DeltaMap, OwnerMap, cache'[u], u, Spent')
    PROVE  Explained'
  <1>1. PICK s \in {"unlock", "done"} : Goto(r, s)
    BY DEF Fail
  <1>2. ~RowKnown(req[r].op, s) /\ ~BalKnown(req[r].op, s) /\ s \in LateSteps
    BY DEF RowKnown, BalKnown, LateSteps
  <1>. QED  BY <1>1, <1>2, ExplainedGoto

\* The request goes on with a balance it just read, or filled the cache with.
LEMMA ExplainedChecked ==
    ASSUME TypeOK, Explained, NEW r \in Request, NEW b, Checked(r, b),
           pc[r] \in {"balance", "fill"}, UNCHANGED <<req, row, db>>,
           \A u \in User : \/ cache'[u] \in {None, cache[u]}
                           \/ Explains(DeltaMap, OwnerMap, cache'[u], u, Spent'),
           \A q \in Request \ {r} : bal'[q] = bal[q],
           Explains(DeltaMap, OwnerMap, bal'[r], Owner(r), Spent \ {r})
    PROVE  Explained'
  <1>1. PICK s : Goto(r, s) /\ s \in {After(r, "balance"), "unlock", "done"}
    BY DEF Checked, Fail
  <1>2. "balance" \in Steps(req[r].op)
    BY RequestType, StepFacts
  <1>3. RowKnown(req[r].op, s) => RowKnown(req[r].op, "balance")
    BY <1>1, <1>2, AfterKnown DEF RowKnown
  <1>4. RowKnown(req[r].op, "balance") => RowKnown(req[r].op, "fill")
    BY DEF RowKnown
  <1>5. pc[r] \notin LateSteps
    BY DEF LateSteps
  <1>. QED  BY <1>1, <1>3, <1>4, <1>5, ExplainedGoto

LEMMA ExplainedStep ==
    ASSUME TypeOK, Explained, [Next]_vars
    PROVE  Explained'
  <1>0. /\ Spent \in SUBSET Request
        /\ \A r \in Request : Spent \ {r} \in SUBSET Request
        /\ \A r \in Request : pc[r] \notin LateSteps => Spent \ {r} = Spent
    BY DEF Spent
  <1>1. ASSUME NEW r \in Request,
               Arrive(r) \/ Acquire(r) \/ BeginTxn(r) \/ Publish(r)
        PROVE  Explained'
    BY <1>1, ExplainedOn DEF Arrive, Acquire, BeginTxn, Publish
  <1>2. ASSUME NEW r \in Request, Throw(r) \/ AcquireTimeout(r) \/ Rollback(r)
        PROVE  Explained'
    BY <1>2, ExplainedFail DEF Throw, AcquireTimeout, Rollback
  <1>3. ASSUME NEW r \in Request, ReadRow(r)  PROVE Explained'
    <2>1. /\ Goto(r, After(r, "row")) /\ pc[r] = "row"
          /\ row'[r] = db[Owner(r)]
          /\ \A q \in Request \ {r} : row'[q] = row[q]
          /\ UNCHANGED <<req, bal, db, cache>>
      BY <1>3 DEF ReadRow, TypeOK
    <2>2. Explains(DeltaMap, OwnerMap, row'[r], Owner(r), Spent \ {r})
      BY <1>0, <2>1, RequestType DEF Explained, LateSteps
    <2>3. /\ BalKnown(req[r].op, After(r, "row")) => BalKnown(req[r].op, "row")
          /\ pc[r] \notin LateSteps
      BY <2>1, AfterKnown, RequestType DEF LateSteps
    <2>. QED  BY <2>1, <2>2, <2>3, ExplainedGoto
  <1>4. ASSUME NEW r \in Request, ReadCache(r)  PROVE Explained'
    <2>0. pc[r] = "balance" /\ pc[r] \notin LateSteps /\ Owner(r) \in User
      BY <1>4, RequestType DEF ReadCache, LateSteps
    <2>1. CASE cache[Owner(r)] = None
      <3>1. Goto(r, "miss") /\ UNCHANGED <<req, row, bal, db, cache>>
        BY <1>4, <2>1 DEF ReadCache
      <3>2. /\ RowKnown(req[r].op, "miss") => RowKnown(req[r].op, "balance")
            /\ ~BalKnown(req[r].op, "miss")
        BY DEF RowKnown, BalKnown
      <3>. QED  BY <2>0, <3>1, <3>2, ExplainedGoto
    <2>2. CASE cache[Owner(r)] # None
      <3>1. /\ Checked(r, cache[Owner(r)])
            /\ bal'[r] = cache[Owner(r)]
            /\ \A q \in Request \ {r} : bal'[q] = bal[q]
            /\ UNCHANGED <<req, row, db, cache>>
        BY <1>4, <2>2 DEF ReadCache, TypeOK
      <3>2. Explains(DeltaMap, OwnerMap, bal'[r], Owner(r), Spent \ {r})
        BY <1>0, <2>0, <2>2, <3>1 DEF Explained
      <3>. QED  BY <2>0, <3>1, <3>2, ExplainedChecked
    <2>. QED  BY <2>1, <2>2
  <1>5. ASSUME NEW r \in Request, ReadMissed(r)  PROVE Explained'
    <2>1. /\ Goto(r, "fill") /\ pc[r] = "miss" /\ pc[r] \notin LateSteps
          /\ bal'[r] = db[Owner(r)]
          /\ \A q \in Request \ {r} : bal'[q] = bal[q]
          /\ UNCHANGED <<req, row, db, cache>>
      <3>1. /\ Goto(r, "fill") /\ pc[r] = "miss"
            /\ bal' = [bal EXCEPT ![r] = db[Owner(r)]]
            /\ UNCHANGED <<req, row, db, cache>>
        BY <1>5 DEF ReadMissed
      <3>2. bal'[r] = db[Owner(r)] /\ \A q \in Request \ {r} : bal'[q] = bal[q]
        BY <3>1 DEF TypeOK
      <3>. QED  BY <3>1, <3>2 DEF LateSteps
    <2>2. Explains(DeltaMap, OwnerMap, bal'[r], Owner(r), Spent \ {r})
      <3>1. Owner(r) \in User
        BY RequestType
      <3>. QED  BY <1>0, <2>1, <3>1 DEF Explained
    <2>3. RowKnown(req[r].op, "fill") => RowKnown(req[r].op, "miss")
      BY DEF RowKnown
    <2>. QED  BY <2>1, <2>2, <2>3, ExplainedGoto
  <1>6. ASSUME NEW r \in Request, FillCache(r)  PROVE Explained'
    <2>1. /\ pc[r] = "fill" /\ Checked(r, bal[r])
          /\ UNCHANGED <<req, row, bal, db>>
          /\ cache' = [cache EXCEPT ![Owner(r)] = bal[r]] \/ cache' = cache
      BY <1>6 DEF FillCache, SetCache
    <2>2. BalKnown(req[r].op, pc[r]) /\ pc[r] \notin LateSteps
      BY <2>1 DEF BalKnown, LateSteps
    <2>3. Explains(DeltaMap, OwnerMap, bal[r], Owner(r), Spent \ {r})
      BY <2>2 DEF Explained
    <2>4. Spent \ {r} \subseteq Spent'
      <3>1. \A q \in Request \ {r} : pc'[q] = pc[q]
        BY <2>1 DEF Checked, Fail, Goto, TypeOK
      <3>. QED  BY <3>1 DEF Spent
    <2>5. Explains(DeltaMap, OwnerMap, bal[r], Owner(r), Spent')
      BY <2>3, <2>4, ExplainsMore
    <2>6. \A u \in User : \/ cache'[u] \in {None, cache[u]}
                          \/ Explains(DeltaMap, OwnerMap, cache'[u], u, Spent')
      BY <2>1, <2>5 DEF TypeOK
    <2>. QED  BY <2>1, <2>3, <2>6, ExplainedChecked
  <1>7. ASSUME NEW r \in Request, WriteBalance(r)  PROVE Explained'
    <2>1. /\ pc[r] = "write" /\ Goto(r, After(r, "write"))
          /\ UNCHANGED <<req, row, bal, db>>
          /\ \/ cache' = [cache EXCEPT ![Owner(r)] = row[r] + Delta(r)]
             \/ cache' = cache
      BY <1>7 DEF WriteBalance, SetCache
    <2>2. /\ RowKnown(req[r].op, "write") /\ After(r, "write") \in LateSteps
          /\ BalKnown(req[r].op, After(r, "write")) => BalKnown(req[r].op, "write")
      BY <2>1, AfterKnown, RequestType
    <2>3. Explains(DeltaMap, OwnerMap, row[r], Owner(r), Spent \ {r})
      BY <2>1, <2>2 DEF Explained
    <2>4. Explains(DeltaMap, OwnerMap, row[r] + Delta(r), Owner(r),
                   (Spent \ {r}) \cup {r})
      BY <1>0, <2>3, ExplainsNext
    <2>5. (Spent \ {r}) \cup {r} \subseteq Spent'
      BY <2>1, <2>2 DEF Spent, Goto, TypeOK
    <2>6. Explains(DeltaMap, OwnerMap, row[r] + Delta(r), Owner(r), Spent')
      BY <2>4, <2>5, ExplainsMore
    <2>7. \A u \in User : \/ cache'[u] \in {None, cache[u]}
                          \/ Explains(DeltaMap, OwnerMap, cache'[u], u, Spent')
      BY <2>1, <2>6 DEF TypeOK
    <2>. QED  BY <2>1, <2>2, <2>7, ExplainedGoto
  <1>8. ASSUME NEW r \in Request, Commit(r)  PROVE Explained'
    <2>1. /\ pc[r] = "commit" /\ Goto(r, After(r, "commit"))
          /\ UNCHANGED <<req, row, bal, cache>>
          /\ db' = IF WritesRow(r)
                   THEN [db EXCEPT ![Owner(r)] = row[r] + Delta(r)]
                   ELSE db
      BY <1>8 DEF Commit
    <2>2. /\ WritesRow(r) => RowKnown(req[r].op, "commit")
          /\ "commit" \in LateSteps /\ After(r, "commit") \in LateSteps
          /\ RowKnown(req[r].op, After(r, "commit"))
                => RowKnown(req[r].op, "commit")
          /\ BalKnown(req[r].op, After(r, "commit"))
                => BalKnown(req[r].op, "commit")
      <3>1. "commit" \in LateSteps /\ "commit" \in Steps(req[r].op)
        BY <2>1, RequestType DEF LateSteps
      <3>. QED  BY <3>1, AfterKnown
    <2>3. (Spent \ {r}) \cup {r} \subseteq Spent'
      BY <2>1, <2>2 DEF Spent, Goto, TypeOK
    <2>4. CASE WritesRow(r)
      <3>1. Explains(DeltaMap, OwnerMap, row[r], Owner(r), Spent \ {r})
        BY <2>1, <2>2, <2>4 DEF Explained
      <3>2. Explains(DeltaMap, OwnerMap, row[r] + Delta(r), Owner(r),
                     (Spent \ {r}) \cup {r})
        BY <1>0, <3>1, ExplainsNext
      <3>3. Explains(DeltaMap, OwnerMap, row[r] + Delta(r), Owner(r), Spent')
        BY <2>3, <3>2, ExplainsMore
      <3>4. \A u \in User : \/ db'[u] = db[u]
                            \/ Explains(DeltaMap, OwnerMap, db'[u], u, Spent')
        BY <2>1, <2>4, <3>3 DEF TypeOK
      <3>. QED  BY <2>1, <2>2, <3>4, ExplainedGoto
    <2>5. CASE ~WritesRow(r)
      BY <2>1, <2>2, <2>5, ExplainedGoto
    <2>. QED  BY <2>4, <2>5
  <1>9. ASSUME NEW r \in Request, UpdateBalance(r)  PROVE Explained'
    <2>1. PICK s \in {After(r, "update"), "unlock"} :
              /\ pc[r] = "update" /\ Goto(r, s)
              /\ UNCHANGED <<req, row, bal, cache>>
              /\ db' = [db EXCEPT ![Owner(r)] = bal[r] + Delta(r)]
      BY <1>9 DEF UpdateBalance
    <2>2. /\ BalKnown(req[r].op, "update") /\ s \in LateSteps
          /\ RowKnown(req[r].op, s) => RowKnown(req[r].op, "update")
      <3>1. /\ BalKnown(req[r].op, "update") /\ After(r, "update") \in LateSteps
            /\ RowKnown(req[r].op, After(r, "update"))
                  => RowKnown(req[r].op, "update")
        BY <2>1, AfterKnown, RequestType
      <3>2. "unlock" \in LateSteps /\ ~RowKnown(req[r].op, "unlock")
        BY DEF LateSteps, RowKnown
      <3>. QED  BY <3>1, <3>2
    <2>3. (Spent \ {r}) \cup {r} \subseteq Spent'
      BY <2>1, <2>2 DEF Spent, Goto, TypeOK
    <2>4. Explains(DeltaMap, OwnerMap, bal[r], Owner(r), Spent \ {r})
      BY <2>1, <2>2 DEF Explained
    <2>5. Explains(DeltaMap, OwnerMap, bal[r] + Delta(r), Owner(r),
                   (Spent \ {r}) \cup {r})
      BY <1>0, <2>4, ExplainsNext
    <2>6. Explains(DeltaMap, OwnerMap, bal[r] + Delta(r), Owner(r), Spent')
      BY <2>3, <2>5, ExplainsMore
    <2>7. \A u \in User : \/ db'[u] = db[u]
                          \/ Explains(DeltaMap, OwnerMap, db'[u], u, Spent')
      BY <2>1, <2>6 DEF TypeOK
    <2>. QED  BY <2>1, <2>2, <2>7, ExplainedGoto
  <1>10. ASSUME NEW r \in Request, CacheBalance(r)  PROVE Explained'
    <2>1. /\ pc[r] = "cache" /\ Goto(r, After(r, "cache"))
          /\ UNCHANGED <<req, row, bal, db>>
          /\ \/ cache' = [cache EXCEPT ![Owner(r)] = bal[r] + Delta(r)]
             \/ cache' = cache
      BY <1>10 DEF CacheBalance, SetCache
    <2>2. /\ BalKnown(req[r].op, "cache") /\ After(r, "cache") \in LateSteps
          /\ RowKnown(req[r].op, After(r, "cache"))
                => RowKnown(req[r].op, "cache")
      <3>1. "cache" \in LateSteps /\ "cache" \in Steps(req[r].op)
        BY <2>1, RequestType DEF LateSteps
      <3>. QED  BY <3>1, AfterKnown
    <2>3. (Spent \ {r}) \cup {r} \subseteq Spent'
      BY <2>1, <2>2 DEF Spent, Goto, TypeOK
    <2>4. Explains(DeltaMap, OwnerMap, bal[r], Owner(r), Spent \ {r})
      BY <2>1, <2>2 DEF Explained
    <2>5. Explains(DeltaMap, OwnerMap, bal[r] + Delta(r), Owner(r),
                   (Spent \ {r}) \cup {r})
      BY <1>0, <2>4, ExplainsNext
    <2>6. Explains(DeltaMap, OwnerMap, bal[r] + Delta(r), Owner(r), Spent')
      BY <2>3, <2>5, ExplainsMore
    <2>7. \A u \in User : \/ cache'[u] \in {None, cache[u]}
                          \/ Explains(DeltaMap, OwnerMap, cache'[u], u, Spent')
      BY <2>1, <2>6 DEF TypeOK
    <2>. QED  BY <2>1, <2>2, <2>7, ExplainedGoto
  <1>11. ASSUME NEW r \in Request, Release(r) \/ ReleaseFails(r)
         PROVE  Explained'
    <2>1. Goto(r, "done") /\ UNCHANGED <<req, row, bal, db, cache>>
      BY <1>11 DEF Release, ReleaseFails
    <2>2. /\ ~RowKnown(req[r].op, "done") /\ ~BalKnown(req[r].op, "done")
          /\ "done" \in LateSteps
      BY DEF RowKnown, BalKnown, LateSteps
    <2>. QED  BY <2>1, <2>2, ExplainedGoto
  <1>12. ASSUME NEW u \in User, CacheExpire(u)  PROVE Explained'
    <2>1. /\ UNCHANGED <<req, pc, row, bal, db>>
          /\ \A v \in User : cache'[v] \in {None, cache[v]}
      BY <1>12 DEF CacheExpire, TypeOK
    <2>2. Spent' = Spent
      BY <2>1 DEF Spent
    <2>. QED  BY <2>1, <2>2, MapsStay DEF Explained
  <1>13. ASSUME UNCHANGED <<req, pc, row, bal, db, cache>>  PROVE Explained'
    <2>1. Spent' = Spent
      BY <1>13 DEF Spent
    <2>. QED  BY <1>13, <2>1, MapsStay DEF Explained
  <1>14. ASSUME NEW u \in User, LockExpire(u)  PROVE Explained'
    BY <1>13, <1>14 DEF LockExpire
  <1>15. CASE Crash
    <2>1. /\ \A r \in Request : pc'[r] \in {pc[r], "done"}
          /\ UNCHANGED <<req, row, bal, db, cache>>
      BY <1>15 DEF Crash
    <2>2. Spent \subseteq Spent' /\ \A r \in Request : Spent \ {r} \subseteq Spent' \ {r}
      BY <2>1 DEF Spent, LateSteps
    <2>3. \A r \in Request :
             /\ RowKnown(req[r].op, pc'[r]) => RowKnown(req[r].op, pc[r])
             /\ BalKnown(req[r].op, pc'[r]) => BalKnown(req[r].op, pc[r])
      BY <2>1 DEF RowKnown, BalKnown
    <2>4. \A u \in User : Explains(DeltaMap, OwnerMap, db[u], u, Spent')
      BY <2>2, ExplainsMore DEF Explained
    <2>5. \A u \in User : cache[u] # None
             => Explains(DeltaMap, OwnerMap, cache[u], u, Spent')
      BY <2>2, ExplainsMore DEF Explained
    <2>6. \A r \in Request : RowKnown(req[r].op, pc'[r])
             => Explains(DeltaMap, OwnerMap, row[r], Owner(r), Spent' \ {r})
      BY <2>2, <2>3, ExplainsMore DEF Explained
    <2>7. \A r \in Request : BalKnown(req[r].op, pc'[r])
             => Explains(DeltaMap, OwnerMap, bal[r], Owner(r), Spent' \ {r})
      BY <2>2, <2>3, ExplainsMore DEF Explained
    <2>. QED  BY <2>1, <2>4, <2>5, <2>6, <2>7, MapsStay DEF Explained
  <1>16. UNCHANGED vars => Explained'
    BY <1>13 DEF vars
  <1>17. ASSUME NEW t \in Task, Work(t)  PROVE Explained'
    BY <1>13, <1>17, WorkFrame
  <1>. QED
    BY <1>1, <1>2, <1>3, <1>4, <1>5, <1>6, <1>7, <1>8, <1>9, <1>10, <1>11,
       <1>12, <1>14, <1>15, <1>16, <1>17 DEF Next, Step, Serve, Terminated

LEMMA ExplainedInit == Init => Explained
  <1>. SUFFICES ASSUME Init  PROVE Explained
    OBVIOUS
  <1>1. /\ \A u \in User : db[u] = InitBalance /\ cache[u] = None
        /\ \A r \in Request : pc[r] = "start"
    BY DEF Init
  <1>2. ASSUME NEW u \in User
        PROVE  Explains(DeltaMap, OwnerMap, InitBalance, u, Spent)
    <2>1. SumFunctionOnSet(DeltaMap, {}) = 0 /\ IsFiniteSet({})
      BY SumOfNone, FS_EmptySet
    <2>2. InitBalance = InitBalance + SumFunctionOnSet(DeltaMap, {})
      BY <2>1, ConstantsType
    <2>. QED  BY <2>1, <2>2 DEF Explains
  <1>. QED  BY <1>1, <1>2 DEF Explained, RowKnown, BalKnown

\* No balance is invented, whatever interleaves, fails, expires or crashes:
\* each is the start and the whole effects of some requests, each once.
THEOREM BalancesAreExplained == Spec => []NothingInvented
  <1>1. Explained => NothingInvented
    <2>. SUFFICES ASSUME Explained, NEW u \in User
                  PROVE  \E S \in SUBSET Request :
                            IsFiniteSet(S) /\ db[u] = InitBalance + Total(u, S)
      BY DEF NothingInvented
    <2>1. PICK S \in SUBSET Spent :
             /\ IsFiniteSet(S) /\ \A q \in S : OwnerMap[q] = u
             /\ db[u] = InitBalance + SumFunctionOnSet(DeltaMap, S)
      BY DEF Explained, Explains
    <2>2. S \in SUBSET Request /\ {r \in S : Owner(r) = u} = S
      BY <2>1 DEF Spent, OwnerMap
    <2>. QED  BY <2>1, <2>2 DEF Total
  <1>. QED
    BY <1>1, ExplainedInit, ExplainedStep, TypeCorrect, PTL DEF Spec

-----------------------------------------------------------------------------
(***************************************************************************)
(* Waiting for connections and rows.                                       *)
(***************************************************************************)

\* The steps at which an operation holds a connection for its transaction.
TxnStep(op, s) ==
    \/ s \in {"write", "publish", "commit"}
    \/ s = "row" /\ op = "deposit"

Holding == {r \in Request : InTxn(r)}

OpenTasks == {t \in Task : task[t].at = "open"}

\* The pool never gives out more connections than it has.
PoolInv ==
    /\ IsFiniteSet(Holding) /\ IsFiniteSet(OpenTasks)
    /\ Held <= PoolSize

\* Only "begin" enters a transaction.
LEMMA FlowTxn ==
    ASSUME NEW op \in AllOps, NEW s \in Steps(op),
           s \notin {"miss", "fill", "unlock", "done", "begin"},
           TxnStep(op, Flow(op)[s])
    PROVE  TxnStep(op, s)
  <1>. USE DEF Steps, Flow, TxnStep
  <1>1. CASE op = "deposit"   BY <1>1 DEF DepositFlow
  <1>2. CASE op = "withdraw"  BY <1>2 DEF WithdrawFlow
  <1>3. CASE op = "consume"   BY <1>3 DEF ConsumeFlow
  <1>4. CASE op = "grant"     BY <1>4 DEF GrantFlow
  <1>5. CASE op = "increase"  BY <1>5 DEF IncreaseFlow
  <1>6. CASE op = "read"      BY <1>6 DEF ReadFlow
  <1>. QED  BY <1>1, <1>2, <1>3, <1>4, <1>5, <1>6 DEF AllOps

\* Apart from "begin", no step of a request takes a connection for good.
LEMMA StepKeepsTxn ==
    ASSUME TypeOK, NEW r \in Request, Step(r), ~BeginTxn(r)
    PROVE  Holding' \subseteq Holding /\ OpenTasks' = OpenTasks
  <1>1. task' = task /\ req' = req
    BY DEF Step, Serve, Arrive, Throw, Acquire, AcquireTimeout, ReadRow,
           ReadCache, ReadMissed, FillCache, WriteBalance, Publish, Commit,
           Rollback, UpdateBalance, CacheBalance, Release, ReleaseFails
  <1>2. OpenTasks' = OpenTasks
    BY <1>1 DEF OpenTasks
  <1>3. ASSUME NEW s, Goto(r, s), TxnStep(req[r].op, s) => InTxn(r)
        PROVE  Holding' \subseteq Holding
    BY <1>1, <1>3 DEF Holding, InTxn, TxnStep, Goto, TypeOK
  <1>4. \A s \in {"miss", "fill", "unlock", "done"} : ~TxnStep(req[r].op, s)
    BY DEF TxnStep
  <1>5. ASSUME NEW s \in Steps(req[r].op),
               s \notin {"miss", "fill", "unlock", "done", "begin"},
               TxnStep(req[r].op, After(r, s))
        PROVE  TxnStep(req[r].op, s)
    BY <1>5, RequestType, FlowTxn DEF After
  <1>6. TxnStep(req[r].op, pc[r]) <=> InTxn(r)
    BY DEF TxnStep, InTxn
  <1>7. ASSUME Goto(r, After(r, pc[r])),
               pc[r] \notin {"miss", "fill", "unlock", "done", "begin"}
        PROVE  Holding' \subseteq Holding
    BY <1>3, <1>5, <1>6, <1>7, RequestType
  <1>8. ASSUME Fail(r)
        PROVE  Holding' \subseteq Holding
    BY <1>3, <1>4, <1>8 DEF Fail
  <1>9. ASSUME NEW b, Checked(r, b), pc[r] \in {"balance", "fill"}
        PROVE  Holding' \subseteq Holding
    <2>1. CASE Insufficient(r, b)
      BY <1>8, <1>9, <2>1 DEF Checked
    <2>2. CASE ~Insufficient(r, b)
      <3>1. Goto(r, After(r, "balance"))
        BY <1>9, <2>2 DEF Checked
      <3>2. "balance" \in Steps(req[r].op)
        BY <1>9, RequestType, StepFacts
      <3>3. ~TxnStep(req[r].op, "balance")
        BY DEF TxnStep
      <3>. QED  BY <1>3, <1>5, <3>1, <3>2, <3>3
    <2>. QED  BY <2>1, <2>2
  <1>10. CASE Arrive(r) \/ Acquire(r) \/ ReadRow(r) \/ WriteBalance(r)
                \/ Publish(r) \/ Commit(r) \/ CacheBalance(r)
    BY <1>2, <1>7, <1>10 DEF Arrive, Acquire, ReadRow, WriteBalance, Publish,
                             Commit, CacheBalance
  <1>11. CASE Throw(r) \/ AcquireTimeout(r) \/ Rollback(r)
    BY <1>2, <1>8, <1>11 DEF Throw, AcquireTimeout, Rollback
  <1>12. CASE ReadCache(r) \/ ReadMissed(r) \/ FillCache(r)
    <2>1. CASE \E b : Checked(r, b) /\ pc[r] \in {"balance", "fill"}
      BY <1>2, <1>9, <2>1
    <2>2. CASE Goto(r, "miss") \/ Goto(r, "fill")
      BY <1>2, <1>3, <1>4, <2>2
    <2>. QED  BY <1>12, <2>1, <2>2 DEF ReadCache, ReadMissed, FillCache
  <1>13. CASE UpdateBalance(r)
    <2>1. CASE Goto(r, After(r, "update"))
      BY <1>2, <1>7, <1>13, <2>1 DEF UpdateBalance
    <2>2. CASE Goto(r, "unlock")
      BY <1>2, <1>3, <1>4, <2>2
    <2>. QED  BY <1>13, <2>1, <2>2 DEF UpdateBalance
  <1>14. CASE Release(r) \/ ReleaseFails(r)
    BY <1>2, <1>3, <1>4, <1>14 DEF Release, ReleaseFails
  <1>. QED
    BY <1>10, <1>11, <1>12, <1>13, <1>14 DEF Step, Serve

LEMMA Shrunk ==
    ASSUME NEW T, IsFiniteSet(T), NEW S, S \subseteq T
    PROVE  /\ IsFiniteSet(S) /\ Cardinality(S) <= Cardinality(T)
           /\ Cardinality(S) \in Nat /\ Cardinality(T) \in Nat
  BY FS_Subset, FS_CardinalityType

LEMMA Grown ==
    ASSUME NEW T, IsFiniteSet(T), NEW x, NEW S, S \subseteq T \cup {x}
    PROVE  /\ IsFiniteSet(S) /\ Cardinality(S) <= Cardinality(T) + 1
           /\ Cardinality(S) \in Nat /\ Cardinality(T) \in Nat
  <1>1. /\ IsFiniteSet(T \cup {x})
        /\ Cardinality(T \cup {x}) \in {Cardinality(T), Cardinality(T) + 1}
        /\ Cardinality(T) \in Nat
    <2>1. CASE x \in T
      <3>1. T \cup {x} = T
        BY <2>1
      <3>. QED  BY <3>1, FS_CardinalityType
    <2>2. CASE x \notin T
      BY <2>2, FS_AddElement, FS_CardinalityType
    <2>. QED  BY <2>1, <2>2
  <1>2. /\ IsFiniteSet(S) /\ Cardinality(S) <= Cardinality(T \cup {x})
        /\ Cardinality(S) \in Nat
    BY <1>1, Shrunk
  <1>. QED  BY <1>1, <1>2

LEMMA HeldParts == Held = Cardinality(Holding) + Cardinality(OpenTasks)
  BY DEF Held, Holding, OpenTasks

\* Fewer holders keep the bound, and one more keeps it while a connection is
\* free.
LEMMA PoolShrinks ==
    ASSUME PoolInv, Holding' \subseteq Holding, OpenTasks' \subseteq OpenTasks
    PROVE  PoolInv'
  <1>1. /\ IsFiniteSet(Holding') /\ Cardinality(Holding') <= Cardinality(Holding)
        /\ Cardinality(Holding') \in Nat /\ Cardinality(Holding) \in Nat
    BY Shrunk DEF PoolInv
  <1>2. /\ IsFiniteSet(OpenTasks')
        /\ Cardinality(OpenTasks') <= Cardinality(OpenTasks)
        /\ Cardinality(OpenTasks') \in Nat /\ Cardinality(OpenTasks) \in Nat
    BY Shrunk DEF PoolInv
  <1>3. Held' = Cardinality(Holding') + Cardinality(OpenTasks')
    BY DEF Held, Holding, OpenTasks
  <1>. QED  BY <1>1, <1>2, <1>3, HeldParts, ConstantsType DEF PoolInv

LEMMA RequestBegins ==
    ASSUME PoolInv, FreeConnection, NEW r,
           Holding' \subseteq Holding \cup {r}, OpenTasks' = OpenTasks
    PROVE  PoolInv'
  <1>1. /\ IsFiniteSet(Holding')
        /\ Cardinality(Holding') <= Cardinality(Holding) + 1
        /\ Cardinality(Holding') \in Nat /\ Cardinality(Holding) \in Nat
    BY Grown DEF PoolInv
  <1>2. IsFiniteSet(OpenTasks') /\ Cardinality(OpenTasks) \in Nat
    BY FS_CardinalityType DEF PoolInv
  <1>3. Held' = Cardinality(Holding') + Cardinality(OpenTasks)
    BY DEF Held, Holding, OpenTasks
  <1>4. Held < PoolSize
    BY DEF FreeConnection
  <1>. QED  BY <1>1, <1>2, <1>3, <1>4, HeldParts, ConstantsType DEF PoolInv

LEMMA TaskBegins ==
    ASSUME PoolInv, FreeConnection, NEW t,
           OpenTasks' \subseteq OpenTasks \cup {t}, Holding' = Holding
    PROVE  PoolInv'
  <1>1. /\ IsFiniteSet(OpenTasks')
        /\ Cardinality(OpenTasks') <= Cardinality(OpenTasks) + 1
        /\ Cardinality(OpenTasks') \in Nat /\ Cardinality(OpenTasks) \in Nat
    BY Grown DEF PoolInv
  <1>2. IsFiniteSet(Holding') /\ Cardinality(Holding) \in Nat
    BY FS_CardinalityType DEF PoolInv
  <1>3. Held' = Cardinality(Holding) + Cardinality(OpenTasks')
    BY DEF Held, Holding, OpenTasks
  <1>4. Held < PoolSize
    BY DEF FreeConnection
  <1>. QED  BY <1>1, <1>2, <1>3, <1>4, HeldParts, ConstantsType DEF PoolInv

LEMMA PoolStep ==
    ASSUME TypeOK, PoolInv, [Next]_vars
    PROVE  PoolInv'
  <1>1. ASSUME NEW r \in Request, Step(r), ~BeginTxn(r)
        PROVE  PoolInv'
    BY <1>1, StepKeepsTxn, PoolShrinks
  <1>2. ASSUME NEW r \in Request, BeginTxn(r)
        PROVE  PoolInv'
    <2>1. FreeConnection /\ OpenTasks' = OpenTasks
      BY <1>2 DEF BeginTxn, OpenTasks
    <2>2. Holding' \subseteq Holding \cup {r}
      BY <1>2 DEF BeginTxn, Goto, Holding, InTxn, TypeOK
    <2>. QED  BY <2>1, <2>2, RequestBegins
  <1>3. ASSUME NEW t \in Task, Work(t)
        PROVE  PoolInv'
    <2>1. Holding' = Holding
      BY <1>3, WorkFrame DEF Holding, InTxn
    <2>2. CASE BeginTask(t)
      <3>1. OpenTasks' \subseteq OpenTasks \cup {t}
        BY <2>2 DEF BeginTask, OpenTasks, TypeOK
      <3>. QED  BY <2>1, <2>2, <3>1, TaskBegins DEF BeginTask
    <2>3. CASE LookupTask(t)
      <3>1. \A v \in Task : task'[v].at = task[v].at
        BY <2>3 DEF LookupTask, TypeOK, TaskStates
      <3>2. OpenTasks' \subseteq OpenTasks
        BY <3>1 DEF OpenTasks
      <3>. QED  BY <2>1, <3>2, PoolShrinks
    <2>4. CASE EndTask(t)
      <3>1. OpenTasks' \subseteq OpenTasks
        BY <2>4 DEF EndTask, OpenTasks, TypeOK
      <3>. QED  BY <2>1, <3>1, PoolShrinks
    <2>. QED  BY <1>3, <2>2, <2>3, <2>4 DEF Work
  <1>4. CASE Crash
    <2>1. \A r \in Request : pc'[r] \in {pc[r], "done"} /\ req'[r] = req[r]
      BY <1>4 DEF Crash
    <2>2. Holding' \subseteq Holding
      BY <2>1 DEF Holding, InTxn
    <2>3. OpenTasks' \subseteq OpenTasks
      BY <1>4 DEF Crash, OpenTasks
    <2>. QED  BY <2>2, <2>3, PoolShrinks
  <1>5. ASSUME UNCHANGED <<req, pc, task>>
        PROVE  PoolInv'
    <2>1. Holding' = Holding /\ OpenTasks' = OpenTasks
      BY <1>5 DEF Holding, InTxn, OpenTasks
    <2>. QED  BY <2>1, PoolShrinks
  <1>6. ASSUME NEW u \in User, CacheExpire(u) \/ LockExpire(u)
        PROVE  PoolInv'
    BY <1>5, <1>6 DEF CacheExpire, LockExpire
  <1>7. CASE UNCHANGED vars
    BY <1>5, <1>7 DEF vars
  <1>. QED
    BY <1>1, <1>2, <1>3, <1>4, <1>6, <1>7 DEF Next, Terminated

LEMMA PoolInit == Init => PoolInv
  <1>. SUFFICES ASSUME Init  PROVE PoolInv
    OBVIOUS
  <1>1. Holding = {} /\ OpenTasks = {}
    BY DEF Init, Holding, InTxn, OpenTasks
  <1>2. IsFiniteSet(Holding) /\ IsFiniteSet(OpenTasks) /\ Held = 0
    BY <1>1, HeldParts, FS_EmptySet
  <1>. QED  BY <1>2, ConstantsType DEF PoolInv

\* When nobody can go on, whoever holds a connection asks for another one.
LEMMA StalledAsk ==
    ASSUME Stalled
    PROVE  Held = HeldAsking /\ ~FreeConnection
  <1>1. \A q \in Request : pc[q] \notin {"publish", "commit"}
    BY DEF Stalled, Blocked, NeedsConnection
  <1>2. \A q \in Request : ~RowLocked(q)
    BY <1>1 DEF RowLocked
  <1>3. \A q \in Request : pc[q] # "write"
    BY <1>2 DEF Stalled, Blocked, NeedsConnection
  <1>4. {q \in Request : InTxn(q)} = {q \in Request : Asking(q)}
    BY <1>1, <1>3 DEF InTxn, Asking
  <1>5. {t \in Task : task[t].at = "open"} = {t \in Task : TaskAsking(t)}
    BY DEF Stalled, TaskBlocked, TaskAsking
  <1>6. ~FreeConnection
    BY <1>2 DEF Stalled, Blocked, TaskBlocked
  <1>. QED  BY <1>4, <1>5, <1>6 DEF Held, HeldAsking

\* The calls of point.service.ts, swap.service.ts and token.service.ts stop
\* each other only in one way, also when locks expire, commits fail or the
\* server restarts: all connections are held by calls that ask for a second.
THEOREM OnlyNestedStall == Spec => []StallsOnlyNested
  <1>1. PoolInv => StallsOnlyNested
    <2>. SUFFICES ASSUME PoolInv, Stalled  PROVE HeldAsking = PoolSize
      BY DEF StallsOnlyNested
    <2>1. Cardinality(Holding) \in Nat /\ Cardinality(OpenTasks) \in Nat
      BY FS_CardinalityType DEF PoolInv
    <2>2. Held \in Nat /\ Held <= PoolSize
      BY <2>1, HeldParts DEF PoolInv
    <2>3. ~(Held < PoolSize) /\ Held = HeldAsking
      BY StalledAsk DEF FreeConnection
    <2>. QED  BY <2>2, <2>3, ConstantsType
  <1>2. TypeOK /\ PoolInv /\ [Next]_vars => PoolInv'
    BY PoolStep
  <1>. QED  BY <1>1, <1>2, PoolInit, TypeCorrect, PTL DEF Spec

\* A pool with a connection more than there are users and other calls of the
\* kind never stops, however many deposits arrive: Redlock lets one request
\* of a user at a time into executeWithLock while no lock expires under it.
THEOREM FewUsersNeverStall ==
    ASSUME LocksOutlive, IsFiniteSet(User), IsFiniteSet(Task),
           Cardinality(User) + Cardinality(Task) < PoolSize
    PROVE  Spec => []~Stalled
  <1>1. ASSUME TypeOK, LockExclusive
        PROVE  ~Stalled
    <2>. DEFINE A == {r \in Request : Asking(r)}
                B == {t \in Task : TaskAsking(t)}
                f == [r \in A |-> Owner(r)]
    <2>1. \A r \in A : r \in Request /\ InLock(r)
      BY DEF Asking, InLock, LockedStep
    <2>2. \A r, q \in A : Owner(r) = Owner(q) => r = q
      BY <1>1, <2>1 DEF LockExclusive
    <2>3. \A r \in A : Owner(r) \in User
      BY <1>1, <2>1, RequestType
    <2>4. f \in Injection(A, User)
      BY <2>2, <2>3 DEF Injection, IsInjective
    <2>5. HeldAsking = Cardinality(A) + Cardinality(B) /\ B \subseteq Task
      BY DEF HeldAsking
    <2>6. Stalled => ~(HeldAsking < PoolSize)
      BY StalledAsk DEF FreeConnection
    <2>. HIDE DEF A, B, f
    <2>7. /\ Cardinality(A) <= Cardinality(User)
          /\ Cardinality(A) \in Nat /\ Cardinality(User) \in Nat
      BY <2>4, FS_Injection, FS_CardinalityType
    <2>8. /\ Cardinality(B) <= Cardinality(Task)
          /\ Cardinality(B) \in Nat /\ Cardinality(Task) \in Nat
      BY <2>5, Shrunk
    <2>. QED  BY <2>5, <2>6, <2>7, <2>8, ConstantsType
  <1>. QED  BY <1>1, TypeCorrect, MutualExclusion, PTL

=============================================================================
