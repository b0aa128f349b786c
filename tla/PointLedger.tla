---------------------------- MODULE PointLedger ----------------------------
(***************************************************************************)
(* The balance operations of PointService: deposit (points to tokens),     *)
(* withdraw (tokens to points), consume, grant, the credit of a withdrawal *)
(* taken from the update-balance queue, and the reading of a balance.      *)
(*                                                                         *)
(* Each request runs in steps, one per call of the service to another      *)
(* system: the PostgreSQL row user_point.balance (db), the Redis copy of   *)
(* it (cache, an hour to live), the Redlock lock of the user (lock, ten    *)
(* seconds to live), the RabbitMQ client (sent) and the database           *)
(* connection pool.  The order of the steps is the order of the calls in   *)
(* the method, kept in the *Flow tables: [step |-> next step].             *)
(*                                                                         *)
(* The pool is shared with the other calls of the server that look         *)
(* something up outside their open transaction (Task): the creation of a   *)
(* user, the recording of a batch of swaps and the handlers of events.     *)
(***************************************************************************)
EXTENDS Integers, FiniteSets, Functions

CONSTANTS
    User,          \* the owners of a user_point row
    Request,       \* calls of the API and messages of the queue
    Ops,           \* the operations the requests may ask for
    Amount,        \* the amounts they may name
    InitBalance,   \* the balance every user starts with
    Task,          \* other calls that ask for a second connection
    Lookups,       \* the most such lookups of one of them
    PoolSize,      \* connections of the database pool
    Faults,        \* the failures the environment may produce
    None           \* no holder of a lock, no cached value

AllOps == {"deposit", "withdraw", "consume", "grant", "increase", "read"}

AllFaults == {"commit", "answer", "cacheSet", "publish", "release",
              "lockExpiry", "crash"}

ASSUME ConstantsAssumption ==
    /\ Ops \subseteq AllOps
    /\ Faults \subseteq AllFaults
    /\ Amount \subseteq Nat
    /\ InitBalance \in Nat
    /\ Lookups \in Nat
    /\ PoolSize \in Nat
    /\ None \notin Request
    /\ None \notin Int

VARIABLES
    req,      \* what each request asks: operation, user and amount
    pc,       \* the next step of each request
    row,      \* userPoint.balance as the request read it from the database
    bal,      \* the result of getPointBalance in the request
    outcome,  \* what the caller is told: "unsure" is an error that came
              \* after the operation, or instead of any answer of it
    db,       \* user_point.balance, committed
    booked,   \* requests whose effect (and history row) is committed
    cache,    \* the Redis value of each user's balance
    lock,     \* the request each user's lock names
    sent,     \* requests whose swap message is published
    task      \* the state of each task and the lookups left in it

vars == <<req, pc, row, bal, outcome, db, booked, cache, lock, sent, task>>

(***************************************************************************)
(* The order of the steps.                                                 *)
(***************************************************************************)
\* Variants named "Wrong..." are mistakes the properties are checked to find;
\* they are not part of the specification.

\* The message leaves before the transaction is opened.
WrongPublishFlow ==
    [start |-> "lock", lock |-> "balance", balance |-> "publish",
     publish |-> "begin", begin |-> "row", row |-> "write",
     write |-> "commit", commit |-> "unlock"]

DepositFlow ==
    [start |-> "lock", lock |-> "balance", balance |-> "begin",
     begin |-> "row", row |-> "write", write |-> "publish",
     publish |-> "commit", commit |-> "unlock"]

WithdrawFlow ==
    [start |-> "lock", lock |-> "begin", begin |-> "publish",
     publish |-> "commit", commit |-> "unlock"]

ConsumeFlow ==
    [start |-> "row", row |-> "balance", balance |-> "lock",
     lock |-> "begin", begin |-> "write", write |-> "commit",
     commit |-> "unlock"]

GrantFlow ==
    [start |-> "row", row |-> "lock", lock |-> "begin",
     begin |-> "write", write |-> "commit", commit |-> "unlock"]

\* The credit does not renew the Redis copy.
WrongCreditFlow ==
    [start |-> "lock", lock |-> "balance", balance |-> "update",
     update |-> "unlock", cache |-> "unlock"]

IncreaseFlow ==
    [start |-> "lock", lock |-> "balance", balance |-> "update",
     update |-> "cache", cache |-> "unlock"]

ReadFlow == [start |-> "balance", balance |-> "done"]

Flow(op) ==
    CASE op = "deposit"  -> DepositFlow
      [] op = "withdraw" -> WithdrawFlow
      [] op = "consume"  -> ConsumeFlow
      [] op = "grant"    -> GrantFlow
      [] op = "increase" -> IncreaseFlow
      [] op = "read"     -> ReadFlow

After(r, step) == Flow(req[r].op)[step]

Labels ==
    {"start", "row", "lock", "balance", "miss", "fill", "begin", "write",
     "publish", "commit", "update", "cache", "unlock", "done"}

\* The steps a request of each operation can be at: those of its flow, the
\* two of a missed cache read, and the two ends.
Steps(op) ==
    CASE op = "deposit"  -> {"start", "lock", "balance", "miss", "fill",
                             "begin", "row", "write", "publish", "commit",
                             "unlock", "done"}
      [] op = "withdraw" -> {"start", "lock", "begin", "publish", "commit",
                             "unlock", "done"}
      [] op = "consume"  -> {"start", "row", "balance", "miss", "fill",
                             "lock", "begin", "write", "commit", "unlock",
                             "done"}
      [] op = "grant"    -> {"start", "row", "lock", "begin", "write",
                             "commit", "unlock", "done"}
      [] op = "increase" -> {"start", "lock", "balance", "miss", "fill",
                             "update", "cache", "unlock", "done"}
      [] op = "read"     -> {"start", "balance", "miss", "fill", "done"}

(***************************************************************************)
(* Helpers.                                                                *)
(***************************************************************************)
Owner(r) == req[r].user

\* The signed effect of a request on the balance.
Delta(r) ==
    CASE req[r].op \in {"deposit", "consume"} -> 0 - req[r].amt
      [] req[r].op \in {"grant", "increase"}  -> req[r].amt
      [] req[r].op \in {"withdraw", "read"}   -> 0

\* The operations whose transaction updates the user_point row.
WritesRow(r) == req[r].op \in {"deposit", "consume", "grant"}

\* The request runs inside the callback of executeWithLock.
LockedStep(op, step) ==
    \/ step \in {"begin", "write", "publish", "commit", "update", "cache",
                 "unlock"}
    \/ /\ step \in {"balance", "miss", "fill", "row"}
       /\ op \in {"deposit", "increase"}

InLock(r) == LockedStep(req[r].op, pc[r])

\* The request holds a connection for its open transaction.
InTxn(r) ==
    \/ pc[r] \in {"write", "publish", "commit"}
    \/ pc[r] = "row" /\ req[r].op = "deposit"

\* The request asks for a second connection while it holds one:
\* findByUserId is not given the manager of the open transaction.
Asking(r) == pc[r] = "row" /\ req[r].op = "deposit"

TaskStates == [at : {"start", "open", "done"}, left : 0..Lookups]

\* The same of a task: its lookup is not given the manager either.
TaskAsking(t) == task[t].at = "open" /\ task[t].left > 0

Held == Cardinality({r \in Request : InTxn(r)})
        + Cardinality({t \in Task : task[t].at = "open"})

\* The connections held by calls that ask for another one.
HeldAsking == Cardinality({r \in Request : Asking(r)})
              + Cardinality({t \in Task : TaskAsking(t)})

\* The last connection is never given out.
WrongFreeConnection == Held < PoolSize - 1

FreeConnection == Held < PoolSize

\* The call looks up its user or wallet before anything else.
LooksUp(r) == req[r].op \in {"deposit", "withdraw"}

\* The next call of the request needs a connection from the pool.
NeedsConnection(r) ==
    \/ pc[r] \in {"row", "miss", "begin", "update"}
    \/ pc[r] = "start" /\ LooksUp(r)

\* Another transaction has updated the row and not ended yet.
RowLocked(r) ==
    \E q \in Request \ {r} :
        /\ Owner(q) = Owner(r)
        /\ WritesRow(q)
        /\ pc[q] \in {"publish", "commit"}

Goto(r, step) == pc' = [pc EXCEPT ![r] = step]

\* An exception: the transaction is rolled back and, inside executeWithLock,
\* the lock is released before the caller hears of it.
Fail(r) ==
    /\ outcome' = [outcome EXCEPT ![r] = "failed"]
    /\ Goto(r, IF InLock(r) THEN "unlock" ELSE "done")

\* Redis set, whose errors are caught and logged.
SetCache(u, v) ==
    \/ cache' = [cache EXCEPT ![u] = v]
    \/ "cacheSet" \in Faults /\ UNCHANGED cache

\* One point short is let through.
WrongInsufficient(r, b) ==
    req[r].op \in {"deposit", "consume"} /\ b + 1 < req[r].amt

Insufficient(r, b) ==
    req[r].op \in {"deposit", "consume"} /\ b < req[r].amt

\* getPointBalance returned b: the caller's own check, then its next step.
Checked(r, b) ==
    IF Insufficient(r, b)
    THEN Fail(r)
    ELSE /\ Goto(r, After(r, "balance"))
         /\ outcome' = [outcome EXCEPT
                ![r] = IF req[r].op = "read" THEN "ok" ELSE @]
-----------------------------------------------------------------------------
Init ==
    /\ req \in [Request -> [op : Ops, user : User, amt : Amount]]
    /\ pc = [r \in Request |-> "start"]
    /\ row = [r \in Request |-> 0]
    /\ bal = [r \in Request |-> 0]
    /\ outcome = [r \in Request |-> "none"]
    /\ db = [u \in User |-> InitBalance]
    /\ booked = {}
    /\ cache = [u \in User |-> None]
    /\ lock = [u \in User |-> None]
    /\ sent = {}
    /\ task = [t \in Task |-> [at |-> "start", left |-> 0]]

\* The request arrives and passes the checks on its user.
Arrive(r) ==
    /\ pc[r] = "start"
    /\ LooksUp(r) => FreeConnection
    /\ Goto(r, After(r, "start"))
    /\ UNCHANGED <<req, row, bal, outcome, db, booked, cache, lock, sent, task>>

\* A lookup fails or finds nothing before the request changed anything:
\* user or row not found, user not valid, wallet of another user, too few
\* tokens, or an error of the database or of Redis.  Waiting for a connection
\* of the pool has no time limit and cannot fail.
Throw(r) ==
    /\ pc[r] \in {"start", "row", "lock", "balance", "miss", "begin",
                  "write", "update"}
    /\ NeedsConnection(r) => FreeConnection
    /\ Fail(r)
    /\ UNCHANGED <<req, row, bal, db, booked, cache, lock, sent, task>>

Acquire(r) ==
    /\ pc[r] = "lock"
    /\ lock[Owner(r)] = None
    /\ lock' = [lock EXCEPT ![Owner(r)] = r]
    /\ Goto(r, After(r, "lock"))
    /\ UNCHANGED <<req, row, bal, outcome, db, booked, cache, sent, task>>

\* After the retries the request goes on without the lock.
WrongAcquireTimeout(r) ==
    /\ pc[r] = "lock"
    /\ lock[Owner(r)] # None
    /\ Goto(r, After(r, "lock"))
    /\ UNCHANGED <<req, row, bal, outcome, db, booked, cache, lock, sent, task>>

\* Ten retries and the lock is still taken.
AcquireTimeout(r) ==
    /\ pc[r] = "lock"
    /\ lock[Owner(r)] # None
    /\ Fail(r)
    /\ UNCHANGED <<req, row, bal, db, booked, cache, lock, sent, task>>

\* findById before the lock, or findByUserId inside the transaction.
ReadRow(r) ==
    /\ pc[r] = "row"
    /\ FreeConnection
    /\ row' = [row EXCEPT ![r] = db[Owner(r)]]
    /\ Goto(r, After(r, "row"))
    /\ UNCHANGED <<req, bal, outcome, db, booked, cache, lock, sent, task>>

ReadCache(r) ==
    /\ pc[r] = "balance"
    /\ LET c == cache[Owner(r)]
       IN  IF c = None
           THEN /\ Goto(r, "miss")
                /\ UNCHANGED <<bal, outcome>>
           ELSE /\ bal' = [bal EXCEPT ![r] = c]
                /\ Checked(r, c)
    /\ UNCHANGED <<req, row, db, booked, cache, lock, sent, task>>

ReadMissed(r) ==
    /\ pc[r] = "miss"
    /\ FreeConnection
    /\ bal' = [bal EXCEPT ![r] = db[Owner(r)]]
    /\ Goto(r, "fill")
    /\ UNCHANGED <<req, row, outcome, db, booked, cache, lock, sent, task>>

FillCache(r) ==
    /\ pc[r] = "fill"
    /\ SetCache(Owner(r), bal[r])
    /\ Checked(r, bal[r])
    /\ UNCHANGED <<req, row, bal, db, booked, lock, sent, task>>

BeginTxn(r) ==
    /\ pc[r] = "begin"
    /\ FreeConnection
    /\ Goto(r, After(r, "begin"))
    /\ UNCHANGED <<req, row, bal, outcome, db, booked, cache, lock, sent, task>>

\* updateBalance inside the transaction, then the Redis copy, both with the
\* balance computed from the row read earlier; invisible to others until
\* the commit, except for the row lock and the Redis value.
WriteBalance(r) ==
    /\ pc[r] = "write"
    /\ ~RowLocked(r)
    /\ SetCache(Owner(r), row[r] + Delta(r))
    /\ Goto(r, After(r, "write"))
    /\ UNCHANGED <<req, row, bal, outcome, db, booked, lock, sent, task>>

\* The swap message leaves before the transaction commits.
Publish(r) ==
    /\ pc[r] = "publish"
    /\ \/ sent' = sent \cup {r}
       \/ "publish" \in Faults /\ UNCHANGED sent
    /\ Goto(r, After(r, "publish"))
    /\ UNCHANGED <<req, row, bal, outcome, db, booked, cache, lock, task>>

\* The answer of the database to a change it made is lost: an exception.
Unsure(r) == outcome' = [outcome EXCEPT ![r] = "unsure"]

Commit(r) ==
    /\ pc[r] = "commit"
    /\ db' = IF WritesRow(r)
             THEN [db EXCEPT ![Owner(r)] = row[r] + Delta(r)]
             ELSE db
    /\ booked' = booked \cup {r}
    /\ Goto(r, After(r, "commit"))
    /\ \/ UNCHANGED outcome
       \/ "answer" \in Faults /\ Unsure(r)
    /\ UNCHANGED <<req, row, bal, cache, lock, sent, task>>

\* The error of the transaction is logged and swallowed.
WrongRollback(r) ==
    /\ "commit" \in Faults
    /\ pc[r] \in {"publish", "commit"}
    /\ Goto(r, "unlock")
    /\ UNCHANGED <<req, row, bal, outcome, db, booked, cache, lock, sent, task>>

\* The transaction fails after its Redis write and its message.
Rollback(r) ==
    /\ "commit" \in Faults
    /\ pc[r] \in {"publish", "commit"}
    /\ Fail(r)
    /\ UNCHANGED <<req, row, bal, db, booked, cache, lock, sent, task>>

\* The new balance is taken for an increment.
WrongUpdateBalance(r) ==
    /\ pc[r] = "update"
    /\ ~RowLocked(r)
    /\ FreeConnection
    /\ db' = [db EXCEPT ![Owner(r)] = @ + bal[r] + Delta(r)]
    /\ booked' = booked \cup {r}
    /\ Goto(r, After(r, "update"))
    /\ UNCHANGED <<req, row, bal, outcome, cache, lock, sent, task>>

\* The credit of a withdrawal: an update outside any transaction.
UpdateBalance(r) ==
    /\ pc[r] = "update"
    /\ ~RowLocked(r)
    /\ FreeConnection
    /\ db' = [db EXCEPT ![Owner(r)] = bal[r] + Delta(r)]
    /\ booked' = booked \cup {r}
    /\ \/ Goto(r, After(r, "update")) /\ UNCHANGED outcome
       \/ "answer" \in Faults /\ Goto(r, "unlock") /\ Unsure(r)
    /\ UNCHANGED <<req, row, bal, cache, lock, sent, task>>

\* An error of Redis after the update is not caught.
WrongCacheBalance(r) ==
    /\ pc[r] = "cache"
    /\ \/ /\ cache' = [cache EXCEPT ![Owner(r)] = bal[r] + Delta(r)]
          /\ Goto(r, After(r, "cache"))
          /\ UNCHANGED outcome
       \/ "cacheSet" \in Faults /\ Fail(r) /\ UNCHANGED cache
    /\ UNCHANGED <<req, row, bal, db, booked, lock, sent, task>>

CacheBalance(r) ==
    /\ pc[r] = "cache"
    /\ SetCache(Owner(r), bal[r] + Delta(r))
    /\ Goto(r, After(r, "cache"))
    /\ UNCHANGED <<req, row, bal, outcome, db, booked, lock, sent, task>>

\* The finally of executeWithLock, whatever the callback did.
Release(r) ==
    /\ pc[r] = "unlock"
    /\ lock[Owner(r)] = r
    /\ lock' = [lock EXCEPT ![Owner(r)] = None]
    /\ outcome' = [outcome EXCEPT ![r] = IF @ = "none" THEN "ok" ELSE @]
    /\ Goto(r, "done")
    /\ UNCHANGED <<req, row, bal, db, booked, cache, sent, task>>

\* The release throws, in place of the result or the error of the callback:
\* the lock is no longer this request's own, or Redis cannot be reached and
\* has freed it or not.
ReleaseFails(r) ==
    /\ pc[r] = "unlock"
    /\ \/ lock[Owner(r)] # r /\ UNCHANGED lock
       \/ /\ "release" \in Faults
          /\ lock[Owner(r)] = r
          /\ lock' \in {lock, [lock EXCEPT ![Owner(r)] = None]}
    /\ Unsure(r)
    /\ Goto(r, "done")
    /\ UNCHANGED <<req, row, bal, db, booked, cache, sent, task>>

\* Another call opens its transaction; how often it will look something up
\* outside of it depends on what it works on.
BeginTask(t) ==
    /\ task[t].at = "start"
    /\ FreeConnection
    /\ \E n \in 0..Lookups :
           task' = [task EXCEPT ![t] = [at |-> "open", left |-> n]]
    /\ UNCHANGED <<req, pc, row, bal, outcome, db, booked, cache, lock, sent>>

\* The loop runs once too often.
WrongLookupTask(t) ==
    /\ task[t].at = "open"
    /\ FreeConnection
    /\ task' = [task EXCEPT ![t].left = @ - 1]
    /\ UNCHANGED <<req, pc, row, bal, outcome, db, booked, cache, lock, sent>>

LookupTask(t) ==
    /\ TaskAsking(t)
    /\ FreeConnection
    /\ task' = [task EXCEPT ![t].left = @ - 1]
    /\ UNCHANGED <<req, pc, row, bal, outcome, db, booked, cache, lock, sent>>

\* Nothing is left to look up, or a query fails: the transaction ends and
\* gives its connection back.
EndTask(t) ==
    /\ task[t].at = "open"
    /\ TaskAsking(t) => FreeConnection
    /\ task' = [task EXCEPT ![t] = [at |-> "done", left |-> 0]]
    /\ UNCHANGED <<req, pc, row, bal, outcome, db, booked, cache, lock, sent>>

\* The hour of a Redis balance is over.
CacheExpire(u) ==
    /\ cache[u] # None
    /\ cache' = [cache EXCEPT ![u] = None]
    /\ UNCHANGED <<req, pc, row, bal, outcome, db, booked, lock, sent, task>>

\* The ten seconds of a lock are over: its holder died, or runs on.
LockExpire(u) ==
    /\ lock[u] # None
    /\ pc[lock[u]] = "done" \/ "lockExpiry" \in Faults
    /\ lock' = [lock EXCEPT ![u] = None]
    /\ UNCHANGED <<req, pc, row, bal, outcome, db, booked, cache, sent, task>>

\* The server stops: every request in progress dies where it is, open
\* transactions are rolled back, locks stay until they expire.
Crash ==
    LET dead == {r \in Request : pc[r] \notin {"start", "done"}}
    IN  /\ "crash" \in Faults
        /\ dead # {}
        /\ pc' = [r \in Request |-> IF r \in dead THEN "done" ELSE pc[r]]
        /\ outcome' = [r \in Request |->
                           IF r \in dead THEN "unsure" ELSE outcome[r]]
        /\ task' = [t \in Task |-> IF task[t].at = "open"
                                   THEN [at |-> "done", left |-> 0]
                                   ELSE task[t]]
        /\ UNCHANGED <<req, row, bal, db, booked, cache, lock, sent>>

\* The calls of a request that get an answer, one after the other.
Serve(r) ==
    \/ Arrive(r)     \/ Acquire(r)      \/ AcquireTimeout(r)
    \/ ReadRow(r)    \/ ReadCache(r)    \/ ReadMissed(r)
    \/ FillCache(r)  \/ BeginTxn(r)     \/ WriteBalance(r)
    \/ Publish(r)    \/ Commit(r)       \/ UpdateBalance(r)
    \/ CacheBalance(r) \/ Release(r)  \/ ReleaseFails(r)

Step(r) == Serve(r) \/ Throw(r) \/ Rollback(r)

Work(t) == BeginTask(t) \/ LookupTask(t) \/ EndTask(t)

\* Every request was answered: nothing is left to do.
Terminated ==
    /\ \A r \in Request : pc[r] = "done"
    /\ \A t \in Task : task[t].at = "done"
    /\ UNCHANGED vars

Next ==
    \/ \E r \in Request : Step(r)
    \/ \E t \in Task : Work(t)
    \/ \E u \in User : CacheExpire(u) \/ LockExpire(u)
    \/ Crash
    \/ Terminated

Spec == Init /\ [][Next]_vars

\* The event loop keeps serving every call that arrived; nothing forces an
\* error of a request to happen.
FairSpec ==
    /\ Spec
    /\ \A r \in Request : WF_vars(Serve(r))
    /\ \A t \in Task : WF_vars(Work(t))
-----------------------------------------------------------------------------
(***************************************************************************)
(* Properties.                                                             *)
(***************************************************************************)
TypeOK ==
    /\ req \in [Request -> [op : Ops, user : User, amt : Amount]]
    /\ pc \in [Request -> Labels]
    /\ \A r \in Request : pc[r] \in Steps(req[r].op)
    /\ row \in [Request -> Int]
    /\ bal \in [Request -> Int]
    /\ outcome \in [Request -> {"none", "ok", "failed", "unsure"}]
    /\ db \in [User -> Int]
    /\ booked \in SUBSET Request
    /\ cache \in [User -> Int \cup {None}]
    /\ lock \in [User -> Request \cup {None}]
    /\ sent \in SUBSET Request
    /\ task \in [Task -> TaskStates]

\* While locks outlive the work done under them, two requests of a user are
\* never inside executeWithLock at once, and the lock names the one inside:
\* the releases, failures and crashes of redlock.service.ts never let a
\* second request in.
LockExclusive ==
    \A r, q \in Request :
        /\ InLock(r) => lock[Owner(r)] = r
        /\ InLock(r) /\ InLock(q) /\ Owner(r) = Owner(q) => r = q

\* When nobody works under the user's lock, Redis has no value or the
\* committed one: what deposit checks against is what it debits.
CacheCoherent ==
    \A u \in User :
        (\A r \in Request : InLock(r) => Owner(r) # u)
            => cache[u] \in {None, db[u]}

\* A swap message is only ever about a swap row that exists or whose
\* transaction is about to commit: the scheduler never pays for a deposit
\* that was never debited.
SentIsBooked ==
    \A r \in sent : r \in booked \/ pc[r] = "commit"

\* A request that failed has no effect, so that its caller may ask again.
\* Whatever throws after the change of the balance, and is not the loss of
\* the server, of the database's answer or of the lock, must be caught: the
\* Redis copy and the message of the queue are not worth the answer.
FailureHasNoEffect ==
    \A r \in Request :
        outcome[r] = "failed" /\ req[r].op # "read" => r \notin booked

\* Success is never reported for an effect that is not committed, whatever
\* fails, and even when locks expire under their holders.
SuccessIsDurable ==
    \A r \in Request :
        outcome[r] = "ok" /\ req[r].op # "read" => r \in booked

\* The detailed service implements the ledger: each balance change is the
\* whole effect of one request, once.
OwnerMap == [r \in Request |-> Owner(r)]

DeltaMap == [r \in Request |-> Delta(r)]

Exact == INSTANCE AtomicLedger WITH
    Overdraft <- TRUE, owner <- OwnerMap, delta <- DeltaMap,
    balance <- db, applied <- booked

ExactLedger == Exact!Spec

\* ... and it also never accepts a debit that the balance does not cover.
Covering == INSTANCE AtomicLedger WITH
    Overdraft <- FALSE, owner <- OwnerMap, delta <- DeltaMap,
    balance <- db, applied <- booked

CoveredLedger == Covering!Spec

\* The whole effects of the requests of S on the balance of u.
Total(u, S) == SumFunctionOnSet(DeltaMap, {r \in S : Owner(r) = u})

\* Whatever interleaves and fails, even when locks expire, a balance is the
\* start plus the whole effects of some of the requests: effects can be lost
\* by the stale reads of consume and grant, and the effect of a deposit that
\* was rolled back can survive in Redis, but none counts twice or in part.
NothingInvented ==
    \A u \in User : \E S \in SUBSET Request :
        IsFiniteSet(S) /\ db[u] = InitBalance + Total(u, S)

\* The next call of the request waits for what other calls hold: a
\* connection of the pool, or the row in another transaction.
Blocked(r) ==
    \/ NeedsConnection(r) /\ ~FreeConnection
    \/ pc[r] \in {"write", "update"} /\ RowLocked(r)

TaskBlocked(t) ==
    (task[t].at = "start" \/ TaskAsking(t)) /\ ~FreeConnection

\* Work is left and everybody waits for everybody.
Stalled ==
    /\ \/ \E r \in Request : pc[r] # "done"
       \/ \E t \in Task : task[t].at # "done"
    /\ \A r \in Request : pc[r] # "done" => Blocked(r)
    /\ \A t \in Task : task[t].at # "done" => TaskBlocked(t)

\* The server can come to a stand, but only in one way: every connection of
\* the pool is held by a call that waits for a second one.  Neither the lock
\* of a user, nor a row in a transaction, nor a call that holds a connection
\* for good ever stops everybody.
StallsOnlyNested == Stalled => HeldAsking = PoolSize

\* As long as the calls that ask for a second connection never hold all of
\* them, every request that waits for a lock is answered.
Answered ==
    [](HeldAsking < PoolSize) =>
        \A r \in Request : pc[r] = "lock" ~> pc[r] = "done"
=============================================================================
