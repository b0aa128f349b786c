# Verification of the point exchange

TLA+ specifications of the point exchange, the configurations that check them
with TLC, and proofs for TLAPS. The program keeps points of users in a
database and exchanges them, both ways, for tokens of a contract on Base
Sepolia. This text says what the parts of the system are, which module stands
for which part, what is checked and proved, and what is not.

Paths below are relative to `src/`.

## The system

| Component | State | Operations | Talks to |
|---|---|---|---|
| Point service (`backend/src/modules/point`) | `user_point.balance`, history rows, `user.status` | deposit, withdraw, consume, grant, balance, credit from the queue, register, validate | Redlock, Redis, PostgreSQL, RabbitMQ (publishes), contract (`setValidUser`) |
| Redlock, Redis (`modules/redlock`, `modules/redis`) | locks of ten seconds, balances of an hour, manager and relayer index | `executeWithLock`, `get`, `set` | |
| RabbitMQ (`modules/rabbitmq`) | swap queue, balance queue | publish, get one message, ack, nack | |
| Scheduler (`modules/scheduler`) | the local variables of a run | every three seconds: take messages, estimate, sign, send one multicall | RabbitMQ, blockchain service, swap service, Redlock |
| Swap service (`modules/swap`) | `user_swap_history` rows: status, reference to a transaction | create, mark failed, refer to a transaction, complete | PostgreSQL |
| Blockchain service (`modules/blockchain`) | keys of managers and relayers, a deadline fixed at start | nonces, signatures, estimates, sending | RPC node, Redis |
| Token service (`modules/token`) | `point_to_token_transaction`, `token_to_point_transaction` rows | handle posted deposits and withdrawals | swap service, point service, balance queue |
| Event script (`blockchain/scripts/eventPollingToPointServer.ts`) | last processed block, in memory and in a file | read events of a range of blocks, post them, save | RPC node, the server's API |
| PointManager, BloomToken (`blockchain/contracts`) | managers, valid users, rate, pause, nonces; balances, allowances | `depositPoint`, `withdrawPoint`, the owner's settings, `multicall` | |
| Frontend session (`frontend/app/components/hooks/useUser.ts`, `utils/storage`) | user data per panel, in the local storage, in the query cache | create a user, load, save and clear the session | API routes, wallet |
| Frontend forms (`useSwap.ts`, `usePoint.ts`, `useSignEIP712.ts`) | status of each form, domain and nonce, query cache | grant, consume, deposit, withdraw; fetch, poll, invalidate | wallet, RPC node, API routes |
| Histories (`useHistory.ts`, repositories of the server) | rows by `created_at` or serial id | list a page, search the swaps of a transaction | PostgreSQL |

A swap of points for tokens goes: API call, debit and swap row in one database
transaction, message on the swap queue; a scheduler run signs it as a manager,
tries it by a gas estimate, collects it into a multicall, writes the hash of
the signed transaction into the swap's row and broadcasts; the event script
reads `PointDeposited` and posts it; the token service completes the swap. A
swap of tokens for points goes the same way with the user's own signature and
no debit; its credit is sent on the balance queue once the event arrived, and
the point service adds it under the user's lock.

### What is hard about it

* Requests of one user interleave; only a part of each method runs under the
  lock, and the lock can end before the work does.
* The end of the lock can fail after the work is committed: an error then says
  nothing of the effect.
* Several methods look something up outside their open transaction, and so need
  two connections of one pool.
* Every balance is in two places, Redis and PostgreSQL, and Redis is written
  inside the transaction.
* Messages are published inside transactions, acknowledged after side effects,
  or before them, or sent without waiting; what is delivered again is done again.
* The scheduler's runs overlap when a receipt takes longer than the lock; all
  calls of a batch succeed or revert together; nonces are predicted.
* The event script repeats whole ranges, times out while the server still
  works, restarts, and treats an answer `{success: false}` as a success.
* The contract must refuse replays inside and across multicalls.
* The panels of the frontend share a storage and a cache, but each has its own
  copy of the session; requests outlive the panels and time out while the
  server goes on; a wallet is switched under an open page.
* What a form shows comes from fetches that may have read before the change;
  a withdrawal is signed for a nonce that a queued one may use first.
* Histories are cut into pages while rows are added and commit late.

### What makes each component correct

* Point service: each accepted request changes its user's balance once, by its
  own amount; no debit beyond the balance; a failure is without effect; no
  waiting for ever.
* Scheduler: a swap is paid or marked as failed, not both, not twice; the row
  of a paid swap names the transaction that paid it; every message leads to one
  of the two outcomes.
* Event script and token service: no event is skipped, a paid swap is completed
  and credited, once; the status of users follows the chain.
* Users: one user per wallet, declared valid on the chain; a session belongs to
  a registered wallet, and nobody's points are paid to another wallet.
* Forms: a success is visible after it, a failure has a reason, loading ends.
* Histories: no row is missed, and a confirmed transaction completes its swaps.
* Contract: a signature pays once, in nonce order; what is paid follows the
  settings; tokens are accounted for by events.

## The modules

| Module | Stands for |
|---|---|
| `AtomicLedger` | abstract: balances changed by whole requests, once each, with or without overdraft |
| `PointLedger` | the balance operations of the point service; implements `AtomicLedger` |
| `SwapOutcome` | abstract: a swap is open, then paid or failed |
| `SwapPipeline` | queue, scheduler, swap rows, transactions, nonces of the contract; implements `SwapOutcome` |
| `EventListener` | chain of events, event script, handlers of the server |
| `SignatureLedger` | abstract: signatures used up in nonce order |
| `PointManager` | the contract with the token it pays in; implements `SignatureLedger` |
| `Session` | the session of the browser, registration, validity, and whose swap is accepted |
| `WebForms` | the forms and queries of a page, the routes, and a withdrawal up to the chain |
| `HistoryPages` | the lists of histories, page by page, and the search for a transaction's swaps |
| `PointLedgerProofs`, `PointManagerProofs`, `SwapPipelineProofs`, `EventListenerProofs`, `SessionProofs`, `WebFormsProofs`, `HistoryPagesProofs` | theorems and proofs |
| `FiniteSums` | lemmas about sums over finite sets, for the proofs of `PointLedger` and `PointManager` |
| `MCPointLedger`, `MCSwapPipeline`, `MCEventListener`, `MCPointManager`, `MCSession`, `MCWebForms`, `MCHistoryPages` | instances for TLC: symmetry, and in `MCPointLedger` what a unit test says |

In each module one action is one call to another system: between two of them
other requests, runs or processes may do anything. Definitions named `Wrong...`
are plausible mistakes, used to see that a property would notice them; no
specification uses them.

### PointLedger

`req` is what each request asks. Its method is a table from step to next step
(`DepositFlow`, `ConsumeFlow`, ...): the order of the calls in the method is
the whole difference between operations, and is what goes wrong in `consume`
and `grant`. `row` and `bal` are the local variables of the method, `db` the
committed balance, `booked` the requests whose effect and history row are
committed, `cache` Redis, `lock` the request that Redlock's key names, `sent`
the published swap messages. An open transaction holds a connection of the pool
(`InTxn`), and after its update the row lock (`RowLocked`). `Task` are the
other calls of the server that hold a connection of the pool and ask for a
second one: `createUserPoint` (`point.service.ts:113`), the recording of a batch
(`swap.service.ts:140`) and the handlers of posted events
(`token.service.ts:75`, `157`, `242`). Each looks something up as often as its
loop has it, up to `Lookups`, before it gives its connection back; what else
they do is in `Session`, `SwapPipeline`, `EventListener` and `HistoryPages`.

Failures are the members of `Faults`: the commit fails, the answer of the
database to a change gets lost, Redis cannot be written, a message is lost, the
release of a lock throws and has freed it or not, a lock ends under its holder,
the server stops. A lookup or a check that throws (`Throw`) needs no fault:
every run has it. A crash loses the requests in progress, rolls open
transactions back and leaves locks and Redis as they are. `outcome` tells two
errors apart that the caller of the API may not: `failed`, when the operation
threw, and `unsure`, when what threw was the release, a lost answer of the
database or the server. Not modelled: the rollback endpoints, which are
not implemented (`point.service.ts:437`, `548`), and history listing.

### SwapPipeline

`run[w]` holds the local variables of one run of
`processPointSwapTransactions`: message in hand, calls collected, swaps to
record, permits, last nonce, manager, transaction. `Accepted(calls)` is the
contract's verdict on a multicall: each call is good, its deadline is ahead,
tokens of a withdrawal may be taken, nonces follow on. It is what an estimate
answers and what the chain does when it mines. An estimate with token permits
in front always reverts, since PointManager has no such function
(`scheduler.service.ts:401`).

Abstracted: amounts and encodings; the relayers, of whose index only the
failing lookup remains; deadlines of withdrawals, which with validity, tokens
and pause are one set `good` that `Spoil` shrinks; a run that finds the lock
taken, which changes nothing. `slowCommit` is the case that the API's message
arrives before its row is committed; `early` remembers the swaps that were
refused before that, and so could not be marked. `lost` remembers the swaps
whose acknowledgement was lost. `Record` asks only for a pending row, as
`swap.service.ts:148` does: a swap that is recorded twice is loaded with its
earlier transaction and saved with that and the new id, and which of the two
TypeORM writes is left open. `loaded` is the time at which the server, one
process, was started.

### EventListener

One transaction per block, no reorganisations. A wallet has a user from the
start or gets one later (`Register`). `recorded` are the transactions
that the server sent itself, whose rows exist before the event; the others were
sent by users directly. A kind of swap of a transaction is also without rows
when none of its swaps was pending any more when the batch was recorded.
`SendCredits` sends a message for each user but those in `lost`: the emit is not
waited for, and its error only logged. A request that timed out stays in `calls`, marked
`left`, and is handled whenever the server comes to it. `from` is the block
after which the script listens: a first start begins at the head of the chain,
and a stop before the first save begins there again
(`eventPollingToPointServer.ts:340`). `Refused` also stands for an unreachable
server once `MaxCalls` requests are used up. Left out: the page of rows in the
swap service, which `HistoryPages` has, and events whose wallet has no user,
whose credit is skipped.

### PointManager

`chain` is what everyone sees, `work` the state inside the transaction in
execution. `Call(ok, effect)` is a function of the contract: all checks in the
order-free conjunction `ok`, or the revert of the whole transaction. A
signature is the record of what its digest covers. Left out: upgrades, transfer
of ownership, tokens sent to the contract by hand, the token's own pause,
minting and burning. The reentrancy guard has nothing to guard: the token calls
nobody back.

### Session

`hook` is the state of `useUser` in each panel, `storage` the key `user_data`,
`cache` the queries of users that were answered, `address` the wallet that
wagmi reports. `Commit` runs the two effects of every mounted panel in order,
as React does after the render that brings a new address: the first loads or
clears the session, the second saves what the query of the *rendered* session
holds under the new address. `create[u]` is the POST that carries user id `u`,
from the click to the answer; its server side goes on without its browser:
`FindUser` (on a connection outside the transaction), `CreateCommits`,
`SetValidUser`. A creation that ends after a switch is saved under the new
wallet, too (`useUser.ts:123`). `Accepts` are the checks at the head of `depositPoints` and
`withdrawPoints`. Left out: balances, the rest of a swap (`PointLedger`,
`SwapPipeline`), repeated validity events (`EventListener`), and the owner of
the contract taking a validity back.

### WebForms

One user, one wallet, the tabs `point` and `swap`. `form` is the status of each
form of the open tab, `info` the domain and nonce that the swap tab loads,
`query` the query cache, `req` the requests from the click to the chain.
`Invalidated` and `OnMount` are what TanStack Query does to a fetch under way: an
invalidation replaces it unless it is the first load, a mount joins it. Versions
count the changes of the user's points, and stand for balances and histories.
`Settle` is a queued withdrawal that the chain takes in, in any order, its permit
first, as one step: `SwapPipeline` has what lies between, also that the
scheduler refuses a withdrawal whose estimate includes a permit. `short` and
`overtaken` remember what `FailedForAReason` excuses.

### HistoryPages

`row` are the rows of the tables of one statement (`Scope`) in the order they
were begun; a row's time is that of its beginning, it is visible from its commit
on. `Pages` gives every answer the database may give to `ORDER BY`, `OFFSET` and
`LIMIT`: rows of equal time come in any order. `walk` is a client that lists a
table: the history panel, which takes the first page, or one that goes on by
`offset` or `lastId` as long as pages are full; such clients are not in the
repository. `createTransaction` is the recording of a pending swap, as often as its
message comes, under a hash of its own or one that is there already, since the
swaps of a batch share one; `Commit` leaves open, like `SwapPipeline`, which
transaction a swap that was recorded before refers to. Rows of a batch commit
together in the code, and may commit apart here. `process` is the handler of a
posted event, which confirms the rows of the hash and completes the swaps that
refer to them, if the page searched (`Newest`, a thousand in the code) has them.

## What TLC checks

| Run | Properties | Question |
|---|---|---|
| `ledger_swaps` | `TypeOK`, `CacheCoherent`, `SentIsBooked`, `LockExclusive`, `StallsOnlyNested`, `CoveredLedger`, `Answered` | deposits, withdrawals and credits of one user and of two, with expiring cache entries, lost messages and a pool of two connections that a task shares; nobody waits for ever, but behind calls that need a second connection |
| `ledger_faults` | `NothingInvented`, `SuccessIsDurable`, `FailureHasNoEffect` | three requests of deposit, grant, credit and reading: locks expiring under their holders, failing commits, cache and releases, lost answers of the database, crashes |
| `manager_use` | `TypeOK`, `SingleUse`, `BalancesAreAccounted`, `UsedInOrder`, `SwitchesHold` | replays in and across multicalls, a wallet that is user and manager, the owner's settings and the boundaries of time, rate and overflow |
| `swap_outcome` | `PaidOnce`, `PaidIsRecorded`, `OneOutcome` | overlapping runs, expiring locks, a deadline that passes, failing queue, database and broadcast |
| `swap_faults` | `TypeOK`, `RowsNameCalls`, `PaidOnce` | one run at a time with crashes, late rows, lost acknowledgements, malformed permits, failing node, Redis and database |
| `swap_live` | `NothingForgotten`, `Settled` | without failures every swap reaches an outcome, and is never out of the queue without a run or an outcome |
| `events_faults` | `TypeOK`, `NothingSkipped`, `OwnSwapsSettled`, `StatusFollowsChain` | refusals, timeouts, restarts, unwritable file, failing database, lost credits |
| `web_session` | `TypeOK`, `AcceptedIsDeclared`, `SessionIsBacked`, `OneUserPerWallet`, `PendingIsDeclared` | two panels, two wallets that are switched, reloads, timeouts and repeated creations, failing declarations, crashes |
| `web_forms` | `TypeOK`, `ReadYourWrites`, `FailedForAReason`, `LoadingEnds`, `CatchesUp` | two requests from any forms, tabs that are left, failing reads, rejected signatures, routes that time out |
| `history_pages` | `TypeOK`, `WalkIsComplete`, `HandledIsCompleted` | walks of all kinds, by `lastId` and `offset` over two pages, while rows are begun, commit late, are confirmed and swaps are recorded again |

`NothingInvented` is what is left of correctness when locks expire: a balance
is the start plus the whole effects of some requests, some lost, and possibly
that of a request that was rolled back and survived in Redis.
`StallsOnlyNested` is the part of `Answered` that is about deadlock: only calls that
ask for a second connection, and then only when they hold the whole pool, bring
the server to a stand. In the run they do, so `ledger_swaps` does not check
deadlock. `NothingForgotten` is the part of `Settled` that is about losing a
swap. `AcceptedIsDeclared` is about what the two checks of a swap's user are
worth: without the one on the wallet, a session that was carried over to another
wallet swaps for a wallet the contract does not know. `LockExclusive`,
`StallsOnlyNested` and `NothingForgotten` are checked with few failures or none
and proved with them (below).

### Where the code departs from what it says

Two runs end in a counterexample; PROJECT.json quotes the text that the
property states.

| Run | Property | What happens |
|---|---|---|
| `ledger_consume` | `ConsumptionsAreCovered` | two concurrent consumptions overdraw |
| `swap_permit` | `OnlyInvalidFails` | valid withdrawals with a permit fail, since the estimate includes the permit |

The passing runs choose operations and faults so that known defects are out of
the way, or a property excuses exactly the requests that met one; each says
so in its comment. Adding what a run leaves out, or dropping the excuse, makes
TLC show the defect:

* `CoveredLedger` and `CacheCoherent` without unlocked readers: a reader fills
  the cache with a balance from before a deposit, and the next deposit
  overdraws (`point.service.ts:604`).
* `NothingInvented` allows a lost update: a grant writes the balance it read
  before its lock (`point.service.ts:496`).
* `FailureHasNoEffect` speaks of `failed` requests. One that is `unsure` may be
  booked: `executeWithLock` puts the error of the release in place of the
  result (`redlock.service.ts:61`), also when Redis cannot be reached after the
  commit, and a caller who asks again is served twice.
* `SentIsBooked` without failing commits, after which a message has no row.
* `PaidOnce` excuses the swaps in `lost`: a lost acknowledgement brings back a
  message whose call was collected (`rabbitmq.service.ts:185`).
* `RowsNameCalls` excuses the swaps in `early`, which were refused before their
  row was there and stay pending.
* `OneOutcome` without exceptions in the preparation (`rpc`, `redis`, `mark`):
  the swap is marked as failed, its message is put back and paid later
  (`scheduler.service.ts:129`).
* `NothingForgotten` without a failing node, Redis, database, broadcast or
  server, without spoiled signatures, expiring locks or passing deadlines.
  With any one of them a swap is left behind: its message was acknowledged
  when its call was collected, and nobody looks at the batch again
  (`scheduler.service.ts:233`). It excuses the swaps in `early`, as
  `RowsNameCalls` does.
* `StallsOnlyNested` and `Answered` excuse a pool whose connections are all held
  by deposits or tasks that ask for a second one: they wait for each other, and
  everybody for them (`point.service.ts:240`).
* `OwnSwapsSettled` excuses requests answered `{success: false}`, which the
  script takes for a success (`eventPollingToPointServer.ts:61`), and the wallets in
  `lost`, whose credit never reached the queue (`rabbitmq.service.ts:87`,
  `token.service.ts:306`): their withdrawal is confirmed and not credited.
* `StatusFollowsChain` excuses the wallets of a validity request that the script
  gave up and the server still handles: an older status may be written last. It
  excuses those of a validity that was set for a block not behind the script
  (`Ahead`): after a restart whose last blocks were not saved, the status is ahead
  of the script until it has read them again.
* `OneUserPerWallet` excuses users registered by overlapping creations: the
  search runs outside the transaction, and no constraint keeps wallets apart
  (`point.service.ts:113`).
* `PendingIsDeclared` excuses users whose `setValidUser` failed: nothing repeats
  it, and they stay pending (`point.service.ts:138`).
* No property of `Session` says that a session has the wallet of its user.
  `useUser.ts:106` says that the data of another wallet is cleared (다른 지갑
  주소면 기존 데이터 클리어), and the effect there does so; but the effect at
  `useUser.ts:149`, which runs after it for the same change of the address,
  saves the user of the old session under the new wallet, and so does a creation
  that ends after the switch (`useUser.ts:123`). TLC shows both as soon as one
  asks for `d.wallet = create[d.user].wallet` of the sessions.
  `SessionIsBacked` and `AcceptedIsDeclared` hold with such sessions: the server
  refuses their swaps.
* `SessionIsBacked` asks for a user of the wallet, not of the session's user id:
  a creation that timed out and was repeated under a new id leaves a session
  with points and without a user of its own, whose swaps are refused for ever.
* `ReadYourWrites` excuses a query whose first load was under way when it was
  invalidated: TanStack Query keeps that load, and what it read may be older.
* `FailedForAReason` excuses a withdrawal that met a positive but short
  allowance: the allowance in wei is compared with whole tokens, so that no
  permit is asked for (`useSwap.ts:204`).
* `WalkIsComplete` excuses rows of equal time, which the database may order
  differently for each page.
* `HandledIsCompleted` excuses a swap with a whole page of others as new
  (`swap.service.ts:90`). It speaks of the transaction that the swap refers to:
  of a swap that was recorded twice, since its message came again or its first
  batch was never mined, the other transaction may be confirmed while the swap
  stays pending (`swap.service.ts:148`).

Other things a reader of the frontend may trip over, which no property is
about: swaps invalidate no query, so that only the poll shows their effect; a
withdrawal's form says success when the request is queued; `UserStatusAlert`
and `SwapStatusAlert` use an instance of the hook of their own and never show
anything of the form's; a second withdrawal before the first is settled signs
the same nonce and fails; a disconnected wallet with a cached query writes a
session without a wallet, which the next load drops; the list of swaps is
fetched without a user; the labels for a status of 1, 0, -1 meet a server
that says 1, 2, 3 (`PointHistoryList.tsx`).

### Bounds

* Requests: three of one user under faults, two of one user or of two
  in `ledger_swaps`. The races need two requests; with a reader or a failure in
  between it takes three. The theorems below show most of these properties for any number.
  `ledger_faults` leaves out two operations whose steps the others have: a
  consumption is the stale row of a grant with the unlocked read of the balance
  (it is what `ledger_consume` is about), a withdrawal a deposit without the row
  (it is in `ledger_swaps`). The theorems are about all six.
* Amounts 1 and 2 with a balance of 2: covered, exactly covered, not covered.
  Under faults the amount is 1, and which requests a sum lacks still shows.
* `PoolSize` 2 for two requests and one task that looks up at most once
  (`ledger_swaps`), and for three requests under faults: requests do wait for a
  connection, for the row and for the lock, and two deposits of different users,
  or one and the task, bring the server to a stand. `ledger_consume` has 4, so
  that nothing but the balance is short. `OnlyNestedStall` is proved for any pool.
* Swaps: two or three with one wallet, so that nonces of the wallet and of the
  manager both matter; two runs that overlap; two managers, so that the index
  wraps around. `MaxTxs` bounds the transactions, `MaxNow` the clock, `Life` is
  the ten minutes, `BatchLimit` 2 is what `APPROPRIATE_GAS_PER_TRANSACTION`
  leaves room for.
* Events: two transactions of one wallet, ranges of two blocks instead of a
  hundred, three requests (`MaxCalls`). Two transactions are enough for an
  order of two events of a wallet, in one range or in two; three requests are
  both and a repetition of one. The theorems hold for any number of each.
* Contract: two signatures (`MaxSigned`), multicalls of two calls (`MaxCalls`),
  nonces 0 and 1 (`MaxNonce`), two block times (`MaxTime`), a wallet that is only
  a manager and one that is a user and may be a manager. `Scale` 4 and `MaxUint`
  8 stand for `10 ** 18` and the largest uint256: amount 2 is the largest that
  does not overflow, at rate 2 it costs more than the user's tokens, and rate 3
  makes quotients that are not exact.
* Session: two wallets, two panels, two user ids: a repeated creation, a
  concurrent one, and a session under the other wallet need two of each.
* Forms: two requests (`MaxClicks`) of all four forms, the balance as the only
  query. Two requests are what a nonce, a permit or an invalidation can be
  overtaken by; the histories follow the rules of the balance without its poll.
* Histories: four rows, pages of two (`Limit`), two seconds, `Newest` 2: two
  full pages, by `lastId` too, a row of the first second that commits after one
  of the second, a swap with two transactions of one hash or of two, and a swap
  that two newer ones hide. One event at a time (`MaxEvents`). The constraint
  `Apart` stops where a walk and an event, or what an event changed, meet: a walk
  reads nothing that a handler writes and the other way round, so that each
  property breaks without the other part or not at all.

Symmetry is used for users, wallets, requests, swaps, runs and transactions, in runs
without liveness properties only.

### Fairness

* `PointLedger!FairSpec`: the event loop serves each request whose call has
  been answered (weak fairness on `Serve`), and each task that has begun or waits
  for a connection (weak fairness on `Work`); nothing forces an error.
  `AcquireTimeout` belongs to it, since Redlock gives up after ten retries.
* `SwapPipeline!FairSpec`: the cron job fires every three seconds and a started
  run goes on; the chain mines what was sent; a lock ends. Nothing forces a
  message to arrive.
* `WebForms!Fairness`: the reads of the chain and the routes end, since they have
  timeouts (weak fairness on `Serve`); the balance is polled every five seconds
  while a tab shows it, and a poll succeeds now and then (strong fairness on its
  two halves, since a failing poll, a switched tab or an invalidation may
  interrupt it). Nobody has to answer the wallet's prompts, so `LoadingEnds`
  speaks of behaviours without a prompt that stays open, and `CatchesUp` of a
  page that keeps one of the tabs open.

## What is proved

TLAPS checks the following for all values of the constants that satisfy the
modules' assumptions: any number of users, requests, signers, amounts.

| Theorem | Statement | Assumptions |
|---|---|---|
| `PointLedgerProofs!TypeCorrect` | `Spec => []TypeOK` | |
| `PointLedgerProofs!MutualExclusion` | `Spec => []LockExclusive` | locks outlive the work under them |
| `PointLedgerProofs!DurableSuccess` | `Spec => []SuccessIsDurable` | |
| `PointLedgerProofs!DepositsAreExact` | `Spec => ExactLedger` | locks outlive the work; deposits, withdrawals and reads |
| `PointLedgerProofs!SwapsAreCovered` | `Spec => CoveredLedger` | deposits, withdrawals and credits; commits, cache and locks do not fail |
| `PointLedgerProofs!CacheIsCoherent` | `Spec => []CacheCoherent` | the same |
| `PointLedgerProofs!FailuresHaveNoEffect` | `Spec => []FailureHasNoEffect` | |
| `PointLedgerProofs!MessagesAreBooked` | `Spec => []SentIsBooked` | commits work; no crash |
| `PointLedgerProofs!BalancesAreExplained` | `Spec => []NothingInvented` | |
| `PointLedgerProofs!OnlyNestedStall` | `Spec => []StallsOnlyNested` | |
| `PointLedgerProofs!FewUsersNeverStall` | `Spec => []~Stalled` | locks outlive the work; fewer users and tasks together than connections |
| `PointManagerProofs!TypeCorrect` | `Spec => []TypeOK` | |
| `PointManagerProofs!SignaturesAreSingleUse` | `Spec => []SingleUse` | |
| `PointManagerProofs!SwitchesHoldThroughout` | `Spec => SwitchesHold` | |
| `PointManagerProofs!SignaturesAreUsedInOrder` | `Spec => UsedInOrder` | |
| `PointManagerProofs!EventsAccountForTokens` | `Spec => []BalancesAreAccounted` | |
| `SwapPipelineProofs!TypeCorrect` | `Spec => []TypeOK` | |
| `SwapPipelineProofs!ReferencesAreRight` | `Spec => []RowsNameCalls` | |
| `SwapPipelineProofs!NobodyPaidTwice` | `Spec => []PaidOnce` | |
| `SwapPipelineProofs!PaymentsAreFound` | `Spec => []PaidIsRecorded` | only the failures `amqp`, `db`, `broadcast`, `lockExpiry`, `spoil` |
| `SwapPipelineProofs!OneOutcomeEach` | `Spec => OneOutcome` | the same |
| `SwapPipelineProofs!NoSwapIsForgotten` | `Spec => []NothingForgotten` | only the failures `amqp`, `ackLost`, `mark`, `slowCommit`; no deadline passes |
| `EventListenerProofs!TypeCorrect` | `Spec => []TypeOK` | |
| `EventListenerProofs!NoEventIsSkipped` | `Spec => []NothingSkipped` | |
| `EventListenerProofs!OwnSwapsComplete` | `Spec => []OwnSwapsSettled` | |
| `EventListenerProofs!StatusIsTheLatest` | `Spec => []StatusFollowsChain` | |
| `SessionProofs!SessionTypes` | `Spec => []TypeOK` | |
| `SessionProofs!SessionsAreBacked` | `Spec => []SessionIsBacked` | |
| `SessionProofs!AcceptedAreDeclared` | `Spec => []AcceptedIsDeclared` | |
| `SessionProofs!NoPendingUndeclared` | `Spec => []PendingIsDeclared` | |
| `SessionProofs!SecondUserOnlyByRace` | `Spec => []OneUserPerWallet` | |
| `WebFormsProofs!FormTypes` | `Spec => []TypeOK` | |
| `WebFormsProofs!OnlyOvertakenOrShort` | `Spec => []FailedForAReason` | |
| `WebFormsProofs!SuccessThenFreshData` | `Spec => []ReadYourWrites` | |
| `HistoryPagesProofs!TypeCorrect` | `Spec => []TypeOK` | |
| `HistoryPagesProofs!WalksAreComplete` | `Spec => []WalkIsComplete` | |
| `HistoryPagesProofs!ConfirmedIsCompleted` | `Spec => []HandledIsCompleted` | |

### The arguments

*Mutual exclusion.* `LockExclusive` is almost inductive: the lock names the
request inside, so a second `Acquire` finds it taken. What has to be excluded
is that a lock is freed while its holder works; `LockExpire` does that only
after the holder is done, and `Crash` leaves locks to expire.

*Exact ledger.* A deposit reads the row inside its transaction. The invariant
says that from that read to the commit the value is still the committed
balance, because every other writer of the row needs the lock. So a commit is
one step of `AtomicLedger`, and every other step stutters.

*Coverage.* The deposit's check reads Redis, its debit the database. The
invariant ties the two: between check and commit, the balance that was checked,
the row that was read and the committed balance agree; Redis agrees with the
committed balance whenever nobody is inside, or holds what the request inside is
about to commit.

*Balances explained.* `NothingInvented` says of the database that a balance is
the start and a sum of effects. That is not inductive, since what is written
comes from local variables and from Redis. The invariant (`Explained`) says it
of every place a balance can be in, and of a row or balance that a request
holds also that the request's own effect is not in the sum yet: adding it
counts it once. An effect stays the request's own, so nothing else has to be
known of locks, caches or crashes.

*Waiting for connections.* The invariant (`PoolInv`) says that the open
transactions of requests and tasks never hold more connections than the pool
has: only the opening of one takes a connection for good, and asks that one is
free. Whoever waits for a row waits for a transaction behind its write, which
goes on. So if all wait (`StalledAsk`), everybody who holds a connection asks
for another one, and no connection is free. Those who ask are deposits inside
their lock and tasks: when locks outlive the work, mutual exclusion makes the
deposits an injection into the users, and a pool of more connections than users
and tasks is never held by them alone.

*Signatures.* A deposit or withdrawal uses up the signer's next nonce in the
same step in which it enters the log. The invariant says that logged signatures
of a signer have nonces below the signer's next one, in `chain` and in `work`,
that those of `chain` are a prefix of those of `work`, and that those in `work`
beyond the prefix have exactly the nonces in between. Single use and order
follow.

*Switches.* Only the owner's calls change switches, and only inside the owner's
transactions: in anybody else's transaction `work` agrees with `chain` on them
at each call. The deadline of a signature is compared with the time of the block,
which does not change inside a transaction.

*Tokens.* The invariant says for `chain` and for `work` that a user's balance
is the start less the withdrawals and plus the deposits of the log, and the
contract's the other way round. A call adds one entry to the log and moves its
tokens; a revert takes both back.

*Sums.* `Total` and `PaidOut` sum over finite sets by the community module's
`SumFunctionOnSet`, a recursive function over the elements in an order of its
own. `FiniteSums` shows what the proofs need: the sum is an integer, zero on
the empty set, and grows by `f[x]` with any new `x`. The induction on the size
of the set is done without an operator as parameter: the theorems about
well-founded relations give each set of naturals a least element, and the set
of sizes at which the claim fails has none.

*Failures and messages.* The invariant (`Truthful`) says that a request that has
booked was not told to have failed, and that one which can still book has not
failed yet. Behind the change of a balance only the cache, the message and the
release are left: the errors of the first are caught, and what the last throws
is an answer of its own. A message goes out inside the transaction; the
invariant says that between the two nothing is left to the request but its
commit.

*Swaps are paid once.* The invariant puts each swap in one place: one message
of the queue, the calls of one run, or one transaction. A message leaves the
queue when a run takes it and returns only by a nack, and then the run has
dropped the call; a run that collected it has acknowledged it. A transaction is
sent by the run that signed it, once, and mined once. A lost acknowledgement
is the only step that puts a swap in two places. Nonces are not needed for it.

*References.* A batch is recorded under the hash of its signed transaction
before it is sent, and the swaps that were refused are marked before that. The
invariant carries the calls of the run into the transaction it signed.

*Outcomes.* A message that is waiting or in hand is of a swap that has not
failed, or whose permit is malformed, so that it is never called; no transaction
calls a failed swap, and once a transaction is sent, the rows of its swaps refer
to it. So a swap is marked only while nothing calls it, and what is mined is
recorded and unmarked: `PaidIsRecorded` and the refinement of `SwapOutcome`.

*No swap is forgotten.* The step from the queue to the run keeps a swap in
sight; what can lose it is the batch. The invariant (`Smooth`) says that only
the holder of the lock runs, that the calls it collected are accepted by the
contract and stay so, that a transaction that was sent is waited for by a run
(`Watched`), and that at the end of the run its calls are paid. A call that
passed its estimate behind the batch so far is accepted with it
(`CallsAccepted`), and nothing in between changes nonces, tokens or
signatures, since the run is alone. The other failures each break one of these
sentences, and TLC shows the swap they leave behind.

*Events.* `Requests` chooses a sorted sequence of the requests of a range. That
it lists each of them is shown by their places: the number of requests before
one, plus one, is an injection into as many places, and so onto them. An
event of the range is either answered or still in `todo`; when `todo` is empty
the range may be put behind. A crash goes back to the saved block, for which
the same holds.

*Own swaps.* The invariant says how far a call has brought a transaction of the
server's own: its messages sent or lost after its first step, confirmed after
its last. Its wallets have users from the start, so that none is passed over.

*Statuses.* The requests left are the last of their range, in order, and a
validity in progress that was not given up is the one the script waits for. So
after a block's validity only those of later blocks are set, as long as none
was given up, and the last one set is the status.

*Sessions.* For whose swap is accepted the proof needs little of the browser:
what a creation sends is fixed at the click, and the server's steps keep its
row; a user becomes valid by the event of its wallet's declaration, and a swap
asks for the user's own wallet, so that this was declared. For what a session
names, the invariant (`Held`) says of the storage and
of each panel that the session in it fits the server: its user has points, the
wallet is registered, and it has another wallet than its user only after a
switch; and of each creation what the server holds once it is that far, so
that an answer brings a session that fits. `Commit` runs the effects panel
after panel. Each effect leaves what was stored, or what its panel showed
under the new wallet, and induction over the number of panels, again by sets
of naturals, gives the whole commit.

*Forms.* The bounds of the types count: the versions of the data are no more
than the requests that changed the points, and each nonce is at most the
number of requests that took one, so both stay within the number of clicks.
`WebFormsProofs` follows the order of the reads: a permit and a signature
carry the nonce that was read last, and unless another withdrawal was paid
since, that is the chain's. An invalidation marks every fetch that may have
read too early.

*Histories.* An answer is a part of an arrangement of the visible rows, and a
row's place in it is bounded from both sides: by the rows that must come before
it (`AtLeast`) and those that may (`AtMost`). Rows that become visible only
move it on. So a walk by offset, which has listed no more rows than stand
before an untied row, cannot pass it, and a walk by `lastId` has the rows it has not
listed after its last one. A swap that the handler's page of `Newest` rows misses
has as many others before it (`Missed`), and keeps them. A swap only ever
comes to refer to a transaction that is just committed and not confirmed, or keeps
the one it has: so a reference to a confirmed one was there when that was
handled.

### Model-checked only

Liveness (`Answered`, `Settled`, `LoadingEnds`, `CatchesUp`) is out of the
prover's reach, which knows neither fairness nor `ENABLED`. Of the first two
the safety half is proved: the server stands still in one way only, and no swap
is lost. Every other property of a passing run is the statement of a theorem,
some under the assumptions of the table. That `Blocked` and `TaskBlocked` say
when a next step is not enabled was compared by TLC only.

## Not modelled

* Encodings, unit conversions, digests and calldata of the blockchain service:
  what they carry is in records.
* Upgrades and ownership of the contracts; minting, burning, pausing, voting and
  transfers of the token by its users.
* The rollback endpoints, which throw "not implemented", and the detail
  endpoints of histories, which read one row.
* The filter by status of the lists. `lastId` with random ids: it compares
  uuids although the order is by `created_at`, so that such a walk lists no
  part of a table in particular, and there is nothing to claim of it.
* The validators of the DTOs: no `ValidationPipe` is installed and they never
  run.
* Rendering, formatting, the token balance of the header, which is one read.
* Operator scripts and deployment: one call of the contract each, made by hand.

## Plan

In this order:

1. A composition of ledger, pipeline and listener over one database, with the
   conservation of value as its property: points debited equal tokens paid plus
   swaps in flight plus swaps that failed.
2. The balance queue between token service and point service as a module of its
   own, with delivery as NestJS configures it.
