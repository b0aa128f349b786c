---------------------------- MODULE SwapPipeline ----------------------------
(***************************************************************************)
(* From the swap queue to the chain: every three seconds the server runs   *)
(* handlePointSwapTransaction, which takes the messages of the queue one   *)
(* by one, signs deposits with the next nonces of a manager, tries each    *)
(* call by a gas estimate on top of the calls collected so far, and sends  *)
(* what it collected as one multicall, which the chain executes whole or   *)
(* not at all.  The runs share a Redlock lock of ten seconds.              *)
(*                                                                         *)
(* A run proceeds in steps, one per call to RabbitMQ, the RPC node, Redis  *)
(* or PostgreSQL; its local variables are the fields of run[w].            *)
(***************************************************************************)
EXTENDS Integers, Sequences, FiniteSets

CONSTANTS
    Swap,          \* swap rows, with their messages
    User,          \* wallets
    Kinds,         \* the kinds of swap
    Permits,       \* what withdrawals carry of a token permit
    Worker,        \* runs of the cron job that may overlap
    Managers,      \* MAX_MANAGER_COUNT
    BatchLimit,    \* calls after which the gas limit stops a batch
    Life,          \* ten minutes, in ticks of the clock
    MaxNow,        \* bound: ticks of the clock
    MaxTxs,        \* bound: transactions of a behaviour
    Faults,        \* the failures the environment may produce
    None           \* no message, no call, no nonce, no holder

Manager == 0 .. (Managers - 1)

Signer == Manager \cup User

AllFaults ==
    {"amqp", "ackLost", "rpc", "redis", "db", "mark", "broadcast",
     "lockExpiry", "crash", "slowCommit", "spoil"}

ASSUME PipelineAssumption ==
    /\ Kinds \subseteq {"deposit", "withdraw"}
    /\ Permits \subseteq {"none", "signed", "malformed"}
    /\ Faults \subseteq AllFaults
    /\ Managers \in Nat \ {0}
    /\ BatchLimit \in Nat
    /\ Life \in Nat /\ MaxNow \in Nat /\ MaxTxs \in Nat
    /\ IsFiniteSet(Swap)
    /\ User \cap Int = {}
    /\ None \notin Int /\ None \notin Swap /\ None \notin Worker

VARIABLES
    ask,       \* what each swap asks: kind, wallet and permit
    signed,    \* the nonce in the user's signature, None before the request
    queue,     \* the messages that are ready
    lost,      \* swaps whose acknowledgement was lost with their call made
    status,    \* user_swap_history.status, "none" before the commit
    txrow,     \* the transaction whose row each swap row refers to, or 0
    early,     \* swaps refused before their row was committed
    txs,       \* the transactions made so far and what became of them
    nonce,     \* the contract's nonces
    paid,      \* how often the chain executed each swap
    good,      \* swaps that the contract accepts, but for nonce and time
    approved,  \* withdrawals whose tokens the contract may take
    index,     \* the manager index kept in Redis
    lock,      \* the run that the lock names
    loaded,    \* when the server's module of constants was loaded
    now,       \* the clock
    run        \* the local variables of each run

messages == <<ask, signed, queue, lost>>
rows     == <<status, txrow, early>>
chain    == <<nonce, paid, good, approved>>
clock    == <<loaded, now>>
vars     == <<messages, rows, txs, chain, index, lock, clock, run>>

Labels ==
    {"idle", "fetch", "prepare", "estimate", "ack", "nack", "gas", "permit",
     "send", "record", "broadcast", "wait", "finish"}

\* What the swaps may ask: only withdrawals carry permits.
Asks ==
    {a \in [kind : Kinds, owner : User, permit : Permits] :
         a.kind = "deposit" => a.permit = "none"}

Call == [swap : Swap, signer : Signer, nonce : Nat, until : Nat]

\* A run that has not begun.
Idle ==
    [pc |-> "idle", msg |-> None, call |-> None, calls |-> <<>>,
     datas |-> {}, permits |-> {}, last |-> None, mgr |-> None, tx |-> 0]

(***************************************************************************)
(* Helpers.  Variants named "Wrong..." are mistakes the properties are     *)
(* checked to find; they are not part of the specification.                *)
(***************************************************************************)
SwapsOf(t) == {txs[t].calls[i].swap : i \in DOMAIN txs[t].calls}

CallsOf(a, calls) == {i \in DOMAIN calls : calls[i].signer = a}

\* The contract executes these calls in one multicall without a revert.
Accepted(calls) ==
    \A i \in DOMAIN calls :
        LET c == calls[i]
        IN  /\ c.swap \in good
            /\ c.until >= now
            /\ ask[c.swap].kind = "withdraw" => c.swap \in approved
            /\ c.nonce = nonce[c.signer]
                           + Cardinality({j \in CallsOf(c.signer, calls) :
                                              j < i})

Status(s, new) ==
    IF status[s] = "none" THEN status ELSE [status EXCEPT ![s] = new]

Early(s) == IF status[s] = "none" THEN early \cup {s} ELSE early

At(w, step) == run[w].pc = step

\* The run goes on with these values of its variables.
Becomes(w, r) == run' = [run EXCEPT ![w] = r]

Goto(w, step) == Becomes(w, [run[w] EXCEPT !.pc = step])
-----------------------------------------------------------------------------
Init ==
    /\ ask \in [Swap -> Asks]
    /\ signed = [s \in Swap |-> None]
    /\ queue = <<>>
    /\ lost = {}
    /\ status = [s \in Swap |-> "none"]
    /\ txrow = [s \in Swap |-> 0]
    /\ early = {}
    /\ txs = <<>>
    /\ nonce = [a \in Signer |-> 0]
    /\ paid = [s \in Swap |-> 0]
    /\ good = Swap
    /\ approved = {s \in Swap : ask[s].permit = "none"}
    /\ index = 0
    /\ lock = None
    /\ loaded = 0
    /\ now = 0
    /\ run = [w \in Worker |-> Idle]

(***************************************************************************)
(* The API: depositPoints and withdrawPoints send the message inside their *)
(* transaction.  The wallet signed a withdrawal with its nonce of then.    *)
(***************************************************************************)
Publish(s) ==
    /\ signed[s] = None
    /\ signed' = [signed EXCEPT ![s] = nonce[ask[s].owner]]
    /\ queue' = Append(queue, s)
    /\ status' = IF "slowCommit" \in Faults
                 THEN status ELSE [status EXCEPT ![s] = "pending"]
    /\ UNCHANGED <<ask, lost, txrow, early, txs, chain, index, lock, clock,
                   run>>

CommitRow(s) ==
    /\ signed[s] # None
    /\ status[s] = "none"
    /\ status' = [status EXCEPT ![s] = "pending"]
    /\ UNCHANGED <<messages, txrow, early, txs, chain, index, lock, clock, run>>

(***************************************************************************)
(* A run of handlePointSwapTransaction.  One that finds the lock taken     *)
(* gives up and changes nothing.                                           *)
(***************************************************************************)
Start(w) ==
    /\ At(w, "idle")
    /\ lock = None
    /\ lock' = w
    /\ Goto(w, "fetch")
    /\ UNCHANGED <<messages, rows, txs, chain, index, clock>>

Fetch(w) ==
    /\ At(w, "fetch")
    /\ queue # <<>>
    /\ queue' = Tail(queue)
    /\ Becomes(w, [run[w] EXCEPT !.pc = "prepare", !.msg = Head(queue)])
    /\ UNCHANGED <<ask, signed, lost, rows, txs, chain, index, lock, clock>>

\* No message, or a queue that cannot be read, which counts as none.
NoMessage(w) ==
    /\ At(w, "fetch")
    /\ queue = <<>> \/ "amqp" \in Faults
    /\ Goto(w, "permit")
    /\ UNCHANGED <<messages, rows, txs, chain, index, lock, clock>>

\* A manager signs: the first deposit of a batch with the contract's nonce,
\* the next ones with the nonces after it, all with the deadline computed
\* when the server was loaded.
PrepareDeposit(w) ==
    LET r == run[w]
        m == IF r.mgr = None THEN index ELSE r.mgr
        n == IF r.last = None THEN nonce[m] ELSE r.last + 1
    IN  /\ At(w, "prepare")
        /\ ask[r.msg].kind = "deposit"
        /\ Becomes(w, [r EXCEPT
               !.pc = "estimate",
               !.call = [swap |-> r.msg, signer |-> m, nonce |-> n,
                         until |-> loaded + Life]])
        /\ UNCHANGED <<messages, rows, txs, chain, index, lock, clock>>

PrepareWithdraw(w) ==
    LET r == run[w]
        s == r.msg
    IN  /\ At(w, "prepare")
        /\ ask[s].kind = "withdraw"
        /\ ask[s].permit # "malformed"
        /\ Becomes(w, [r EXCEPT
               !.pc = "estimate",
               !.permits = IF ask[s].permit = "signed"
                           THEN @ \cup {s} ELSE @,
               !.call = [swap |-> s, signer |-> ask[s].owner,
                         nonce |-> signed[s], until |-> MaxNow]])
        /\ UNCHANGED <<messages, rows, txs, chain, index, lock, clock>>

\* The preparation throws: the swap is marked as failed, unless that throws
\* too, and its message will be put back.
Throw(w) ==
    LET s == run[w].msg
    IN  /\ At(w, "prepare")
        /\ \/ ask[s].kind = "withdraw" /\ ask[s].permit = "malformed"
           \/ ask[s].kind = "deposit" /\ "rpc" \in Faults
           \/ /\ ask[s].kind = "deposit" /\ run[w].mgr = None
              /\ "redis" \in Faults
        /\ \/ status' = Status(s, "failed")
           \/ "mark" \in Faults /\ UNCHANGED status
        /\ Goto(w, "nack")
        /\ UNCHANGED <<messages, txrow, early, txs, chain, index, lock, clock>>

\* The message returns to the head of the queue and the loop goes on.
Nack(w) ==
    /\ At(w, "nack")
    /\ queue' = <<run[w].msg>> \o queue
    /\ Becomes(w, [run[w] EXCEPT !.pc = "fetch", !.msg = None])
    /\ UNCHANGED <<ask, signed, lost, rows, txs, chain, index, lock, clock>>

\* The estimate of a withdrawal includes the token permits of the batch,
\* which PointManager does not know and reverts.
Passes(w) ==
    LET r == run[w]
    IN  /\ ask[r.msg].kind = "withdraw" => r.permits = {}
        /\ Accepted(Append(r.calls, r.call))

Estimated(w) ==
    LET r == run[w]
        isDeposit == ask[r.msg].kind = "deposit"
    IN  /\ At(w, "estimate")
        /\ Passes(w)
        /\ Becomes(w, [r EXCEPT
               !.pc = "ack",
               !.call = None,
               !.calls = Append(@, r.call),
               !.datas = @ \cup {r.msg},
               !.last = IF isDeposit THEN r.call.nonce ELSE @,
               !.mgr = IF isDeposit THEN r.call.signer ELSE @])
        /\ UNCHANGED <<messages, rows, txs, chain, index, lock, clock>>

\* The refused message is put back, as after an exception.
WrongRequeued(w) ==
    LET r == run[w]
    IN  /\ At(w, "estimate")
        /\ ~Passes(w) \/ "rpc" \in Faults
        /\ status' = Status(r.msg, "failed")
        /\ early' = Early(r.msg)
        /\ Becomes(w, [r EXCEPT !.pc = "nack", !.call = None])
        /\ UNCHANGED <<messages, txrow, txs, chain, index, lock, clock>>

\* The refused swap is not marked.
WrongUnmarked(w) ==
    LET r == run[w]
    IN  /\ At(w, "estimate")
        /\ ~Passes(w) \/ "rpc" \in Faults
        /\ Becomes(w, [r EXCEPT !.pc = "ack", !.call = None,
                                !.datas = @ \cup {r.msg}])
        /\ UNCHANGED <<messages, rows, txs, chain, index, lock, clock>>

\* The estimate fails: the swap is marked as failed, and counts as
\* processed all the same.
Refused(w) ==
    LET r == run[w]
    IN  /\ At(w, "estimate")
        /\ ~Passes(w) \/ "rpc" \in Faults
        /\ status' = Status(r.msg, "failed")
        /\ early' = Early(r.msg)
        /\ Becomes(w, [r EXCEPT !.pc = "ack", !.call = None,
                                !.datas = @ \cup {r.msg}])
        /\ UNCHANGED <<messages, txrow, txs, chain, index, lock, clock>>

\* The refused swap cannot be marked: an exception, which marks it by a
\* second attempt or not at all.
NotMarked(w) ==
    LET r == run[w]
    IN  /\ "mark" \in Faults
        /\ At(w, "estimate")
        /\ ~Passes(w) \/ "rpc" \in Faults
        /\ status' \in {status, Status(r.msg, "failed")}
        /\ Becomes(w, [r EXCEPT !.pc = "nack", !.call = None])
        /\ UNCHANGED <<messages, txrow, early, txs, chain, index, lock, clock>>

\* The message goes back after all.
WrongAck(w) ==
    /\ At(w, "ack")
    /\ queue' = Append(queue, run[w].msg)
    /\ Becomes(w, [run[w] EXCEPT !.pc = "gas", !.msg = None])
    /\ UNCHANGED <<ask, signed, lost, rows, txs, chain, index, lock, clock>>

Ack(w) ==
    /\ At(w, "ack")
    /\ Becomes(w, [run[w] EXCEPT !.pc = "gas", !.msg = None])
    /\ UNCHANGED <<messages, rows, txs, chain, index, lock, clock>>

\* The channel is gone: the broker gives the message back to the queue, and
\* the run ends its loop as if there were no message.
AckLost(w) ==
    /\ "ackLost" \in Faults
    /\ At(w, "ack")
    /\ queue' = <<run[w].msg>> \o queue
    /\ lost' = lost \cup {run[w].msg}
    /\ Becomes(w, [run[w] EXCEPT !.pc = "permit", !.msg = None])
    /\ UNCHANGED <<ask, signed, rows, txs, chain, index, lock, clock>>

\* A full batch ends the run instead of the loop.
WrongCheckGas(w) ==
    LET r == run[w]
        full == /\ r.calls # <<>>
                /\ \/ r.permits # {}
                   \/ ~Accepted(r.calls)
                   \/ Len(r.calls) >= BatchLimit
    IN  /\ At(w, "gas")
        /\ Goto(w, IF full THEN "finish" ELSE "fetch")
        /\ UNCHANGED <<messages, rows, txs, chain, index, lock, clock>>

\* The loop ends when the calls so far need too much gas or revert.
CheckGas(w) ==
    LET r == run[w]
        full == /\ r.calls # <<>>
                /\ \/ r.permits # {}
                   \/ ~Accepted(r.calls)
                   \/ Len(r.calls) >= BatchLimit
    IN  /\ At(w, "gas")
        /\ \/ Goto(w, IF full THEN "permit" ELSE "fetch")
           \/ r.calls # <<>> /\ "rpc" \in Faults /\ Goto(w, "permit")
        /\ UNCHANGED <<messages, rows, txs, chain, index, lock, clock>>

\* The token permits are sent one by one, each with its own fate.
SendPermits(w) ==
    LET r == run[w]
    IN  /\ At(w, "permit")
        /\ \E ok \in SUBSET r.permits : approved' = approved \cup ok
        /\ Goto(w, IF r.calls = <<>> THEN "finish" ELSE "send")
        /\ UNCHANGED <<messages, rows, txs, nonce, paid, good, index, lock,
                       clock>>

\* Redis does not give the relayer index, before the permits or the batch:
\* the run ends, with its messages acknowledged.
NoRelayer(w) ==
    /\ "redis" \in Faults
    /\ \/ At(w, "permit") /\ run[w].permits # {}
       \/ At(w, "send")
    /\ Goto(w, "finish")
    /\ UNCHANGED <<messages, rows, txs, chain, index, lock, clock>>

\* The multicall is estimated once more and signed: its hash is known.
Sign(w) ==
    LET r == run[w]
    IN  /\ At(w, "send")
        /\ Len(txs) < MaxTxs
        /\ Accepted(r.calls)
        /\ txs' = Append(txs, [calls |-> r.calls, state |-> "signed"])
        /\ Becomes(w, [r EXCEPT !.pc = "record", !.tx = Len(txs) + 1])
        /\ UNCHANGED <<messages, rows, chain, index, lock, clock>>

NotSigned(w) ==
    /\ At(w, "send")
    /\ ~Accepted(run[w].calls) \/ "rpc" \in Faults
    /\ Goto(w, "finish")
    /\ UNCHANGED <<messages, rows, txs, chain, index, lock, clock>>

\* processSwapHistoryTransactions: the swaps of the batch whose row is there
\* and pending get a row of the transaction, all in one database
\* transaction.  A swap that was recorded before is loaded with the earlier
\* row and saved with the new id: which of them TypeORM writes is left open.
Record(w) ==
    LET r       == run[w]
        pending == {s \in r.datas : status[s] = "pending"}
    IN  /\ At(w, "record")
        /\ \E kept \in SUBSET {s \in pending : txrow[s] # 0} :
              txrow' = [s \in Swap |->
                            IF s \in pending \ kept THEN r.tx ELSE txrow[s]]
        /\ Goto(w, "broadcast")
        /\ UNCHANGED <<messages, status, early, txs, chain, index, lock, clock>>

\* The rows cannot be written and the batch is sent all the same.
WrongNotRecorded(w) ==
    /\ "db" \in Faults
    /\ At(w, "record")
    /\ Goto(w, "broadcast")
    /\ UNCHANGED <<messages, rows, txs, chain, index, lock, clock>>

NotRecorded(w) ==
    /\ "db" \in Faults
    /\ At(w, "record")
    /\ Goto(w, "finish")
    /\ UNCHANGED <<messages, rows, txs, chain, index, lock, clock>>

Broadcast(w) ==
    /\ At(w, "broadcast")
    /\ txs' = [txs EXCEPT ![run[w].tx].state = "sent"]
    /\ Goto(w, "wait")
    /\ UNCHANGED <<messages, rows, chain, index, lock, clock>>

\* The node refuses the transaction, or took it and does not say so.
NotBroadcast(w) ==
    /\ "broadcast" \in Faults
    /\ At(w, "broadcast")
    /\ \/ UNCHANGED txs
       \/ txs' = [txs EXCEPT ![run[w].tx].state = "sent"]
    /\ Goto(w, "finish")
    /\ UNCHANGED <<messages, rows, chain, index, lock, clock>>

\* The manager index leaves its range.
WrongReceipt(w) ==
    LET r == run[w]
    IN  /\ At(w, "wait")
        /\ txs[r.tx].state \in {"mined", "reverted"}
        /\ index' = IF txs[r.tx].state = "mined" /\ r.mgr # None
                    THEN r.mgr + 1 ELSE index
        /\ Goto(w, "finish")
        /\ UNCHANGED <<messages, rows, txs, chain, lock, clock>>

\* The receipt: after a success the next manager is on.
Receipt(w) ==
    LET r == run[w]
    IN  /\ At(w, "wait")
        /\ txs[r.tx].state \in {"mined", "reverted"}
        /\ \/ index' = IF txs[r.tx].state = "mined" /\ r.mgr # None
                       THEN (r.mgr + 1) % Managers ELSE index
           \/ "redis" \in Faults /\ UNCHANGED index
        /\ Goto(w, "finish")
        /\ UNCHANGED <<messages, rows, txs, chain, lock, clock>>

\* The end of executeWithLock: releasing a lock of another's throws, and
\* handlePointSwapTransaction swallows it.
Finish(w) ==
    /\ At(w, "finish")
    /\ lock' = IF lock = w THEN None ELSE lock
    /\ Becomes(w, Idle)
    /\ UNCHANGED <<messages, rows, txs, chain, index, clock>>

(***************************************************************************)
(* The environment.                                                        *)
(***************************************************************************)
\* The chain executes a transaction, whole or not at all.
Mine(t) ==
    LET calls == txs[t].calls
    IN  /\ txs[t].state = "sent"
        /\ IF Accepted(calls)
           THEN /\ txs' = [txs EXCEPT ![t].state = "mined"]
                /\ nonce' = [a \in Signer |->
                                 nonce[a] + Cardinality(CallsOf(a, calls))]
                /\ paid' = [s \in Swap |->
                                paid[s] + Cardinality({i \in DOMAIN calls :
                                                       calls[i].swap = s})]
           ELSE /\ txs' = [txs EXCEPT ![t].state = "reverted"]
                /\ UNCHANGED <<nonce, paid>>
        /\ UNCHANGED <<messages, rows, good, approved, index, lock, clock,
                       run>>

\* The user becomes invalid, the tokens are gone or a deadline is over.
Spoil(s) ==
    /\ "spoil" \in Faults
    /\ good' = good \ {s}
    /\ UNCHANGED <<messages, rows, txs, nonce, paid, approved, index, lock,
                   clock, run>>

Tick ==
    /\ now < MaxNow
    /\ now' = now + 1
    /\ UNCHANGED <<messages, rows, txs, chain, index, lock, loaded, run>>

\* The lock's ten seconds are over: its holder died, or runs on.
LockExpire ==
    /\ lock # None
    /\ At(lock, "idle") \/ "lockExpiry" \in Faults
    /\ lock' = None
    /\ UNCHANGED <<messages, rows, txs, chain, index, clock, run>>

\* The server stops and starts again.  A message that was not acknowledged
\* returns to the queue; what was collected is forgotten.
Crash ==
    LET held == {run[w].msg : w \in Worker} \ {None}
    IN  /\ "crash" \in Faults
        /\ \E w \in Worker : ~At(w, "idle")
        /\ \E back \in [1 .. Cardinality(held) -> held] :
               /\ held = {back[i] : i \in DOMAIN back}
               /\ queue' = back \o queue
        /\ run' = [w \in Worker |-> Idle]
        /\ loaded' = now
        /\ UNCHANGED <<ask, signed, lost, rows, txs, chain, index, lock, now>>

Work(w) ==
    \/ Start(w)            \/ Fetch(w)       \/ NoMessage(w)
    \/ PrepareDeposit(w)   \/ PrepareWithdraw(w)
    \/ Throw(w)            \/ Nack(w)        \/ Estimated(w)
    \/ Refused(w)          \/ NotMarked(w)
    \/ Ack(w)              \/ AckLost(w)
    \/ CheckGas(w)         \/ SendPermits(w) \/ NoRelayer(w)
    \/ Sign(w)             \/ NotSigned(w)   \/ Record(w)
    \/ NotRecorded(w)      \/ Broadcast(w)   \/ NotBroadcast(w)
    \/ Receipt(w)          \/ Finish(w)

Next ==
    \/ \E s \in Swap : Publish(s) \/ CommitRow(s) \/ Spoil(s)
    \/ \E w \in Worker : Work(w)
    \/ \E t \in DOMAIN txs : Mine(t)
    \/ Tick
    \/ LockExpire
    \/ Crash

Spec == Init /\ [][Next]_vars

\* The cron job keeps coming, every started run goes on, the chain executes
\* what was sent and the lock of a dead run expires.
FairSpec ==
    /\ Spec
    /\ \A w \in Worker : WF_vars(Work(w))
    /\ WF_vars(\E t \in DOMAIN txs : Mine(t))
    /\ WF_vars(LockExpire)
-----------------------------------------------------------------------------
(***************************************************************************)
(* Properties.                                                             *)
(***************************************************************************)
Run ==
    [pc : Labels, msg : Swap \cup {None}, call : Call \cup {None},
     calls : Seq(Call), datas : SUBSET Swap, permits : SUBSET Swap,
     last : Nat \cup {None}, mgr : Manager \cup {None}, tx : Nat]

Transaction ==
    [calls : Seq(Call), state : {"signed", "sent", "mined", "reverted"}]

TypeOK ==
    /\ ask \in [Swap -> Asks]
    /\ signed \in [Swap -> Nat \cup {None}]
    /\ queue \in Seq(Swap)
    /\ lost \subseteq Swap
    /\ status \in [Swap -> {"none", "pending", "failed"}]
    /\ txrow \in [Swap -> 0 .. Len(txs)]
    /\ early \subseteq Swap
    /\ txs \in Seq(Transaction)
    /\ nonce \in [Signer -> Nat]
    /\ paid \in [Swap -> Nat]
    /\ good \subseteq Swap
    /\ approved \subseteq Swap
    /\ index \in Manager
    /\ lock \in Worker \cup {None}
    /\ loaded \in 0 .. MaxNow
    /\ now \in 0 .. MaxNow
    /\ run \in [Worker -> Run]

\* A swap is executed on the chain at most once, whatever crashes, overlaps
\* or is refused: its message is never processed again once its call went
\* into a batch that can still be mined.  Only a message that comes back
\* because its acknowledgement was lost may be paid again.
PaidOnce == \A s \in Swap \ lost : paid[s] <= 1

\* Each swap is paid or marked as failed, never both: a user who is told of
\* a failure and tries again does not swap twice.
PaidSwaps == {s \in Swap : paid[s] > 0}

FailedSwaps == {s \in Swap : status[s] = "failed"}

Outcome == INSTANCE SwapOutcome WITH paid <- PaidSwaps, failed <- FailedSwaps

OneOutcome == Outcome!Spec

\* A pending swap refers to a transaction only if that transaction contains
\* its call: the event listener, which completes swaps by that reference
\* alone, completes none that was refused.  Only a swap that was refused
\* before it had a row, and so could not be marked, may be completed.
RowsNameCalls ==
    \A s \in Swap \ early :
        status[s] = "pending" /\ txrow[s] > 0 => s \in SwapsOf(txrow[s])

\* A swap that was paid refers to the transaction that paid it: the event
\* listener finds it.
PaidIsRecorded ==
    \A s \in Swap :
        paid[s] > 0 => /\ txrow[s] > 0
                       /\ txs[txrow[s]].state = "mined"
                       /\ s \in SwapsOf(txrow[s])

\* The swap is under way: its message is ready or in the hands of a run, or
\* its call is in the batch of one.
UnderWay(s) ==
    \/ \E i \in DOMAIN queue : queue[i] = s
    \/ \E w \in Worker :
          \/ run[w].msg = s
          \/ \E i \in DOMAIN run[w].calls : run[w].calls[i].swap = s

\* No swap is forgotten: once its message left the queue, it is called until
\* it is paid, or marked as failed.  A call that passed its estimate is not
\* refused any more when the batch is full, signed or executed.  Only a swap
\* that was refused before it had a row, and so could not be marked, is left.
NothingForgotten ==
    \A s \in Swap \ early :
        signed[s] # None => UnderWay(s) \/ paid[s] > 0 \/ status[s] = "failed"

\* Without failures every message leads to a payment or a refusal.
Settled ==
    \A s \in Swap : signed[s] # None ~> (paid[s] > 0 \/ status[s] = "failed")

\* What the comments say of a swap that is removed from the queue and marked
\* as failed: its data was not valid.
OnlyInvalidFails ==
    \A s \in Swap : status[s] = "failed" => s \notin good
=============================================================================
