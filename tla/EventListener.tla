--------------------------- MODULE EventListener ---------------------------
(***************************************************************************)
(* From the chain back to the server: the polling script reads the events  *)
(* of PointManager in ranges of blocks and posts them one by one; the      *)
(* server confirms the swaps of a transaction, sends the credits of its    *)
(* withdrawals to the update-balance queue and keeps the status of users.  *)
(*                                                                         *)
(* The script and the server are different processes: a request that the   *)
(* script gave up is still handled, later or at the same time as its       *)
(* repetition.                                                             *)
(***************************************************************************)
EXTENDS Integers, Sequences, FiniteSets

CONSTANTS
    Tx,            \* transactions of the contract with events
    Wallet,        \* wallets named by the events
    BatchSize,     \* blocks of a range
    MaxCalls,      \* bound: requests of a behaviour
    Faults         \* the failures the environment may produce

AllFaults == {"refuse", "timeout", "crash", "save", "db", "emit"}

ASSUME ListenerAssumption ==
    /\ BatchSize \in Nat \ {0}
    /\ MaxCalls \in Nat
    /\ Faults \subseteq AllFaults

Kind == {"deposit", "withdraw", "valid"}

VARIABLES
    log,        \* the events of each transaction
    recorded,   \* requests whose rows the server wrote before it sent them
    block,      \* the block of each transaction, 0 before it is mined
    head,       \* the chain's latest block
    phase,      \* what the script is doing
    last,       \* lastProcessedBlock of the script
    saved,      \* the same in its file, 0 without a file
    from,       \* the block after which the script has listened so far
    goal,       \* the last block of the range in progress
    todo,       \* the requests of that range not yet answered
    calls,      \* the requests that reached the server; left: given up
    user,       \* user.status of each wallet, "none" without a user
    confirmed,  \* what was marked CONFIRMED, its swaps COMPLETED
    credits,    \* credit messages queued, per transaction and wallet
    lost        \* wallets whose message got lost, per transaction

chain  == <<log, recorded, block, head>>
script == <<phase, last, saved, from, goal, todo>>
server == <<user, confirmed, credits, lost>>
vars   == <<chain, script, calls, server>>

\* The events of a transaction: a multicall of swaps, or the setting of a
\* wallet's validity.
Log ==
    [kinds : SUBSET {"deposit", "withdraw"} \ {{}},
     wallets : SUBSET Wallet \ {{}}, isValid : {TRUE}]
    \cup [kinds : {{"valid"}}, wallets : {{w} : w \in Wallet},
          isValid : BOOLEAN]

(***************************************************************************)
(* The requests of a range of blocks: per kind in the order of the blocks, *)
(* deposits first, then withdrawals, then validities.  Variants named      *)
(* "Wrong..." are mistakes the properties are checked to find; they are    *)
(* not part of the specification.                                          *)
(***************************************************************************)
Request == [tx : Tx, kind : Kind]

InRange(lo, hi) ==
    {q \in Request : /\ block[q.tx] \in lo .. hi
                     /\ q.kind \in log[q.tx].kinds}

Rank(kind) ==
    CASE kind = "deposit" -> 1
      [] kind = "withdraw" -> 2
      [] kind = "valid" -> 3

Before(p, q) ==
    \/ Rank(p.kind) < Rank(q.kind)
    \/ p.kind = q.kind /\ block[p.tx] < block[q.tx]

\* The first block of the range is left out.
WrongRequests(lo, hi) ==
    CHOOSE s \in [1 .. Cardinality(InRange(lo + 1, hi)) ->
                     InRange(lo + 1, hi)] :
        \A i, j \in DOMAIN s : i < j => Before(s[i], s[j])

Requests(lo, hi) ==
    CHOOSE s \in [1 .. Cardinality(InRange(lo, hi)) -> InRange(lo, hi)] :
        \A i, j \in DOMAIN s : i < j => Before(s[i], s[j])

\* The wallets of a transaction that have a user.
Users(t) == {w \in log[t].wallets : user[w] # "none"}

Lesser(m, n) == IF m < n THEN m ELSE n
-----------------------------------------------------------------------------
\* The swaps of users the server may have sent.  A kind of them is without
\* rows when every swap of it was past PENDING when its rows were written.
Sendable == {q \in Request : /\ q.kind \in log[q.tx].kinds \ {"valid"}
                             /\ Users(q.tx) = log[q.tx].wallets}

Init ==
    /\ log \in [Tx -> Log]
    /\ user \in [Wallet -> {"none", "pending"}]
    /\ recorded \in SUBSET Sendable
    /\ block = [t \in Tx |-> 0]
    /\ head = 1
    /\ phase = "down"
    /\ last = 0
    /\ saved = 0
    /\ from = 0
    /\ goal = 0
    /\ todo = <<>>
    /\ calls = <<>>
    /\ confirmed = {}
    /\ credits = [t \in Tx |-> [w \in Wallet |-> 0]]
    /\ lost = [t \in Tx |-> {}]

(***************************************************************************)
(* The chain and the users.                                                *)
(***************************************************************************)
Mine(t) ==
    /\ block[t] = 0
    /\ head' = head + 1
    /\ block' = [block EXCEPT ![t] = head']
    /\ UNCHANGED <<log, recorded, script, calls, server>>

\* createUserPoint for a new wallet.
Register(w) ==
    /\ user[w] = "none"
    /\ user' = [user EXCEPT ![w] = "pending"]
    /\ UNCHANGED <<chain, script, calls, confirmed, credits, lost>>

(***************************************************************************)
(* The script.                                                             *)
(***************************************************************************)
\* Without a file the script starts after the chain's latest block.
Boot ==
    /\ phase = "down"
    /\ phase' = "poll"
    /\ last' = IF saved = 0 THEN head ELSE saved
    /\ from' = IF saved = 0 THEN head ELSE from
    /\ UNCHANGED <<chain, saved, goal, todo, calls, server>>

Poll ==
    /\ phase = "poll"
    /\ head > last
    /\ goal' = Lesser(head, last + BatchSize)
    /\ todo' = Requests(last + 1, goal')
    /\ phase' = "post"
    /\ UNCHANGED <<chain, last, saved, from, calls, server>>

\* No new block: the script waits for three seconds.
NoNews ==
    /\ phase = "poll"
    /\ head <= last
    /\ UNCHANGED vars

Post ==
    /\ phase = "post"
    /\ todo # <<>>
    /\ Len(calls) < MaxCalls
    /\ calls' = Append(calls, [req |-> Head(todo), step |-> "new",
                               left |-> FALSE])
    /\ phase' = "wait"
    /\ UNCHANGED <<chain, last, saved, from, goal, todo, server>>

\* The range that failed is skipped.
WrongGiveUp ==
    /\ phase' = "poll"
    /\ last' = goal
    /\ todo' = <<>>
    /\ UNCHANGED <<chain, saved, from, goal, server>>

\* An error ends the range: after 30 seconds the script reads it again.
GiveUp ==
    /\ phase' = "poll"
    /\ todo' = <<>>
    /\ UNCHANGED <<chain, last, saved, from, goal, server>>

\* The request in progress, if any, goes on without the script.
Leave ==
    calls' = [i \in DOMAIN calls |->
                  IF i = Len(calls) /\ phase = "wait"
                  THEN [calls[i] EXCEPT !.left = TRUE] ELSE calls[i]]

\* The server cannot be reached; nor can it once the bound is used up.
Refused ==
    /\ "refuse" \in Faults \/ Len(calls) = MaxCalls
    /\ phase = "post"
    /\ todo # <<>>
    /\ GiveUp
    /\ UNCHANGED calls

\* Ten seconds without an answer, or an answer that got lost.
Timeout ==
    /\ "timeout" \in Faults
    /\ phase = "wait"
    /\ GiveUp
    /\ Leave

ErrorAnswer ==
    /\ phase = "wait"
    /\ calls[Len(calls)].step = "error"
    /\ GiveUp
    /\ UNCHANGED calls

\* Any answer but an HTTP error counts, {success: false} too.
Answered ==
    /\ phase = "wait"
    /\ calls[Len(calls)].step \in {"done", "false"}
    /\ phase' = "post"
    /\ todo' = Tail(todo)
    /\ UNCHANGED <<chain, last, saved, from, goal, calls, server>>

\* One block too many is put behind.
WrongSave ==
    /\ phase = "post"
    /\ todo = <<>>
    /\ last' = goal + 1
    /\ saved' = goal + 1
    /\ phase' = "poll"
    /\ UNCHANGED <<chain, from, goal, todo, calls, server>>

\* The range is done; a file that cannot be written is not an error.
Save ==
    /\ phase = "post"
    /\ todo = <<>>
    /\ last' = goal
    /\ \/ saved' = goal
       \/ "save" \in Faults /\ UNCHANGED saved
    /\ phase' = "poll"
    /\ UNCHANGED <<chain, from, goal, todo, calls, server>>

Crash ==
    /\ "crash" \in Faults
    /\ phase # "down"
    /\ phase' = "down"
    /\ todo' = <<>>
    /\ Leave
    /\ UNCHANGED <<chain, last, saved, from, goal, server>>

(***************************************************************************)
(* The server's handlers; each request is a call i.                        *)
(***************************************************************************)
At(i, kind, step) ==
    /\ calls[i].req.kind = kind
    /\ calls[i].step = step

Goto(i, step) == calls' = [calls EXCEPT ![i].step = step]

TxOf(i) == calls[i].req.tx

\* processPointToTokenTransaction: without rows of the hash it answers
\* {success: false} and changes nothing.
ConfirmDeposit(i) ==
    /\ At(i, "deposit", "new")
    /\ confirmed' = IF calls[i].req \in recorded
                    THEN confirmed \cup {calls[i].req} ELSE confirmed
    /\ Goto(i, "done")
    /\ UNCHANGED <<chain, script, user, credits, lost>>

\* The messages of users that do not reach the queue: nobody waits for them,
\* and an error of one is only logged.
Dropped(t) == IF "emit" \in Faults THEN SUBSET Users(t) ELSE {{}}

\* processTokenToPointTransaction of a transaction the server sent: the
\* credits leave before the database transaction commits.
SendCredits(i) ==
    LET t == TxOf(i)
    IN  /\ At(i, "withdraw", "new")
        /\ calls[i].req \in recorded
        /\ \E d \in Dropped(t) :
               /\ credits' = [credits EXCEPT ![t] = [w \in Wallet |->
                      IF w \in Users(t) \ d THEN @[w] + 1 ELSE @[w]]]
               /\ lost' = [lost EXCEPT ![t] = @ \cup d]
        /\ Goto(i, "sent")
        /\ UNCHANGED <<chain, script, user, confirmed>>

ConfirmWithdraw(i) ==
    /\ At(i, "withdraw", "sent")
    /\ confirmed' = confirmed \cup {calls[i].req}
    /\ Goto(i, "done")
    /\ UNCHANGED <<chain, script, user, credits, lost>>

\* A transaction the server did not send: the swap row made inside the
\* database transaction is looked up outside of it, is not found, and the
\* handler fails; without a user among the wallets nothing is to be done.
\* Both end in an answer, and change nothing.
DirectWithdraw(i) ==
    /\ At(i, "withdraw", "new")
    /\ calls[i].req \notin recorded
    /\ Goto(i, "done")
    /\ UNCHANGED <<chain, script, server>>

\* The database fails a swap handler, which answers {success: false}.
HandlerFails(i) ==
    /\ "db" \in Faults
    /\ \/ At(i, "deposit", "new")
       \/ At(i, "withdraw", "new")
       \/ At(i, "withdraw", "sent")
    /\ Goto(i, "false")
    /\ UNCHANGED <<chain, script, server>>

\* A user that is not pending any more keeps its status.
WrongValidateUser(i) ==
    LET t == TxOf(i)
    IN  /\ At(i, "valid", "new")
        /\ Users(t) # {}
        /\ user' = [w \in Wallet |->
               IF w \in log[t].wallets /\ user[w] = "pending"
               THEN IF log[t].isValid THEN "valid" ELSE "invalid"
               ELSE user[w]]
        /\ Goto(i, "done")
        /\ UNCHANGED <<chain, script, confirmed, credits, lost>>

ValidateUser(i) ==
    LET t == TxOf(i)
    IN  /\ At(i, "valid", "new")
        /\ Users(t) # {}
        /\ user' = [w \in Wallet |->
               IF w \in log[t].wallets
               THEN IF log[t].isValid THEN "valid" ELSE "invalid"
               ELSE user[w]]
        /\ Goto(i, "done")
        /\ UNCHANGED <<chain, script, confirmed, credits, lost>>

\* No user of the wallet (404), or the database fails (500).
ValidateFails(i) ==
    /\ At(i, "valid", "new")
    /\ Users(TxOf(i)) = {} \/ "db" \in Faults
    /\ Goto(i, "error")
    /\ UNCHANGED <<chain, script, server>>

Handle(i) ==
    \/ ConfirmDeposit(i) \/ SendCredits(i)  \/ ConfirmWithdraw(i)
    \/ DirectWithdraw(i) \/ HandlerFails(i)
    \/ ValidateUser(i)   \/ ValidateFails(i)

Listen ==
    \/ Boot    \/ Poll    \/ Post        \/ Refused
    \/ Timeout \/ Answered \/ ErrorAnswer \/ Save

Next ==
    \/ \E t \in Tx : Mine(t)
    \/ \E w \in Wallet : Register(w)
    \/ Listen
    \/ NoNews
    \/ Crash
    \/ \E i \in DOMAIN calls : Handle(i)

Spec == Init /\ [][Next]_vars
-----------------------------------------------------------------------------
(***************************************************************************)
(* Properties.                                                             *)
(***************************************************************************)
TypeOK ==
    /\ log \in [Tx -> Log]
    /\ recorded \subseteq Request
    /\ block \in [Tx -> 0 .. head]
    /\ head \in Nat
    /\ phase \in {"down", "poll", "post", "wait"}
    /\ last \in 0 .. head
    /\ saved \in 0 .. head
    /\ from \in 0 .. head
    /\ goal \in 0 .. head
    /\ todo \in Seq(Request)
    /\ calls \in Seq([req : Request, left : BOOLEAN,
                      step : {"new", "sent", "done", "false", "error"}])
    /\ user \in [Wallet -> {"none", "pending", "valid", "invalid"}]
    /\ confirmed \subseteq Request
    /\ credits \in [Tx -> [Wallet -> Nat]]
    /\ lost \in [Tx -> SUBSET Wallet]

\* The blocks the script has put behind it.
Behind(t) == from < block[t] /\ block[t] <= last

\* A request that ended in one of these answers.
Ended(q, answers) ==
    \E i \in DOMAIN calls : calls[i].req = q /\ calls[i].step \in answers

\* No event is skipped: when a block is behind the script, every event of it
\* was answered, whatever was refused, timed out, restarted or not saved.
NothingSkipped ==
    \A t \in Tx : Behind(t) =>
        \A k \in log[t].kinds :
            Ended([tx |-> t, kind |-> k], {"done", "false"})

\* What the server recorded of a transaction that is behind the script has
\* its swaps completed, and a credit queued for every wallet of its
\* withdrawals but those whose message got lost.  The one exception is a
\* handler the database failed: its answer {success: false} is taken by the
\* script for a success.
OwnSwapsSettled ==
    \A q \in recorded : Behind(q.tx) =>
        \/ Ended(q, {"false"})
        \/ /\ q \in confirmed
           /\ q.kind = "withdraw" =>
                  \A w \in log[q.tx].wallets \ lost[q.tx] :
                      credits[q.tx][w] >= 1

\* The last settings of a wallet's validity that the script has behind it.
Latest(w) ==
    {t \in Tx : /\ Behind(t) /\ log[t].kinds = {"valid"}
                /\ w \in log[t].wallets
                /\ \A x \in Tx : /\ Behind(x) /\ log[x].kinds = {"valid"}
                                 /\ w \in log[x].wallets
                                 => block[x] <= block[t]}

\* A validity of the wallet was given up in progress: it may be set late.
Overtaken(w) ==
    \E i \in DOMAIN calls :
        /\ calls[i].left
        /\ calls[i].req.kind = "valid"
        /\ w \in log[TxOf(i)].wallets

\* A validity of the wallet is set whose block is not behind the script: its
\* range is in progress, or is read again after a restart.
Ahead(w) ==
    \E i \in DOMAIN calls :
        /\ At(i, "valid", "done")
        /\ w \in log[TxOf(i)].wallets
        /\ last < block[TxOf(i)]

\* A user's status is the one the chain set last in the blocks behind the
\* script, however often ranges are repeated, and whatever else timed out or
\* was restarted.
StatusFollowsChain ==
    \A w \in {x \in Wallet : ~Overtaken(x) /\ ~Ahead(x)} : \A t \in Latest(w) :
        user[w] = IF log[t].isValid THEN "valid" ELSE "invalid"
=============================================================================
