---------------------------- MODULE PointManager ----------------------------
(***************************************************************************)
(* The PointManager contract with the token it pays in.  Managers sign     *)
(* deposits and users sign withdrawals off the chain; anybody may send     *)
(* them, alone or several in one multicall, which the chain executes whole *)
(* or not at all.                                                          *)
(*                                                                         *)
(* "chain" is the state every reader sees, "work" the state inside the     *)
(* transaction in execution: a call changes work, a revert forgets it, the *)
(* end of the transaction makes it the chain's.                            *)
(***************************************************************************)
EXTENDS Integers, Sequences, FiniteSets, Functions

CONSTANTS
    User,          \* wallets of the users
    Manager,       \* wallets the owner may appoint as managers
    Owner,         \* the owner of the contract
    Relayer,       \* any other sender of transactions
    Pool,          \* the contract's own address, holder of the tokens to pay
    Zero,          \* the zero address
    Amount,        \* point amounts that calls and signatures name
    Rate,          \* exchange rates the owner may set
    InitRate,      \* the rate given to initialize
    InitPool,      \* tokens of the contract at the start
    InitTokens,    \* tokens of each user at the start
    Allowance,     \* allowances a user may give the contract
    Scale,         \* 10 ** 18
    MaxUint,       \* the largest uint256
    MaxTime,       \* bound: block times
    MaxNonce,      \* bound: signatures per signer
    MaxSigned,     \* bound: signatures of a behaviour
    MaxCalls,      \* bound: calls of a multicall
    None           \* no transaction in execution

Signer == User \cup Manager

Account == Signer \cup {Zero}

Holder == User \cup {Pool}

ASSUME ContractAssumption ==
    /\ Pool \notin User
    /\ Zero \notin User
    /\ Owner # None /\ Relayer # None
    /\ Amount \subseteq Nat
    /\ Rate \subseteq Nat
    /\ InitRate \in Nat
    /\ InitPool \in Nat
    /\ InitTokens \in Nat
    /\ Allowance \subseteq Nat
    /\ Scale \in Nat /\ MaxUint \in Nat
    /\ MaxTime \in Nat /\ MaxNonce \in Nat
    /\ MaxSigned \in Nat /\ MaxCalls \in Nat

VARIABLES
    chain,     \* the contract and the token, as everyone sees them
    work,      \* the same inside the transaction in execution
    sender,    \* who sent that transaction
    calls,     \* how many of its calls were executed
    signed,    \* signatures made so far
    now        \* block.timestamp

vars == <<chain, work, sender, calls, signed, now>>

\* What an EIP-712 digest of the contract covers, with its signer.
Signature ==
    [kind : {"deposit", "withdraw"}, account : Signer, amount : Nat,
     until : Nat, signer : Signer, nonce : Nat]

\* PointDeposited and PointWithdrawn, with the signature they used up and
\* the time they happened at.
Event == [sig : Signature, tokens : Nat, time : Nat]

State ==
    [rate : Nat, managers : SUBSET Account, valid : SUBSET Account,
     paused : BOOLEAN, nonces : [Signer -> Nat], bal : [Holder -> Nat],
     allow : [User -> Nat], log : Seq(Event)]
-----------------------------------------------------------------------------
Init ==
    /\ chain = [rate |-> InitRate, managers |-> {}, valid |-> {},
                paused |-> FALSE,
                nonces |-> [a \in Signer |-> 0],
                bal |-> [h \in Holder |->
                             IF h = Pool THEN InitPool ELSE InitTokens],
                allow |-> [u \in User |-> 0],
                log |-> <<>>]
    /\ work = chain
    /\ sender = None
    /\ calls = 0
    /\ signed = {}
    /\ now = 0

(***************************************************************************)
(* A transaction.                                                          *)
(***************************************************************************)
Begin(s) ==
    /\ sender = None
    /\ sender' = s
    /\ calls' = 0
    /\ UNCHANGED <<chain, work, signed, now>>

End ==
    /\ sender # None
    /\ calls > 0
    /\ chain' = work
    /\ sender' = None
    /\ UNCHANGED <<work, calls, signed, now>>

Revert ==
    /\ work' = chain
    /\ sender' = None
    /\ UNCHANGED <<chain, calls, signed, now>>

\* A call of the contract: its effect when its checks pass, else the revert
\* of the whole transaction.
Call(ok, effect) ==
    /\ sender # None
    /\ calls < MaxCalls
    /\ \/ /\ ok
          /\ work' = effect
          /\ calls' = calls + 1
          /\ UNCHANGED <<chain, sender, signed, now>>
       \/ ~ok /\ Revert

(***************************************************************************)
(* The owner's functions.                                                  *)
(***************************************************************************)
OnlyOwner == sender = Owner

GrantManager(a) ==
    Call(OnlyOwner /\ a # Zero /\ a \notin work.managers,
         [work EXCEPT !.managers = @ \cup {a}])

RevokeManager(a) ==
    Call(OnlyOwner /\ a # Zero /\ a \in work.managers,
         [work EXCEPT !.managers = @ \ {a}])

SetExchangeRate(x) ==
    Call(OnlyOwner /\ x > 0, [work EXCEPT !.rate = x])

SetValidUser(a, isValid) ==
    Call(OnlyOwner /\ a # Zero,
         [work EXCEPT !.valid = IF isValid THEN @ \cup {a} ELSE @ \ {a}])

Pause == Call(OnlyOwner /\ ~work.paused, [work EXCEPT !.paused = TRUE])

Unpause == Call(OnlyOwner /\ work.paused, [work EXCEPT !.paused = FALSE])

(***************************************************************************)
(* Deposit and withdraw.                                                   *)
(***************************************************************************)
\* amount * 10 ** 18 / exchangeRate in checked arithmetic.
Convertible(amount) == amount * Scale <= MaxUint /\ work.rate > 0

Tokens(amount) == (amount * Scale) \div work.rate

\* Variants named "Wrong..." are mistakes the properties are checked to find;
\* they are not part of the specification.

\* The functions lack whenNotPaused.
WrongAccepts(account, amount, until) ==
    /\ amount > 0
    /\ until >= now
    /\ account \in work.valid

\* Both functions' checks of amount, time, account and pause.
Accepts(account, amount, until) ==
    /\ ~work.paused
    /\ amount > 0
    /\ until >= now
    /\ account \in work.valid

\* A nonce above the next one is accepted too.
WrongMatches(sig, kind, account, amount, until, signer) ==
    /\ sig = [kind |-> kind, account |-> account, amount |-> amount,
              until |-> until, signer |-> signer, nonce |-> sig.nonce]
    /\ sig.nonce >= work.nonces[signer]

\* The signature is of these very arguments, with its signer's next nonce.
Matches(sig, kind, account, amount, until, signer) ==
    sig = [kind |-> kind, account |-> account, amount |-> amount,
           until |-> until, signer |-> signer, nonce |-> work.nonces[signer]]

\* The tokens are burnt.
WrongMoved(bal, from, to, n) == [bal EXCEPT ![from] = @ - n]

Moved(bal, from, to, n) == [bal EXCEPT ![from] = @ - n, ![to] = @ + n]

\* The nonce is read and not used up.
WrongSettled(sig, from, to, n) ==
    [work EXCEPT !.bal = Moved(@, from, to, n),
                 !.log = Append(@, [sig |-> sig, tokens |-> n, time |-> now])]

\* The state after the signature was used up for a transfer of n tokens.
Settled(sig, from, to, n) ==
    [work EXCEPT !.nonces[sig.signer] = @ + 1,
                 !.bal = Moved(@, from, to, n),
                 !.log = Append(@, [sig |-> sig, tokens |-> n, time |-> now])]

DepositPoint(account, amount, until, manager, sig) ==
    LET ok == /\ Accepts(account, amount, until)
              /\ manager \in work.managers
              /\ Matches(sig, "deposit", account, amount, until, manager)
              /\ Convertible(amount)
              /\ Tokens(amount) <= work.bal[Pool]
    IN  Call(ok, Settled(sig, Pool, account, Tokens(amount)))

\* safeTransferFrom leaves an allowance of the largest uint256 as it is.
Spent(w, u, n) ==
    IF w.allow[u] = MaxUint THEN w ELSE [w EXCEPT !.allow[u] = @ - n]

\* The tokens are taken without the user's approval.
WrongWithdrawPoint(account, amount, until, sig) ==
    LET ok == /\ Accepts(account, amount, until)
              /\ Matches(sig, "withdraw", account, amount, until, account)
              /\ Convertible(amount)
              /\ Tokens(amount) <= work.bal[account]
    IN  Call(ok, Spent(Settled(sig, account, Pool, Tokens(amount)),
                       account, Tokens(amount)))

WithdrawPoint(account, amount, until, sig) ==
    LET ok == /\ Accepts(account, amount, until)
              /\ Matches(sig, "withdraw", account, amount, until, account)
              /\ Convertible(amount)
              /\ Tokens(amount) <= work.allow[account]
              /\ Tokens(amount) <= work.bal[account]
    IN  Call(ok, Spent(Settled(sig, account, Pool, Tokens(amount)),
                       account, Tokens(amount)))

\* A call the contract does not have, as the token's permit is.
UnknownCall == Call(FALSE, work)

(***************************************************************************)
(* Outside the contract.                                                   *)
(***************************************************************************)
\* A signer reads its nonce from the chain and signs that one or, for a
\* batch, one that follows.
Sign(sig) ==
    /\ sender = None
    /\ sig.nonce \in chain.nonces[sig.signer] .. MaxNonce
    /\ sig.kind = "withdraw" => sig.signer = sig.account
    /\ sig.kind = "deposit" => sig.signer \in Manager
    /\ Cardinality(signed) < MaxSigned
    /\ signed' = signed \cup {sig}
    /\ UNCHANGED <<chain, work, sender, calls, now>>

\* The user approves the contract at the token, or a permit does.
Approve(u, n) ==
    /\ sender = None
    /\ chain' = [chain EXCEPT !.allow[u] = n]
    /\ work' = chain'
    /\ UNCHANGED <<sender, calls, signed, now>>

\* A block later.
Tick ==
    /\ sender = None
    /\ now < MaxTime
    /\ now' = now + 1
    /\ UNCHANGED <<chain, work, sender, calls, signed>>
-----------------------------------------------------------------------------
OwnerCalls ==
    \/ \E a \in Manager \cup {Zero} : GrantManager(a) \/ RevokeManager(a)
    \/ \E x \in Rate : SetExchangeRate(x)
    \/ \E a \in User \cup {Zero} :
           \E isValid \in BOOLEAN : SetValidUser(a, isValid)
    \/ Pause
    \/ Unpause

UserCalls ==
    \E sig \in signed, account \in User, amount \in Amount,
       until \in 0 .. MaxTime :
        \/ \E manager \in Manager :
               DepositPoint(account, amount, until, manager, sig)
        \/ WithdrawPoint(account, amount, until, sig)

NewSignature ==
    \E kind \in {"deposit", "withdraw"}, account \in User, amount \in Amount,
       until \in 0 .. MaxTime, signer \in Signer, nonce \in 0 .. MaxNonce :
        LET sig == [kind |-> kind, account |-> account, amount |-> amount,
                    until |-> until, signer |-> signer, nonce |-> nonce]
        IN  Sign(sig)

Next ==
    \/ \E s \in {Owner, Relayer} : Begin(s)
    \/ End
    \/ OwnerCalls
    \/ UserCalls
    \/ UnknownCall
    \/ NewSignature
    \/ \E u \in User, n \in Allowance : Approve(u, n)
    \/ Tick

Spec == Init /\ [][Next]_vars
-----------------------------------------------------------------------------
(***************************************************************************)
(* Properties.                                                             *)
(***************************************************************************)
TypeOK ==
    /\ chain \in State
    /\ work \in State
    /\ sender \in {Owner, Relayer, None}
    /\ calls \in 0 .. MaxCalls
    /\ signed \subseteq Signature
    /\ now \in 0 .. MaxTime

\* No signature pays twice, not even inside one multicall, after a revert,
\* or between the deposits and withdrawals of an account that signs both.
SingleUse ==
    \A i, j \in DOMAIN chain.log :
        chain.log[i].sig = chain.log[j].sig => i = j

\* What a transaction pays follows from the switches as everyone saw them
\* before it: no contract call but the owner's own can pay while paused, for
\* an invalid user, on a revoked manager's word, at another rate or after the
\* deadline of the signature.
PaidAsConfigured(event) ==
    /\ ~chain.paused
    /\ event.sig.account \in chain.valid
    /\ event.sig.kind = "deposit" => event.sig.signer \in chain.managers
    /\ event.tokens = (event.sig.amount * Scale) \div chain.rate
    /\ event.time <= event.sig.until

SwitchesHold ==
    [][sender # Owner
         => \A i \in DOMAIN chain'.log \ DOMAIN chain.log :
                PaidAsConfigured(chain'.log[i])]_vars

\* The tokens that the events of a kind moved for some accounts.
TokensOf(log, kind, accounts) ==
    SumFunctionOnSet([i \in DOMAIN log |-> log[i].tokens],
                     {i \in DOMAIN log : /\ log[i].sig.kind = kind
                                         /\ log[i].sig.account \in accounts})

PaidOut(log, accounts) ==
    TokensOf(log, "deposit", accounts) - TokensOf(log, "withdraw", accounts)

\* Tokens move between the contract and its users by its events only: the
\* listener of the events can rebuild every balance from them, whatever was
\* reverted in between.
BalancesAreAccounted ==
    /\ \A u \in User : chain.bal[u] = InitTokens + PaidOut(chain.log, {u})
    /\ chain.bal[Pool] = InitPool - PaidOut(chain.log, User)

\* The contract implements the ledger of signatures: each transaction uses
\* up, per signer, the signatures of the next nonces, one each, or nothing.
Used == {chain.log[i].sig : i \in DOMAIN chain.log}

Ledger == INSTANCE SignatureLedger WITH next <- chain.nonces, used <- Used

UsedInOrder == Ledger!Spec
=============================================================================
