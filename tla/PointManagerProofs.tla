------------------------- MODULE PointManagerProofs -------------------------
(***************************************************************************)
(* Proofs about the PointManager contract.                                 *)
(***************************************************************************)
EXTENDS PointManager, FiniteSums

LEMMA ConstantsType ==
    /\ Pool \notin User /\ Pool \in Holder /\ User \subseteq Holder
    /\ User \subseteq Signer /\ User \subseteq Account
    /\ Manager \subseteq Signer /\ Manager \subseteq Account
    /\ Zero \in Account
    /\ Owner # None /\ Relayer # None
    /\ Amount \subseteq Nat /\ Rate \subseteq Nat /\ Allowance \subseteq Nat
    /\ InitRate \in Nat /\ InitPool \in Nat /\ InitTokens \in Nat
    /\ Scale \in Nat /\ MaxUint \in Nat /\ MaxTime \in Nat
    /\ MaxNonce \in Nat /\ MaxCalls \in Nat
  BY ContractAssumption DEF ContractAssumption, Holder, Signer, Account

\* The amount of tokens is a natural number when the rate is not zero.
LEMMA TokensType ==
    ASSUME TypeOK, NEW amount \in Nat, Convertible(amount)
    PROVE  Tokens(amount) \in Nat
  <1>1. amount * Scale \in Nat /\ work.rate \in Nat /\ work.rate > 0
    BY ConstantsType DEF TypeOK, State, Convertible
  <1>. QED  BY <1>1 DEF Tokens

\* A settled signature leaves a state of the contract, in which only the
\* signer's nonce, the two balances and the log are new.
LEMMA SettledType ==
    ASSUME TypeOK, NEW sig \in signed, NEW from \in Holder, NEW to \in Holder,
           NEW n \in Nat, n <= work.bal[from]
    PROVE  /\ Settled(sig, from, to, n) \in State
           /\ Settled(sig, from, to, n).log =
                 Append(work.log, [sig |-> sig, tokens |-> n, time |-> now])
           /\ Settled(sig, from, to, n).nonces =
                 [work.nonces EXCEPT ![sig.signer] = @ + 1]
           /\ Settled(sig, from, to, n).bal = Moved(work.bal, from, to, n)
           /\ Settled(sig, from, to, n).rate = work.rate
           /\ Settled(sig, from, to, n).managers = work.managers
           /\ Settled(sig, from, to, n).valid = work.valid
           /\ Settled(sig, from, to, n).paused = work.paused
           /\ Settled(sig, from, to, n).allow = work.allow
  <1>. DEFINE e == [sig |-> sig, tokens |-> n, time |-> now]
  <1>1. e \in Event
    BY ConstantsType DEF TypeOK, Event
  <1>2. Append(work.log, e) \in Seq(Event)
    BY <1>1 DEF TypeOK, State
  <1>3. [work.nonces EXCEPT ![sig.signer] = @ + 1] \in [Signer -> Nat]
    <2>1. sig.signer \in Signer
      BY DEF TypeOK, Signature
    <2>2. work.nonces \in [Signer -> Nat]
      BY DEF TypeOK, State
    <2>. QED  BY <2>1, <2>2
  <1>4. Moved(work.bal, from, to, n) \in [Holder -> Nat]
    <2>. DEFINE less == [work.bal EXCEPT ![from] = @ - n]
    <2>1. work.bal \in [Holder -> Nat]
      BY DEF TypeOK, State
    <2>2. less \in [Holder -> Nat]
      BY <2>1
    <2>3. Moved(work.bal, from, to, n) = [less EXCEPT ![to] = @ + n]
      BY DEF Moved
    <2>. HIDE DEF less
    <2>. QED  BY <2>2, <2>3
  <1>5. work \in State
    BY DEF TypeOK
  <1>6. Settled(sig, from, to, n) =
           [work EXCEPT !.nonces = [work.nonces EXCEPT ![sig.signer] = @ + 1],
                        !.bal = Moved(work.bal, from, to, n),
                        !.log = Append(work.log, e)]
    BY <1>5 DEF State, Settled
  <1>. HIDE DEF e
  <1>7. Settled(sig, from, to, n) \in State
    BY <1>2, <1>3, <1>4, <1>5, <1>6 DEF State
  <1>. QED
    BY <1>5, <1>6, <1>7 DEF State, e

LEMMA SpentType ==
    ASSUME NEW w \in State, NEW u \in User, NEW n \in Nat, n <= w.allow[u]
    PROVE  /\ Spent(w, u, n) \in State
           /\ Spent(w, u, n).log = w.log
           /\ Spent(w, u, n).nonces = w.nonces
           /\ Spent(w, u, n).bal = w.bal
           /\ Spent(w, u, n).rate = w.rate
           /\ Spent(w, u, n).managers = w.managers
           /\ Spent(w, u, n).valid = w.valid
           /\ Spent(w, u, n).paused = w.paused
  <1>1. [w.allow EXCEPT ![u] = @ - n] \in [User -> Nat]
    BY DEF State
  <1>. QED  BY <1>1 DEF Spent, State
-----------------------------------------------------------------------------
(***************************************************************************)
(* What a call of the contract can do: revert the transaction, change the  *)
(* switches as the owner, or settle one signature.                         *)
(***************************************************************************)
InTxn ==
    /\ sender # None
    /\ calls < MaxCalls
    /\ calls' = calls + 1
    /\ UNCHANGED <<chain, sender, signed, now>>

OwnerStep ==
    /\ sender = Owner
    /\ work' \in State
    /\ work'.log = work.log
    /\ work'.nonces = work.nonces
    /\ work'.bal = work.bal

SameSwitches(v, w) ==
    /\ v.rate = w.rate
    /\ v.managers = w.managers
    /\ v.valid = w.valid
    /\ v.paused = w.paused

\* The event follows from the switches of w.
FollowsFrom(w, event) ==
    /\ ~w.paused
    /\ event.sig.account \in w.valid
    /\ event.sig.kind = "deposit" => event.sig.signer \in w.managers
    /\ event.tokens = (event.sig.amount * Scale) \div w.rate
    /\ event.time <= event.sig.until

\* The tokens of the event move between the contract and a user.
Transfers(event) ==
    /\ event.sig.account \in User
    /\ work'.bal = IF event.sig.kind = "deposit"
                   THEN Moved(work.bal, Pool, event.sig.account, event.tokens)
                   ELSE Moved(work.bal, event.sig.account, Pool, event.tokens)

Settles(event) ==
    /\ work' \in State
    /\ SameSwitches(work', work)
    /\ FollowsFrom(work, event)
    /\ event.sig.nonce = work.nonces[event.sig.signer]
    /\ work'.log = Append(work.log, event)
    /\ work'.nonces = [work.nonces EXCEPT ![event.sig.signer] = @ + 1]
    /\ Transfers(event)

SettleStep == \E event \in Event : Settles(event)

LEMMA OwnerCallStep ==
    ASSUME TypeOK, OwnerCalls
    PROVE  (sender # None /\ Revert) \/ (InTxn /\ OwnerStep)
  <1>. SUFFICES ASSUME ~(sender # None /\ Revert)
                PROVE  InTxn /\ OwnerStep
    OBVIOUS
  <1>1. ASSUME NEW a \in Manager \cup {Zero},
               GrantManager(a) \/ RevokeManager(a)
        PROVE  InTxn /\ OwnerStep
    <2>1. PICK S \in SUBSET Account :
              InTxn /\ sender = Owner /\ work' = [work EXCEPT !.managers = S]
      <3>1. /\ InTxn /\ sender = Owner
            /\ \/ work' = [work EXCEPT !.managers = work.managers \cup {a}]
               \/ work' = [work EXCEPT !.managers = work.managers \ {a}]
        BY <1>1 DEF GrantManager, RevokeManager, Call, InTxn, OnlyOwner
      <3>2. work.managers \cup {a} \in SUBSET Account
            /\ work.managers \ {a} \in SUBSET Account
        BY ConstantsType DEF TypeOK, State
      <3>. QED  BY <3>1, <3>2
    <2>. QED  BY <2>1 DEF OwnerStep, TypeOK, State
  <1>2. ASSUME NEW x \in Rate, SetExchangeRate(x)
        PROVE  InTxn /\ OwnerStep
    <2>1. InTxn /\ sender = Owner /\ work' = [work EXCEPT !.rate = x]
      BY <1>2 DEF SetExchangeRate, Call, InTxn, OnlyOwner
    <2>2. x \in Nat
      BY ConstantsType
    <2>. QED  BY <2>1, <2>2 DEF OwnerStep, TypeOK, State
  <1>3. ASSUME NEW a \in User \cup {Zero}, NEW isValid \in BOOLEAN,
               SetValidUser(a, isValid)
        PROVE  InTxn /\ OwnerStep
    <2>1. PICK S \in SUBSET Account :
              InTxn /\ sender = Owner /\ work' = [work EXCEPT !.valid = S]
      <3>1. /\ InTxn /\ sender = Owner
            /\ \/ work' = [work EXCEPT !.valid = work.valid \cup {a}]
               \/ work' = [work EXCEPT !.valid = work.valid \ {a}]
        BY <1>3 DEF SetValidUser, Call, InTxn, OnlyOwner
      <3>2. work.valid \cup {a} \in SUBSET Account
            /\ work.valid \ {a} \in SUBSET Account
        BY ConstantsType DEF TypeOK, State
      <3>. QED  BY <3>1, <3>2
    <2>. QED  BY <2>1 DEF OwnerStep, TypeOK, State
  <1>4. ASSUME Pause \/ Unpause PROVE InTxn /\ OwnerStep
    <2>1. PICK b \in BOOLEAN :
              InTxn /\ sender = Owner /\ work' = [work EXCEPT !.paused = b]
      BY <1>4 DEF Pause, Unpause, Call, InTxn, OnlyOwner
    <2>. QED  BY <2>1 DEF OwnerStep, TypeOK, State
  <1>. QED  BY <1>1, <1>2, <1>3, <1>4 DEF OwnerCalls

LEMMA DepositStep ==
    ASSUME TypeOK, NEW sig \in signed, NEW account \in User,
           NEW amount \in Amount, NEW until \in 0 .. MaxTime,
           NEW manager \in Manager,
           DepositPoint(account, amount, until, manager, sig)
    PROVE  (sender # None /\ Revert) \/ (InTxn /\ SettleStep)
  <1>. DEFINE n == Tokens(amount)
              e == [sig |-> sig, tokens |-> n, time |-> now]
  <1>1. CASE sender # None /\ Revert
    BY <1>1
  <1>2. CASE ~(sender # None /\ Revert)
    <2>1. /\ InTxn
          /\ work' = Settled(sig, Pool, account, n)
          /\ Accepts(account, amount, until)
          /\ manager \in work.managers
          /\ Matches(sig, "deposit", account, amount, until, manager)
          /\ Convertible(amount)
          /\ n <= work.bal[Pool]
      BY <1>2 DEF DepositPoint, Call, InTxn
    <2>2. n \in Nat
      BY <2>1, TokensType, ConstantsType
    <2>3. e \in Event
      BY <2>2 DEF Event, TypeOK
    <2>4. /\ work' \in State
          /\ SameSwitches(work', work)
          /\ work'.log = Append(work.log, e)
          /\ work'.nonces = [work.nonces EXCEPT ![sig.signer] = @ + 1]
          /\ work'.bal = Moved(work.bal, Pool, account, n)
      <3>1. Pool \in Holder /\ account \in Holder
        BY ConstantsType
      <3>. HIDE DEF n
      <3>. QED  BY <2>1, <2>2, <3>1, SettledType DEF SameSwitches
    <2>5. FollowsFrom(work, e) /\ sig.nonce = work.nonces[sig.signer]
      BY <2>1 DEF FollowsFrom, Matches, Accepts, Tokens
    <2>6. Transfers(e)
      <3>1. sig.kind = "deposit" /\ sig.account = account
        BY <2>1 DEF Matches
      <3>. HIDE DEF n
      <3>. QED  BY <2>4, <3>1 DEF Transfers
    <2>7. Settles(e)
      BY <2>4, <2>5, <2>6 DEF Settles
    <2>. QED  BY <2>1, <2>3, <2>7 DEF SettleStep
  <1>. QED  BY <1>1, <1>2

LEMMA WithdrawStep ==
    ASSUME TypeOK, NEW sig \in signed, NEW account \in User,
           NEW amount \in Amount, NEW until \in 0 .. MaxTime,
           WithdrawPoint(account, amount, until, sig)
    PROVE  (sender # None /\ Revert) \/ (InTxn /\ SettleStep)
  <1>. DEFINE n == Tokens(amount)
              e == [sig |-> sig, tokens |-> n, time |-> now]
              w == Settled(sig, account, Pool, n)
  <1>1. CASE sender # None /\ Revert
    BY <1>1
  <1>2. CASE ~(sender # None /\ Revert)
    <2>1. /\ InTxn
          /\ work' = Spent(w, account, n)
          /\ Accepts(account, amount, until)
          /\ Matches(sig, "withdraw", account, amount, until, account)
          /\ Convertible(amount)
          /\ n <= work.allow[account]
          /\ n <= work.bal[account]
      BY <1>2 DEF WithdrawPoint, Call, InTxn
    <2>2. n \in Nat
      BY <2>1, TokensType, ConstantsType
    <2>3. e \in Event
      BY <2>2 DEF Event, TypeOK
    <2>4. /\ w \in State
          /\ w.log = Append(work.log, e)
          /\ w.nonces = [work.nonces EXCEPT ![sig.signer] = @ + 1]
          /\ SameSwitches(w, work)
          /\ w.allow = work.allow
          /\ w.bal = Moved(work.bal, account, Pool, n)
      <3>1. Pool \in Holder /\ account \in Holder
        BY ConstantsType
      <3>. HIDE DEF n
      <3>. QED  BY SMTT(30), <2>1, <2>2, <3>1, SettledType DEF SameSwitches
    <2>5. /\ work' \in State
          /\ work'.log = w.log
          /\ work'.nonces = w.nonces
          /\ work'.bal = w.bal
          /\ SameSwitches(work', w)
      BY <2>1, <2>2, <2>4, SpentType DEF SameSwitches
    <2>6. FollowsFrom(work, e) /\ sig.nonce = work.nonces[sig.signer]
      BY <2>1 DEF FollowsFrom, Matches, Accepts, Tokens
    <2>7. Transfers(e)
      <3>1. sig.kind = "withdraw" /\ sig.account = account
        BY <2>1 DEF Matches
      <3>. HIDE DEF n, w
      <3>. QED  BY <2>4, <2>5, <3>1 DEF Transfers
    <2>8. Settles(e)
      BY <2>4, <2>5, <2>6, <2>7 DEF Settles, SameSwitches
    <2>. QED  BY <2>1, <2>3, <2>8 DEF SettleStep
  <1>. QED  BY <1>1, <1>2

LEMMA CallStep ==
    ASSUME TypeOK, OwnerCalls \/ UserCalls \/ UnknownCall
    PROVE  \/ sender # None /\ Revert
           \/ InTxn /\ OwnerStep
           \/ InTxn /\ SettleStep
  <1>1. CASE UnknownCall
    BY <1>1 DEF UnknownCall, Call
  <1>. QED
    BY <1>1, OwnerCallStep, DepositStep, WithdrawStep DEF UserCalls
-----------------------------------------------------------------------------
(***************************************************************************)
(* Type correctness.                                                       *)
(***************************************************************************)
LEMMA TypeInit == Init => TypeOK
  <1>. SUFFICES ASSUME Init PROVE TypeOK
    OBVIOUS
  <1>1. chain \in State
    <2>1. <<>> \in Seq(Event)
      OBVIOUS
    <2>2. [h \in Holder |-> IF h = Pool THEN InitPool ELSE InitTokens]
             \in [Holder -> Nat]
      BY ConstantsType
    <2>. QED  BY <2>1, <2>2, ConstantsType DEF Init, State
  <1>. QED  BY <1>1, ConstantsType DEF Init, TypeOK

LEMMA TypeStep == TypeOK /\ [Next]_vars => TypeOK'
  <1>. SUFFICES ASSUME TypeOK, [Next]_vars PROVE TypeOK'
    OBVIOUS
  <1>1. ASSUME NEW s \in {Owner, Relayer}, Begin(s) PROVE TypeOK'
    BY <1>1, ConstantsType DEF Begin, TypeOK
  <1>2. CASE End
    BY <1>2 DEF End, TypeOK
  <1>3. CASE OwnerCalls \/ UserCalls \/ UnknownCall
    <2>1. CASE sender # None /\ Revert
      BY <2>1 DEF Revert, TypeOK
    <2>2. CASE InTxn /\ OwnerStep
      BY <2>2, ConstantsType DEF InTxn, OwnerStep, TypeOK
    <2>3. CASE InTxn /\ SettleStep
      BY <2>3, ConstantsType DEF InTxn, SettleStep, Settles, TypeOK
    <2>. QED  BY <1>3, <2>1, <2>2, <2>3, CallStep
  <1>4. CASE NewSignature
    <2>1. PICK sig \in Signature : Sign(sig)
      <3>1. PICK kind \in {"deposit", "withdraw"}, account \in User,
                 amount \in Amount, until \in 0 .. MaxTime,
                 signer \in Signer, nonce \in 0 .. MaxNonce :
              Sign([kind |-> kind, account |-> account, amount |-> amount,
                    until |-> until, signer |-> signer, nonce |-> nonce])
        BY <1>4 DEF NewSignature
      <3>2. account \in Signer /\ amount \in Nat /\ until \in Nat
            /\ nonce \in Nat
        BY ConstantsType
      <3>. QED  BY <3>1, <3>2 DEF Signature
    <2>. QED  BY <2>1 DEF Sign, TypeOK
  <1>5. ASSUME NEW u \in User, NEW n \in Allowance, Approve(u, n)
        PROVE  TypeOK'
    <2>1. [chain.allow EXCEPT ![u] = n] \in [User -> Nat]
      BY ConstantsType DEF TypeOK, State
    <2>2. chain' \in State
      BY <1>5, <2>1 DEF Approve, TypeOK, State
    <2>. QED  BY <1>5, <2>2 DEF Approve, TypeOK
  <1>6. CASE Tick
    BY <1>6, ConstantsType DEF Tick, TypeOK
  <1>7. CASE UNCHANGED vars
    BY <1>7 DEF vars, TypeOK
  <1>. QED
    BY <1>1, <1>2, <1>3, <1>4, <1>5, <1>6, <1>7 DEF Next

\* Nonces, allowances and balances stay natural numbers: no subtraction of
\* the contract or the token can go below zero.
THEOREM TypeCorrect == Spec => []TypeOK
  BY TypeInit, TypeStep, PTL DEF Spec
-----------------------------------------------------------------------------
(***************************************************************************)
(* Every signature is used once.  Inductive because the nonce of a signer  *)
(* is above those of all its events, inside a transaction and outside, and *)
(* the two agree whenever no transaction is in execution.                  *)
(***************************************************************************)
Spends(w) ==
    /\ \A i \in DOMAIN w.log :
           w.log[i].sig.nonce < w.nonces[w.log[i].sig.signer]
    /\ \A i, j \in DOMAIN w.log :
           /\ w.log[i].sig.signer = w.log[j].sig.signer
           /\ w.log[i].sig.nonce = w.log[j].sig.nonce
           => i = j

SpendInv ==
    /\ Spends(chain)
    /\ Spends(work)
    /\ sender = None => work = chain

LEMMA SettlesSpends ==
    ASSUME TypeOK, Spends(work), NEW event \in Event, Settles(event)
    PROVE  Spends(work)'
  <1>. DEFINE k == Len(work.log) + 1
  <1>1. /\ work'.log = Append(work.log, event)
        /\ work.log \in Seq(Event)
        /\ work.nonces \in [Signer -> Nat]
        /\ work'.nonces = [work.nonces EXCEPT ![event.sig.signer] = @ + 1]
        /\ event.sig.nonce = work.nonces[event.sig.signer]
        /\ event.sig.signer \in Signer
    BY DEF Settles, TypeOK, State, Event, Signature
  <1>2. /\ DOMAIN work'.log = DOMAIN work.log \cup {k}
        /\ work'.log[k] = event
        /\ \A i \in DOMAIN work.log : /\ work'.log[i] = work.log[i]
                                      /\ work.log[i] \in Event
                                      /\ i # k
    BY <1>1
  <1>3. \A i \in DOMAIN work.log :
            /\ work.log[i].sig.nonce < work.nonces[work.log[i].sig.signer]
            /\ work.log[i].sig.nonce \in Nat
            /\ work.log[i].sig.signer \in Signer
    BY <1>2 DEF Spends, Event, Signature
  <1>4. \A i \in DOMAIN work.log :
            /\ work.log[i].sig.nonce < work'.nonces[work.log[i].sig.signer]
            /\ work.log[i].sig.signer = event.sig.signer
                  => work.log[i].sig.nonce # event.sig.nonce
    BY SMTT(30), <1>1, <1>3
  <1>5. event.sig.nonce < work'.nonces[event.sig.signer]
    BY <1>1
  <1>. QED  BY <1>2, <1>4, <1>5 DEF Spends

LEMMA SpendStep ==
    ASSUME TypeOK, SpendInv, [Next]_vars
    PROVE  SpendInv'
  <1>1. ASSUME NEW s \in {Owner, Relayer}, Begin(s) PROVE SpendInv'
    BY <1>1, ConstantsType DEF Begin, SpendInv, Spends
  <1>2. CASE End
    BY <1>2 DEF End, SpendInv, Spends
  <1>3. CASE OwnerCalls \/ UserCalls \/ UnknownCall
    <2>1. CASE sender # None /\ Revert
      BY <2>1 DEF Revert, SpendInv, Spends
    <2>2. CASE InTxn /\ OwnerStep
      BY <2>2 DEF InTxn, OwnerStep, SpendInv, Spends
    <2>3. CASE InTxn /\ SettleStep
      <3>1. Spends(work)'
        BY <2>3, SettlesSpends DEF SpendInv, SettleStep
      <3>2. Spends(chain)'
        BY <2>3 DEF InTxn, SpendInv, Spends
      <3>. QED  BY <2>3, <3>1, <3>2 DEF InTxn, SpendInv
    <2>. QED  BY <1>3, <2>1, <2>2, <2>3, CallStep
  <1>4. CASE NewSignature
    <2>1. UNCHANGED <<chain, work, sender>>
      BY <1>4 DEF NewSignature, Sign
    <2>. QED  BY <2>1 DEF SpendInv, Spends
  <1>5. ASSUME NEW u \in User, NEW n \in Allowance, Approve(u, n)
        PROVE  SpendInv'
    <2>1. chain'.log = chain.log /\ chain'.nonces = chain.nonces
          /\ work' = chain'
      BY <1>5 DEF Approve, TypeOK, State
    <2>. QED  BY <2>1 DEF SpendInv, Spends
  <1>6. CASE Tick
    BY <1>6 DEF Tick, SpendInv, Spends
  <1>7. CASE UNCHANGED vars
    BY <1>7 DEF vars, SpendInv, Spends
  <1>. QED
    BY <1>1, <1>2, <1>3, <1>4, <1>5, <1>6, <1>7 DEF Next

\* No signature is ever paid twice, for any number of users, managers,
\* signatures and calls of a multicall.
THEOREM SignaturesAreSingleUse == Spec => []SingleUse
  <1>1. Init => SpendInv
    BY DEF Init, SpendInv, Spends
  <1>2. TypeOK /\ SpendInv /\ [Next]_vars => SpendInv'
    BY SpendStep
  <1>3. SpendInv => SingleUse
    BY DEF SpendInv, Spends, SingleUse
  <1>. QED  BY <1>1, <1>2, <1>3, TypeCorrect, PTL DEF Spec
-----------------------------------------------------------------------------
(***************************************************************************)
(* The events of the transaction in execution, the ones everyone sees when *)
(* it ends, follow from the switches everyone saw when it began, and they  *)
(* use up the next nonces of their signers.                                *)
(***************************************************************************)
NewEvents == DOMAIN work.log \ DOMAIN chain.log

Extends ==
    /\ DOMAIN chain.log \subseteq DOMAIN work.log
    /\ \A i \in DOMAIN chain.log : work.log[i] = chain.log[i]

SwitchInv ==
    sender \notin {None, Owner}
        => /\ SameSwitches(work, chain)
           /\ \A i \in NewEvents : FollowsFrom(chain, work.log[i])

OrderInv ==
    /\ \A a \in Signer : chain.nonces[a] <= work.nonces[a]
    /\ \A i \in NewEvents :
           chain.nonces[work.log[i].sig.signer] <= work.log[i].sig.nonce
    /\ \A a \in Signer : \A n \in chain.nonces[a] .. (work.nonces[a] - 1) :
           \E i \in NewEvents : /\ work.log[i].sig.signer = a
                                /\ work.log[i].sig.nonce = n

BatchInv == Extends /\ SwitchInv /\ OrderInv

\* A transaction without calls has nothing new.
LEMMA BatchEmpty ==
    ASSUME TypeOK, work = chain
    PROVE  BatchInv
  <1>1. NewEvents = {} /\ chain.nonces \in [Signer -> Nat]
    BY DEF NewEvents, TypeOK, State
  <1>2. \A a \in Signer : chain.nonces[a] .. (work.nonces[a] - 1) = {}
    BY <1>1
  <1>. QED
    BY <1>1, <1>2 DEF BatchInv, Extends, SwitchInv, OrderInv, SameSwitches

LEMMA BatchSettles ==
    ASSUME TypeOK, BatchInv, NEW event \in Event, Settles(event),
           UNCHANGED <<chain, sender>>
    PROVE  BatchInv'
  <1>. DEFINE k == Len(work.log) + 1
              a == event.sig.signer
  <1>1. /\ work'.log = Append(work.log, event)
        /\ work.log \in Seq(Event)
        /\ chain.log \in Seq(Event)
        /\ work.nonces \in [Signer -> Nat]
        /\ chain.nonces \in [Signer -> Nat]
        /\ work'.nonces = [work.nonces EXCEPT ![a] = @ + 1]
        /\ event.sig.nonce = work.nonces[a]
        /\ a \in Signer
    BY DEF Settles, TypeOK, State, Event, Signature
  <1>2. /\ DOMAIN work'.log = DOMAIN work.log \cup {k}
        /\ work'.log[k] = event
        /\ k \notin DOMAIN work.log
        /\ \A i \in DOMAIN work.log : work'.log[i] = work.log[i]
    BY <1>1
  <1>3. Extends' /\ NewEvents' = NewEvents \cup {k}
    BY <1>2 DEF BatchInv, Extends, NewEvents
  <1>4. SwitchInv'
    <2>1. SUFFICES ASSUME sender \notin {None, Owner}
                   PROVE  /\ SameSwitches(work', chain)
                          /\ \A i \in NewEvents' :
                                 FollowsFrom(chain, work'.log[i])
      BY DEF SwitchInv, SameSwitches, FollowsFrom
    <2>2. SameSwitches(work, chain) /\ SameSwitches(work', work)
      BY <2>1 DEF BatchInv, SwitchInv, Settles
    <2>3. FollowsFrom(chain, event)
      BY <2>2 DEF Settles, FollowsFrom, SameSwitches
    <2>4. \A i \in NewEvents : FollowsFrom(chain, work'.log[i])
      BY <1>2, <2>1 DEF BatchInv, SwitchInv, NewEvents
    <2>. QED  BY <1>2, <1>3, <2>2, <2>3, <2>4 DEF SameSwitches
  <1>5. OrderInv'
    <2>1. \A b \in Signer : chain.nonces[b] <= work'.nonces[b]
      BY <1>1 DEF BatchInv, OrderInv
    <2>2. \A i \in NewEvents' :
             chain.nonces[work'.log[i].sig.signer] <= work'.log[i].sig.nonce
      <3>1. chain.nonces[a] <= work.nonces[a]
        BY <1>1 DEF BatchInv, OrderInv
      <3>2. \A i \in NewEvents : work'.log[i] = work.log[i]
        BY <1>2 DEF NewEvents
      <3>. QED  BY <1>1, <1>2, <1>3, <3>1, <3>2 DEF BatchInv, OrderInv
    <2>3. ASSUME NEW b \in Signer,
                 NEW n \in chain.nonces[b] .. (work'.nonces[b] - 1)
          PROVE  \E i \in NewEvents' : /\ work'.log[i].sig.signer = b
                                       /\ work'.log[i].sig.nonce = n
      <3>1. CASE b = a /\ n = work.nonces[a]
        BY <1>1, <1>2, <1>3, <3>1
      <3>2. CASE ~(b = a /\ n = work.nonces[a])
        <4>1. n \in chain.nonces[b] .. (work.nonces[b] - 1)
          BY <1>1, <3>2
        <4>2. PICK i \in NewEvents : /\ work.log[i].sig.signer = b
                                    /\ work.log[i].sig.nonce = n
          BY <4>1 DEF BatchInv, OrderInv
        <4>3. work'.log[i] = work.log[i]
          BY <1>2 DEF NewEvents
        <4>. QED  BY <1>3, <4>2, <4>3
      <3>. QED  BY <3>1, <3>2
    <2>. QED  BY <2>1, <2>2, <2>3 DEF OrderInv
  <1>. QED  BY <1>3, <1>4, <1>5 DEF BatchInv

LEMMA BatchEmptyNext ==
    ASSUME TypeOK', work' = chain'
    PROVE  BatchInv'
  <1>1. NewEvents' = {} /\ chain'.nonces \in [Signer -> Nat]
    BY DEF NewEvents, TypeOK, State
  <1>2. \A a \in Signer : chain'.nonces[a] .. (work'.nonces[a] - 1) = {}
    BY <1>1
  <1>3. Extends' /\ SwitchInv'
    BY <1>1 DEF Extends, SwitchInv, SameSwitches
  <1>4. OrderInv'
    BY <1>1, <1>2 DEF OrderInv
  <1>. QED  BY <1>3, <1>4 DEF BatchInv

LEMMA BatchStep ==
    ASSUME TypeOK, TypeOK', SpendInv, BatchInv, [Next]_vars
    PROVE  BatchInv'
  <1>1. ASSUME work' = chain' PROVE BatchInv'
    BY <1>1, BatchEmptyNext
  <1>2. ASSUME NEW s \in {Owner, Relayer}, Begin(s) PROVE work' = chain'
    BY <1>2 DEF Begin, SpendInv
  <1>3. CASE End
    BY <1>1, <1>3 DEF End
  <1>4. CASE OwnerCalls \/ UserCalls \/ UnknownCall
    <2>1. CASE sender # None /\ Revert
      BY <1>1, <2>1 DEF Revert
    <2>2. CASE InTxn /\ OwnerStep
      <3>1. /\ work'.log = work.log /\ work'.nonces = work.nonces
            /\ sender' = Owner /\ chain' = chain
        BY <2>2 DEF InTxn, OwnerStep
      <3>2. Extends' /\ NewEvents' = NewEvents
        BY <3>1 DEF BatchInv, Extends, NewEvents
      <3>3. SwitchInv'
        BY <3>1 DEF SwitchInv
      <3>4. OrderInv'
        BY <3>1, <3>2 DEF BatchInv, OrderInv
      <3>. QED  BY <3>2, <3>3, <3>4 DEF BatchInv
    <2>3. CASE InTxn /\ SettleStep
      BY <2>3, BatchSettles DEF InTxn, SettleStep
    <2>. QED  BY <1>4, <2>1, <2>2, <2>3, CallStep
  <1>5. CASE NewSignature
    BY <1>1, <1>5 DEF NewSignature, Sign, SpendInv
  <1>6. ASSUME NEW u \in User, NEW n \in Allowance, Approve(u, n)
        PROVE  BatchInv'
    BY <1>1, <1>6 DEF Approve
  <1>7. CASE Tick
    BY <1>1, <1>7 DEF Tick, SpendInv
  <1>8. CASE UNCHANGED vars
    <2>1. UNCHANGED <<chain, work, sender>>
      BY <1>8 DEF vars
    <2>. QED
      BY <2>1 DEF BatchInv, Extends, NewEvents, SwitchInv, OrderInv,
                  SameSwitches, FollowsFrom
  <1>. QED
    BY <1>1, <1>2, <1>3, <1>4, <1>5, <1>6, <1>7, <1>8 DEF Next

LEMMA BatchInit == Init => BatchInv
  BY TypeInit, BatchEmpty DEF Init

\* Nothing but a transaction of the owner pays while paused, for an invalid
\* user, on a revoked manager's word, at another rate than the one set or
\* after the deadline of the signature.
THEOREM SwitchesHoldThroughout == Spec => SwitchesHold
  <1>. DEFINE Holds ==
          sender # Owner
            => \A i \in DOMAIN chain'.log \ DOMAIN chain.log :
                  PaidAsConfigured(chain'.log[i])
  <1>1. TypeOK /\ SpendInv /\ BatchInv /\ [Next]_vars => [Holds]_vars
    <2>. SUFFICES ASSUME TypeOK, SpendInv, BatchInv, Next PROVE Holds
      BY DEF Holds
    <2>1. CASE End
      BY <2>1 DEF End, BatchInv, SwitchInv, NewEvents, FollowsFrom,
                  PaidAsConfigured
    <2>2. CASE chain'.log = chain.log
      BY <2>2
    <2>3. ASSUME NEW u \in User, NEW n \in Allowance, Approve(u, n)
          PROVE  chain'.log = chain.log
      BY <2>3 DEF Approve, TypeOK, State
    <2>4. ASSUME OwnerCalls \/ UserCalls \/ UnknownCall
          PROVE  chain'.log = chain.log
      BY <2>4, CallStep DEF Revert, InTxn
    <2>. QED
      BY <2>1, <2>2, <2>3, <2>4
         DEF Next, Begin, NewSignature, Sign, Tick
  <1>2. TypeOK /\ TypeOK' /\ SpendInv /\ BatchInv /\ [Next]_vars => BatchInv'
    BY BatchStep
  <1>3. TypeOK /\ SpendInv /\ [Next]_vars => SpendInv'
    BY SpendStep
  <1>4. Init => SpendInv
    BY DEF Init, SpendInv, Spends
  <1>. QED
    BY <1>1, <1>2, <1>3, <1>4, BatchInit, TypeCorrect, PTL
       DEF Spec, SwitchesHold
-----------------------------------------------------------------------------
(***************************************************************************)
(* The contract implements the ledger of signatures.                       *)
(***************************************************************************)
\* The end of a transaction uses up the signatures of its events at once.
LEMMA EndUses ==
    ASSUME TypeOK, SpendInv, BatchInv, End
    PROVE  [Ledger!Next]_(Ledger!vars)
  <1>. DEFINE new == Used' \ Used
              Sig(i) == work.log[i].sig
  <1>1. /\ chain' = work
        /\ work.nonces \in [Signer -> Nat]
        /\ chain.nonces \in [Signer -> Nat]
        /\ \A i \in DOMAIN work.log : work.log[i] \in Event
    BY DEF End, TypeOK, State
  <1>2. \A i \in DOMAIN work.log : /\ Sig(i).signer \in Signer
                                  /\ Sig(i).nonce \in Nat
                                  /\ Sig(i).nonce < work.nonces[Sig(i).signer]
    BY <1>1 DEF SpendInv, Spends, Event, Signature
  <1>3. \A i, j \in DOMAIN work.log :
            Sig(i).signer = Sig(j).signer /\ Sig(i).nonce = Sig(j).nonce => i = j
    BY DEF SpendInv, Spends
  <1>4. Used = {Sig(i) : i \in DOMAIN chain.log}
    BY DEF Used, BatchInv, Extends
  <1>5. Used' = {Sig(i) : i \in DOMAIN work.log}
    BY <1>1 DEF Used
  <1>6. DOMAIN chain.log \subseteq DOMAIN work.log
    BY DEF BatchInv, Extends
  <1>7. new = {Sig(i) : i \in NewEvents}
    BY <1>3, <1>4, <1>5, <1>6 DEF NewEvents
  <1>8. Used \subseteq Used'
    BY <1>4, <1>5, <1>6
  <1>9. ASSUME NEW a \in Signer
        PROVE  /\ chain.nonces[a] <= chain'.nonces[a]
               /\ {s.nonce : s \in {n \in new : n.signer = a}}
                     = chain.nonces[a] .. (chain'.nonces[a] - 1)
    <2>1. chain.nonces[a] <= work.nonces[a]
      BY DEF BatchInv, OrderInv
    <2>2. ASSUME NEW s \in new, s.signer = a
          PROVE  s.nonce \in chain.nonces[a] .. (work.nonces[a] - 1)
      <3>1. PICK i \in NewEvents : s = Sig(i)
        BY <1>7
      <3>. QED
        BY <1>1, <1>2, <2>2, <3>1 DEF BatchInv, OrderInv, NewEvents
    <2>3. ASSUME NEW n \in chain.nonces[a] .. (work.nonces[a] - 1)
          PROVE  \E s \in new : s.signer = a /\ s.nonce = n
      BY <1>7 DEF BatchInv, OrderInv
    <2>. QED  BY <1>1, <2>1, <2>2, <2>3
  <1>10. ASSUME NEW s \in new, NEW t \in new,
                s.signer = t.signer, s.nonce = t.nonce
         PROVE  s = t
    BY <1>3, <1>7, <1>10 DEF NewEvents
  <1>11. CASE new = {}
    <2>1. Used' = Used
      BY <1>8, <1>11
    <2>2. \A a \in Signer : chain'.nonces[a] = chain.nonces[a]
      <3>. SUFFICES ASSUME NEW a \in Signer
                    PROVE  chain'.nonces[a] = chain.nonces[a]
        OBVIOUS
      <3>1. chain.nonces[a] .. (chain'.nonces[a] - 1) = {}
        BY <1>9, <1>11
      <3>2. chain.nonces[a] \in Nat /\ chain'.nonces[a] \in Nat
            /\ chain.nonces[a] <= chain'.nonces[a]
        BY <1>1, <1>9
      <3>. QED  BY <3>1, <3>2
    <2>3. chain'.nonces = chain.nonces
      BY <1>1, <2>2
    <2>. QED  BY <2>1, <2>3 DEF Ledger!vars
  <1>12. CASE new # {}
    BY <1>1, <1>8, <1>9, <1>10, <1>12 DEF Ledger!Next, Ledger!Use
  <1>. QED  BY <1>11, <1>12

LEMMA LedgerStep ==
    ASSUME TypeOK, SpendInv, BatchInv, [Next]_vars
    PROVE  [Ledger!Next]_(Ledger!vars)
  <1>1. CASE End
    BY <1>1, EndUses
  <1>2. ASSUME chain'.log = chain.log, chain'.nonces = chain.nonces
        PROVE  [Ledger!Next]_(Ledger!vars)
    BY <1>2 DEF Ledger!vars, Used
  <1>3. ASSUME NEW u \in User, NEW n \in Allowance, Approve(u, n)
        PROVE  chain'.log = chain.log /\ chain'.nonces = chain.nonces
    BY <1>3 DEF Approve, TypeOK, State
  <1>4. ASSUME OwnerCalls \/ UserCalls \/ UnknownCall
        PROVE  chain' = chain
    BY <1>4, CallStep DEF Revert, InTxn
  <1>. QED
    BY <1>1, <1>2, <1>3, <1>4
       DEF Next, Begin, NewSignature, Sign, Tick, vars

\* Whatever is sent, reverted or batched, the signatures of each signer are
\* used up in the order of their nonces, one per nonce, and those of one
\* transaction together.
THEOREM SignaturesAreUsedInOrder == Spec => UsedInOrder
  <1>1. Init => Ledger!Init
    BY DEF Init, Ledger!Init, Used
  <1>2. TypeOK /\ SpendInv /\ BatchInv /\ [Next]_vars
          => [Ledger!Next]_(Ledger!vars)
    BY LedgerStep
  <1>3. TypeOK /\ TypeOK' /\ SpendInv /\ BatchInv /\ [Next]_vars => BatchInv'
    BY BatchStep
  <1>4. TypeOK /\ SpendInv /\ [Next]_vars => SpendInv'
    BY SpendStep
  <1>5. Init => SpendInv
    BY DEF Init, SpendInv, Spends
  <1>. QED
    BY <1>1, <1>2, <1>3, <1>4, <1>5, BatchInit, TypeCorrect, PTL
       DEF Spec, UsedInOrder, Ledger!Spec

-----------------------------------------------------------------------------
(***************************************************************************)
(* Every balance is the one at the start and the tokens of the events.     *)
(***************************************************************************)
\* The balances of a state of the contract follow from its own events.
Accounted(s) ==
    /\ \A u \in User : s.bal[u] = InitTokens + PaidOut(s.log, {u})
    /\ s.bal[Pool] = InitPool - PaidOut(s.log, User)

\* What an event adds to the tokens that went to some accounts.
Paid(event, accounts) ==
    IF event.sig.account \notin accounts THEN 0
    ELSE IF event.sig.kind = "deposit" THEN event.tokens
    ELSE 0 - event.tokens

LEMMA DomainIsFinite ==
    ASSUME NEW log \in Seq(Event)
    PROVE  IsFiniteSet(DOMAIN log)
  <1>1. DOMAIN log = 1 .. Len(log) /\ Len(log) \in Nat
    OBVIOUS
  <1>. QED  BY <1>1, FS_Interval

LEMMA TokensOfNone ==
    ASSUME NEW kind, NEW accounts
    PROVE  TokensOf(<<>>, kind, accounts) = 0
  <1>1. {i \in DOMAIN <<>> : /\ <<>>[i].sig.kind = kind
                             /\ <<>>[i].sig.account \in accounts} = {}
    OBVIOUS
  <1>. QED  BY <1>1, SumOfNone DEF TokensOf

LEMMA TokensOfAppend ==
    ASSUME NEW log \in Seq(Event), NEW event \in Event,
           NEW kind, NEW accounts
    PROVE  /\ TokensOf(log, kind, accounts) \in Int
           /\ TokensOf(Append(log, event), kind, accounts)
                 = TokensOf(log, kind, accounts)
                   + (IF event.sig.kind = kind /\ event.sig.account \in accounts
                      THEN event.tokens ELSE 0)
  <1>. DEFINE more == Append(log, event)
              k == Len(log) + 1
              f == [i \in DOMAIN log |-> log[i].tokens]
              g == [i \in DOMAIN more |-> more[i].tokens]
              Told(l) == {i \in DOMAIN l : /\ l[i].sig.kind = kind
                                           /\ l[i].sig.account \in accounts}
              fits == event.sig.kind = kind /\ event.sig.account \in accounts
  <1>1. /\ DOMAIN more = DOMAIN log \cup {k} /\ k \notin DOMAIN log
        /\ more[k] = event
        /\ \A i \in DOMAIN log : more[i] = log[i] /\ log[i] \in Event
    OBVIOUS
  <1>2. IsFiniteSet(Told(log))
    <2>1. Told(log) \subseteq DOMAIN log
      OBVIOUS
    <2>. QED  BY <2>1, DomainIsFinite, FS_Subset
  <1>3. \A i \in Told(log) \cup {k} : g[i] \in Int
    BY <1>1 DEF Event
  <1>4. \A i \in Told(log) : f[i] = g[i]
    BY <1>1
  <1>5. g[k] = event.tokens
    BY <1>1
  <1>6. k \notin Told(log)
    BY <1>1
  <1>7. fits => Told(more) = Told(log) \cup {k}
    BY <1>1
  <1>8. ~fits => Told(more) = Told(log)
    BY <1>1
  <1>9. /\ TokensOf(log, kind, accounts) = SumFunctionOnSet(f, Told(log))
        /\ TokensOf(more, kind, accounts) = SumFunctionOnSet(g, Told(more))
    BY DEF TokensOf
  <1>. HIDE DEF f, g, k, Told, more
  <1>10. SumFunctionOnSet(f, Told(log)) = SumFunctionOnSet(g, Told(log))
    BY <1>2, <1>4, SumOfEqual
  <1>11. /\ SumFunctionOnSet(g, Told(log)) \in Int
         /\ SumFunctionOnSet(g, Told(log) \cup {k})
               = SumFunctionOnSet(g, Told(log)) + g[k]
    BY <1>2, <1>3, <1>6, SumWithOneMore
  <1>12. CASE fits
    BY <1>5, <1>7, <1>9, <1>10, <1>11, <1>12 DEF more
  <1>13. CASE ~fits
    BY <1>8, <1>9, <1>10, <1>11, <1>13 DEF more
  <1>. QED  BY <1>12, <1>13

LEMMA PaidOutAppend ==
    ASSUME NEW log \in Seq(Event), NEW event \in Event, NEW accounts
    PROVE  /\ PaidOut(log, accounts) \in Int
           /\ PaidOut(Append(log, event), accounts)
                 = PaidOut(log, accounts) + Paid(event, accounts)
  <1>. DEFINE In(kind)  == TokensOf(log, kind, accounts)
              New(kind) == TokensOf(Append(log, event), kind, accounts)
              More(kind) == IF event.sig.kind = kind
                               /\ event.sig.account \in accounts
                            THEN event.tokens ELSE 0
  <1>1. \A kind : In(kind) \in Int /\ New(kind) = In(kind) + More(kind)
    BY TokensOfAppend
  <1>2. event.sig.kind \in {"deposit", "withdraw"} /\ event.tokens \in Nat
    BY DEF Event, Signature
  <1>3. More("deposit") - More("withdraw") = Paid(event, accounts)
        /\ More("deposit") \in Nat /\ More("withdraw") \in Nat
        /\ Paid(event, accounts) \in Int
    BY <1>2 DEF Paid
  <1>4. /\ PaidOut(log, accounts) = In("deposit") - In("withdraw")
        /\ PaidOut(Append(log, event), accounts)
              = New("deposit") - New("withdraw")
    BY DEF PaidOut
  <1>5. /\ In("deposit") \in Int /\ In("withdraw") \in Int
        /\ New("deposit") = In("deposit") + More("deposit")
        /\ New("withdraw") = In("withdraw") + More("withdraw")
    BY <1>1
  <1>. HIDE DEF In, New, More
  <1>. QED  BY <1>3, <1>4, <1>5

LEMMA SettlesAccounted ==
    ASSUME TypeOK, Accounted(work), NEW event \in Event, Settles(event)
    PROVE  Accounted(work')
  <1>. DEFINE a == event.sig.account
              n == event.tokens
  <1>1. /\ work.log \in Seq(Event) /\ work'.log = Append(work.log, event)
        /\ work.bal \in [Holder -> Nat]
        /\ a \in User /\ n \in Nat
        /\ event.sig.kind \in {"deposit", "withdraw"}
    BY DEF Settles, Transfers, TypeOK, State, Event, Signature
  <1>2. ASSUME NEW accounts
        PROVE  /\ PaidOut(work.log, accounts) \in Int
               /\ PaidOut(work'.log, accounts)
                     = PaidOut(work.log, accounts) + Paid(event, accounts)
    BY <1>1, PaidOutAppend
  <1>3. /\ \A u \in User : Paid(event, {u})
              = IF u # a THEN 0 ELSE IF event.sig.kind = "deposit" THEN n ELSE 0 - n
        /\ Paid(event, User) = IF event.sig.kind = "deposit" THEN n ELSE 0 - n
    BY <1>1 DEF Paid
  <1>4. /\ \A u \in User : u \in Holder /\ work.bal[u] \in Nat /\ u # Pool
        /\ Pool \in Holder /\ work.bal[Pool] \in Nat
    BY <1>1, ConstantsType
  <1>5. \A u \in User : work'.bal[u]
           = IF u # a THEN work.bal[u]
             ELSE IF event.sig.kind = "deposit" THEN work.bal[u] + n
             ELSE work.bal[u] - n
    BY <1>1, <1>4 DEF Settles, Transfers, Moved
  <1>6. work'.bal[Pool] = IF event.sig.kind = "deposit"
                          THEN work.bal[Pool] - n ELSE work.bal[Pool] + n
    BY <1>1, <1>4 DEF Settles, Transfers, Moved
  <1>. HIDE DEF a, n
  <1>7. ASSUME NEW u \in User
        PROVE  work'.bal[u] = InitTokens + PaidOut(work'.log, {u})
    <2>1. work.bal[u] = InitTokens + PaidOut(work.log, {u})
      BY DEF Accounted
    <2>2. /\ PaidOut(work.log, {u}) \in Int
          /\ PaidOut(work'.log, {u})
                = PaidOut(work.log, {u}) + Paid(event, {u})
      BY <1>2
    <2>3. work'.bal[u] = work.bal[u] + Paid(event, {u})
      <3>1. /\ work.bal[u] \in Nat
            /\ Paid(event, {u}) = IF u # a THEN 0
                  ELSE IF event.sig.kind = "deposit" THEN n ELSE 0 - n
            /\ work'.bal[u] = IF u # a THEN work.bal[u]
                  ELSE IF event.sig.kind = "deposit" THEN work.bal[u] + n
                  ELSE work.bal[u] - n
        BY <1>3, <1>4, <1>5
      <3>. QED  BY <1>1, <3>1
    <2>4. InitTokens \in Int /\ Paid(event, {u}) \in Int
      BY <1>1, <1>3, ConstantsType
    <2>. QED  BY <2>1, <2>2, <2>3, <2>4
  <1>8. work'.bal[Pool] = InitPool - PaidOut(work'.log, User)
    <2>1. work.bal[Pool] = InitPool - PaidOut(work.log, User)
      BY DEF Accounted
    <2>2. /\ PaidOut(work.log, User) \in Int
          /\ PaidOut(work'.log, User)
                = PaidOut(work.log, User) + Paid(event, User)
      BY <1>2
    <2>. QED  BY <1>1, <1>3, <1>6, <2>1, <2>2, ConstantsType
  <1>. QED  BY <1>7, <1>8 DEF Accounted

AccountInv == Accounted(chain) /\ Accounted(work)

LEMMA AccountStep ==
    ASSUME TypeOK, AccountInv, [Next]_vars
    PROVE  Accounted(chain') /\ Accounted(work')
  <1>0. Accounted(chain) /\ Accounted(work)
    BY DEF AccountInv
  <1>1. ASSUME NEW s \in {Owner, Relayer}, Begin(s)
        PROVE  Accounted(chain') /\ Accounted(work')
    BY <1>0, <1>1 DEF Begin
  <1>2. CASE End
    BY <1>0, <1>2 DEF End
  <1>3. CASE OwnerCalls \/ UserCalls \/ UnknownCall
    <2>1. CASE sender # None /\ Revert
      BY <1>0, <2>1 DEF Revert
    <2>2. CASE InTxn /\ OwnerStep
      BY <1>0, <2>2 DEF InTxn, OwnerStep, Accounted
    <2>3. CASE InTxn /\ SettleStep
      BY <1>0, <2>3, SettlesAccounted DEF InTxn, SettleStep
    <2>. QED  BY <1>3, <2>1, <2>2, <2>3, CallStep
  <1>4. CASE NewSignature
    BY <1>0, <1>4 DEF NewSignature, Sign
  <1>5. ASSUME NEW u \in User, NEW n \in Allowance, Approve(u, n)
        PROVE  Accounted(chain') /\ Accounted(work')
    <2>1. /\ chain'.log = chain.log /\ chain'.bal = chain.bal
          /\ work' = chain'
      BY <1>5 DEF Approve, TypeOK, State
    <2>. QED  BY <1>0, <2>1 DEF Accounted
  <1>6. CASE Tick
    BY <1>0, <1>6 DEF Tick
  <1>7. CASE UNCHANGED vars
    BY <1>0, <1>7 DEF vars
  <1>. QED
    BY <1>1, <1>2, <1>3, <1>4, <1>5, <1>6, <1>7 DEF Next

LEMMA AccountInit == Init => AccountInv
  <1>. SUFFICES ASSUME Init  PROVE AccountInv
    OBVIOUS
  <1>1. /\ chain.log = <<>> /\ work = chain
        /\ \A u \in User : chain.bal[u] = InitTokens
        /\ chain.bal[Pool] = InitPool
    BY ConstantsType DEF Init
  <1>2. \A accounts : PaidOut(<<>>, accounts) = 0
    BY TokensOfNone DEF PaidOut
  <1>. QED  BY <1>1, <1>2, ConstantsType DEF AccountInv, Accounted

\* The events account for every token of the contract and its users,
\* whatever the owner sets, however calls are batched and whatever reverts.
THEOREM EventsAccountForTokens == Spec => []BalancesAreAccounted
  <1>1. TypeOK /\ AccountInv /\ [Next]_vars => AccountInv'
    BY AccountStep DEF AccountInv
  <1>2. AccountInv => BalancesAreAccounted
    BY DEF AccountInv, Accounted, BalancesAreAccounted
  <1>. QED  BY <1>1, <1>2, AccountInit, TypeCorrect, PTL DEF Spec

=============================================================================
