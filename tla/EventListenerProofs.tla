------------------------ MODULE EventListenerProofs ------------------------
(***************************************************************************)
(* Theorems about EventListener, for any transactions, wallets, sizes of a *)
(* range and failures.                                                     *)
(***************************************************************************)
EXTENDS EventListener, SequenceTheorems, FiniteSetTheorems, TLAPS

CallRecord ==
    [req : Request, left : BOOLEAN,
     step : {"new", "sent", "done", "false", "error"}]

\* A block holds one transaction of the contract.
Distinct ==
    \A t, x \in Tx : block[t] = block[x] /\ block[t] # 0 => t = x

\* A run that waits asked for the first of the requests that are left.
Waiting ==
    phase = "wait" =>
        /\ todo # <<>> /\ calls # <<>>
        /\ calls[Len(calls)].req = Head(todo)

Typed == TypeOK /\ Distinct /\ Waiting

-----------------------------------------------------------------------------
(***************************************************************************)
(* The requests of a range are all there.                                  *)
(***************************************************************************)
LEMMA RankType ==
    /\ \A k \in Kind : Rank(k) \in 1 .. 3
    /\ \A k, l \in Kind : Rank(k) = Rank(l) => k = l
  <1>1. Rank("deposit") = 1
    BY DEF Rank
  <1>2. Rank("withdraw") = 2
    BY DEF Rank
  <1>3. Rank("valid") = 3
    BY DEF Rank
  <1>. QED  BY <1>1, <1>2, <1>3 DEF Kind

LEMMA Ordering ==
    ASSUME block \in [Tx -> Nat], Distinct, NEW lo \in Nat \ {0}, NEW hi \in Nat
    PROVE  /\ \A p, q \in InRange(lo, hi) : p # q => Before(p, q) \/ Before(q, p)
           /\ \A p \in InRange(lo, hi) : ~Before(p, p)
           /\ \A p, q, r \in InRange(lo, hi) :
                 Before(p, q) /\ Before(q, r) => Before(p, r)
  <1>1. \A p \in InRange(lo, hi) :
           /\ p \in Request /\ p.tx \in Tx /\ p.kind \in Kind
           /\ block[p.tx] \in Nat \ {0} /\ Rank(p.kind) \in Nat
    BY RankType DEF InRange, Request
  <1>2. ASSUME NEW p \in InRange(lo, hi), NEW q \in InRange(lo, hi), p # q
        PROVE  Before(p, q) \/ Before(q, p)
    <2>1. p.kind # q.kind \/ p.tx # q.tx
      BY <1>1, <1>2 DEF Request
    <2>2. CASE p.kind # q.kind
      BY <1>1, <2>2, RankType DEF Before
    <2>3. CASE p.kind = q.kind /\ p.tx # q.tx
      <3>1. block[p.tx] # block[q.tx]
        BY <1>1, <2>3 DEF Distinct
      <3>. QED  BY <1>1, <2>3, <3>1 DEF Before
    <2>. QED  BY <2>1, <2>2, <2>3
  <1>3. \A p \in InRange(lo, hi) : ~Before(p, p)
    BY <1>1 DEF Before
  <1>4. ASSUME NEW p \in InRange(lo, hi), NEW q \in InRange(lo, hi),
               NEW r \in InRange(lo, hi), Before(p, q), Before(q, r)
        PROVE  Before(p, r)
    BY <1>1, <1>4 DEF Before
  <1>. QED  BY <1>2, <1>3, <1>4

LEMMA FiniteRange ==
    ASSUME block \in [Tx -> Nat], Distinct, NEW lo \in Nat \ {0}, NEW hi \in Nat
    PROVE  IsFiniteSet(InRange(lo, hi))
  <1>. DEFINE S == InRange(lo, hi)
              T == (lo .. hi) \X (1 .. 3)
              f == [q \in S |-> <<block[q.tx], Rank(q.kind)>>]
  <1>1. \A p \in S :
           /\ p \in Request /\ p.tx \in Tx /\ p.kind \in Kind
           /\ block[p.tx] \in lo .. hi /\ block[p.tx] # 0
           /\ Rank(p.kind) \in 1 .. 3
    BY RankType DEF InRange, Request
  <1>2. f \in [S -> T]
    BY <1>1
  <1>3. \A p, q \in S : f[p] = f[q] => p = q
    <2>. SUFFICES ASSUME NEW p \in S, NEW q \in S, f[p] = f[q]  PROVE p = q
      OBVIOUS
    <2>1. block[p.tx] = block[q.tx] /\ Rank(p.kind) = Rank(q.kind)
      OBVIOUS
    <2>2. p.tx = q.tx /\ p.kind = q.kind
      BY <1>1, <2>1, RankType DEF Distinct
    <2>. QED  BY <1>1, <2>2 DEF Request
  <1>4. f \in Injection(S, T)
    BY <1>2, <1>3 DEF Injection, IsInjective
  <1>5. IsFiniteSet(T)
    <2>1. lo \in Int /\ hi \in Int /\ 1 \in Int /\ 3 \in Int
      OBVIOUS
    <2>2. IsFiniteSet(lo .. hi)
      BY <2>1, FS_Interval, Zenon
    <2>3. IsFiniteSet(1 .. 3)
      BY <2>1, FS_Interval, Zenon
    <2>. QED  BY <2>2, <2>3, FS_Product
  <1>. HIDE DEF S, T, f
  <1>6. IsFiniteSet(S)
    BY <1>4, <1>5, FS_Injection
  <1>. QED  BY <1>6 DEF S

\* The place of a request among those of its range: one more than the number
\* of those before it.
Place(q, S) == Cardinality({p \in S : Before(p, q)}) + 1

LEMMA Places ==
    ASSUME NEW S, IsFiniteSet(S),
           \A p, q \in S : p # q => Before(p, q) \/ Before(q, p),
           \A p \in S : ~Before(p, p),
           \A p, q, r \in S : Before(p, q) /\ Before(q, r) => Before(p, r)
    PROVE  /\ \A q \in S : Place(q, S) \in 1 .. Cardinality(S)
           /\ \A p, q \in S : Before(p, q) => Place(p, S) < Place(q, S)
           /\ \A i \in 1 .. Cardinality(S) : \E q \in S : Place(q, S) = i
  <1>. DEFINE below(q) == {p \in S : Before(p, q)}
              n == Cardinality(S)
  <1>1. n \in Nat
    BY FS_CardinalityType
  <1>2. \A q \in S : IsFiniteSet(below(q)) /\ Cardinality(below(q)) \in Nat
    BY FS_Subset, FS_CardinalityType
  <1>3. ASSUME NEW q \in S  PROVE Place(q, S) \in 1 .. n
    <2>1. below(q) \in SUBSET (S \ {q})
      OBVIOUS
    <2>2. IsFiniteSet(S \ {q}) /\ Cardinality(S \ {q}) = n - 1
      BY FS_RemoveElement
    <2>3. Cardinality(below(q)) <= n - 1
      BY <2>1, <2>2, FS_Subset
    <2>4. Place(q, S) = Cardinality(below(q)) + 1
      BY DEF Place
    <2>5. Cardinality(below(q)) \in Nat
      BY <1>2
    <2>. HIDE DEF below, n
    <2>. QED  BY <1>1, <2>3, <2>4, <2>5
  <1>4. ASSUME NEW p \in S, NEW q \in S, Before(p, q)
        PROVE  Place(p, S) < Place(q, S)
    <2>1. below(p) \cup {p} \in SUBSET below(q) /\ p \notin below(p)
      BY <1>4
    <2>2. Cardinality(below(p) \cup {p}) = Cardinality(below(p)) + 1
      BY <1>2, <2>1, FS_AddElement
    <2>3. Cardinality(below(p) \cup {p}) <= Cardinality(below(q))
      BY <1>2, <2>1, FS_Subset
    <2>4. /\ Place(p, S) = Cardinality(below(p)) + 1
          /\ Place(q, S) = Cardinality(below(q)) + 1
      BY DEF Place
    <2>5. Cardinality(below(p)) \in Nat /\ Cardinality(below(q)) \in Nat
      BY <1>2
    <2>6. Cardinality(below(p)) + 1 <= Cardinality(below(q))
      BY <2>2, <2>3
    <2>. HIDE DEF below, n
    <2>. QED  BY <2>4, <2>5, <2>6
  <1>5. ASSUME NEW i \in 1 .. n  PROVE \E q \in S : Place(q, S) = i
    <2>. DEFINE f == [q \in S |-> Place(q, S)]
    <2>1. f \in [S -> 1 .. n]
      BY <1>3
    <2>2. \A p, q \in S : f[p] = f[q] => p = q
      BY <1>3, <1>4
    <2>3. f \in Injection(S, 1 .. n)
      BY <2>1, <2>2 DEF Injection, IsInjective
    <2>4. IsFiniteSet(1 .. n) /\ Cardinality(1 .. n) = n
      BY <1>1, FS_Interval
    <2>5. f \in Surjection(S, 1 .. n)
      <3>. HIDE DEF f
      <3>. QED  BY <2>3, <2>4, FS_Injection
    <2>6. \E q \in S : f[q] = i
      BY <2>5 DEF Surjection
    <2>. QED  BY <2>6
  <1>. QED  BY <1>3, <1>4, <1>5

\* The script asks for each event of a range, in the order it says.
LEMMA RequestsComplete ==
    ASSUME block \in [Tx -> Nat], Distinct, NEW lo \in Nat \ {0}, NEW hi \in Nat
    PROVE  /\ Requests(lo, hi) \in Seq(Request)
           /\ \A q \in InRange(lo, hi) :
                 \E i \in DOMAIN Requests(lo, hi) : Requests(lo, hi)[i] = q
           /\ \A i \in DOMAIN Requests(lo, hi) :
                 Requests(lo, hi)[i] \in InRange(lo, hi)
           /\ \A i, j \in DOMAIN Requests(lo, hi) :
                 i < j => Before(Requests(lo, hi)[i], Requests(lo, hi)[j])
  <1>. DEFINE S == InRange(lo, hi)
              n == Cardinality(S)
              sorted(s) == \A i, j \in DOMAIN s : i < j => Before(s[i], s[j])
  <1>1. IsFiniteSet(S) /\ n \in Nat
    BY FiniteRange, FS_CardinalityType
  <1>2. /\ \A p, q \in S : p # q => Before(p, q) \/ Before(q, p)
        /\ \A p \in S : ~Before(p, p)
        /\ \A p, q, r \in S : Before(p, q) /\ Before(q, r) => Before(p, r)
    BY Ordering
  <1>3. /\ \A q \in S : Place(q, S) \in 1 .. n
        /\ \A p, q \in S : Before(p, q) => Place(p, S) < Place(q, S)
        /\ \A i \in 1 .. n : \E q \in S : Place(q, S) = i
    BY <1>1, <1>2, Places
  <1>4. \E s \in [1 .. n -> S] : sorted(s)
    <2>. DEFINE g == [i \in 1 .. n |-> CHOOSE q \in S : Place(q, S) = i]
    <2>1. \A i \in 1 .. n : g[i] \in S /\ Place(g[i], S) = i
      BY <1>3
    <2>2. \A i, j \in 1 .. n : i < j => Before(g[i], g[j])
      BY <1>2, <1>3, <2>1
    <2>3. g \in [1 .. n -> S] /\ DOMAIN g = 1 .. n
      BY <2>1
    <2>. HIDE DEF g
    <2>4. sorted(g)
      BY <2>2, <2>3
    <2>. QED  BY <2>3, <2>4
  <1>. DEFINE r == Requests(lo, hi)
  <1>5. r \in [1 .. n -> S] /\ sorted(r)
    <2>1. r = CHOOSE s \in [1 .. n -> S] : sorted(s)
      BY DEF Requests
    <2>. QED  BY <1>4, <2>1
  <1>6. \A i, j \in 1 .. n : r[i] = r[j] => i = j
    <2>. SUFFICES ASSUME NEW i \in 1 .. n, NEW j \in 1 .. n, r[i] = r[j], i < j
                  PROVE  FALSE
      OBVIOUS
    <2>1. Before(r[i], r[j]) /\ r[i] \in S
      BY <1>5
    <2>. QED  BY <1>2, <2>1
  <1>. HIDE DEF r, S, sorted
  <1>7. r \in Injection(1 .. n, S)
    BY <1>5, <1>6 DEF Injection, IsInjective
  <1>8. IsFiniteSet(1 .. n) /\ Cardinality(1 .. n) = n
    BY <1>1, FS_Interval
  <1>9. r \in Surjection(1 .. n, S)
    BY <1>1, <1>7, <1>8, FS_Injection
  <1>10. \A q \in S : \E i \in DOMAIN r : r[i] = q
    BY <1>5, <1>9 DEF Surjection
  <1>11. S \subseteq Request
    BY DEF S, InRange
  <1>12. r \in Seq(Request)
    <2>1. r \in [1 .. n -> Request]
      BY <1>5, <1>11
    <2>. QED  BY <1>1, <2>1, SeqDef
  <1>13. /\ \A i \in DOMAIN r : r[i] \in S
         /\ \A i, j \in DOMAIN r : i < j => Before(r[i], r[j])
    BY <1>5 DEF sorted
  <1>. QED  BY <1>10, <1>12, <1>13 DEF r, S

-----------------------------------------------------------------------------
(***************************************************************************)
(* The types are kept.                                                     *)
(***************************************************************************)
LEMMA ConstantsType == BatchSize \in Nat \ {0} /\ MaxCalls \in Nat
  BY ListenerAssumption DEF ListenerAssumption

\* A request, once made, stays; and so does its answer.
CallsGrow ==
    /\ calls' \in Seq(CallRecord)
    /\ Len(calls) <= Len(calls')
    /\ \A i \in DOMAIN calls :
          /\ i \in DOMAIN calls' /\ calls'[i].req = calls[i].req
          /\ calls[i].step \in {"done", "false"} =>
                calls'[i].step = calls[i].step

LEMMA CallsType ==
    ASSUME TypeOK
    PROVE  /\ calls \in Seq(CallRecord) /\ Len(calls) \in Nat
           /\ DOMAIN calls = 1 .. Len(calls)
           /\ \A i \in DOMAIN calls : calls[i] \in CallRecord
  <1>1. calls \in Seq(CallRecord)
    BY DEF TypeOK, CallRecord
  <1>. QED  BY <1>1, LenProperties, ElementOfSeq

LEMMA SameCalls ==
    ASSUME TypeOK, UNCHANGED calls
    PROVE  CallsGrow
  BY CallsType DEF CallsGrow

LEMMA PostCalls ==
    ASSUME Typed, Post
    PROVE  /\ CallsGrow /\ Len(calls') = Len(calls) + 1
           /\ calls' # <<>>
           /\ calls'[Len(calls')].req = Head(todo)
           /\ calls'[Len(calls')].step = "new"
           /\ DOMAIN calls' = 1 .. Len(calls) + 1
           /\ \A i \in 1 .. Len(calls) : calls'[i] = calls[i]
  <1>1. todo \in Seq(Request) /\ todo # <<>>
    BY DEF Post, Typed, TypeOK
  <1>2. Head(todo) \in Request
    BY <1>1, HeadTailProperties
  <1>. DEFINE c == [req |-> Head(todo), step |-> "new", left |-> FALSE]
  <1>3. c \in CallRecord /\ c.req = Head(todo) /\ c.step = "new"
    BY <1>2 DEF CallRecord
  <1>4. calls' = Append(calls, c)
    BY DEF Post
  <1>. HIDE DEF c
  <1>5. /\ calls \in Seq(CallRecord) /\ Len(calls) \in Nat
        /\ DOMAIN calls = 1 .. Len(calls)
    BY CallsType DEF Typed
  <1>6. /\ calls' \in Seq(CallRecord) /\ Len(calls') = Len(calls) + 1
        /\ \A i \in 1 .. Len(calls) : calls'[i] = calls[i]
        /\ calls'[Len(calls) + 1] = c
    BY <1>3, <1>4, <1>5, AppendProperties
  <1>7. DOMAIN calls' = 1 .. Len(calls) + 1
    BY <1>6, LenProperties
  <1>8. calls' # <<>>
    BY <1>5, <1>6, EmptySeq
  <1>. QED  BY <1>3, <1>5, <1>6, <1>7, <1>8 DEF CallsGrow

LEMMA LeaveCalls ==
    ASSUME TypeOK, Leave
    PROVE  /\ CallsGrow /\ DOMAIN calls' = DOMAIN calls
           /\ Len(calls') = Len(calls)
           /\ \A i \in DOMAIN calls : calls'[i].step = calls[i].step
  <1>1. /\ calls \in Seq(CallRecord) /\ Len(calls) \in Nat
        /\ DOMAIN calls = 1 .. Len(calls)
        /\ \A i \in DOMAIN calls : calls[i] \in CallRecord
    BY CallsType
  <1>2. calls' = [i \in DOMAIN calls |->
                    IF i = Len(calls) /\ phase = "wait"
                    THEN [calls[i] EXCEPT !.left = TRUE] ELSE calls[i]]
    BY DEF Leave
  <1>3. \A i \in DOMAIN calls :
           /\ [calls[i] EXCEPT !.left = TRUE] \in CallRecord
           /\ [calls[i] EXCEPT !.left = TRUE].req = calls[i].req
           /\ [calls[i] EXCEPT !.left = TRUE].step = calls[i].step
    BY <1>1 DEF CallRecord
  <1>4. /\ calls' \in [1 .. Len(calls) -> CallRecord]
        /\ \A i \in DOMAIN calls : /\ calls'[i].req = calls[i].req
                                   /\ calls'[i].step = calls[i].step
    BY <1>1, <1>2, <1>3
  <1>5. calls' \in Seq(CallRecord)
    BY <1>1, <1>4, SeqDef
  <1>6. DOMAIN calls' = 1 .. Len(calls) /\ Len(calls') = Len(calls)
    <2>1. DOMAIN calls' = 1 .. Len(calls') /\ Len(calls') \in Nat
      BY <1>5, LenProperties
    <2>2. DOMAIN calls' = 1 .. Len(calls)
      BY <1>4
    <2>3. \A m, n \in Nat : 1 .. m = 1 .. n => m = n
      <3>. SUFFICES ASSUME NEW m \in Nat, NEW n \in Nat, 1 .. m = 1 .. n, m < n
                    PROVE  FALSE
        OBVIOUS
      <3>1. n \in 1 .. n /\ n \notin 1 .. m
        OBVIOUS
      <3>. QED  BY <3>1
    <2>. QED  BY <1>1, <2>1, <2>2, <2>3
  <1>. QED  BY <1>1, <1>4, <1>5, <1>6 DEF CallsGrow

\* A handler's step.
LEMMA HandleCalls ==
    ASSUME TypeOK, NEW i \in DOMAIN calls,
           NEW st \in {"sent", "done", "false", "error"}, Goto(i, st),
           calls[i].step \in {"new", "sent"}
    PROVE  /\ CallsGrow /\ DOMAIN calls' = DOMAIN calls
           /\ Len(calls') = Len(calls)
           /\ calls'[i].step = st /\ calls'[i].req = calls[i].req
           /\ \A j \in DOMAIN calls \ {i} : calls'[j] = calls[j]
  <1>1. /\ calls \in Seq(CallRecord) /\ Len(calls) \in Nat
        /\ DOMAIN calls = 1 .. Len(calls) /\ calls[i] \in CallRecord
    BY CallsType
  <1>. DEFINE c == [calls[i] EXCEPT !.step = st]
  <1>2. c \in CallRecord /\ c.step = st /\ c.req = calls[i].req
    BY <1>1 DEF CallRecord
  <1>3. calls' = [calls EXCEPT ![i] = c]
    BY DEF Goto
  <1>. HIDE DEF c
  <1>4. /\ calls' \in Seq(CallRecord) /\ Len(calls') = Len(calls)
        /\ \A j \in 1 .. Len(calls) : calls'[j] = IF j = i THEN c ELSE calls[j]
    BY <1>1, <1>2, <1>3, ExceptSeq
  <1>5. DOMAIN calls' = DOMAIN calls
    BY <1>1, <1>3
  <1>. QED  BY <1>1, <1>2, <1>4, <1>5 DEF CallsGrow

\* The events name wallets.
LEMMA WalletsNamed ==
    ASSUME TypeOK, NEW t \in Tx
    PROVE  log[t].wallets \subseteq Wallet
  <1>1. log[t] \in Log
    BY DEF TypeOK
  <1>2. \A l \in Log : l.wallets \subseteq Wallet
    <2>. SUFFICES ASSUME NEW l \in Log  PROVE l.wallets \subseteq Wallet
      OBVIOUS
    <2>1. \/ l \in [kinds : SUBSET {"deposit", "withdraw"} \ {{}},
                    wallets : SUBSET Wallet \ {{}}, isValid : {TRUE}]
          \/ l \in [kinds : {{"valid"}}, wallets : {{w} : w \in Wallet},
                    isValid : BOOLEAN]
      BY DEF Log
    <2>2. l.wallets \in SUBSET Wallet \ {{}} \/ l.wallets \in {{w} : w \in Wallet}
      BY <2>1
    <2>. QED  BY <2>2
  <1>. QED  BY <1>1, <1>2

\* The handlers: each changes one call's step and the server's state.
LEMMA Handling ==
    ASSUME TypeOK, NEW i \in DOMAIN calls, Handle(i)
    PROVE  /\ \E st \in {"sent", "done", "false", "error"} : Goto(i, st)
           /\ calls[i].step \in {"new", "sent"}
           /\ calls[i].req \in Request
           /\ UNCHANGED <<chain, script>>
           /\ user' \in [Wallet -> {"none", "pending", "valid", "invalid"}]
           /\ \A w \in Wallet : user[w] # "none" => user'[w] # "none"
           /\ confirmed \subseteq confirmed' /\ confirmed' \subseteq Request
           /\ credits' \in [Tx -> [Wallet -> Nat]]
           /\ \A t \in Tx, w \in Wallet : credits[t][w] <= credits'[t][w]
           /\ lost' \in [Tx -> SUBSET Wallet]
           /\ \A t \in Tx : lost[t] \subseteq lost'[t]
  <1>1. /\ calls[i].req \in Request /\ calls[i].req.tx \in Tx
    BY CallsType DEF CallRecord, Request
  <1>2. /\ \E st \in {"sent", "done", "false", "error"} : Goto(i, st)
        /\ calls[i].step \in {"new", "sent"}
        /\ UNCHANGED <<chain, script>>
    BY DEF Handle, ConfirmDeposit, SendCredits, ConfirmWithdraw, DirectWithdraw,
           HandlerFails, ValidateUser, ValidateFails, At
  <1>3. /\ user' \in [Wallet -> {"none", "pending", "valid", "invalid"}]
        /\ \A w \in Wallet : user[w] # "none" => user'[w] # "none"
    <2>1. CASE ValidateUser(i)
      BY <2>1 DEF ValidateUser, TypeOK
    <2>2. CASE ~ValidateUser(i)
      <3>1. UNCHANGED user
        BY <2>2 DEF Handle, ConfirmDeposit, SendCredits, ConfirmWithdraw,
                    DirectWithdraw, HandlerFails, ValidateFails, server
      <3>. QED  BY <3>1 DEF TypeOK
    <2>. QED  BY <2>1, <2>2
  <1>4. confirmed \subseteq confirmed' /\ confirmed' \subseteq Request
    BY <1>1 DEF Handle, ConfirmDeposit, SendCredits, ConfirmWithdraw,
                DirectWithdraw, HandlerFails, ValidateUser, ValidateFails, server,
                TypeOK
  <1>5. /\ credits' \in [Tx -> [Wallet -> Nat]]
        /\ \A t \in Tx, w \in Wallet : credits[t][w] <= credits'[t][w]
    <2>1. CASE SendCredits(i)
      <3>. DEFINE t == TxOf(i)
                  g(d) == [w \in Wallet |-> IF w \in Users(t) \ d
                                            THEN credits[t][w] + 1
                                            ELSE credits[t][w]]
      <3>1. t \in Tx
        BY <1>1 DEF TxOf
      <3>2. PICK d \in Dropped(t) : credits' = [credits EXCEPT ![t] = g(d)]
        BY <2>1 DEF SendCredits
      <3>3. credits \in [Tx -> [Wallet -> Nat]]
        BY DEF TypeOK
      <3>4. g(d) \in [Wallet -> Nat] /\ \A w \in Wallet : credits[t][w] <= g(d)[w]
        BY <3>1, <3>3
      <3>. HIDE DEF g, t
      <3>. QED  BY <3>1, <3>2, <3>3, <3>4
    <2>2. CASE ~SendCredits(i)
      <3>1. UNCHANGED credits
        BY <2>2 DEF Handle, ConfirmDeposit, ConfirmWithdraw, DirectWithdraw,
                    HandlerFails, ValidateUser, ValidateFails, server
      <3>. QED  BY <3>1 DEF TypeOK
    <2>. QED  BY <2>1, <2>2
  <1>6. lost' \in [Tx -> SUBSET Wallet] /\ \A t \in Tx : lost[t] \subseteq lost'[t]
    <2>1. CASE SendCredits(i)
      <3>. DEFINE t == TxOf(i)
      <3>1. t \in Tx /\ lost \in [Tx -> SUBSET Wallet]
        BY <1>1 DEF TxOf, TypeOK
      <3>2. PICK d \in Dropped(t) : lost' = [lost EXCEPT ![t] = @ \cup d]
        BY <2>1 DEF SendCredits
      <3>3. d \subseteq Wallet
        BY WalletsNamed, <3>1 DEF Dropped, Users
      <3>. QED  BY <3>1, <3>2, <3>3
    <2>2. CASE ~SendCredits(i)
      <3>1. UNCHANGED lost
        BY <2>2 DEF Handle, ConfirmDeposit, ConfirmWithdraw, DirectWithdraw,
                    HandlerFails, ValidateUser, ValidateFails, server
      <3>. QED  BY <3>1 DEF TypeOK
    <2>. QED  BY <2>1, <2>2
  <1>. QED  BY <1>1, <1>2, <1>3, <1>4, <1>5, <1>6

\* The script's side of TypeOK.
ScriptTyped ==
    /\ phase \in {"down", "poll", "post", "wait"}
    /\ last \in 0 .. head
    /\ saved \in 0 .. head
    /\ from \in 0 .. head
    /\ goal \in 0 .. head
    /\ todo \in Seq(Request)

LEMMA ScriptTypedStep ==
    ASSUME Typed, Listen \/ NoNews \/ Crash
    PROVE  ScriptTyped'
  <1>0. ScriptTyped /\ head \in Nat
    BY DEF ScriptTyped, Typed, TypeOK
  <1>1. CASE Boot
    BY <1>0, <1>1 DEF Boot, ScriptTyped, chain
  <1>2. CASE Poll
    <2>1. goal' \in 0 .. head /\ last + 1 \in Nat \ {0} /\ goal' \in Nat
      BY <1>0, <1>2, ConstantsType DEF Poll, Lesser, ScriptTyped
    <2>2. block \in [Tx -> Nat] /\ Distinct
      BY <1>0 DEF Typed, TypeOK
    <2>3. Requests(last + 1, goal') \in Seq(Request)
      BY <2>1, <2>2, RequestsComplete
    <2>. QED  BY <1>0, <1>2, <2>1, <2>3 DEF Poll, ScriptTyped, chain
  <1>3. CASE Post
    BY <1>0, <1>3 DEF Post, ScriptTyped, chain
  <1>4. CASE Refused \/ Timeout \/ ErrorAnswer
    <2>1. <<>> \in Seq(Request)
      BY EmptySeq
    <2>. QED
      BY <1>0, <1>4, <2>1
         DEF Refused, Timeout, ErrorAnswer, GiveUp, ScriptTyped, chain
  <1>5. CASE Answered
    <2>1. Tail(todo) \in Seq(Request)
      BY <1>0, <1>5, HeadTailProperties DEF Answered, Typed, Waiting, ScriptTyped
    <2>. QED  BY <1>0, <1>5, <2>1 DEF Answered, ScriptTyped, chain
  <1>6. CASE Save
    BY <1>0, <1>6 DEF Save, ScriptTyped, chain
  <1>7. CASE NoNews
    BY <1>0, <1>7 DEF NoNews, vars, script, chain, ScriptTyped
  <1>8. CASE Crash
    <2>1. <<>> \in Seq(Request)
      BY EmptySeq
    <2>. QED  BY <1>0, <1>8, <2>1 DEF Crash, ScriptTyped, chain
  <1>. QED
    BY <1>1, <1>2, <1>3, <1>4, <1>5, <1>6, <1>7, <1>8 DEF Listen

LEMMA ListenCalls ==
    ASSUME Typed, Listen \/ NoNews \/ Crash
    PROVE  CallsGrow
  <1>0. TypeOK
    BY DEF Typed
  <1>1. CASE Post
    BY <1>1, PostCalls
  <1>2. CASE Timeout \/ Crash
    BY <1>0, <1>2, LeaveCalls DEF Timeout, Crash
  <1>3. CASE \/ Boot \/ Poll \/ Refused \/ Answered \/ ErrorAnswer \/ Save
             \/ NoNews
    <2>1. UNCHANGED calls
      BY <1>3 DEF Boot, Poll, Refused, Answered, ErrorAnswer, Save, NoNews, vars
    <2>. QED  BY <1>0, <2>1, SameCalls
  <1>. QED  BY <1>1, <1>2, <1>3 DEF Listen

LEMMA ListenTyped ==
    ASSUME Typed, Listen \/ NoNews \/ Crash
    PROVE  Typed'
  <1>1. UNCHANGED <<chain, server>>
    BY DEF Listen, Boot, Poll, Post, Refused, Timeout, Answered, ErrorAnswer,
           Save, NoNews, Crash, GiveUp, vars
  <1>2. TypeOK'
    <2>1. calls' \in Seq(CallRecord)
      BY ListenCalls DEF CallsGrow
    <2>. QED
      BY <1>1, <2>1, ScriptTypedStep
         DEF ScriptTyped, Typed, TypeOK, CallRecord, chain, server
  <1>3. Distinct'
    BY <1>1 DEF Typed, Distinct, chain
  <1>4. Waiting'
    <2>1. CASE Post
      <3>1. UNCHANGED todo /\ todo # <<>>
        BY <2>1 DEF Post
      <3>. QED  BY <2>1, <3>1, PostCalls DEF Waiting
    <2>2. CASE NoNews
      BY <2>2 DEF NoNews, vars, script, Typed, Waiting
    <2>3. CASE ~Post /\ ~NoNews
      BY <2>3 DEF Listen, Boot, Poll, Refused, Timeout, Answered, ErrorAnswer,
                  Save, Crash, GiveUp, Waiting
    <2>. QED  BY <2>1, <2>2, <2>3
  <1>. QED  BY <1>2, <1>3, <1>4 DEF Typed

LEMMA HandleTyped ==
    ASSUME Typed, NEW i \in DOMAIN calls, Handle(i)
    PROVE  Typed' /\ CallsGrow
  <1>0. TypeOK
    BY DEF Typed
  <1>1. PICK st \in {"sent", "done", "false", "error"} : Goto(i, st)
    BY <1>0, Handling
  <1>2. /\ CallsGrow /\ DOMAIN calls' = DOMAIN calls
        /\ Len(calls') = Len(calls)
        /\ \A j \in DOMAIN calls : calls'[j].req = calls[j].req
    BY <1>0, <1>1, Handling, HandleCalls
  <1>3. UNCHANGED <<chain, script>>
    BY <1>0, Handling
  <1>4. TypeOK'
    BY <1>0, <1>2, <1>3, Handling
       DEF TypeOK, CallsGrow, CallRecord, chain, script
  <1>5. Waiting'
    <2>1. calls # <<>> => Len(calls) \in DOMAIN calls
      <3>1. calls # <<>> => Len(calls) \in Nat \ {0}
        BY <1>0, CallsType, EmptySeq
      <3>. QED  BY <1>0, <3>1, CallsType
    <2>2. calls # <<>> => calls' # <<>>
      BY <1>2, <2>1
    <2>. QED  BY <1>2, <1>3, <2>1, <2>2 DEF Typed, Waiting, script
  <1>6. Distinct'
    BY <1>3 DEF Typed, Distinct, chain
  <1>. QED  BY <1>2, <1>4, <1>5, <1>6 DEF Typed

LEMMA MineTyped ==
    ASSUME Typed, NEW t \in Tx, Mine(t)
    PROVE  Typed'
  <1>1. /\ head \in Nat /\ head' = head + 1 /\ block \in [Tx -> 0 .. head]
        /\ block' = [block EXCEPT ![t] = head + 1]
    BY DEF Mine, Typed, TypeOK
  <1>2. UNCHANGED <<log, recorded, script, calls, server>>
    BY DEF Mine
  <1>3. /\ block' \in [Tx -> 0 .. head'] /\ block'[t] = head + 1
        /\ \A x \in Tx \ {t} : block'[x] = block[x] /\ block[x] # head + 1
    BY <1>1
  <1>4. TypeOK'
    BY <1>1, <1>2, <1>3 DEF Typed, TypeOK, script, server
  <1>5. Distinct'
    BY <1>3 DEF Typed, Distinct
  <1>. QED  BY <1>2, <1>4, <1>5 DEF Typed, Waiting, script

LEMMA RegisterTyped ==
    ASSUME Typed, NEW w \in Wallet, Register(w)
    PROVE  Typed'
  BY DEF Register, Typed, TypeOK, Distinct, Waiting, chain, script

LEMMA TypedStep == Typed /\ [Next]_vars => Typed' /\ CallsGrow
  <1>. SUFFICES ASSUME Typed, [Next]_vars  PROVE Typed' /\ CallsGrow
    OBVIOUS
  <1>1. CASE Listen \/ NoNews \/ Crash
    BY <1>1, ListenTyped, ListenCalls
  <1>2. ASSUME NEW i \in DOMAIN calls, Handle(i)  PROVE Typed' /\ CallsGrow
    BY <1>2, HandleTyped
  <1>3. ASSUME NEW t \in Tx, Mine(t)  PROVE Typed' /\ CallsGrow
    BY <1>3, MineTyped, SameCalls DEF Mine, Typed
  <1>4. ASSUME NEW w \in Wallet, Register(w)  PROVE Typed' /\ CallsGrow
    BY <1>4, RegisterTyped, SameCalls DEF Register, Typed
  <1>5. CASE UNCHANGED vars
    BY <1>5, SameCalls
       DEF vars, chain, script, server, Typed, TypeOK, Distinct, Waiting
  <1>. QED  BY <1>1, <1>2, <1>3, <1>4, <1>5 DEF Next

LEMMA TypedInit == Init => Typed
  <1>. SUFFICES ASSUME Init  PROVE Typed
    OBVIOUS
  <1>1. todo \in Seq(Request) /\ calls \in Seq(CallRecord)
    BY EmptySeq DEF Init
  <1>2. /\ recorded \subseteq Request /\ block \in [Tx -> 0 .. head]
        /\ lost \in [Tx -> SUBSET Wallet]
    BY DEF Init, Sendable
  <1>3. user \in [Wallet -> {"none", "pending", "valid", "invalid"}]
    BY DEF Init
  <1>. QED
    BY <1>1, <1>2, <1>3
       DEF Init, Typed, TypeOK, CallRecord, Distinct, Waiting

\* The state of the script and of the server keeps its type: what the script
\* has put behind it never passes the chain's latest block, and it waits
\* only for the request it asked last.
THEOREM TypeCorrect == Spec => []TypeOK
  <1>1. Typed => TypeOK
    BY DEF Typed
  <1>. QED  BY <1>1, TypedInit, TypedStep, PTL DEF Spec

-----------------------------------------------------------------------------
(***************************************************************************)
(* No event is skipped.                                                    *)
(***************************************************************************)
Answers == {"done", "false"}

Covered(n) ==
    \A t \in Tx : from < block[t] /\ block[t] <= n =>
        \A k \in log[t].kinds : Ended([tx |-> t, kind |-> k], Answers)

\* What is left of the range in progress.
Pending ==
    phase \in {"post", "wait"} =>
        \A q \in InRange(last + 1, goal) :
            Ended(q, Answers) \/ \E i \in DOMAIN todo : todo[i] = q

Progress ==
    /\ Covered(last)
    /\ saved # 0 => Covered(saved)
    /\ Pending

LEMMA EndedStays ==
    ASSUME CallsGrow, NEW q, Ended(q, Answers)
    PROVE  Ended(q, Answers)'
  BY DEF CallsGrow, Ended, Answers

LEMMA CoveredStays ==
    ASSUME CallsGrow, UNCHANGED <<log, block, from>>, NEW n, Covered(n)
    PROVE  \A t \in Tx : from' < block'[t] /\ block'[t] <= n =>
              \A k \in log'[t].kinds : Ended([tx |-> t, kind |-> k], Answers)'
  BY EndedStays DEF Covered

\* The last request of a range is answered: every event of it is.
LEMMA RangeDone ==
    ASSUME Typed, Progress, phase = "post", todo = <<>>
    PROVE  Covered(goal)
  <1>1. todo \in Seq(Request) /\ DOMAIN todo = {}
    <2>1. todo \in Seq(Request) /\ Len(todo) = 0
      BY EmptySeq DEF Typed, TypeOK
    <2>2. DOMAIN todo = 1 .. 0
      BY <2>1, LenProperties
    <2>. QED  BY <2>1, <2>2
  <1>2. ASSUME NEW t \in Tx, from < block[t], block[t] <= goal,
               NEW k \in log[t].kinds
        PROVE  Ended([tx |-> t, kind |-> k], Answers)
    <2>1. block[t] \in Nat /\ last \in Nat /\ goal \in Nat
      BY DEF Typed, TypeOK
    <2>2. CASE block[t] <= last
      BY <1>2, <2>2 DEF Progress, Covered
    <2>3. CASE block[t] > last
      <3>1. k \in Kind
        BY DEF Typed, TypeOK, Log, Kind
      <3>. DEFINE q == [tx |-> t, kind |-> k]
      <3>2. q \in Request /\ q.tx = t /\ q.kind = k
        BY <3>1 DEF Request
      <3>. HIDE DEF q
      <3>3. block[t] \in last + 1 .. goal
        BY <1>2, <2>1, <2>3
      <3>4. q \in InRange(last + 1, goal)
        BY <3>2, <3>3 DEF InRange
      <3>5. Ended(q, Answers)
        BY <1>1, <3>4 DEF Progress, Pending
      <3>. QED  BY <3>5 DEF q
    <2>. QED  BY <2>1, <2>2, <2>3
  <1>. QED  BY <1>2 DEF Covered

\* An answer takes the first request off the list.
LEMMA Answering ==
    ASSUME Typed, Progress, Answered
    PROVE  Pending'
  <1>1. /\ todo \in Seq(Request) /\ todo # <<>> /\ todo' = Tail(todo)
        /\ phase = "wait" /\ phase' = "post"
        /\ UNCHANGED <<log, block, last, goal, calls>>
    BY DEF Answered, Typed, TypeOK, Waiting, chain
  <1>2. Ended(Head(todo), Answers)
    <2>1. calls # <<>> /\ calls[Len(calls)].req = Head(todo)
          /\ calls[Len(calls)].step \in Answers
      BY <1>1 DEF Typed, Waiting, Answered, Answers
    <2>2. Len(calls) \in DOMAIN calls
      <3>1. Len(calls) \in Nat \ {0}
        BY <2>1, CallsType, EmptySeq DEF Typed
      <3>. QED  BY <3>1, CallsType DEF Typed
    <2>. QED  BY <2>1, <2>2 DEF Ended
  <1>3. /\ Len(todo) \in Nat \ {0} /\ DOMAIN todo = 1 .. Len(todo)
        /\ Head(todo) = todo[1]
    BY <1>1, LenProperties, EmptySeq
  <1>4. /\ todo' \in Seq(Request) /\ Len(todo') = Len(todo) - 1
        /\ \A i \in 1 .. Len(todo') : todo'[i] = todo[i + 1]
    BY <1>1, HeadTailProperties
  <1>5. DOMAIN todo' = 1 .. Len(todo) - 1
    BY <1>4, LenProperties
  <1>6. ASSUME NEW q \in InRange(last + 1, goal)
        PROVE  Ended(q, Answers) \/ \E i \in DOMAIN todo' : todo'[i] = q
    <2>1. CASE Ended(q, Answers)
      BY <2>1
    <2>2. CASE \E i \in DOMAIN todo : todo[i] = q
      <3>1. PICK i \in 1 .. Len(todo) : todo[i] = q
        BY <1>3, <2>2
      <3>2. CASE i = 1
        BY <1>2, <1>3, <3>1, <3>2
      <3>3. CASE i # 1
        <4>1. i - 1 \in DOMAIN todo' /\ i - 1 \in 1 .. Len(todo') /\ i - 1 + 1 = i
          BY <1>3, <1>4, <1>5, <3>3
        <4>2. todo'[i - 1] = q
          BY <1>4, <3>1, <4>1
        <4>. QED  BY <4>1, <4>2
      <3>. QED  BY <3>2, <3>3
    <2>. QED  BY <1>1, <2>1, <2>2 DEF Progress, Pending
  <1>7. InRange(last + 1, goal)' = InRange(last + 1, goal)
    BY <1>1 DEF InRange
  <1>8. \A q : Ended(q, Answers) => Ended(q, Answers)'
    BY <1>1 DEF Ended
  <1>. QED  BY <1>1, <1>6, <1>7, <1>8 DEF Pending

LEMMA ListenProgress ==
    ASSUME Typed, Progress, CallsGrow, Listen \/ NoNews \/ Crash
    PROVE  Progress'
  <1>0. UNCHANGED <<log, block>>
    BY DEF Listen, Boot, Poll, Post, Refused, Timeout, Answered, ErrorAnswer,
           Save, NoNews, Crash, GiveUp, vars, chain
  <1>1. ASSUME UNCHANGED <<from, last, saved>>
        PROVE  Covered(last)' /\ (saved' # 0 => Covered(saved)')
    BY <1>0, <1>1, CoveredStays DEF Progress, Covered
  <1>2. CASE Boot
    <2>1. phase' = "poll" /\ UNCHANGED saved
      BY <1>2 DEF Boot
    <2>2. CASE saved = 0
      <3>1. last' = head /\ from' = head
        BY <1>2, <2>2 DEF Boot
      <3>2. \A t \in Tx : ~(from' < block'[t] /\ block'[t] <= last')
        BY <1>0, <3>1 DEF Typed, TypeOK
      <3>. QED  BY <2>1, <2>2, <3>2 DEF Progress, Covered, Pending
    <2>3. CASE saved # 0
      <3>1. last' = saved /\ from' = from
        BY <1>2, <2>3 DEF Boot
      <3>2. Covered(saved)
        BY <2>3 DEF Progress
      <3>3. Covered(last)' /\ Covered(saved)'
        BY <1>0, <2>1, <3>1, <3>2, CoveredStays DEF Covered
      <3>. QED  BY <2>1, <3>3 DEF Progress, Pending
    <2>. QED  BY <2>2, <2>3
  <1>3. CASE Poll
    <2>1. UNCHANGED <<from, last, saved>>
      BY <1>3 DEF Poll
    <2>2. Pending'
      <3>1. goal' \in Nat /\ last + 1 \in Nat \ {0} /\ block \in [Tx -> Nat]
        BY <1>3, ConstantsType DEF Poll, Lesser, Typed, TypeOK
      <3>2. \A q \in InRange(last + 1, goal') :
               \E i \in DOMAIN Requests(last + 1, goal') :
                  Requests(last + 1, goal')[i] = q
        BY <3>1, RequestsComplete DEF Typed
      <3>3. InRange(last + 1, goal)' = InRange(last + 1, goal')
        BY <1>0, <2>1 DEF InRange
      <3>4. todo' = Requests(last + 1, goal')
        BY <1>3 DEF Poll
      <3>. QED  BY <3>2, <3>3, <3>4 DEF Pending
    <2>. QED  BY <1>1, <2>1, <2>2 DEF Progress
  <1>4. CASE Post
    <2>1. UNCHANGED <<from, last, saved, goal, todo>> /\ phase = "post"
      BY <1>4 DEF Post
    <2>2. InRange(last + 1, goal)' = InRange(last + 1, goal)
      BY <1>0, <2>1 DEF InRange
    <2>3. Pending'
      BY <2>1, <2>2, EndedStays DEF Progress, Pending
    <2>. QED  BY <1>1, <2>1, <2>3 DEF Progress
  <1>5. CASE Refused \/ Timeout \/ ErrorAnswer \/ Crash
    <2>1. UNCHANGED <<from, last, saved>> /\ phase' \in {"poll", "down"}
      BY <1>5 DEF Refused, Timeout, ErrorAnswer, Crash, GiveUp
    <2>. QED  BY <1>1, <2>1 DEF Progress, Pending
  <1>6. CASE Answered
    <2>1. UNCHANGED <<from, last, saved>>
      BY <1>6 DEF Answered
    <2>. QED  BY <1>1, <1>6, <2>1, Answering DEF Progress
  <1>7. CASE Save
    <2>1. /\ Covered(goal) /\ UNCHANGED from /\ last' = goal
          /\ saved' \in {goal, saved} /\ phase' = "poll"
      BY <1>7, RangeDone DEF Save
    <2>2. Covered(last)'
      BY <1>0, <2>1, CoveredStays DEF Covered
    <2>3. saved' # 0 => Covered(saved)'
      BY <1>0, <2>1, CoveredStays DEF Progress, Covered
    <2>. QED  BY <2>1, <2>2, <2>3 DEF Progress, Pending
  <1>8. CASE NoNews
    <2>1. UNCHANGED <<from, last, saved, goal, todo, phase>>
      BY <1>8 DEF NoNews, vars, script
    <2>2. InRange(last + 1, goal)' = InRange(last + 1, goal)
      BY <1>0, <2>1 DEF InRange
    <2>3. Pending'
      BY <2>1, <2>2, EndedStays DEF Progress, Pending
    <2>. QED  BY <1>1, <2>1, <2>3 DEF Progress
  <1>. QED
    BY <1>2, <1>3, <1>4, <1>5, <1>6, <1>7, <1>8 DEF Listen

LEMMA OthersProgress ==
    ASSUME Typed, Typed', Progress, CallsGrow,
           UNCHANGED <<log, script>>,
           \A t \in Tx : block'[t] = block[t] \/ (block'[t] > head)
    PROVE  Progress'
  <1>1. /\ UNCHANGED <<phase, last, saved, from, goal, todo>>
        /\ last \in 0 .. head /\ saved \in 0 .. head /\ goal \in 0 .. head
        /\ head \in Nat
    BY DEF script, Typed, TypeOK
  <1>2. ASSUME NEW n \in 0 .. head, Covered(n)
        PROVE  \A t \in Tx : from' < block'[t] /\ block'[t] <= n =>
                  \A k \in log'[t].kinds : Ended([tx |-> t, kind |-> k], Answers)'
    <2>. SUFFICES ASSUME NEW t \in Tx, from' < block'[t], block'[t] <= n,
                         NEW k \in log'[t].kinds
                  PROVE  Ended([tx |-> t, kind |-> k], Answers)'
      OBVIOUS
    <2>1. block'[t] = block[t]
      <3>1. block'[t] \in Nat
        BY DEF Typed, TypeOK
      <3>. QED  BY <1>1, <3>1
    <2>2. Ended([tx |-> t, kind |-> k], Answers)
      BY <1>1, <1>2, <2>1 DEF Covered
    <2>. QED  BY <2>2, EndedStays
  <1>3. Covered(last)' /\ (saved' # 0 => Covered(saved)')
    BY <1>1, <1>2 DEF Progress, Covered
  <1>4. Pending'
    <2>1. InRange(last + 1, goal)' \subseteq InRange(last + 1, goal)
      <3>. SUFFICES ASSUME NEW q \in InRange(last + 1, goal)'
                    PROVE  q \in InRange(last + 1, goal)
        OBVIOUS
      <3>1. q \in Request /\ q.tx \in Tx /\ block'[q.tx] \in last + 1 .. goal
            /\ q.kind \in log[q.tx].kinds
        BY <1>1 DEF InRange, Request
      <3>2. block'[q.tx] = block[q.tx]
        BY <1>1, <3>1
      <3>. QED  BY <3>1, <3>2 DEF InRange
    <2>. QED  BY <1>1, <2>1, EndedStays DEF Progress, Pending
  <1>. QED  BY <1>3, <1>4 DEF Progress

LEMMA ProgressStep == Typed /\ Progress /\ [Next]_vars => Progress'
  <1>. SUFFICES ASSUME Typed, Progress, [Next]_vars  PROVE Progress'
    OBVIOUS
  <1>0. Typed' /\ CallsGrow
    BY TypedStep
  <1>1. CASE Listen \/ NoNews \/ Crash
    BY <1>0, <1>1, ListenProgress
  <1>2. CASE \/ \E i \in DOMAIN calls : Handle(i)
             \/ \E w \in Wallet : Register(w)
    <2>1. UNCHANGED <<log, script, block>>
      BY <1>2, Handling DEF Typed, Register, vars, chain, script
    <2>. QED  BY <1>0, <2>1, OthersProgress
  <1>3. ASSUME NEW t \in Tx, Mine(t)  PROVE Progress'
    <2>1. UNCHANGED <<log, script>>
      BY <1>3 DEF Mine
    <2>2. \A x \in Tx : block'[x] = block[x] \/ block'[x] > head
      BY <1>3 DEF Mine, Typed, TypeOK
    <2>. QED  BY <1>0, <2>1, <2>2, OthersProgress
  <1>4. CASE UNCHANGED vars
    BY <1>0, <1>4, OthersProgress DEF vars, chain
  <1>. QED  BY <1>1, <1>2, <1>3, <1>4 DEF Next

LEMMA ProgressInit == Init => Progress
  BY DEF Init, Progress, Covered, Pending

\* No event is skipped, whatever is refused, times out, is not saved or is
\* restarted, and however many blocks a range has: the script puts a range
\* behind it when it has the answer to each request of it.
THEOREM NoEventIsSkipped == Spec => []NothingSkipped
  <1>1. Typed /\ Progress /\ [Next]_vars => Typed' /\ Progress'
    BY TypedStep, ProgressStep
  <1>2. Progress => NothingSkipped
    BY DEF Progress, Covered, NothingSkipped, Behind, Answers
  <1>. QED  BY <1>1, <1>2, TypedInit, ProgressInit, PTL DEF Spec

-----------------------------------------------------------------------------
(***************************************************************************)
(* What the handlers did for what the server recorded.                     *)
(***************************************************************************)
Credited(t) == \A w \in log[t].wallets \ lost[t] : credits[t][w] >= 1

\* How far a call about a recorded request has come.
OwnDone(i) ==
    calls[i].req \in recorded =>
        /\ At(i, "deposit", "done") => calls[i].req \in confirmed
        /\ At(i, "withdraw", "sent") => Credited(TxOf(i))
        /\ At(i, "withdraw", "done") =>
              Credited(TxOf(i)) /\ calls[i].req \in confirmed

\* The server only sends swaps, of users it has.
OwnUsers ==
    \A q \in recorded :
        /\ q.kind \in log[q.tx].kinds \ {"valid"}
        /\ \A w \in log[q.tx].wallets : w \in Wallet /\ user[w] # "none"

Handled == OwnUsers /\ \A i \in DOMAIN calls : OwnDone(i)

LEMMA HandledInit == Init => Handled
  <1>. SUFFICES ASSUME Init  PROVE Handled
    OBVIOUS
  <1>1. OwnUsers
    <2>. SUFFICES ASSUME NEW q \in recorded
                  PROVE  /\ q.kind \in log[q.tx].kinds \ {"valid"}
                         /\ \A w \in log[q.tx].wallets :
                               w \in Wallet /\ user[w] # "none"
      BY DEF OwnUsers
    <2>1. q \in Sendable
      BY DEF Init
    <2>2. /\ q.kind \in log[q.tx].kinds \ {"valid"}
          /\ Users(q.tx) = log[q.tx].wallets /\ q.tx \in Tx
      BY <2>1 DEF Sendable, Request
    <2>3. log[q.tx].wallets \subseteq Wallet
      BY <2>2, TypedInit, WalletsNamed DEF Typed
    <2>. QED  BY <2>2, <2>3 DEF Users
  <1>2. DOMAIN calls = {}
    <2>1. calls \in Seq(CallRecord) /\ Len(calls) = 0
      BY EmptySeq DEF Init
    <2>2. DOMAIN calls = 1 .. 0
      BY <2>1, LenProperties
    <2>. QED  BY <2>2
  <1>. QED  BY <1>1, <1>2 DEF Handled

\* Users stay, and the log and the rows do not change.
LEMMA UsersStay ==
    ASSUME OwnUsers, UNCHANGED <<log, recorded>>,
           \A w \in Wallet : user[w] # "none" => user'[w] # "none"
    PROVE  OwnUsers'
  BY DEF OwnUsers

\* What was done for a call stays, as long as the call does not go on.
LEMMA DoneStays ==
    ASSUME TypeOK, OwnUsers, UNCHANGED <<log, recorded>>,
           confirmed \subseteq confirmed',
           \A t \in Tx, w \in Wallet : credits[t][w] <= credits'[t][w],
           \A t \in Tx : lost[t] \subseteq lost'[t],
           TypeOK',
           NEW i \in DOMAIN calls, OwnDone(i),
           calls'[i].req = calls[i].req, calls'[i].step = calls[i].step
    PROVE  OwnDone(i)'
  <1>1. TxOf(i)' = TxOf(i) /\ TxOf(i) \in Tx
    BY CallsType DEF TxOf, CallRecord, Request
  <1>2. Credited(TxOf(i)) => Credited(TxOf(i))'
    <2>1. ASSUME Credited(TxOf(i)), NEW w \in log[TxOf(i)].wallets \ lost'[TxOf(i)]
          PROVE  credits'[TxOf(i)][w] >= 1
      <3>1. w \in Wallet /\ credits[TxOf(i)][w] >= 1
        BY <1>1, <2>1, WalletsNamed DEF Credited
      <3>2. /\ credits[TxOf(i)][w] \in Nat /\ credits'[TxOf(i)][w] \in Nat
            /\ credits[TxOf(i)][w] <= credits'[TxOf(i)][w]
        BY <1>1, <3>1 DEF TypeOK
      <3>. QED  BY <3>1, <3>2
    <2>. QED  BY <1>1, <2>1 DEF Credited
  <1>. QED  BY <1>1, <1>2 DEF OwnDone, At, TxOf

\* The script's steps touch no call but for leaving it or making it.
LEMMA ListenHandled ==
    ASSUME Typed, Typed', Handled, Listen \/ NoNews \/ Crash
    PROVE  Handled'
  <1>0. TypeOK /\ TypeOK' /\ OwnUsers
    BY DEF Typed, Handled
  <1>1. UNCHANGED <<log, recorded, user, confirmed, credits, lost>>
    BY DEF Listen, Boot, Poll, Post, Refused, Timeout, Answered, ErrorAnswer,
           Save, NoNews, Crash, GiveUp, vars, chain, server
  <1>2. /\ OwnUsers' /\ confirmed \subseteq confirmed'
        /\ \A t \in Tx, w \in Wallet : credits[t][w] <= credits'[t][w]
        /\ \A t \in Tx : lost[t] \subseteq lost'[t]
    BY <1>0, <1>1, UsersStay DEF TypeOK
  <1>3. CASE Post
    <2>1. ASSUME NEW i \in DOMAIN calls  PROVE OwnDone(i)'
      <3>1. calls'[i] = calls[i]
        BY <1>0, <1>3, PostCalls, CallsType
      <3>. QED  BY <1>0, <1>1, <1>2, <3>1, DoneStays DEF Handled
    <2>2. ASSUME NEW n, n = Len(calls) + 1  PROVE OwnDone(n)'
      <3>1. calls'[n].step = "new"
        BY <1>3, <2>2, PostCalls
      <3>. QED  BY <3>1 DEF OwnDone, At
    <2>3. DOMAIN calls' = 1 .. Len(calls) + 1 /\ DOMAIN calls = 1 .. Len(calls)
      BY <1>0, <1>3, PostCalls, CallsType
    <2>4. ASSUME NEW i \in DOMAIN calls'  PROVE OwnDone(i)'
      <3>1. i \in DOMAIN calls \/ i = Len(calls) + 1
        BY <1>0, <2>3, CallsType
      <3>. QED  BY <2>1, <2>2, <3>1
    <2>. QED
      BY <1>2, <2>4 DEF Handled
  <1>4. CASE ~Post
    <2>1. /\ DOMAIN calls' = DOMAIN calls
          /\ \A i \in DOMAIN calls : /\ calls'[i].req = calls[i].req
                                     /\ calls'[i].step = calls[i].step
      <3>1. CASE Timeout \/ Crash
        BY <1>0, <3>1, LeaveCalls DEF Timeout, Crash, CallsGrow
      <3>2. CASE ~(Timeout \/ Crash)
        BY <1>4, <3>2 DEF Listen, Boot, Poll, Refused, Answered, ErrorAnswer,
                          Save, NoNews, vars
      <3>. QED  BY <3>1, <3>2
    <2>2. ASSUME NEW i \in DOMAIN calls  PROVE OwnDone(i)'
      BY <1>0, <1>1, <1>2, <2>1, DoneStays DEF Handled
    <2>. QED  BY <1>2, <2>1, <2>2 DEF Handled
  <1>. QED  BY <1>3, <1>4

\* A handler answers "done" when it did its part for the server's own.
LEMMA HandleDone ==
    ASSUME Typed, Typed', Handled, NEW i \in DOMAIN calls, Handle(i)
    PROVE  OwnDone(i)'
  <1>0. TypeOK /\ TypeOK' /\ OwnUsers
    BY DEF Typed, Handled
  <1>. DEFINE t == TxOf(i)
  <1>1. t \in Tx /\ calls[i].req \in Request
    BY <1>0, CallsType DEF TxOf, CallRecord, Request
  <1>2. /\ calls'[i].req = calls[i].req /\ UNCHANGED <<log, recorded>>
        /\ \A st \in {"sent", "done", "false", "error"} :
              Goto(i, st) => calls'[i].step = st
    <2>1. PICK st \in {"sent", "done", "false", "error"} : Goto(i, st)
      BY <1>0, Handling
    <2>2. calls'[i].req = calls[i].req
      BY <1>0, <2>1, Handling, HandleCalls
    <2>3. UNCHANGED <<log, recorded>>
      BY <1>0, Handling DEF chain
    <2>4. ASSUME NEW s \in {"sent", "done", "false", "error"}, Goto(i, s)
          PROVE  calls'[i].step = s
      BY <1>0, <2>4, Handling, HandleCalls
    <2>. QED  BY <2>2, <2>3, <2>4
  <1>3. TxOf(i)' = t
    BY <1>2 DEF TxOf
  <1>. HIDE DEF t
  <1>4. CASE ConfirmDeposit(i)
    BY <1>2, <1>4 DEF ConfirmDeposit, OwnDone, At
  <1>5. CASE SendCredits(i)
    <2>1. calls[i].req \in recorded /\ calls'[i].step = "sent"
      BY <1>2, <1>5 DEF SendCredits
    <2>2. PICK d \in Dropped(t) :
             /\ credits' = [credits EXCEPT ![t] =
                   [w \in Wallet |-> IF w \in Users(t) \ d
                                     THEN credits[t][w] + 1 ELSE credits[t][w]]]
             /\ lost' = [lost EXCEPT ![t] = @ \cup d]
      BY <1>5 DEF SendCredits, t
    <2>3. ASSUME NEW w \in log[t].wallets \ lost'[t]  PROVE credits'[t][w] >= 1
      <3>1. w \in Wallet /\ w \in Users(t)
        BY <1>0, <2>1 DEF OwnUsers, Users, TxOf, t
      <3>2. credits[t][w] \in Nat /\ t \in DOMAIN credits /\ t \in DOMAIN lost
        BY <1>0, <1>1, <3>1 DEF TypeOK
      <3>3. w \notin d
        BY <2>2, <3>2
      <3>4. credits'[t][w] = credits[t][w] + 1
        BY <2>2, <3>1, <3>2, <3>3
      <3>. QED  BY <3>2, <3>4
    <2>4. Credited(TxOf(i))'
      BY <1>2, <1>3, <2>3 DEF Credited
    <2>. QED  BY <2>1, <2>4 DEF OwnDone, At
  <1>6. CASE ConfirmWithdraw(i)
    <2>1. /\ calls[i].req.kind = "withdraw" /\ calls[i].step = "sent"
          /\ UNCHANGED <<credits, lost>> /\ calls[i].req \in confirmed'
      BY <1>6 DEF ConfirmWithdraw, At
    <2>2. calls[i].req \in recorded => Credited(t)
      BY <2>1 DEF Handled, OwnDone, At, t
    <2>3. calls[i].req \in recorded => Credited(TxOf(i))'
      BY <1>2, <1>3, <2>1, <2>2 DEF Credited
    <2>4. calls'[i].req \in confirmed'
      BY <1>2, <2>1
    <2>. QED  BY <1>2, <1>3, <2>3, <2>4 DEF OwnDone, At
  <1>7. CASE DirectWithdraw(i)
    BY <1>2, <1>7 DEF DirectWithdraw, OwnDone
  <1>8. CASE HandlerFails(i) \/ ValidateFails(i)
    BY <1>2, <1>8 DEF HandlerFails, ValidateFails, OwnDone, At
  <1>9. CASE ValidateUser(i)
    <2>1. calls'[i].req.kind = "valid"
      BY <1>2, <1>9 DEF ValidateUser, At
    <2>. QED  BY <2>1 DEF OwnDone, At
  <1>. QED  BY <1>4, <1>5, <1>6, <1>7, <1>8, <1>9 DEF Handle

LEMMA HandledStep == Typed /\ Handled /\ [Next]_vars => Handled'
  <1>. SUFFICES ASSUME Typed, Handled, [Next]_vars  PROVE Handled'
    OBVIOUS
  <1>0. Typed' /\ TypeOK /\ TypeOK' /\ OwnUsers
    BY TypedStep DEF Typed, Handled
  <1>1. CASE Listen \/ NoNews \/ Crash
    BY <1>0, <1>1, ListenHandled
  <1>2. ASSUME NEW i \in DOMAIN calls, Handle(i)  PROVE Handled'
    <2>1. PICK st \in {"sent", "done", "false", "error"} : Goto(i, st)
      BY <1>0, <1>2, Handling
    <2>2. /\ DOMAIN calls' = DOMAIN calls
          /\ \A j \in DOMAIN calls \ {i} : calls'[j] = calls[j]
      BY <1>0, <1>2, <2>1, Handling, HandleCalls
    <2>3. /\ UNCHANGED <<log, recorded>> /\ confirmed \subseteq confirmed'
          /\ \A w \in Wallet : user[w] # "none" => user'[w] # "none"
          /\ \A t \in Tx, w \in Wallet : credits[t][w] <= credits'[t][w]
          /\ \A t \in Tx : lost[t] \subseteq lost'[t]
      BY <1>0, <1>2, Handling DEF chain
    <2>4. OwnUsers'
      BY <1>0, <2>3, UsersStay
    <2>5. ASSUME NEW j \in DOMAIN calls \ {i}  PROVE OwnDone(j)'
      BY <1>0, <2>2, <2>3, DoneStays DEF Handled
    <2>6. OwnDone(i)'
      BY <1>0, <1>2, HandleDone
    <2>. QED  BY <2>2, <2>4, <2>5, <2>6 DEF Handled
  <1>3. CASE \/ \E t \in Tx : Mine(t)
             \/ \E w \in Wallet : Register(w)
             \/ UNCHANGED vars
    <2>1. /\ UNCHANGED <<log, recorded, calls, confirmed, credits, lost>>
          /\ \A w \in Wallet : user[w] # "none" => user'[w] # "none"
      BY <1>0, <1>3 DEF Mine, Register, vars, chain, server, TypeOK
    <2>2. OwnUsers'
      BY <1>0, <2>1, UsersStay
    <2>. QED
      BY <2>1, <2>2 DEF Handled, OwnDone, Credited, At, TxOf
  <1>. QED  BY <1>1, <1>2, <1>3 DEF Next

\* What the server recorded before it sent it is completed and credited once
\* it is behind the script, whatever times out, restarts or is repeated, but
\* for a credit whose message got lost and a handler that the database
\* failed: the swaps' rows are there before the event, and the credits leave
\* before the row of a withdrawal is confirmed.
THEOREM OwnSwapsComplete == Spec => []OwnSwapsSettled
  <1>1. Typed /\ Progress /\ Handled /\ [Next]_vars
          => Typed' /\ Progress' /\ Handled'
    BY TypedStep, ProgressStep, HandledStep
  <1>2. ASSUME Typed, Progress, Handled  PROVE OwnSwapsSettled
    <2>. SUFFICES ASSUME NEW q \in recorded, Behind(q.tx), ~Ended(q, {"false"})
                  PROVE  /\ q \in confirmed
                         /\ q.kind = "withdraw" => Credited(q.tx)
      BY DEF OwnSwapsSettled, Credited
    <2>1. /\ q \in Request /\ q.tx \in Tx /\ q.kind \in log[q.tx].kinds
          /\ q.kind \in {"deposit", "withdraw"}
      BY <1>2 DEF Typed, TypeOK, Request, Kind, Handled, OwnUsers
    <2>2. q = [tx |-> q.tx, kind |-> q.kind]
      BY <2>1 DEF Request
    <2>3. Ended([tx |-> q.tx, kind |-> q.kind], Answers)
      BY <1>2, <2>1 DEF Progress, Covered, Behind
    <2>4. PICK i \in DOMAIN calls : calls[i].req = q /\ calls[i].step = "done"
      BY <2>2, <2>3 DEF Ended, Answers
    <2>. QED  BY <1>2, <2>1, <2>4 DEF Handled, OwnDone, At, TxOf
  <1>. QED
    BY <1>1, <1>2, TypedInit, ProgressInit, HandledInit, PTL DEF Spec

-----------------------------------------------------------------------------
(***************************************************************************)
(* The requests that are left are the last ones of their range, in order.  *)
(***************************************************************************)
InHand(q) == \E k \in DOMAIN todo : todo[k] = q

Queue ==
    phase \in {"post", "wait"} =>
        /\ last <= goal
        /\ \A i \in DOMAIN todo : todo[i] \in InRange(last + 1, goal)
        /\ \A i, j \in DOMAIN todo : i < j => Before(todo[i], todo[j])
        /\ \A i \in DOMAIN todo : \A q \in InRange(last + 1, goal) :
              Before(todo[i], q) => InHand(q)

\* What is in the range in progress was mined before it began.
LEMMA RangeStays ==
    ASSUME Typed, Typed', UNCHANGED <<log, last, goal>>,
           \A t \in Tx : \/ block'[t] = block[t]
                         \/ block[t] = 0 /\ block'[t] > head
    PROVE  /\ InRange(last + 1, goal)' = InRange(last + 1, goal)
           /\ \A q \in InRange(last + 1, goal) : block'[q.tx] = block[q.tx]
  <1>1. /\ last \in Nat /\ goal \in 0 .. head /\ head \in Nat
        /\ \A t \in Tx : block[t] \in Nat /\ block'[t] \in Nat
    BY DEF Typed, TypeOK
  <1>2. ASSUME NEW t \in Tx,
               block[t] \in last + 1 .. goal \/ block'[t] \in last + 1 .. goal
        PROVE  block'[t] = block[t]
    BY <1>1, <1>2
  <1>3. \A q \in Request : q.tx \in Tx
    BY DEF Request
  <1>. QED  BY <1>2, <1>3 DEF InRange

LEMMA QueueAnswered ==
    ASSUME Typed, Queue, Answered
    PROVE  Queue'
  <1>1. /\ todo \in Seq(Request) /\ todo # <<>> /\ todo' = Tail(todo)
        /\ phase = "wait" /\ UNCHANGED <<log, block, last, goal>>
    BY DEF Answered, Typed, TypeOK, Waiting, chain
  <1>2. Len(todo) \in Nat \ {0} /\ DOMAIN todo = 1 .. Len(todo)
    BY <1>1, LenProperties, EmptySeq
  <1>3. /\ todo' \in Seq(Request) /\ Len(todo') = Len(todo) - 1
        /\ \A i \in 1 .. Len(todo') : todo'[i] = todo[i + 1]
    BY <1>1, HeadTailProperties
  <1>4. DOMAIN todo' = 1 .. Len(todo) - 1
    BY <1>3, LenProperties
  <1>5. \A i \in DOMAIN todo' : i + 1 \in DOMAIN todo /\ todo'[i] = todo[i + 1]
    BY <1>2, <1>3, <1>4
  <1>6. /\ last <= goal
        /\ \A i \in DOMAIN todo : todo[i] \in InRange(last + 1, goal)
        /\ \A i, j \in DOMAIN todo : i < j => Before(todo[i], todo[j])
        /\ \A i \in DOMAIN todo : \A q \in InRange(last + 1, goal) :
              Before(todo[i], q) => InHand(q)
    BY <1>1 DEF Queue
  <1>7. ASSUME NEW i \in DOMAIN todo', NEW q \in InRange(last + 1, goal),
               Before(todo'[i], q)
        PROVE  \E k \in DOMAIN todo' : todo'[k] = q
    <2>1. PICK k \in DOMAIN todo : todo[k] = q
      BY <1>5, <1>6, <1>7 DEF InHand
    <2>2. k # 1
      <3>1. 1 \in DOMAIN todo /\ Before(todo[1], todo[i + 1])
        BY <1>2, <1>4, <1>5, <1>6
      <3>2. /\ last + 1 \in Nat \ {0} /\ goal \in Nat /\ block \in [Tx -> Nat]
            /\ Distinct
        BY DEF Typed, TypeOK
      <3>3. Before(todo[i + 1], q) /\ todo[i + 1] \in InRange(last + 1, goal)
        BY <1>5, <1>6, <1>7
      <3>4. k = 1 => Before(q, q)
        BY <1>6, <2>1, <3>1, <3>2, <3>3, Ordering
      <3>. QED  BY <3>2, <3>4, Ordering
    <2>3. k - 1 \in DOMAIN todo' /\ k - 1 + 1 = k
      BY <1>2, <1>4, <2>2
    <2>4. todo'[k - 1] = q
      BY <1>5, <2>1, <2>3
    <2>. QED  BY <2>3, <2>4
  <1>8. InRange(last + 1, goal)' = InRange(last + 1, goal)
    BY <1>1 DEF InRange
  <1>9. \A p, q : Before(p, q)' = Before(p, q)
    BY <1>1 DEF Before
  <1>10. \A i, j \in DOMAIN todo' : i < j => Before(todo'[i], todo'[j])
    <2>1. \A i, j \in DOMAIN todo' : i < j => i + 1 < j + 1
      BY <1>2, <1>4
    <2>. QED  BY <1>5, <1>6, <2>1
  <1>. QED
    BY <1>1, <1>5, <1>6, <1>7, <1>8, <1>9, <1>10 DEF Queue, InHand

LEMMA QueueStays ==
    ASSUME Typed, Typed', Queue, UNCHANGED <<log, last, goal, todo>>,
           phase' \in {"post", "wait"} => phase \in {"post", "wait"},
           \A t \in Tx : \/ block'[t] = block[t]
                         \/ block[t] = 0 /\ block'[t] > head
    PROVE  Queue'
  <1>1. /\ InRange(last + 1, goal)' = InRange(last + 1, goal)
        /\ \A q \in InRange(last + 1, goal) : block'[q.tx] = block[q.tx]
    BY RangeStays
  <1>2. \A p, q \in InRange(last + 1, goal) : Before(p, q)' = Before(p, q)
    BY <1>1 DEF Before
  <1>. QED  BY <1>1, <1>2 DEF Queue, InHand

LEMMA QueueStep == Typed /\ Queue /\ [Next]_vars => Queue'
  <1>. SUFFICES ASSUME Typed, Queue, [Next]_vars  PROVE Queue'
    OBVIOUS
  <1>0. Typed'
    BY TypedStep
  <1>1. CASE Poll
    <2>1. /\ goal' \in Nat /\ last + 1 \in Nat \ {0} /\ block \in [Tx -> Nat]
          /\ last <= goal' /\ last \in Nat
      BY <1>1, ConstantsType DEF Poll, Lesser, Typed, TypeOK
    <2>2. /\ UNCHANGED <<log, block, last>> /\ todo' = Requests(last + 1, goal')
      BY <1>1 DEF Poll, chain
    <2>3. /\ \A q \in InRange(last + 1, goal') : \E i \in DOMAIN todo' : todo'[i] = q
          /\ \A i \in DOMAIN todo' : todo'[i] \in InRange(last + 1, goal')
          /\ \A i, j \in DOMAIN todo' : i < j => Before(todo'[i], todo'[j])
      <3>. DEFINE r == Requests(last + 1, goal')
      <3>1. /\ \A q \in InRange(last + 1, goal') : \E i \in DOMAIN r : r[i] = q
            /\ \A i \in DOMAIN r : r[i] \in InRange(last + 1, goal')
            /\ \A i, j \in DOMAIN r : i < j => Before(r[i], r[j])
        BY <2>1, RequestsComplete DEF Typed
      <3>. HIDE DEF r
      <3>. QED  BY <2>2, <3>1 DEF r
    <2>4. InRange(last + 1, goal)' = InRange(last + 1, goal')
      BY <2>2 DEF InRange
    <2>5. \A p, q : Before(p, q)' = Before(p, q)
      BY <2>2 DEF Before
    <2>. QED  BY <2>1, <2>2, <2>3, <2>4, <2>5 DEF Queue, InHand
  <1>2. CASE Post \/ NoNews \/ UNCHANGED vars
    <2>1. /\ UNCHANGED <<log, block, last, goal, todo>>
          /\ phase' \in {"post", "wait"} => phase \in {"post", "wait"}
      BY <1>2 DEF Post, NoNews, vars, chain, script
    <2>. QED  BY <1>0, <2>1, QueueStays
  <1>3. CASE Boot \/ Refused \/ Timeout \/ ErrorAnswer \/ Save \/ Crash
    <2>1. phase' \in {"poll", "down"}
      BY <1>3 DEF Boot, Refused, Timeout, ErrorAnswer, Save, Crash, GiveUp
    <2>. QED  BY <2>1 DEF Queue
  <1>4. CASE Answered
    BY <1>4, QueueAnswered
  <1>5. CASE \/ \E i \in DOMAIN calls : Handle(i)
             \/ \E w \in Wallet : Register(w)
    <2>1. UNCHANGED <<log, script, block>>
      BY <1>5, Handling DEF Typed, Register, chain
    <2>. QED  BY <1>0, <2>1, QueueStays DEF script
  <1>6. ASSUME NEW t \in Tx, Mine(t)  PROVE Queue'
    <2>1. UNCHANGED <<log, script>>
      BY <1>6 DEF Mine
    <2>2. \A x \in Tx : block'[x] = block[x] \/ (block[x] = 0 /\ block'[x] > head)
      BY <1>6 DEF Mine, Typed, TypeOK
    <2>. QED  BY <1>0, <2>1, <2>2, QueueStays DEF script
  <1>. QED  BY <1>1, <1>2, <1>3, <1>4, <1>5, <1>6 DEF Next, Listen

-----------------------------------------------------------------------------
(***************************************************************************)
(* Validities are set one by one, in the order of the chain.               *)
(***************************************************************************)
\* The calls that set a wallet's status.
Sets(w) ==
    {i \in DOMAIN calls : At(i, "valid", "done") /\ w \in log[TxOf(i)].wallets}

Status(t) == IF log[t].isValid THEN "valid" ELSE "invalid"

\* Calls are about mined events; a validity in progress that was not given up
\* is the call that the script waits for.
Asked ==
    \A i \in DOMAIN calls :
        /\ calls[i].req.kind \in log[TxOf(i)].kinds
        /\ block[TxOf(i)] # 0
        /\ calls[i].req.kind = "valid" =>
              /\ calls[i].step \in {"new", "done", "error"}
              /\ calls[i].step = "new" /\ ~calls[i].left =>
                    i = Len(calls) /\ phase = "wait"

\* The last call that set a status is the one whose status it is.
LastSet ==
    \A w \in Wallet : ~Overtaken(w) =>
        \A j \in Sets(w) : (\A i \in Sets(w) : i <= j) =>
            user[w] = Status(TxOf(j))

SetsValidity(t, w) == "valid" \in log[t].kinds /\ w \in log[t].wallets

\* The validity of t was set, and after it only those of later blocks.
Top(t, w) ==
    \E j \in Sets(w) :
        /\ TxOf(j) = t
        /\ \A i \in Sets(w) : i > j => block[TxOf(i)] > block[t]

InOrder(n) ==
    \A w \in Wallet : ~Overtaken(w) =>
        \A t \in Tx : /\ SetsValidity(t, w)
                      /\ from < block[t] /\ block[t] <= n
                      => Top(t, w)

\* The same for the range in progress, as far as it is answered.
Ranged ==
    phase \in {"post", "wait"} =>
        \A w \in Wallet : ~Overtaken(w) =>
            \A t \in Tx : /\ SetsValidity(t, w)
                          /\ last < block[t] /\ block[t] <= goal
                          => InHand([tx |-> t, kind |-> "valid"]) \/ Top(t, w)

Current == Asked /\ LastSet /\ InOrder(last) /\ Ranged /\ saved <= last

LEMMA CallTypes ==
    ASSUME TypeOK, NEW i \in DOMAIN calls
    PROVE  /\ i \in Nat /\ TxOf(i) \in Tx /\ calls[i].req \in Request
           /\ calls[i].left \in BOOLEAN
  BY CallsType DEF CallRecord, Request, TxOf

LEMMA LeaveLeaves ==
    ASSUME TypeOK, Leave, NEW i \in DOMAIN calls
    PROVE  /\ calls[i].left => calls'[i].left
           /\ i = Len(calls) /\ phase = "wait" => calls'[i].left
  <1>1. calls'[i] = IF i = Len(calls) /\ phase = "wait"
                    THEN [calls[i] EXCEPT !.left = TRUE] ELSE calls[i]
    BY DEF Leave
  <1>2. [calls[i] EXCEPT !.left = TRUE].left = TRUE
    BY CallsType DEF CallRecord
  <1>. QED  BY <1>1, <1>2

\* Any step but a new call keeps the calls; only handlers change their steps.
LEMMA CallsKept ==
    ASSUME Typed, [Next]_vars, ~Post
    PROVE  /\ DOMAIN calls' = DOMAIN calls /\ Len(calls') = Len(calls)
           /\ \A i \in DOMAIN calls :
                 /\ calls'[i].req = calls[i].req
                 /\ calls[i].left => calls'[i].left
                 /\ calls'[i].step = calls[i].step \/ Handle(i)
  <1>0. TypeOK
    BY DEF Typed
  <1>1. CASE Timeout \/ Crash
    BY <1>0, <1>1, LeaveCalls, LeaveLeaves DEF Timeout, Crash, CallsGrow
  <1>2. ASSUME NEW i \in DOMAIN calls, Handle(i)
        PROVE  /\ DOMAIN calls' = DOMAIN calls /\ Len(calls') = Len(calls)
               /\ \A j \in DOMAIN calls :
                     /\ calls'[j].req = calls[j].req
                     /\ calls[j].left => calls'[j].left
                     /\ calls'[j].step = calls[j].step \/ Handle(j)
    <2>1. PICK st \in {"sent", "done", "false", "error"} : Goto(i, st)
      BY <1>0, <1>2, Handling
    <2>2. /\ DOMAIN calls' = DOMAIN calls /\ Len(calls') = Len(calls)
          /\ calls'[i].req = calls[i].req
          /\ \A j \in DOMAIN calls \ {i} : calls'[j] = calls[j]
      BY <1>0, <1>2, <2>1, Handling, HandleCalls
    <2>3. calls'[i].left = calls[i].left
      <3>1. calls[i] \in CallRecord
        BY <1>0, CallsType
      <3>2. calls'[i] = [calls[i] EXCEPT !.step = st]
        BY <2>1 DEF Goto
      <3>. QED  BY <3>1, <3>2 DEF CallRecord
    <2>. QED  BY <1>2, <2>2, <2>3
  <1>3. CASE UNCHANGED calls
    BY <1>3
  <1>4. \/ Timeout \/ Crash \/ UNCHANGED calls
        \/ \E i \in DOMAIN calls : Handle(i)
    BY DEF Next, Listen, Boot, Poll, Refused, Answered, ErrorAnswer, Save,
           NoNews, vars, Mine, Register
  <1>. QED  BY <1>1, <1>2, <1>3, <1>4

\* Blocks and logs of what was asked do not change.
LEMMA AskedBlocks ==
    ASSUME Typed, Asked, [Next]_vars
    PROVE  /\ UNCHANGED log
           /\ \A i \in DOMAIN calls : block'[TxOf(i)] = block[TxOf(i)]
           /\ \A t \in Tx : block'[t] = block[t] \/ block'[t] > head
           /\ \A t \in Tx : block'[t] = block[t] \/ UNCHANGED <<script, calls>>
  <1>1. UNCHANGED log
    BY Handling DEF Typed, Next, Mine, Register, Listen, Boot, Poll, Post,
       Refused, Timeout, Answered, ErrorAnswer, Save, NoNews, Crash, GiveUp,
       vars, chain
  <1>2. CASE \E t \in Tx : Mine(t)
    <2>1. PICK t \in Tx : Mine(t)
      BY <1>2
    <2>2. /\ block[t] = 0 /\ block' = [block EXCEPT ![t] = head + 1]
          /\ head \in Nat /\ block \in [Tx -> 0 .. head]
          /\ UNCHANGED <<script, calls>>
      BY <2>1 DEF Mine, Typed, TypeOK
    <2>3. \A i \in DOMAIN calls : TxOf(i) # t /\ TxOf(i) \in Tx
      BY <2>2, CallTypes DEF Asked, Typed
    <2>. QED  BY <1>1, <2>2, <2>3
  <1>3. CASE ~\E t \in Tx : Mine(t)
    <2>1. UNCHANGED block
      BY <1>3, Handling DEF Typed, Next, Register, Listen, Boot, Poll, Post,
         Refused, Timeout, Answered, ErrorAnswer, Save, NoNews, Crash, GiveUp,
         vars, chain
    <2>. QED  BY <1>1, <2>1
  <1>. QED  BY <1>2, <1>3

LEMMA HeadInHand ==
    ASSUME Typed, Queue, phase \in {"post", "wait"}, todo # <<>>
    PROVE  /\ Head(todo) \in InRange(last + 1, goal) /\ InHand(Head(todo))
           /\ \A q \in InRange(last + 1, goal) :
                 Before(Head(todo), q) => InHand(q)
  <1>1. 1 \in DOMAIN todo /\ Head(todo) = todo[1]
    <2>1. todo \in Seq(Request)
      BY DEF Typed, TypeOK
    <2>2. Len(todo) \in Nat \ {0} /\ DOMAIN todo = 1 .. Len(todo)
      BY <2>1, LenProperties, EmptySeq
    <2>. QED  BY <2>1, <2>2
  <1>. QED  BY <1>1 DEF Queue, InHand

LEMMA AskedStep == Typed /\ Queue /\ Asked /\ [Next]_vars => Asked'
  <1>. SUFFICES ASSUME Typed, Queue, Asked, [Next]_vars  PROVE Asked'
    OBVIOUS
  <1>0. TypeOK
    BY DEF Typed
  <1>1. /\ UNCHANGED log
        /\ \A i \in DOMAIN calls : block'[TxOf(i)] = block[TxOf(i)]
    BY AskedBlocks
  <1>2. CASE Post
    <2>1. /\ Len(calls') = Len(calls) + 1 /\ DOMAIN calls' = 1 .. Len(calls) + 1
          /\ calls'[Len(calls) + 1].req = Head(todo)
          /\ calls'[Len(calls) + 1].step = "new"
          /\ \A i \in 1 .. Len(calls) : calls'[i] = calls[i]
          /\ DOMAIN calls = 1 .. Len(calls) /\ Len(calls) \in Nat
      BY <1>0, <1>2, PostCalls, CallsType
    <2>2. /\ phase = "post" /\ phase' = "wait" /\ todo # <<>> /\ UNCHANGED block
      BY <1>2 DEF Post, chain
    <2>3. Head(todo) \in InRange(last + 1, goal)
      BY <2>2, HeadInHand
    <2>4. /\ Head(todo).kind \in log[Head(todo).tx].kinds
          /\ block[Head(todo).tx] # 0
      <3>1. last \in Nat
        BY <1>0 DEF TypeOK
      <3>. QED  BY <2>3, <3>1 DEF InRange
    <2>. QED  BY <1>1, <2>1, <2>2, <2>4 DEF Asked, TxOf
  <1>3. CASE ~Post
    <2>1. /\ DOMAIN calls' = DOMAIN calls /\ Len(calls') = Len(calls)
          /\ \A i \in DOMAIN calls :
                 /\ calls'[i].req = calls[i].req
                 /\ calls[i].left => calls'[i].left
                 /\ calls'[i].step = calls[i].step \/ Handle(i)
      BY <1>3, CallsKept
    <2>2. ASSUME NEW i \in DOMAIN calls, calls[i].req.kind = "valid", Handle(i)
          PROVE  calls'[i].step \in {"done", "error"}
      <3>1. \E st \in {"done", "error"} : Goto(i, st)
        BY <2>2 DEF Handle, ConfirmDeposit, SendCredits, ConfirmWithdraw,
                    DirectWithdraw, HandlerFails, ValidateUser, ValidateFails, At
      <3>. QED  BY <1>0, <2>2, <3>1, Handling, HandleCalls
    <2>3. ASSUME NEW i \in DOMAIN calls, calls[i].req.kind = "valid",
                 calls'[i].step = "new", ~calls'[i].left
          PROVE  i = Len(calls) /\ phase' = "wait"
      <3>1. /\ calls[i].step = "new" /\ ~calls[i].left
            /\ i = Len(calls) /\ phase = "wait"
        BY <2>1, <2>2, <2>3 DEF Asked
      <3>2. ~Timeout /\ ~Crash
        BY <1>0, <2>3, <3>1, LeaveLeaves DEF Timeout, Crash
      <3>3. UNCHANGED phase
        BY <1>0, <1>3, <3>1, <3>2, Handling
           DEF Next, Listen, Boot, Poll, Refused, Answered, ErrorAnswer, Save,
               NoNews, vars, script, Mine, Register
      <3>. QED  BY <3>1, <3>3
    <2>4. ASSUME NEW i \in DOMAIN calls, calls[i].req.kind = "valid"
          PROVE  calls'[i].step \in {"new", "done", "error"}
      BY <2>1, <2>2, <2>4 DEF Asked
    <2>. QED  BY <1>1, <2>1, <2>3, <2>4 DEF Asked, TxOf
  <1>. QED  BY <1>2, <1>3

LEMMA OvertakenStays ==
    ASSUME Typed, [Next]_vars, UNCHANGED log, NEW w \in Wallet, Overtaken(w)
    PROVE  Overtaken(w)'
  <1>1. PICK i \in DOMAIN calls : /\ calls[i].left
                                  /\ calls[i].req.kind = "valid"
                                  /\ w \in log[TxOf(i)].wallets
    BY DEF Overtaken
  <1>2. /\ i \in DOMAIN calls' /\ calls'[i].req = calls[i].req
        /\ calls'[i].left
    <2>1. CASE Post
      BY <1>1, <2>1, PostCalls, CallsType DEF Typed, CallsGrow
    <2>2. CASE ~Post
      BY <1>1, <2>2, CallsKept
    <2>. QED  BY <2>1, <2>2
  <1>. QED  BY <1>1, <1>2 DEF Overtaken, TxOf

\* Only validateUser sets statuses.
LEMMA SetsStay ==
    ASSUME Typed, [Next]_vars, UNCHANGED log,
           ~\E i \in DOMAIN calls : ValidateUser(i), NEW w \in Wallet
    PROVE  /\ Sets(w)' = Sets(w)
           /\ \A i \in Sets(w) : TxOf(i)' = TxOf(i)
  <1>0. TypeOK
    BY DEF Typed
  <1>1. CASE Post
    <2>1. /\ DOMAIN calls' = 1 .. Len(calls) + 1
          /\ calls'[Len(calls) + 1].step = "new"
          /\ \A i \in 1 .. Len(calls) : calls'[i] = calls[i]
          /\ DOMAIN calls = 1 .. Len(calls) /\ Len(calls) \in Nat
      BY <1>0, <1>1, PostCalls, CallsType
    <2>. QED  BY <2>1 DEF Sets, At, TxOf
  <1>2. CASE ~Post
    <2>1. /\ DOMAIN calls' = DOMAIN calls
          /\ \A i \in DOMAIN calls :
                 /\ calls'[i].req = calls[i].req
                 /\ calls'[i].step = calls[i].step \/ Handle(i)
      BY <1>2, CallsKept
    <2>2. ASSUME NEW i \in DOMAIN calls, calls[i].req.kind = "valid"
          PROVE  calls'[i].step = "done" <=> calls[i].step = "done"
      <3>1. CASE Handle(i)
        <4>1. Goto(i, "error") /\ calls[i].step = "new"
          BY <2>2, <3>1
             DEF Handle, ConfirmDeposit, SendCredits, ConfirmWithdraw,
                 DirectWithdraw, HandlerFails, ValidateFails, At
        <4>2. calls'[i].step = "error"
          BY <1>0, <4>1, HandleCalls
        <4>. QED  BY <4>1, <4>2
      <3>. QED  BY <2>1, <3>1
    <2>. QED  BY <2>1, <2>2 DEF Sets, At, TxOf
  <1>. QED  BY <1>1, <1>2

LEMMA TopStays ==
    ASSUME Typed, Asked, [Next]_vars,
           ~\E i \in DOMAIN calls : ValidateUser(i),
           NEW w \in Wallet, NEW t \in Tx, Top(t, w)
    PROVE  Top(t, w)'
  <1>1. /\ UNCHANGED log
        /\ \A i \in DOMAIN calls : block'[TxOf(i)] = block[TxOf(i)]
    BY AskedBlocks
  <1>2. /\ Sets(w)' = Sets(w)
        /\ \A i \in Sets(w) : TxOf(i)' = TxOf(i) /\ i \in DOMAIN calls
    BY <1>1, SetsStay DEF Sets
  <1>3. PICK j \in Sets(w) :
           /\ TxOf(j) = t
           /\ \A i \in Sets(w) : i > j => block[TxOf(i)] > block[t]
    BY DEF Top
  <1>4. block'[t] = block[t]
    BY <1>1, <1>2, <1>3
  <1>5. \A i \in Sets(w) : block'[TxOf(i)'] = block[TxOf(i)]
    BY <1>1, <1>2
  <1>. QED  BY <1>2, <1>3, <1>4, <1>5 DEF Top

\* A wallet's validity is set by the call the script waits for.
LEMMA Setting ==
    ASSUME Typed, Asked, Queue, NEW i \in DOMAIN calls, ValidateUser(i),
           NEW w \in Wallet, ~Overtaken(w)'
    PROVE  /\ UNCHANGED <<log, block, script>>
           /\ \A k \in DOMAIN calls : TxOf(k)' = TxOf(k)
           /\ w \notin log[TxOf(i)].wallets =>
                 Sets(w)' = Sets(w) /\ user'[w] = user[w]
           /\ w \in log[TxOf(i)].wallets =>
                 /\ Sets(w)' = Sets(w) \cup {i} /\ user'[w] = Status(TxOf(i))
                 /\ phase = "wait" /\ calls[i].req = Head(todo) /\ todo # <<>>
                 /\ \A k \in Sets(w) : k < i
                 /\ block[TxOf(i)] > last
  <1>0. TypeOK
    BY DEF Typed
  <1>1. /\ calls[i].req.kind = "valid" /\ calls[i].step = "new" /\ Goto(i, "done")
        /\ UNCHANGED <<log, block, script>>
    BY DEF ValidateUser, At, chain
  <1>2. /\ DOMAIN calls' = DOMAIN calls
        /\ calls'[i].step = "done" /\ calls'[i].req = calls[i].req
        /\ \A j \in DOMAIN calls \ {i} : calls'[j] = calls[j]
    BY <1>0, <1>1, HandleCalls
  <1>3. \A k \in DOMAIN calls : TxOf(k)' = TxOf(k)
    BY <1>2 DEF TxOf
  <1>4. Sets(w)' = Sets(w) \cup (IF w \in log[TxOf(i)].wallets THEN {i} ELSE {})
    BY <1>1, <1>2, <1>3 DEF Sets, At
  <1>5. user'[w] = IF w \in log[TxOf(i)].wallets THEN Status(TxOf(i)) ELSE user[w]
    BY DEF ValidateUser, Status
  <1>6. ASSUME w \in log[TxOf(i)].wallets
        PROVE  /\ phase = "wait" /\ calls[i].req = Head(todo) /\ todo # <<>>
               /\ \A k \in Sets(w) : k < i
               /\ block[TxOf(i)] > last
    <2>1. ~calls[i].left
      <3>1. calls[i].left => calls'[i].left
        <4>1. calls'[i] = [calls[i] EXCEPT !.step = "done"]
          BY <1>1 DEF Goto
        <4>. QED  BY <1>0, <4>1, CallsType DEF CallRecord
      <3>. QED  BY <1>1, <1>2, <1>3, <1>6, <3>1 DEF Overtaken
    <2>2. i = Len(calls) /\ phase = "wait"
      BY <1>1, <2>1 DEF Asked
    <2>3. calls[i].req = Head(todo) /\ todo # <<>>
      BY <2>2 DEF Typed, Waiting
    <2>4. \A k \in Sets(w) : k < i
      <3>1. Len(calls) \in Nat /\ DOMAIN calls = 1 .. Len(calls) /\ i \notin Sets(w)
        BY <1>0, <1>1, CallsType DEF Sets, At
      <3>2. Sets(w) \subseteq DOMAIN calls
        BY DEF Sets
      <3>. QED  BY <2>2, <3>1, <3>2
    <2>5. Head(todo) \in InRange(last + 1, goal)
      BY <2>2, <2>3, HeadInHand
    <2>6. block[TxOf(i)] \in last + 1 .. goal /\ last \in Nat
      BY <1>0, <2>3, <2>5 DEF InRange, TxOf, TypeOK
    <2>. QED  BY <2>2, <2>3, <2>4, <2>6
  <1>. QED  BY <1>1, <1>3, <1>4, <1>5, <1>6

\* ... and what was set for earlier blocks stays below it.
LEMMA TopSetting ==
    ASSUME Typed, Asked, Queue, NEW i \in DOMAIN calls, ValidateUser(i),
           NEW w \in Wallet, ~Overtaken(w)', NEW t \in Tx, Top(t, w),
           w \in log[TxOf(i)].wallets => block[TxOf(i)] > block[t]
    PROVE  Top(t, w)'
  <1>1. PICK j \in Sets(w) :
           /\ TxOf(j) = t
           /\ \A k \in Sets(w) : k > j => block[TxOf(k)] > block[t]
    BY DEF Top
  <1>2. /\ UNCHANGED block /\ \A k \in DOMAIN calls : TxOf(k)' = TxOf(k)
        /\ Sets(w) \subseteq Sets(w)' /\ Sets(w)' \subseteq Sets(w) \cup {i}
        /\ i \in Sets(w)' => i \in Sets(w) \/ w \in log[TxOf(i)].wallets
        /\ Sets(w) \subseteq DOMAIN calls
    BY Setting DEF Sets
  <1>3. \A k \in Sets(w)' : k > j => block'[TxOf(k)'] > block'[t]
    BY <1>1, <1>2
  <1>. QED  BY <1>1, <1>2, <1>3 DEF Top

LEMMA LastSetStep ==
    ASSUME Typed, Typed', Queue, Asked, LastSet, [Next]_vars
    PROVE  LastSet'
  <1>0. UNCHANGED log
    BY AskedBlocks
  <1>. SUFFICES ASSUME NEW w \in Wallet, ~Overtaken(w)', NEW j \in Sets(w)',
                       \A i \in Sets(w)' : i <= j
                PROVE  user'[w] = Status(TxOf(j))'
    BY DEF LastSet
  <1>1. ~Overtaken(w)
    BY <1>0, OvertakenStays
  <1>2. ASSUME NEW i \in DOMAIN calls, ValidateUser(i)
        PROVE  user'[w] = Status(TxOf(j))'
    <2>1. CASE w \in log[TxOf(i)].wallets
      <3>1. /\ Sets(w)' = Sets(w) \cup {i} /\ user'[w] = Status(TxOf(i))
            /\ \A k \in Sets(w) : k < i
            /\ TxOf(i)' = TxOf(i)
        BY <1>2, <2>1, Setting
      <3>2. j = i
        <4>1. i <= j /\ (j \in Sets(w) => j < i) /\ i \in Nat
          BY <1>2, <3>1, CallTypes DEF Typed
        <4>2. j \in Sets(w) => j \in Nat
          BY CallTypes DEF Sets, Typed
        <4>. QED  BY <3>1, <4>1, <4>2
      <3>. QED  BY <1>0, <3>1, <3>2 DEF Status
    <2>2. CASE w \notin log[TxOf(i)].wallets
      <3>1. /\ Sets(w)' = Sets(w) /\ user'[w] = user[w]
            /\ TxOf(j)' = TxOf(j)
        BY <1>2, <2>2, Setting DEF Sets
      <3>2. user[w] = Status(TxOf(j))
        BY <1>1, <3>1 DEF LastSet
      <3>. QED  BY <1>0, <3>1, <3>2 DEF Status
    <2>. QED  BY <2>1, <2>2
  <1>3. CASE ~\E i \in DOMAIN calls : ValidateUser(i)
    <2>1. Sets(w)' = Sets(w) /\ TxOf(j)' = TxOf(j)
      BY <1>0, <1>3, SetsStay
    <2>2. user[w] = Status(TxOf(j))
      BY <1>1, <2>1 DEF LastSet
    <2>3. user'[w] = user[w]
      <3>1. ~Register(w)
        BY <2>2 DEF Register, Status
      <3>2. CASE \E x \in Wallet : Register(x)
        BY <3>1, <3>2 DEF Register, Typed, TypeOK
      <3>3. CASE ~\E x \in Wallet : Register(x)
        <4>1. UNCHANGED user
          BY <1>3, <3>3
             DEF Next, Mine, Listen, Boot, Poll, Post, Refused, Timeout,
                 Answered, ErrorAnswer, Save, NoNews, Crash, GiveUp, vars,
                 server, Handle, ConfirmDeposit, SendCredits, ConfirmWithdraw,
                 DirectWithdraw, HandlerFails, ValidateFails
        <4>. QED  BY <4>1
      <3>. QED  BY <3>2, <3>3
    <2>. QED  BY <1>0, <2>1, <2>2, <2>3 DEF Status
  <1>. QED  BY <1>2, <1>3

\* The last request of a range is answered: its validities are in order.
LEMMA RangeInOrder ==
    ASSUME Typed, Current, phase = "post", todo = <<>>
    PROVE  InOrder(goal)
  <1>1. DOMAIN todo = {}
    <2>1. todo \in Seq(Request) /\ Len(todo) = 0
      BY EmptySeq DEF Typed, TypeOK
    <2>2. DOMAIN todo = 1 .. 0
      BY <2>1, LenProperties
    <2>. QED  BY <2>2
  <1>2. ASSUME NEW w \in Wallet, ~Overtaken(w), NEW t \in Tx, SetsValidity(t, w),
               from < block[t], block[t] <= goal
        PROVE  Top(t, w)
    <2>1. CASE block[t] <= last
      BY <1>2, <2>1 DEF Current, InOrder
    <2>2. CASE ~(block[t] <= last)
      <3>1. last < block[t]
        BY <2>2 DEF Typed, TypeOK
      <3>2. ~InHand([tx |-> t, kind |-> "valid"])
        BY <1>1 DEF InHand
      <3>. QED  BY <1>2, <3>1, <3>2 DEF Current, Ranged
    <2>. QED  BY <2>1, <2>2
  <1>. QED  BY <1>2 DEF InOrder

\* Up to where the script has got, in the old terms.
LEMMA InOrderBefore ==
    ASSUME Typed, Typed', Queue, Current, [Next]_vars,
           NEW w \in Wallet, ~Overtaken(w), NEW t \in Tx, SetsValidity(t, w),
           from' < block'[t], block'[t] <= last'
    PROVE  /\ Top(t, w) /\ block'[t] = block[t]
           /\ ~Save => block[t] <= last
  <1>0. /\ last \in 0 .. head /\ head \in Nat /\ block \in [Tx -> 0 .. head]
        /\ goal \in 0 .. head /\ saved \in 0 .. head /\ block'[t] \in Nat
    BY DEF Typed, TypeOK
  <1>1. CASE Boot
    <2>1. UNCHANGED block
      BY <1>1 DEF Boot, chain
    <2>2. saved # 0 /\ last' = saved /\ from' = from /\ saved <= last
      BY <1>0, <1>1, <2>1 DEF Boot, Current
    <2>3. block[t] <= last
      BY <1>0, <2>1, <2>2
    <2>. QED  BY <2>1, <2>2, <2>3 DEF Current, InOrder
  <1>2. CASE Save
    <2>1. /\ UNCHANGED <<block, from>> /\ last' = goal
          /\ phase = "post" /\ todo = <<>>
      BY <1>2 DEF Save, chain
    <2>. QED  BY <1>2, <2>1, RangeInOrder DEF InOrder
  <1>3. CASE ~Boot /\ ~Save
    <2>1. UNCHANGED <<from, last>>
      BY <1>3, Handling
         DEF Typed, Next, Mine, Register, Listen, Poll, Post, Refused, Timeout,
             Answered, ErrorAnswer, NoNews, Crash, GiveUp, vars, script
    <2>2. block'[t] = block[t] \/ block'[t] > head
      BY AskedBlocks DEF Current
    <2>3. block'[t] = block[t] /\ block[t] <= last
      BY <1>0, <2>1, <2>2
    <2>. QED  BY <2>1, <2>3 DEF Current, InOrder
  <1>. QED  BY <1>1, <1>2, <1>3

LEMMA InOrderStep ==
    ASSUME Typed, Typed', Queue, Current, [Next]_vars
    PROVE  InOrder(last)'
  <1>0. UNCHANGED log /\ Asked
    BY AskedBlocks DEF Current
  <1>. SUFFICES ASSUME NEW w \in Wallet, ~Overtaken(w)', NEW t \in Tx,
                       SetsValidity(t, w)', from' < block'[t],
                       block'[t] <= last'
                PROVE  Top(t, w)'
    BY DEF InOrder
  <1>1. ~Overtaken(w) /\ SetsValidity(t, w)
    BY <1>0, OvertakenStays DEF SetsValidity
  <1>2. Top(t, w) /\ (~Save => block[t] <= last)
    BY <1>1, InOrderBefore
  <1>3. ASSUME NEW i \in DOMAIN calls, ValidateUser(i)
        PROVE  Top(t, w)'
    <2>1. ~Save
      <3>1. UNCHANGED phase
        BY <1>3 DEF ValidateUser, script
      <3>. QED  BY <3>1 DEF Save
    <2>2. w \in log[TxOf(i)].wallets => block[TxOf(i)] > last
      BY <1>0, <1>3, Setting
    <2>3. w \in log[TxOf(i)].wallets => block[TxOf(i)] > block[t]
      <3>1. /\ last \in Nat /\ block[t] \in Nat /\ block[TxOf(i)] \in Nat
        BY SMTT(30), CallTypes DEF Typed, TypeOK
      <3>. QED  BY <1>2, <2>1, <2>2, <3>1
    <2>. QED  BY <1>0, <1>2, <1>3, <2>3, TopSetting
  <1>4. CASE ~\E i \in DOMAIN calls : ValidateUser(i)
    BY <1>0, <1>2, <1>4, TopStays
  <1>. QED  BY <1>3, <1>4

\* In a range a validity is set before those of later blocks are answered.
LEMMA HeadIsNext ==
    ASSUME Typed, Queue, phase = "wait", Head(todo).kind = "valid",
           todo # <<>>, NEW w \in Wallet, NEW t \in Tx, SetsValidity(t, w),
           last < block[t], block[t] <= goal,
           ~InHand([tx |-> t, kind |-> "valid"])
    PROVE  block[Head(todo).tx] > block[t]
  <1>. DEFINE q == [tx |-> t, kind |-> "valid"]
              h == Head(todo)
  <1>1. /\ last + 1 \in Nat \ {0} /\ goal \in Nat /\ block \in [Tx -> Nat]
        /\ Distinct /\ last \in Nat /\ block[t] \in Nat
    BY DEF Typed, TypeOK
  <1>2. q \in Request /\ q.tx = t /\ q.kind = "valid"
    BY DEF Request, Kind
  <1>3. q \in InRange(last + 1, goal)
    <2>1. block[t] \in last + 1 .. goal
      BY <1>1
    <2>. HIDE DEF q
    <2>. QED  BY <1>2, <2>1 DEF InRange, SetsValidity
  <1>4. h \in InRange(last + 1, goal) /\ InHand(h) /\ ~Before(h, q) /\ ~InHand(q)
    BY <1>3, HeadInHand
  <1>. HIDE DEF q, h
  <1>5. Before(q, h)
    BY <1>1, <1>3, <1>4, Ordering
  <1>6. Rank(h.kind) = Rank(q.kind) /\ Rank(q.kind) \in 1 .. 3
    BY <1>2, RankType DEF Kind, h
  <1>. QED  BY <1>1, <1>2, <1>5, <1>6 DEF Before, h

LEMMA RangedAnswered ==
    ASSUME Typed, Queue, Current, Answered, [Next]_vars
    PROVE  Ranged'
  <1>0. TypeOK /\ Asked
    BY DEF Typed, Current
  <1>1. /\ todo \in Seq(Request) /\ todo # <<>> /\ todo' = Tail(todo)
        /\ phase = "wait" /\ phase' = "post" /\ calls # <<>>
        /\ calls[Len(calls)].req = Head(todo)
        /\ calls[Len(calls)].step \in {"done", "false"}
        /\ UNCHANGED <<log, block, last, goal, calls, user>>
    BY DEF Answered, Typed, TypeOK, Waiting, chain, server
  <1>2. Len(todo) \in Nat \ {0} /\ DOMAIN todo = 1 .. Len(todo)
        /\ Head(todo) = todo[1]
    BY <1>1, LenProperties, EmptySeq
  <1>3. /\ todo' \in Seq(Request) /\ Len(todo') = Len(todo) - 1
        /\ \A i \in 1 .. Len(todo') : todo'[i] = todo[i + 1]
    BY <1>1, HeadTailProperties
  <1>4. DOMAIN todo' = 1 .. Len(todo) - 1
    BY <1>3, LenProperties
  <1>. SUFFICES ASSUME NEW w \in Wallet, ~Overtaken(w)', NEW t \in Tx,
                       SetsValidity(t, w)', last' < block'[t],
                       block'[t] <= goal',
                       ~InHand([tx |-> t, kind |-> "valid"])'
                PROVE  Top(t, w)'
    BY DEF Ranged
  <1>5. /\ ~Overtaken(w) /\ SetsValidity(t, w)
        /\ last < block[t] /\ block[t] <= goal
    BY <1>1, OvertakenStays DEF SetsValidity
  <1>6. Top(t, w)
    <2>. DEFINE q == [tx |-> t, kind |-> "valid"]
    <2>1. CASE ~InHand(q)
      BY <1>1, <1>5, <2>1 DEF Current, Ranged
    <2>2. CASE InHand(q)
      <3>1. PICK k \in 1 .. Len(todo) : todo[k] = q
        BY <1>2, <2>2 DEF InHand
      <3>2. k = 1
        <4>1. k # 1 => k - 1 \in DOMAIN todo' /\ k - 1 \in 1 .. Len(todo')
                       /\ k - 1 + 1 = k
          BY <1>2, <1>3, <1>4
        <4>2. k # 1 => todo'[k - 1] = q
          BY <1>3, <3>1, <4>1
        <4>. QED  BY <4>1, <4>2 DEF InHand
      <3>3. Len(calls) \in DOMAIN calls /\ Len(calls) \in Nat
            /\ DOMAIN calls = 1 .. Len(calls)
        <4>1. Len(calls) \in Nat \ {0}
          BY <1>0, <1>1, CallsType, EmptySeq
        <4>. QED  BY <1>0, <4>1, CallsType
      <3>4. calls[Len(calls)].req = q
        BY <1>1, <1>2, <3>1, <3>2
      <3>5. TxOf(Len(calls)) = t /\ calls[Len(calls)].req.kind = "valid"
        BY <3>4 DEF TxOf
      <3>6. calls[Len(calls)].step = "done"
        BY <1>0, <1>1, <3>3, <3>5 DEF Asked
      <3>7. Len(calls) \in Sets(w)
        BY <1>5, <3>3, <3>5, <3>6 DEF Sets, At, SetsValidity
      <3>8. \A i \in Sets(w) : ~(i > Len(calls))
        BY <3>3 DEF Sets
      <3>. QED  BY <3>5, <3>7, <3>8 DEF Top
    <2>. QED  BY <2>1, <2>2
  <1>7. ~\E i \in DOMAIN calls : ValidateUser(i)
    BY <1>1 DEF ValidateUser, script
  <1>. QED  BY <1>0, <1>6, <1>7, TopStays

LEMMA RangedStep ==
    ASSUME Typed, Typed', Queue, Current, [Next]_vars
    PROVE  Ranged'
  <1>0. UNCHANGED log /\ Asked
    BY AskedBlocks DEF Current
  <1>1. CASE Answered
    BY <1>1, RangedAnswered
  <1>2. CASE Boot \/ Refused \/ Timeout \/ ErrorAnswer \/ Save \/ Crash
    <2>1. phase' \in {"poll", "down"}
      BY <1>2 DEF Boot, Refused, Timeout, ErrorAnswer, Save, Crash, GiveUp
    <2>. QED  BY <2>1 DEF Ranged
  <1>3. CASE Poll
    <2>1. /\ goal' \in Nat /\ last + 1 \in Nat \ {0} /\ block \in [Tx -> Nat]
          /\ last \in Nat
      BY <1>3, ConstantsType DEF Poll, Lesser, Typed, TypeOK
    <2>2. /\ UNCHANGED <<block, last>> /\ todo' = Requests(last + 1, goal')
      BY <1>3 DEF Poll, chain
    <2>3. ASSUME NEW t \in Tx, NEW w \in Wallet, SetsValidity(t, w),
                 last < block[t], block[t] <= goal'
          PROVE  InHand([tx |-> t, kind |-> "valid"])'
      <3>. DEFINE q == [tx |-> t, kind |-> "valid"]
      <3>1. q \in Request /\ q.tx = t /\ q.kind = "valid"
        BY DEF Request, Kind
      <3>. HIDE DEF q
      <3>2. block[t] \in last + 1 .. goal'
        BY <2>1, <2>3
      <3>3. q \in InRange(last + 1, goal')
        BY <2>3, <3>1, <3>2 DEF InRange, SetsValidity
      <3>4. \E i \in DOMAIN Requests(last + 1, goal') :
               Requests(last + 1, goal')[i] = q
        BY ZenonT(60), <2>1, <3>3, RequestsComplete DEF Typed
      <3>5. \E i \in DOMAIN todo' : todo'[i] = q
        BY <2>2, <3>4
      <3>. QED  BY <3>5 DEF InHand, q
    <2>. QED  BY <1>0, <2>2, <2>3 DEF Ranged, SetsValidity
  <1>4. CASE \/ Post \/ NoNews \/ UNCHANGED vars
             \/ \E i \in DOMAIN calls : Handle(i)
             \/ \E w \in Wallet : Register(w)
             \/ \E t \in Tx : Mine(t)
    <2>1. /\ UNCHANGED <<last, goal, todo>>
          /\ phase' \in {"post", "wait"} => phase \in {"post", "wait"}
      BY <1>4, Handling
         DEF Typed, Post, NoNews, Register, Mine, vars, script
    <2>. SUFFICES ASSUME phase' \in {"post", "wait"}, NEW w \in Wallet,
                         ~Overtaken(w)', NEW t \in Tx, SetsValidity(t, w)',
                         last' < block'[t], block'[t] <= goal',
                         ~InHand([tx |-> t, kind |-> "valid"])'
                  PROVE  Top(t, w)'
      BY DEF Ranged
    <2>2. ~Overtaken(w) /\ SetsValidity(t, w)
          /\ ~InHand([tx |-> t, kind |-> "valid"])
      BY <1>0, <2>1, OvertakenStays DEF SetsValidity, InHand
    <2>3. block'[t] = block[t]
      <3>1. /\ block'[t] = block[t] \/ block'[t] > head
            /\ goal \in 0 .. head /\ head \in Nat /\ block'[t] \in Nat
        BY SMTT(30), <1>0, AskedBlocks DEF Typed, TypeOK
      <3>. QED  BY <2>1, <3>1
    <2>4. last < block[t] /\ block[t] <= goal
      BY <2>1, <2>3
    <2>5. Top(t, w)
      BY <2>1, <2>2, <2>4 DEF Current, Ranged
    <2>6. ASSUME NEW i \in DOMAIN calls, ValidateUser(i)
          PROVE  Top(t, w)'
      <3>1. w \in log[TxOf(i)].wallets => block[TxOf(i)] > block[t]
        <4>1. calls[i].req.kind = "valid"
          BY <2>6 DEF ValidateUser, At
        <4>2. ASSUME w \in log[TxOf(i)].wallets
              PROVE  /\ phase = "wait" /\ calls[i].req = Head(todo)
                     /\ todo # <<>>
          BY <1>0, <2>6, <4>2, Setting
        <4>. QED  BY <2>2, <2>4, <4>1, <4>2, HeadIsNext DEF TxOf
      <3>. QED  BY <1>0, <2>5, <2>6, <3>1, TopSetting
    <2>7. CASE ~\E i \in DOMAIN calls : ValidateUser(i)
      BY <1>0, <2>5, <2>7, TopStays
    <2>. QED  BY <2>6, <2>7
  <1>. QED  BY <1>1, <1>2, <1>3, <1>4 DEF Next, Listen

LEMMA CurrentStep ==
    Typed /\ Queue /\ Current /\ [Next]_vars => Current'
  <1>. SUFFICES ASSUME Typed, Queue, Current, [Next]_vars  PROVE Current'
    OBVIOUS
  <1>1. Typed'
    BY TypedStep
  <1>2. Asked' /\ LastSet'
    BY <1>1, AskedStep, LastSetStep DEF Current
  <1>3. InOrder(last)' /\ Ranged'
    BY <1>1, InOrderStep, RangedStep
  <1>4. saved' <= last'
    <2>1. /\ last \in Nat /\ saved \in 0 .. head /\ head \in Nat
          /\ goal \in Nat /\ saved <= last
      BY DEF Typed, TypeOK, Current
    <2>2. CASE Boot
      BY <2>1, <2>2 DEF Boot
    <2>3. CASE Save
      BY <2>1, <2>3 DEF Save, Queue
    <2>4. CASE ~Boot /\ ~Save
      <3>1. UNCHANGED <<saved, last>>
        BY <2>4, Handling
           DEF Typed, Next, Mine, Register, Listen, Poll, Post, Refused,
               Timeout, Answered, ErrorAnswer, NoNews, Crash, GiveUp, vars,
               script
      <3>. QED  BY <2>1, <3>1
    <2>. QED  BY <2>2, <2>3, <2>4
  <1>. QED  BY <1>2, <1>3, <1>4 DEF Current

LEMMA CurrentInit == Init => Queue /\ Current
  <1>. SUFFICES ASSUME Init  PROVE Queue /\ Current
    OBVIOUS
  <1>1. DOMAIN calls = {}
    <2>1. calls \in Seq(CallRecord) /\ Len(calls) = 0
      BY EmptySeq DEF Init
    <2>2. DOMAIN calls = 1 .. 0
      BY <2>1, LenProperties
    <2>. QED  BY <2>2
  <1>2. Asked /\ LastSet
    BY <1>1 DEF Asked, LastSet, Sets
  <1>3. InOrder(last) /\ Ranged /\ Queue /\ saved <= last
    BY DEF Init, InOrder, Ranged, Queue
  <1>. QED  BY <1>2, <1>3 DEF Current

\* A user's status is the one the chain set last in the blocks behind the
\* script, for any ranges, refusals, timeouts, restarts and unsaved blocks,
\* but for validities that were given up in progress or set ahead: the script
\* asks in the order of the chain and one at a time.
THEOREM StatusIsTheLatest == Spec => []StatusFollowsChain
  <1>1. Typed /\ Progress /\ Queue /\ Current /\ [Next]_vars
          => Typed' /\ Progress' /\ Queue' /\ Current'
    BY TypedStep, ProgressStep, QueueStep, CurrentStep
  <1>2. ASSUME Typed, Current  PROVE StatusFollowsChain
    <2>. SUFFICES ASSUME NEW w \in Wallet, ~Overtaken(w), ~Ahead(w),
                         NEW t \in Latest(w)
                  PROVE  user[w] = Status(t)
      BY DEF StatusFollowsChain, Status
    <2>1. /\ t \in Tx /\ Behind(t) /\ SetsValidity(t, w)
          /\ \A x \in Tx : Behind(x) /\ SetsValidity(x, w)
                           => block[x] <= block[t]
      BY <1>2 DEF Latest, SetsValidity, Typed, TypeOK, Log
    <2>2. PICK j \in Sets(w) :
             /\ TxOf(j) = t
             /\ \A i \in Sets(w) : i > j => block[TxOf(i)] > block[t]
      BY <1>2, <2>1 DEF Current, InOrder, Top, Behind
    <2>3. ASSUME NEW i \in Sets(w), i > j  PROVE FALSE
      <3>1. /\ TxOf(i) \in Tx /\ SetsValidity(TxOf(i), w)
            /\ block[TxOf(i)] > block[t]
        BY <1>2, <2>2, <2>3, CallTypes
           DEF Sets, Typed, Current, Asked, At, SetsValidity
      <3>2. ~(last < block[TxOf(i)])
        BY DEF Ahead, Sets
      <3>3. /\ last \in Nat /\ from \in Nat /\ block[t] \in Nat
            /\ block[TxOf(i)] \in Nat
        BY <1>2, <2>1, <3>1 DEF Typed, TypeOK
      <3>. QED  BY <2>1, <3>1, <3>2, <3>3 DEF Behind
    <2>4. \A i \in Sets(w) : i <= j
      <3>1. \A i \in Sets(w) : i \in Nat
        BY <1>2, CallTypes DEF Sets, Typed
      <3>. QED  BY <2>3, <3>1
    <2>. QED  BY <1>2, <2>2, <2>4 DEF Current, LastSet
  <1>. QED
    BY <1>1, <1>2, TypedInit, ProgressInit, CurrentInit, PTL DEF Spec

=============================================================================
