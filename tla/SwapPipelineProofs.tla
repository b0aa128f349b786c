------------------------- MODULE SwapPipelineProofs -------------------------
(***************************************************************************)
(* Theorems about SwapPipeline, for any swaps, wallets, runs, managers and *)
(* limits.                                                                 *)
(***************************************************************************)
EXTENDS SwapPipeline, SequenceTheorems, FiniteSetTheorems, TLAPS

LEMMA ConstantsType ==
    /\ Managers \in Nat \ {0} /\ Life \in Nat /\ MaxNow \in Nat
    /\ IsFiniteSet(Swap)
    /\ None \notin Int /\ None \notin Swap /\ None \notin Worker
  BY PipelineAssumption DEF PipelineAssumption

\* Where a run has a message, a call, a transaction.
HasMessage == {"prepare", "estimate", "ack", "nack"}
HasTx      == {"record", "broadcast", "wait"}

Staged(w) ==
    /\ run[w].pc = "idle" => run[w].calls = <<>>
    /\ run[w].pc \in HasMessage <=> run[w].msg # None
    /\ run[w].msg # None => signed[run[w].msg] # None
    /\ run[w].pc = "estimate" =>
          /\ run[w].call \in Call /\ run[w].call.swap = run[w].msg
          /\ ask[run[w].msg].kind = "deposit" => run[w].call.signer \in Manager
    /\ run[w].pc \in HasTx =>
          /\ run[w].tx \in DOMAIN txs
          /\ run[w].calls = txs[run[w].tx].calls

Stages ==
    /\ \A w \in Worker : Staged(w)
    /\ \A i \in DOMAIN queue : signed[queue[i]] # None

Typed == TypeOK /\ Stages

-----------------------------------------------------------------------------
LEMMA RunType ==
    ASSUME Typed, NEW w \in Worker
    PROVE  /\ run[w] \in Run
           /\ run[w].pc \in Labels
           /\ run[w].msg \in Swap \cup {None}
           /\ run[w].call \in Call \cup {None}
           /\ run[w].calls \in Seq(Call)
           /\ run[w].datas \subseteq Swap
           /\ run[w].permits \subseteq Swap
           /\ run[w].last \in Nat \cup {None}
           /\ run[w].mgr \in Manager \cup {None}
           /\ run[w].tx \in Nat
  <1>1. run[w] \in Run
    BY DEF Typed, TypeOK
  <1>. QED  BY <1>1 DEF Run

LEMMA Becoming ==
    ASSUME Typed, NEW w \in Worker, NEW r \in Run, Becomes(w, r)
    PROVE  /\ run' \in [Worker -> Run]
           /\ run'[w] = r
           /\ \A v \in Worker \ {w} : run'[v] = run[v]
  <1>1. run \in [Worker -> Run]
    BY DEF Typed, TypeOK
  <1>. QED  BY <1>1 DEF Becomes

\* A step that changes only the run's position.
LEMMA Going ==
    ASSUME Typed, NEW w \in Worker, NEW step \in Labels, Goto(w, step)
    PROVE  /\ run' \in [Worker -> Run]
           /\ run'[w] = [run[w] EXCEPT !.pc = step]
           /\ run'[w].pc = step
           /\ run'[w].msg = run[w].msg
           /\ run'[w].call = run[w].call
           /\ run'[w].calls = run[w].calls
           /\ run'[w].datas = run[w].datas
           /\ run'[w].tx = run[w].tx
           /\ \A v \in Worker \ {w} : run'[v] = run[v]
  <1>1. run[w] \in Run
    BY RunType
  <1>2. [run[w] EXCEPT !.pc = step] \in Run
    BY <1>1 DEF Run
  <1>3. Becomes(w, [run[w] EXCEPT !.pc = step])
    BY DEF Goto
  <1>4. /\ run' \in [Worker -> Run]
        /\ run'[w] = [run[w] EXCEPT !.pc = step]
        /\ \A v \in Worker \ {w} : run'[v] = run[v]
    BY <1>2, <1>3, Becoming
  <1>. QED  BY <1>1, <1>4 DEF Run

LEMMA IdleType == Idle \in Run
  <1>1. <<>> \in Seq(Call)
    BY EmptySeq
  <1>. QED  BY <1>1 DEF Idle, Run, Labels

\* The runs that do not move stay on their stages.
LEMMA OthersStaged ==
    ASSUME Typed, NEW v \in Worker, run'[v] = run[v], UNCHANGED ask,
           \A s \in Swap : signed[s] # None => signed'[s] # None,
           \A t \in DOMAIN txs : t \in DOMAIN txs' /\ txs'[t].calls = txs[t].calls
    PROVE  Staged(v)'
  <1>1. Staged(v) /\ run[v].msg \in Swap \cup {None}
    BY RunType DEF Typed, Stages
  <1>. QED  BY <1>1 DEF Staged

LEMMA InitType == Init => Typed
  <1>. SUFFICES ASSUME Init  PROVE Typed
    OBVIOUS
  <1>1. TypeOK
    <2>1. queue \in Seq(Swap) /\ txs \in Seq(Transaction) /\ Len(txs) = 0
      BY EmptySeq DEF Init
    <2>2. run \in [Worker -> Run]
      BY IdleType DEF Init
    <2>3. approved \subseteq Swap /\ good \subseteq Swap
      BY DEF Init
    <2>4. index \in Manager
      BY ConstantsType DEF Init, Manager
    <2>. QED  BY <2>1, <2>2, <2>3, <2>4, ConstantsType DEF Init, TypeOK
  <1>2. \A w \in Worker : Staged(w)
    BY DEF Init, Staged, Idle, HasMessage, HasTx
  <1>3. queue = <<>>
    BY DEF Init
  <1>. QED  BY <1>1, <1>2, <1>3 DEF Typed, Stages

-----------------------------------------------------------------------------
(***************************************************************************)
(* The types are kept.                                                     *)
(***************************************************************************)
DataTyped ==
    /\ ask \in [Swap -> Asks]
    /\ signed \in [Swap -> Nat \cup {None}]
    /\ queue \in Seq(Swap)
    /\ lost \subseteq Swap
    /\ status \in [Swap -> {"none", "pending", "failed"}]
    /\ txrow \in [Swap -> 0 .. Len(txs)]
    /\ early \subseteq Swap
    /\ txs \in Seq(Transaction)
    /\ nonce \in [Signer -> Nat]
    /\ paid \in [Swap -> Nat]
    /\ good \subseteq Swap
    /\ approved \subseteq Swap
    /\ index \in Manager
    /\ lock \in Worker \cup {None}
    /\ loaded \in 0 .. MaxNow
    /\ now \in 0 .. MaxNow

LEMMA TypedData == Typed => DataTyped
  BY DEF Typed, TypeOK, DataTyped

\* A step of run w: the data are typed, w is on a stage, and the others'
\* calls, messages and transactions stay.
LEMMA WorkTyped ==
    ASSUME Typed, NEW w \in Worker, DataTyped', Staged(w)',
           run' \in [Worker -> Run], \A v \in Worker \ {w} : run'[v] = run[v],
           UNCHANGED <<ask, signed>>,
           \A t \in DOMAIN txs : t \in DOMAIN txs' /\ txs'[t].calls = txs[t].calls,
           \A i \in DOMAIN queue' : signed[queue'[i]] # None
    PROVE  Typed'
  <1>1. TypeOK'
    BY DEF DataTyped, TypeOK
  <1>2. \A v \in Worker : Staged(v)'
    BY OthersStaged
  <1>. QED  BY <1>1, <1>2 DEF Typed, Stages

\* A transaction that keeps its calls whatever becomes of it.
LEMMA StateChange ==
    ASSUME Typed, NEW t \in DOMAIN txs,
           NEW st \in {"signed", "sent", "mined", "reverted"},
           txs' = [txs EXCEPT ![t].state = st]
    PROVE  /\ txs' \in Seq(Transaction)
           /\ Len(txs') = Len(txs)
           /\ DOMAIN txs' = DOMAIN txs
           /\ txs'[t].state = st
           /\ \A u \in DOMAIN txs : txs'[u].calls = txs[u].calls
           /\ \A u \in DOMAIN txs \ {t} : txs'[u] = txs[u]
  <1>1. txs \in Seq(Transaction) /\ DOMAIN txs = 1 .. Len(txs)
    BY LenProperties DEF Typed, TypeOK
  <1>2. txs[t] \in Transaction
    BY <1>1, ElementOfSeq
  <1>3. [txs[t] EXCEPT !.state = st] \in Transaction
    BY <1>2 DEF Transaction
  <1>4. txs' = [txs EXCEPT ![t] = [txs[t] EXCEPT !.state = st]]
    OBVIOUS
  <1>5. /\ txs' \in Seq(Transaction)
        /\ Len(txs') = Len(txs)
        /\ \A u \in 1 .. Len(txs) :
              txs'[u] = IF u = t THEN [txs[t] EXCEPT !.state = st] ELSE txs[u]
    BY <1>1, <1>3, <1>4, ExceptSeq
  <1>6. DOMAIN txs' = DOMAIN txs
    BY <1>1, <1>4
  <1>7. /\ [txs[t] EXCEPT !.state = st].state = st
        /\ [txs[t] EXCEPT !.state = st].calls = txs[t].calls
    BY <1>2 DEF Transaction
  <1>. QED  BY <1>1, <1>5, <1>6, <1>7

\* Steps that change nothing but the run's position, the lock, the row of
\* a swap, an approval or the manager index.
LEMMA GoTyped ==
    ASSUME Typed, NEW w \in Worker,
           \/ Start(w) \/ NoMessage(w) \/ Throw(w) \/ CheckGas(w)
           \/ SendPermits(w) \/ NoRelayer(w) \/ NotSigned(w) \/ NotRecorded(w)
           \/ Receipt(w)
    PROVE  Typed'
  <1>1. PICK step \in Labels :
            /\ Goto(w, step)
            /\ step \notin HasTx \cup {"idle", "estimate"}
            /\ step \in HasMessage <=> run[w].pc \in HasMessage
    BY DEF Start, NoMessage, Throw, CheckGas, SendPermits, NoRelayer, NotSigned,
           NotRecorded, Receipt, Labels, HasTx, HasMessage, At
  <1>2. UNCHANGED <<ask, signed, queue, lost, txs>>
    BY DEF Start, NoMessage, Throw, CheckGas, SendPermits, NoRelayer, NotSigned,
           NotRecorded, Receipt, messages
  <1>3. DataTyped'
    <2>0. DataTyped
      BY TypedData
    <2>1. CASE Start(w)
      BY <2>0, <2>1 DEF Start, DataTyped, messages, rows, chain, clock
    <2>2. CASE NoMessage(w) \/ CheckGas(w) \/ NoRelayer(w) \/ NotSigned(w)
                 \/ NotRecorded(w)
      BY <2>0, <2>2 DEF NoMessage, CheckGas, NoRelayer, NotSigned, NotRecorded,
                        DataTyped, messages, rows, chain, clock
    <2>3. CASE Throw(w)
      <3>1. status' \in [Swap -> {"none", "pending", "failed"}]
        BY <2>0, <2>3 DEF Throw, DataTyped, Status
      <3>. QED
        BY <2>0, <2>3, <3>1 DEF Throw, DataTyped, messages, chain, clock
    <2>4. CASE SendPermits(w)
      <3>1. approved' \subseteq Swap
        BY <2>0, <2>4, RunType DEF SendPermits, DataTyped
      <3>. QED
        BY <2>0, <2>4, <3>1 DEF SendPermits, DataTyped, messages, rows, clock
    <2>5. CASE Receipt(w)
      <3>1. index' \in Manager
        <4>1. ASSUME run[w].mgr # None
              PROVE  (run[w].mgr + 1) % Managers \in Manager
          BY <4>1, RunType, ConstantsType DEF Manager
        <4>. QED  BY <2>0, <2>5, <4>1 DEF Receipt, DataTyped
      <3>. QED
        BY <2>0, <2>5, <3>1 DEF Receipt, DataTyped, messages, rows, chain, clock
    <2>. QED  BY <2>1, <2>2, <2>3, <2>4, <2>5
  <1>4. /\ run' \in [Worker -> Run]
        /\ run'[w].pc = step /\ run'[w].msg = run[w].msg
        /\ \A v \in Worker \ {w} : run'[v] = run[v]
    BY <1>1, Going
  <1>5. Staged(w)'
    BY <1>1, <1>2, <1>4 DEF Typed, Stages, Staged
  <1>6. \A i \in DOMAIN queue' : signed[queue'[i]] # None
    BY <1>2 DEF Typed, Stages
  <1>. QED  BY <1>2, <1>3, <1>4, <1>5, <1>6, WorkTyped

LEMMA RecordTyped ==
    ASSUME Typed, NEW w \in Worker, Record(w)
    PROVE  Typed'
  <1>1. /\ run' \in [Worker -> Run]
        /\ run'[w].pc = "broadcast" /\ run'[w].msg = run[w].msg
        /\ run'[w].tx = run[w].tx /\ run'[w].calls = run[w].calls
        /\ \A v \in Worker \ {w} : run'[v] = run[v]
    BY Going DEF Record, Labels
  <1>2. UNCHANGED <<ask, signed, queue, lost, txs>>
    BY DEF Record, messages
  <1>3. run[w].tx \in 0 .. Len(txs)
    BY LenProperties DEF Typed, TypeOK, Stages, Staged, HasTx, Record, At
  <1>4. DataTyped'
    BY <1>3, TypedData DEF Record, DataTyped, messages, chain, clock
  <1>5. Staged(w)'
    BY <1>1, <1>2 DEF Record, At, Typed, Stages, Staged, HasTx, HasMessage
  <1>6. \A i \in DOMAIN queue' : signed[queue'[i]] # None
    BY <1>2 DEF Typed, Stages
  <1>. QED  BY <1>1, <1>2, <1>4, <1>5, <1>6, WorkTyped

LEMMA BroadcastTyped ==
    ASSUME Typed, NEW w \in Worker, Broadcast(w) \/ NotBroadcast(w)
    PROVE  Typed'
  <1>1. PICK step \in {"wait", "finish"} : Goto(w, step)
    BY DEF Broadcast, NotBroadcast
  <1>2. /\ run' \in [Worker -> Run]
        /\ run'[w].pc = step /\ run'[w].msg = run[w].msg
        /\ run'[w].tx = run[w].tx /\ run'[w].calls = run[w].calls
        /\ \A v \in Worker \ {w} : run'[v] = run[v]
    BY <1>1, Going DEF Labels
  <1>3. /\ run[w].pc = "broadcast" /\ run[w].tx \in DOMAIN txs
        /\ run[w].calls = txs[run[w].tx].calls /\ run[w].msg = None
    BY DEF Broadcast, NotBroadcast, At, Typed, Stages, Staged, HasTx, HasMessage
  <1>4. txs' = txs \/ txs' = [txs EXCEPT ![run[w].tx].state = "sent"]
    BY DEF Broadcast, NotBroadcast
  <1>5. /\ txs' \in Seq(Transaction) /\ Len(txs') = Len(txs)
        /\ DOMAIN txs' = DOMAIN txs
        /\ \A t \in DOMAIN txs : txs'[t].calls = txs[t].calls
    <2>1. CASE txs' = txs
      BY <2>1 DEF Typed, TypeOK
    <2>2. CASE txs' = [txs EXCEPT ![run[w].tx].state = "sent"]
      BY <1>3, <2>2, StateChange
    <2>. QED  BY <1>4, <2>1, <2>2
  <1>6. UNCHANGED <<ask, signed, queue>>
    BY DEF Broadcast, NotBroadcast, messages
  <1>7. DataTyped'
    BY <1>5, TypedData
       DEF Broadcast, NotBroadcast, DataTyped, messages, rows, chain, clock
  <1>8. Staged(w)'
    BY <1>2, <1>3, <1>5, <1>6 DEF Staged, HasTx, HasMessage
  <1>9. \A i \in DOMAIN queue' : signed[queue'[i]] # None
    BY <1>6 DEF Typed, Stages
  <1>. QED  BY <1>2, <1>5, <1>6, <1>7, <1>8, <1>9, WorkTyped

LEMMA FinishTyped ==
    ASSUME Typed, NEW w \in Worker, Finish(w)
    PROVE  Typed'
  <1>1. /\ run' \in [Worker -> Run] /\ run'[w] = Idle
        /\ \A v \in Worker \ {w} : run'[v] = run[v]
    BY IdleType, Becoming DEF Finish
  <1>2. DataTyped'
    BY TypedData DEF Finish, DataTyped, messages, rows, chain, clock
  <1>3. Staged(w)'
    BY <1>1 DEF Staged, Idle, HasTx, HasMessage
  <1>. QED
    BY <1>1, <1>2, <1>3, WorkTyped DEF Finish, messages, Typed, Stages

\* What a fetched message leaves of the queue.
LEMMA Fetching ==
    ASSUME Typed, NEW w \in Worker, Fetch(w)
    PROVE  /\ run' \in [Worker -> Run]
           /\ run'[w].pc = "prepare" /\ run'[w].msg = queue[1]
           /\ run'[w].calls = run[w].calls /\ run'[w].datas = run[w].datas
           /\ run'[w].tx = run[w].tx
           /\ \A v \in Worker \ {w} : run'[v] = run[v]
           /\ queue[1] \in Swap /\ 1 \in DOMAIN queue
           /\ queue' \in Seq(Swap)
           /\ \A i \in DOMAIN queue' : i + 1 \in DOMAIN queue
                                         /\ queue'[i] = queue[i + 1]
  <1>1. queue \in Seq(Swap) /\ queue # <<>> /\ queue' = Tail(queue)
    BY DEF Typed, TypeOK, Fetch
  <1>2. /\ Len(queue) \in Nat \ {0} /\ DOMAIN queue = 1 .. Len(queue)
        /\ Head(queue) = queue[1] /\ queue[1] \in Swap
    BY <1>1, LenProperties, EmptySeq, ElementOfSeq
  <1>3. /\ queue' \in Seq(Swap) /\ Len(queue') = Len(queue) - 1
        /\ \A i \in 1 .. Len(queue') : queue'[i] = queue[i + 1]
    BY <1>1, HeadTailProperties
  <1>4. DOMAIN queue' = 1 .. Len(queue')
    BY <1>3, LenProperties
  <1>. DEFINE r == [run[w] EXCEPT !.pc = "prepare", !.msg = Head(queue)]
  <1>5. run[w] \in Run
    BY RunType
  <1>6. r \in Run
    BY <1>2, <1>5 DEF Run, Labels
  <1>7. /\ r.pc = "prepare" /\ r.msg = queue[1]
        /\ r.calls = run[w].calls /\ r.datas = run[w].datas
        /\ r.tx = run[w].tx
    BY <1>2, <1>5 DEF Run
  <1>8. Becomes(w, r)
    BY DEF Fetch
  <1>. HIDE DEF r
  <1>9. /\ run' \in [Worker -> Run] /\ run'[w] = r
        /\ \A v \in Worker \ {w} : run'[v] = run[v]
    BY <1>6, <1>8, Becoming
  <1>. QED  BY <1>2, <1>3, <1>4, <1>7, <1>9

LEMMA FetchTyped ==
    ASSUME Typed, NEW w \in Worker, Fetch(w)
    PROVE  Typed'
  <1>1. DataTyped'
    BY Fetching, TypedData DEF Fetch, DataTyped, rows, chain, clock
  <1>2. UNCHANGED <<ask, signed, txs>>
    BY DEF Fetch
  <1>3. signed[queue[1]] # None
    BY Fetching DEF Typed, Stages
  <1>4. queue[1] # None
    BY Fetching, ConstantsType
  <1>5. Staged(w)'
    BY <1>2, <1>3, <1>4, Fetching DEF Staged, HasTx, HasMessage
  <1>6. \A i \in DOMAIN queue' : signed[queue'[i]] # None
    BY Fetching DEF Typed, Stages
  <1>. QED  BY <1>1, <1>2, <1>5, <1>6, Fetching, WorkTyped

\* The call that a preparation makes.
LEMMA Preparing ==
    ASSUME Typed, NEW w \in Worker, PrepareDeposit(w) \/ PrepareWithdraw(w)
    PROVE  /\ run' \in [Worker -> Run]
           /\ run[w].pc = "prepare" /\ run[w].msg \in Swap
           /\ run'[w].pc = "estimate" /\ run'[w].msg = run[w].msg
           /\ run'[w].call \in Call /\ run'[w].call.swap = run[w].msg
           /\ ask[run[w].msg].kind = "deposit" => run'[w].call.signer \in Manager
           /\ run'[w].calls = run[w].calls /\ run'[w].datas = run[w].datas
           /\ run'[w].tx = run[w].tx
           /\ \A v \in Worker \ {w} : run'[v] = run[v]
           /\ UNCHANGED <<messages, rows, txs, chain, index, lock, clock>>
  <1>0. /\ run[w].pc = "prepare" /\ run[w].msg # None
        /\ signed[run[w].msg] # None
    BY DEF PrepareDeposit, PrepareWithdraw, At, Typed, Stages, Staged, HasMessage
  <1>1. run[w].msg \in Swap
    BY <1>0, RunType
  <1>2. run[w] \in Run
    BY RunType
  <1>3. PICK c \in Call, p \in SUBSET Swap :
            /\ c.swap = run[w].msg
            /\ ask[run[w].msg].kind = "deposit" => c.signer \in Manager
            /\ Becomes(w, [run[w] EXCEPT !.pc = "estimate", !.permits = p,
                                         !.call = c])
    <2>1. CASE PrepareDeposit(w)
      <3>. DEFINE m == IF run[w].mgr = None THEN index ELSE run[w].mgr
                  n == IF run[w].last = None THEN nonce[m] ELSE run[w].last + 1
                  c == [swap |-> run[w].msg, signer |-> m, nonce |-> n,
                        until |-> loaded + Life]
      <3>1. m \in Manager /\ m \in Signer
        BY RunType DEF Typed, TypeOK, Signer
      <3>2. n \in Nat
        <4>1. nonce[m] \in Nat
          BY <3>1 DEF Typed, TypeOK
        <4>. QED  BY <4>1, RunType
      <3>3. loaded + Life \in Nat
        BY ConstantsType DEF Typed, TypeOK
      <3>4. Becomes(w, [run[w] EXCEPT !.pc = "estimate", !.call = c])
        BY <2>1 DEF PrepareDeposit
      <3>. HIDE DEF m, n
      <3>5. c \in Call
        BY <1>1, <3>1, <3>2, <3>3 DEF Call
      <3>6. c.swap = run[w].msg /\ c.signer \in Manager
        BY <3>1
      <3>. HIDE DEF c
      <3>7. [run[w] EXCEPT !.pc = "estimate", !.call = c] =
              [run[w] EXCEPT !.pc = "estimate", !.permits = run[w].permits,
                             !.call = c]
        BY <1>2 DEF Run
      <3>. QED  BY <3>4, <3>5, <3>6, <3>7, RunType
    <2>2. CASE PrepareWithdraw(w)
      <3>. DEFINE p == IF ask[run[w].msg].permit = "signed"
                       THEN run[w].permits \cup {run[w].msg} ELSE run[w].permits
                  c == [swap |-> run[w].msg, signer |-> ask[run[w].msg].owner,
                        nonce |-> signed[run[w].msg], until |-> MaxNow]
      <3>1. ask[run[w].msg].owner \in Signer
        BY <1>1 DEF Typed, TypeOK, Asks, Signer
      <3>2. signed[run[w].msg] \in Nat
        BY <1>0, <1>1 DEF Typed, TypeOK
      <3>3. c \in Call
        BY <1>1, <3>1, <3>2, ConstantsType DEF Call
      <3>4. c.swap = run[w].msg /\ ask[run[w].msg].kind # "deposit"
        BY <2>2 DEF PrepareWithdraw
      <3>5. p \in SUBSET Swap
        BY <1>1, RunType
      <3>6. Becomes(w, [run[w] EXCEPT !.pc = "estimate", !.permits = p, !.call = c])
        BY <2>2 DEF PrepareWithdraw
      <3>. QED  BY <3>3, <3>4, <3>5, <3>6
    <2>. QED  BY <2>1, <2>2
  <1>. DEFINE r == [run[w] EXCEPT !.pc = "estimate", !.permits = p, !.call = c]
  <1>4. r \in Run
    BY <1>2 DEF Run, Labels
  <1>5. /\ r.pc = "estimate" /\ r.msg = run[w].msg /\ r.call = c
        /\ r.calls = run[w].calls /\ r.datas = run[w].datas
        /\ r.tx = run[w].tx
    BY <1>2 DEF Run
  <1>6. Becomes(w, r)
    BY <1>3
  <1>. HIDE DEF r
  <1>7. /\ run' \in [Worker -> Run] /\ run'[w] = r
        /\ \A v \in Worker \ {w} : run'[v] = run[v]
    BY <1>4, <1>6, Becoming
  <1>8. UNCHANGED <<messages, rows, txs, chain, index, lock, clock>>
    BY DEF PrepareDeposit, PrepareWithdraw
  <1>. QED  BY <1>0, <1>1, <1>3, <1>5, <1>7, <1>8

LEMMA PrepareTyped ==
    ASSUME Typed, NEW w \in Worker, PrepareDeposit(w) \/ PrepareWithdraw(w)
    PROVE  Typed'
  <1>1. DataTyped'
    BY Preparing, TypedData DEF DataTyped, messages, rows, chain, clock
  <1>2. UNCHANGED <<ask, signed, queue, txs>>
    BY Preparing DEF messages
  <1>3. run[w].msg # None /\ signed[run[w].msg] # None
    BY Preparing DEF Typed, Stages, Staged, HasMessage
  <1>4. Staged(w)'
    BY <1>2, <1>3, Preparing DEF Staged, HasTx, HasMessage
  <1>. QED
    BY <1>1, <1>2, <1>4, Preparing, WorkTyped DEF Typed, Stages

\* A message that is put back at the head of the queue.
LEMMA PuttingBack ==
    ASSUME Typed, NEW s \in Swap, queue' = <<s>> \o queue
    PROVE  /\ queue' \in Seq(Swap)
           /\ 1 \in DOMAIN queue' /\ queue'[1] = s
           /\ \A i \in DOMAIN queue' \ {1} :
                 i - 1 \in DOMAIN queue /\ queue'[i] = queue[i - 1]
  <1>1. queue \in Seq(Swap) /\ <<s>> \in Seq(Swap) /\ Len(<<s>>) = 1
    BY DEF Typed, TypeOK
  <1>2. /\ queue' \in Seq(Swap) /\ Len(queue') = 1 + Len(queue)
        /\ \A i \in 1 .. 1 + Len(queue) :
              queue'[i] = IF i <= 1 THEN <<s>>[i] ELSE queue[i - 1]
    BY <1>1, ConcatProperties
  <1>3. /\ DOMAIN queue = 1 .. Len(queue) /\ DOMAIN queue' = 1 .. Len(queue')
        /\ Len(queue) \in Nat
    BY <1>1, <1>2, LenProperties
  <1>. QED  BY <1>2, <1>3

\* A run that gives its message up: it is not on the stages that have one.
LEMMA Dropping ==
    ASSUME Typed, NEW w \in Worker, Nack(w) \/ Ack(w) \/ AckLost(w)
    PROVE  /\ run' \in [Worker -> Run]
           /\ run[w].pc \in {"nack", "ack"} /\ run[w].msg \in Swap
           /\ signed[run[w].msg] # None
           /\ run'[w].pc \in {"fetch", "gas", "permit"} /\ run'[w].msg = None
           /\ run'[w].calls = run[w].calls /\ run'[w].datas = run[w].datas
           /\ run'[w].tx = run[w].tx
           /\ \A v \in Worker \ {w} : run'[v] = run[v]
  <1>1. run[w] \in Run /\ run[w].msg \in Swap \cup {None}
    BY RunType
  <1>2. PICK step \in {"fetch", "gas", "permit"} :
            Becomes(w, [run[w] EXCEPT !.pc = step, !.msg = None])
    BY DEF Nack, Ack, AckLost
  <1>. DEFINE r == [run[w] EXCEPT !.pc = step, !.msg = None]
  <1>3. r \in Run
    BY <1>1 DEF Run, Labels
  <1>4. /\ r.pc = step /\ r.msg = None
        /\ r.calls = run[w].calls /\ r.datas = run[w].datas
        /\ r.tx = run[w].tx
    BY <1>1 DEF Run
  <1>5. Becomes(w, r)
    BY <1>2
  <1>. HIDE DEF r
  <1>6. /\ run' \in [Worker -> Run] /\ run'[w] = r
        /\ \A v \in Worker \ {w} : run'[v] = run[v]
    BY <1>3, <1>5, Becoming
  <1>7. /\ run[w].pc \in {"nack", "ack"} /\ run[w].msg # None
        /\ signed[run[w].msg] # None
    BY DEF Nack, Ack, AckLost, At, Typed, Stages, Staged, HasMessage
  <1>. QED  BY <1>1, <1>4, <1>6, <1>7

LEMMA DropTyped ==
    ASSUME Typed, NEW w \in Worker, Nack(w) \/ Ack(w) \/ AckLost(w)
    PROVE  Typed'
  <1>1. UNCHANGED <<ask, signed, txs>>
    BY DEF Nack, Ack, AckLost, messages
  <1>2. Staged(w)'
    BY <1>1, Dropping DEF Staged, HasTx, HasMessage
  <1>3. /\ queue' \in Seq(Swap)
        /\ \A i \in DOMAIN queue' : signed[queue'[i]] # None
    <2>1. CASE Ack(w)
      BY <2>1 DEF Ack, messages, Typed, TypeOK, Stages
    <2>2. CASE Nack(w) \/ AckLost(w)
      <3>1. queue' = <<run[w].msg>> \o queue /\ run[w].msg \in Swap
        BY <2>2, Dropping DEF Nack, AckLost
      <3>. QED  BY <3>1, PuttingBack, Dropping DEF Typed, Stages
    <2>. QED  BY <2>1, <2>2
  <1>4. lost' \subseteq Swap
    BY ZenonT(60), TypedData, Dropping DEF Nack, Ack, AckLost, messages, DataTyped
  <1>5. DataTyped'
    BY <1>3, <1>4, TypedData
       DEF Nack, Ack, AckLost, DataTyped, messages, rows, chain, clock
  <1>. QED  BY <1>1, <1>2, <1>3, <1>5, Dropping, WorkTyped

\* A call that joins those collected.
LEMMA Collecting ==
    ASSUME Typed, NEW w \in Worker, Estimated(w)
    PROVE  /\ run' \in [Worker -> Run]
           /\ run[w].pc = "estimate" /\ run[w].msg \in Swap
           /\ run'[w].pc = "ack" /\ run'[w].msg = run[w].msg
           /\ run'[w].calls = Append(run[w].calls, run[w].call)
           /\ Len(run'[w].calls) = Len(run[w].calls) + 1
           /\ DOMAIN run'[w].calls = 1 .. Len(run[w].calls) + 1
           /\ DOMAIN run[w].calls = 1 .. Len(run[w].calls)
           /\ Len(run[w].calls) \in Nat
           /\ \A i \in 1 .. Len(run[w].calls) : run'[w].calls[i] = run[w].calls[i]
           /\ run'[w].calls[Len(run[w].calls) + 1].swap = run[w].msg
           /\ run'[w].datas = run[w].datas \cup {run[w].msg}
           /\ \A v \in Worker \ {w} : run'[v] = run[v]
  <1>1. run[w] \in Run
    BY RunType
  <1>2. /\ run[w].pc = "estimate" /\ run[w].msg # None
        /\ run[w].call \in Call /\ run[w].call.swap = run[w].msg
    BY DEF Estimated, At, Typed, Stages, Staged, HasMessage
  <1>3. run[w].msg \in Swap /\ run[w].calls \in Seq(Call)
    BY <1>2, RunType
  <1>4. PICK n \in Nat \cup {None}, m \in Manager \cup {None} :
            Becomes(w, [run[w] EXCEPT
               !.pc = "ack",
               !.call = None,
               !.calls = Append(run[w].calls, run[w].call),
               !.datas = run[w].datas \cup {run[w].msg},
               !.last = n, !.mgr = m])
    <2>1. CASE ask[run[w].msg].kind = "deposit"
      <3>1. run[w].call.nonce \in Nat \cup {None}
        BY <1>2 DEF Call
      <3>2. run[w].call.signer \in Manager \cup {None}
        BY <1>2, <2>1 DEF Typed, Stages, Staged
      <3>. QED  BY <2>1, <3>1, <3>2 DEF Estimated
    <2>2. CASE ask[run[w].msg].kind # "deposit"
      BY <2>2, RunType DEF Estimated
    <2>. QED  BY <2>1, <2>2
  <1>. DEFINE calls == Append(run[w].calls, run[w].call)
              datas == run[w].datas \cup {run[w].msg}
  <1>5. /\ calls \in Seq(Call) /\ Len(calls) = Len(run[w].calls) + 1
        /\ \A i \in 1 .. Len(run[w].calls) : calls[i] = run[w].calls[i]
        /\ calls[Len(run[w].calls) + 1] = run[w].call
    BY <1>2, <1>3, AppendProperties
  <1>6. /\ DOMAIN calls = 1 .. Len(calls)
        /\ DOMAIN run[w].calls = 1 .. Len(run[w].calls)
        /\ Len(run[w].calls) \in Nat
    BY <1>3, <1>5, LenProperties
  <1>7. datas \subseteq Swap
    BY <1>3, RunType
  <1>8. calls = Append(run[w].calls, run[w].call)
        /\ datas = run[w].datas \cup {run[w].msg}
    OBVIOUS
  <1>. HIDE DEF calls, datas
  <1>. DEFINE r == [run[w] EXCEPT !.pc = "ack", !.call = None, !.calls = calls,
                                  !.datas = datas, !.last = n, !.mgr = m]
  <1>9. r \in Run
    BY <1>1, <1>5, <1>7 DEF Run, Labels
  <1>10. r.pc = "ack" /\ r.msg = run[w].msg /\ r.calls = calls /\ r.datas = datas
    BY <1>1 DEF Run
  <1>11. Becomes(w, r)
    BY <1>4, <1>8
  <1>. HIDE DEF r
  <1>12. /\ run' \in [Worker -> Run] /\ run'[w] = r
         /\ \A v \in Worker \ {w} : run'[v] = run[v]
    BY <1>9, <1>11, Becoming
  <1>. QED  BY <1>2, <1>3, <1>5, <1>6, <1>8, <1>10, <1>12

LEMMA CollectTyped ==
    ASSUME Typed, NEW w \in Worker, Estimated(w)
    PROVE  Typed'
  <1>1. UNCHANGED <<ask, signed, queue, txs>>
    BY DEF Estimated, messages
  <1>2. DataTyped'
    BY TypedData DEF Estimated, DataTyped, messages, rows, chain, clock
  <1>3. run[w].msg # None /\ signed[run[w].msg] # None
    BY Collecting DEF Typed, Stages, Staged, HasMessage
  <1>4. Staged(w)'
    BY <1>1, <1>3, Collecting DEF Staged, HasTx, HasMessage
  <1>. QED  BY <1>1, <1>2, <1>4, Collecting, WorkTyped DEF Typed, Stages

\* A refused message: it counts as processed, or is put back.
LEMMA Refusing ==
    ASSUME Typed, NEW w \in Worker, Refused(w) \/ NotMarked(w)
    PROVE  /\ run' \in [Worker -> Run]
           /\ run[w].pc = "estimate" /\ run[w].msg \in Swap
           /\ run'[w].pc \in {"ack", "nack"} /\ run'[w].msg = run[w].msg
           /\ run'[w].calls = run[w].calls
           /\ Refused(w) => run'[w].datas = run[w].datas \cup {run[w].msg}
           /\ ~Refused(w) => run'[w].datas = run[w].datas
           /\ \A v \in Worker \ {w} : run'[v] = run[v]
           /\ status' \in {status, Status(run[w].msg, "failed")}
           /\ status' \in [Swap -> {"none", "pending", "failed"}]
           /\ UNCHANGED <<messages, txrow, txs, chain, index, lock, clock>>
  <1>1. run[w] \in Run
    BY RunType
  <1>2. run[w].pc = "estimate" /\ run[w].msg # None
    BY DEF Refused, NotMarked, At, Typed, Stages, Staged, HasMessage
  <1>3. run[w].msg \in Swap
    BY <1>2, RunType
  <1>4. PICK step \in {"ack", "nack"}, D \in SUBSET Swap :
            /\ Becomes(w, [run[w] EXCEPT !.pc = step, !.call = None, !.datas = D])
            /\ Refused(w) => D = run[w].datas \cup {run[w].msg}
            /\ ~Refused(w) => D = run[w].datas
    <2>1. CASE Refused(w)
      <3>1. run[w].datas \cup {run[w].msg} \in SUBSET Swap
        BY <1>3, RunType
      <3>2. Becomes(w, [run[w] EXCEPT !.pc = "ack", !.call = None,
                           !.datas = run[w].datas \cup {run[w].msg}])
        BY <2>1 DEF Refused
      <3>. QED  BY <2>1, <3>1, <3>2
    <2>2. CASE ~Refused(w)
      <3>1. Becomes(w, [run[w] EXCEPT !.pc = "nack", !.call = None])
        BY <2>2 DEF NotMarked
      <3>2. [run[w] EXCEPT !.pc = "nack", !.call = None] =
              [run[w] EXCEPT !.pc = "nack", !.call = None, !.datas = run[w].datas]
        BY <1>1 DEF Run
      <3>. QED  BY <2>2, <3>1, <3>2, RunType
    <2>. QED  BY <2>1, <2>2
  <1>. DEFINE r == [run[w] EXCEPT !.pc = step, !.call = None, !.datas = D]
  <1>5. r \in Run
    BY <1>1 DEF Run, Labels
  <1>6. /\ r.pc = step /\ r.msg = run[w].msg /\ r.calls = run[w].calls
        /\ r.datas = D
    BY <1>1 DEF Run
  <1>7. Becomes(w, r)
    BY <1>4
  <1>. HIDE DEF r
  <1>8. /\ run' \in [Worker -> Run] /\ run'[w] = r
        /\ \A v \in Worker \ {w} : run'[v] = run[v]
    BY <1>5, <1>7, Becoming
  <1>9. status' \in {status, Status(run[w].msg, "failed")}
    BY DEF Refused, NotMarked
  <1>10. status' \in [Swap -> {"none", "pending", "failed"}]
    BY <1>3, <1>9 DEF Status, Typed, TypeOK
  <1>11. UNCHANGED <<messages, txrow, txs, chain, index, lock, clock>>
    BY DEF Refused, NotMarked
  <1>. QED  BY <1>2, <1>3, <1>4, <1>6, <1>8, <1>9, <1>10, <1>11

LEMMA RefuseTyped ==
    ASSUME Typed, NEW w \in Worker, Refused(w) \/ NotMarked(w)
    PROVE  Typed'
  <1>1. UNCHANGED <<ask, signed, queue, txs>>
    BY Refusing DEF messages
  <1>2. early' \subseteq Swap
    <2>1. early \subseteq Swap /\ run[w].msg \in Swap
      BY Refusing, TypedData DEF DataTyped
    <2>2. early' = early \/ early' = Early(run[w].msg)
      BY DEF Refused, NotMarked
    <2>. QED  BY <2>1, <2>2 DEF Early
  <1>3. DataTyped'
    BY <1>2, Refusing, TypedData DEF DataTyped, messages, chain, clock
  <1>4. run[w].msg # None /\ signed[run[w].msg] # None
    BY Refusing DEF Typed, Stages, Staged, HasMessage
  <1>5. Staged(w)'
    BY <1>1, <1>4, Refusing DEF Staged, HasTx, HasMessage
  <1>. QED  BY <1>1, <1>3, <1>5, Refusing, WorkTyped DEF Typed, Stages

\* The collected calls become a transaction.
LEMMA Signing ==
    ASSUME Typed, NEW w \in Worker, Sign(w)
    PROVE  /\ run' \in [Worker -> Run]
           /\ run[w].pc = "send" /\ run[w].msg = None
           /\ run'[w].pc = "record" /\ run'[w].msg = None
           /\ run'[w].calls = run[w].calls /\ run'[w].datas = run[w].datas
           /\ run'[w].tx = Len(txs) + 1
           /\ \A v \in Worker \ {w} : run'[v] = run[v]
           /\ txs' \in Seq(Transaction)
           /\ Len(txs') = Len(txs) + 1 /\ Len(txs) \in Nat
           /\ DOMAIN txs = 1 .. Len(txs) /\ DOMAIN txs' = 1 .. Len(txs) + 1
           /\ \A t \in 1 .. Len(txs) : txs'[t] = txs[t]
           /\ txs'[Len(txs) + 1].calls = run[w].calls
           /\ txs'[Len(txs) + 1].state = "signed"
           /\ UNCHANGED <<messages, rows, chain, index, lock, clock>>
  <1>1. run[w] \in Run /\ txs \in Seq(Transaction)
    BY RunType DEF Typed, TypeOK
  <1>2. run[w].pc = "send" /\ run[w].msg = None
    BY DEF Sign, At, Typed, Stages, Staged, HasMessage
  <1>3. [calls |-> run[w].calls, state |-> "signed"] \in Transaction
    BY RunType DEF Transaction
  <1>4. /\ txs' \in Seq(Transaction) /\ Len(txs') = Len(txs) + 1
        /\ \A t \in 1 .. Len(txs) : txs'[t] = txs[t]
        /\ txs'[Len(txs) + 1] = [calls |-> run[w].calls, state |-> "signed"]
    BY <1>1, <1>3, AppendProperties DEF Sign
  <1>5. /\ Len(txs) \in Nat /\ DOMAIN txs = 1 .. Len(txs)
        /\ DOMAIN txs' = 1 .. Len(txs) + 1
    BY <1>1, <1>4, LenProperties
  <1>. DEFINE n == Len(txs) + 1
              r == [run[w] EXCEPT !.pc = "record", !.tx = n]
  <1>n. n = Len(txs) + 1 /\ n \in Nat
    BY <1>5
  <1>. HIDE DEF n
  <1>6. r \in Run
    BY <1>1, <1>n DEF Run, Labels
  <1>7. /\ r.pc = "record" /\ r.msg = run[w].msg /\ r.calls = run[w].calls
        /\ r.datas = run[w].datas /\ r.tx = n
    BY <1>1 DEF Run
  <1>8. Becomes(w, r)
    BY <1>n DEF Sign
  <1>. HIDE DEF r
  <1>9. /\ run' \in [Worker -> Run] /\ run'[w] = r
        /\ \A v \in Worker \ {w} : run'[v] = run[v]
    BY <1>6, <1>8, Becoming
  <1>10. UNCHANGED <<messages, rows, chain, index, lock, clock>>
    BY DEF Sign
  <1>. QED  BY <1>2, <1>4, <1>5, <1>n, <1>7, <1>9, <1>10

LEMMA SignTyped ==
    ASSUME Typed, NEW w \in Worker, Sign(w)
    PROVE  Typed'
  <1>1. UNCHANGED <<ask, signed, queue>>
    BY Signing DEF messages
  <1>2. txrow' \in [Swap -> 0 .. Len(txs')]
    <2>1. txrow \in [Swap -> 0 .. Len(txs)]
      BY DEF Typed, TypeOK
    <2>2. txrow' = txrow /\ Len(txs') = Len(txs) + 1 /\ Len(txs) \in Nat
      BY Signing DEF rows
    <2>. QED  BY <2>1, <2>2
  <1>3. DataTyped'
    BY <1>2, Signing, TypedData DEF DataTyped, messages, rows, chain, clock
  <1>4. Staged(w)'
    BY Signing DEF Staged, HasTx, HasMessage
  <1>5. \A t \in DOMAIN txs : t \in DOMAIN txs' /\ txs'[t].calls = txs[t].calls
    BY Signing
  <1>. QED  BY <1>1, <1>3, <1>4, <1>5, Signing, WorkTyped DEF Typed, Stages

LEMMA WorkStepTyped ==
    ASSUME Typed, NEW w \in Worker, Work(w)
    PROVE  Typed'
  BY GoTyped, RecordTyped, BroadcastTyped, FinishTyped, FetchTyped,
     PrepareTyped, DropTyped, CollectTyped, RefuseTyped, SignTyped DEF Work

-----------------------------------------------------------------------------
\* The environment: no run moves, but all of them in a crash.
LEMMA StillTyped ==
    ASSUME Typed, DataTyped', UNCHANGED <<ask, run>>,
           \A s \in Swap : signed[s] # None => signed'[s] # None,
           \A t \in DOMAIN txs : t \in DOMAIN txs' /\ txs'[t].calls = txs[t].calls,
           \A i \in DOMAIN queue' : signed'[queue'[i]] # None
    PROVE  Typed'
  <1>1. TypeOK'
    BY DEF DataTyped, Typed, TypeOK
  <1>2. \A v \in Worker : Staged(v)'
    BY OthersStaged
  <1>. QED  BY <1>1, <1>2 DEF Typed, Stages

\* A message that is appended to the queue.
LEMMA Publishing ==
    ASSUME Typed, NEW s \in Swap, Publish(s)
    PROVE  /\ signed[s] = None /\ signed'[s] \in Nat
           /\ signed' = [signed EXCEPT ![s] = signed'[s]]
           /\ queue' \in Seq(Swap) /\ Len(queue) \in Nat
           /\ DOMAIN queue = 1 .. Len(queue)
           /\ DOMAIN queue' = 1 .. Len(queue) + 1
           /\ \A i \in 1 .. Len(queue) : queue'[i] = queue[i]
           /\ queue'[Len(queue) + 1] = s
  <1>1. queue \in Seq(Swap) /\ queue' = Append(queue, s)
    BY DEF Typed, TypeOK, Publish
  <1>2. /\ queue' \in Seq(Swap) /\ Len(queue') = Len(queue) + 1
        /\ \A i \in 1 .. Len(queue) : queue'[i] = queue[i]
        /\ queue'[Len(queue) + 1] = s
    BY <1>1, AppendProperties
  <1>3. /\ Len(queue) \in Nat /\ DOMAIN queue = 1 .. Len(queue)
        /\ DOMAIN queue' = 1 .. Len(queue) + 1
    BY <1>1, <1>2, LenProperties
  <1>4. nonce[ask[s].owner] \in Nat
    BY DEF Typed, TypeOK, Asks, Signer
  <1>5. signed' = [signed EXCEPT ![s] = nonce[ask[s].owner]] /\ signed[s] = None
    BY DEF Publish
  <1>6. signed'[s] = nonce[ask[s].owner]
    BY <1>5 DEF Typed, TypeOK
  <1>. QED  BY <1>2, <1>3, <1>4, <1>5, <1>6

LEMMA PublishTyped ==
    ASSUME Typed, NEW s \in Swap, Publish(s)
    PROVE  Typed'
  <1>1. signed' \in [Swap -> Nat \cup {None}]
    BY Publishing DEF Typed, TypeOK
  <1>2. status' \in [Swap -> {"none", "pending", "failed"}]
    BY TypedData DEF Publish, DataTyped
  <1>3. DataTyped'
    BY <1>1, <1>2, Publishing, TypedData DEF Publish, DataTyped, chain, clock
  <1>4. \A p \in Swap : signed[p] # None => signed'[p] # None
    BY Publishing, ConstantsType DEF Typed, TypeOK
  <1>5. \A i \in DOMAIN queue' : signed'[queue'[i]] # None
    <2>1. ASSUME NEW i \in 1 .. Len(queue)  PROVE signed'[queue'[i]] # None
      <3>1. queue[i] \in Swap /\ signed[queue[i]] # None
        BY Publishing, ElementOfSeq DEF Typed, TypeOK, Stages
      <3>. QED  BY <1>4, <3>1, Publishing
    <2>2. signed'[queue'[Len(queue) + 1]] # None
      BY Publishing, ConstantsType
    <2>. QED  BY <2>1, <2>2, Publishing
  <1>. QED
    BY <1>3, <1>4, <1>5, StillTyped DEF Publish

LEMMA FiniteCalls ==
    ASSUME NEW calls \in Seq(Call), NEW I \in SUBSET DOMAIN calls
    PROVE  IsFiniteSet(I) /\ Cardinality(I) \in Nat
  <1>1. DOMAIN calls = 1 .. Len(calls) /\ Len(calls) \in Nat
    BY LenProperties
  <1>2. IsFiniteSet(1 .. Len(calls))
    BY <1>1, FS_Interval
  <1>. QED  BY <1>1, <1>2, FS_Subset, FS_CardinalityType

LEMMA TxType ==
    ASSUME Typed, NEW t \in DOMAIN txs
    PROVE  txs[t] \in Transaction /\ txs[t].calls \in Seq(Call)
  <1>1. txs[t] \in Transaction
    BY ElementOfSeq, LenProperties DEF Typed, TypeOK
  <1>. QED  BY <1>1 DEF Transaction

LEMMA MineTyped ==
    ASSUME Typed, NEW t \in DOMAIN txs, Mine(t)
    PROVE  Typed'
  <1>1. PICK st \in {"mined", "reverted"} : txs' = [txs EXCEPT ![t].state = st]
    BY DEF Mine
  <1>2. /\ txs' \in Seq(Transaction) /\ Len(txs') = Len(txs)
        /\ DOMAIN txs' = DOMAIN txs
        /\ \A u \in DOMAIN txs : txs'[u].calls = txs[u].calls
    BY <1>1, StateChange
  <1>3. nonce' \in [Signer -> Nat] /\ paid' \in [Swap -> Nat]
    <2>1. CASE Accepted(txs[t].calls)
      <3>1. \A I \in SUBSET DOMAIN txs[t].calls : Cardinality(I) \in Nat
        BY FiniteCalls, TxType
      <3>2. nonce' \in [Signer -> Nat]
        <4>1. \A a \in Signer : Cardinality(CallsOf(a, txs[t].calls)) \in Nat
          BY <3>1 DEF CallsOf
        <4>2. nonce \in [Signer -> Nat]
          BY DEF Typed, TypeOK
        <4>3. nonce' = [a \in Signer |->
                            nonce[a] + Cardinality(CallsOf(a, txs[t].calls))]
          BY <2>1 DEF Mine
        <4>. QED  BY <4>1, <4>2, <4>3
      <3>3. paid' \in [Swap -> Nat]
        <4>. DEFINE times(s) == Cardinality({i \in DOMAIN txs[t].calls :
                                                txs[t].calls[i].swap = s})
        <4>1. \A s \in Swap : times(s) \in Nat
          BY <3>1
        <4>2. paid \in [Swap -> Nat]
          BY DEF Typed, TypeOK
        <4>3. paid' = [s \in Swap |-> paid[s] + times(s)]
          BY <2>1 DEF Mine
        <4>. HIDE DEF times
        <4>. QED  BY <4>1, <4>2, <4>3
      <3>. QED  BY <3>2, <3>3
    <2>2. CASE ~Accepted(txs[t].calls)
      BY <2>2 DEF Mine, Typed, TypeOK
    <2>. QED  BY <2>1, <2>2
  <1>4. UNCHANGED <<messages, rows, good, approved, index, lock, clock, run>>
    BY DEF Mine
  <1>5. DataTyped'
    BY <1>2, <1>3, <1>4, TypedData DEF DataTyped, messages, rows, clock
  <1>6. UNCHANGED <<ask, signed, queue, run>>
    BY <1>4 DEF messages
  <1>. QED  BY <1>2, <1>5, <1>6, StillTyped DEF Typed, Stages

LEMMA QuietTyped ==
    ASSUME Typed,
           \/ \E s \in Swap : CommitRow(s) \/ Spoil(s)
           \/ Tick \/ LockExpire \/ UNCHANGED vars
    PROVE  Typed'
  <1>1. UNCHANGED <<ask, signed, queue, txs, run>>
    BY DEF CommitRow, Spoil, Tick, LockExpire, vars, messages
  <1>2. DataTyped'
    <2>0. DataTyped
      BY TypedData
    <2>1. ASSUME NEW s \in Swap, CommitRow(s)  PROVE DataTyped'
      BY <2>0, <2>1 DEF CommitRow, DataTyped, messages, chain, clock
    <2>2. ASSUME NEW s \in Swap, Spoil(s)  PROVE DataTyped'
      BY <2>0, <2>2 DEF Spoil, DataTyped, messages, rows, clock
    <2>3. CASE Tick
      BY <2>0, <2>3, ConstantsType DEF Tick, DataTyped, messages, rows, chain
    <2>4. CASE LockExpire
      BY <2>0, <2>4 DEF LockExpire, DataTyped, messages, rows, chain, clock
    <2>5. CASE UNCHANGED vars
      BY <2>0, <2>5 DEF vars, DataTyped, messages, rows, chain, clock
    <2>. QED  BY <2>1, <2>2, <2>3, <2>4, <2>5
  <1>. QED  BY <1>1, <1>2, StillTyped DEF Typed, Stages

\* A crash puts each message that a run held back, once.
Held == {run[w].msg : w \in Worker} \ {None}

LEMMA Crashing ==
    ASSUME Typed, Crash
    PROVE  /\ run' = [w \in Worker |-> Idle]
           /\ \E n \in Nat :
                /\ queue' \in Seq(Swap)
                /\ DOMAIN queue' = 1 .. n + Len(queue) /\ Len(queue) \in Nat
                /\ DOMAIN queue = 1 .. Len(queue)
                /\ \A i \in 1 .. n : queue'[i] \in Held
                /\ \A i, j \in 1 .. n : queue'[i] = queue'[j] => i = j
                /\ \A i \in n + 1 .. n + Len(queue) : queue'[i] = queue[i - n]
           /\ loaded' = now
           /\ UNCHANGED <<ask, signed, lost, rows, txs, chain, index, lock, now>>
  <1>1. PICK back \in [1 .. Cardinality(Held) -> Held] :
            /\ Held = {back[i] : i \in DOMAIN back}
            /\ queue' = back \o queue
    BY DEF Crash, Held
  <1>2. Held \subseteq Swap
    BY RunType DEF Held
  <1>3. IsFiniteSet(Held) /\ Cardinality(Held) \in Nat
    BY <1>2, ConstantsType, FS_Subset, FS_CardinalityType
  <1>. DEFINE n == Cardinality(Held)
  <1>4. \A i, j \in 1 .. n : back[i] = back[j] => i = j
    <2>1. back \in Surjection(1 .. n, Held)
      BY <1>1 DEF Surjection
    <2>2. IsFiniteSet(1 .. n) /\ Cardinality(1 .. n) = n
      BY <1>3, FS_Interval
    <2>3. back \in Injection(1 .. n, Held)
      BY <2>1, <2>2, FS_SurjSameCardinalityImpliesInj
    <2>. QED  BY <2>3 DEF Injection, IsInjective
  <1>5. back \in Seq(Swap) /\ Len(back) = n
    <2>1. back \in [1 .. n -> Swap]
      BY <1>1, <1>2
    <2>2. back \in Seq(Swap)
      BY <1>3, <2>1, SeqDef
    <2>3. DOMAIN back = 1 .. n /\ DOMAIN back = 1 .. Len(back) /\ Len(back) \in Nat
      BY <2>1, <2>2, LenProperties
    <2>. QED  BY <1>3, <2>2, <2>3
  <1>6. queue \in Seq(Swap) /\ DOMAIN queue = 1 .. Len(queue) /\ Len(queue) \in Nat
    BY LenProperties DEF Typed, TypeOK
  <1>q. /\ queue' \in Seq(Swap) /\ Len(queue') = Len(back) + Len(queue)
        /\ \A i \in 1 .. Len(back) + Len(queue) :
              queue'[i] = IF i <= Len(back) THEN back[i] ELSE queue[i - Len(back)]
    BY <1>1, <1>5, <1>6, ConcatProperties
  <1>7. /\ queue' \in Seq(Swap) /\ Len(queue') = n + Len(queue)
        /\ \A i \in 1 .. n + Len(queue) :
              queue'[i] = IF i <= n THEN back[i] ELSE queue[i - n]
    BY <1>5, <1>q
  <1>8. DOMAIN queue' = 1 .. n + Len(queue)
    BY <1>7, LenProperties
  <1>9. n \in Nat
    BY <1>3
  <1>10. \A i \in 1 .. n : back[i] \in Held
    OBVIOUS
  <1>. HIDE DEF n
  <1>11. /\ \A i \in 1 .. n : queue'[i] = back[i]
         /\ \A i \in n + 1 .. n + Len(queue) : queue'[i] = queue[i - n]
    BY <1>6, <1>7, <1>9
  <1>12. /\ run' = [w \in Worker |-> Idle] /\ loaded' = now
         /\ UNCHANGED <<ask, signed, lost, rows, txs, chain, index, lock, now>>
    BY DEF Crash
  <1>13. \A i, j \in 1 .. n : queue'[i] = queue'[j] => i = j
    BY <1>4, <1>11
  <1>. QED  BY <1>6, <1>7, <1>8, <1>9, <1>10, <1>11, <1>12, <1>13

LEMMA CrashTyped ==
    ASSUME Typed, Crash
    PROVE  Typed'
  <1>1. run' \in [Worker -> Run]
    BY Crashing, IdleType
  <1>2. DataTyped'
    BY Crashing, TypedData DEF DataTyped, rows, chain
  <1>3. \A w \in Worker : Staged(w)'
    BY Crashing DEF Staged, Idle, HasMessage, HasTx
  <1>4. \A i \in DOMAIN queue' : signed'[queue'[i]] # None
    <2>1. PICK n \in Nat :
              /\ DOMAIN queue' = 1 .. n + Len(queue) /\ Len(queue) \in Nat
              /\ DOMAIN queue = 1 .. Len(queue)
              /\ \A i \in 1 .. n : queue'[i] \in Held
              /\ \A i \in n + 1 .. n + Len(queue) : queue'[i] = queue[i - n]
      BY Crashing
    <2>2. \A s \in Held : signed[s] # None
      BY DEF Held, Typed, Stages, Staged
    <2>3. \A i \in DOMAIN queue : signed[queue[i]] # None
      BY DEF Typed, Stages
    <2>4. ASSUME NEW i \in n + 1 .. n + Len(queue)  PROVE signed[queue'[i]] # None
      <3>1. i - n \in DOMAIN queue
        BY <2>1, <2>4
      <3>. QED  BY <2>1, <2>3, <3>1
    <2>. QED  BY <2>1, <2>2, <2>4, Crashing
  <1>5. TypeOK'
    BY <1>1, <1>2 DEF DataTyped, TypeOK
  <1>. QED  BY <1>3, <1>4, <1>5 DEF Typed, Stages

LEMMA TypeStep == Typed /\ [Next]_vars => Typed'
  BY WorkStepTyped, PublishTyped, MineTyped, QuietTyped, CrashTyped DEF Next

\* The state of the pipeline keeps its type: nonces and indices stay in
\* their ranges, rows refer to transactions that were made, and a run goes
\* on with the message, the call and the transaction it stopped at.
THEOREM TypeCorrect == Spec => []TypeOK
  <1>1. Typed => TypeOK
    BY DEF Typed
  <1>. QED  BY <1>1, InitType, TypeStep, PTL DEF Spec

-----------------------------------------------------------------------------
(***************************************************************************)
(* The references of the rows.                                             *)
(***************************************************************************)
Called(w, s) == \E i \in DOMAIN run[w].calls : run[w].calls[i].swap = s

\* What a run counts as processed was called, or refused for good.
Accounted(w) ==
    \A s \in run[w].datas : Called(w, s) \/ status[s] = "failed" \/ s \in early

\* A row that is not there refers to nothing, and only published swaps have
\* one.
Rowless(s) ==
    /\ status[s] = "none" => txrow[s] = 0
    /\ signed[s] = None => status[s] = "none"

NamesCall(s) ==
    s \notin early /\ status[s] = "pending" /\ txrow[s] > 0
        => s \in SwapsOf(txrow[s])

References ==
    /\ \A w \in Worker : Accounted(w)
    /\ \A s \in Swap : Rowless(s) /\ NamesCall(s)

LEMMA StaysAccounted ==
    ASSUME References, NEW v \in Worker,
           run'[v] = Idle \/ (/\ run'[v].calls = run[v].calls
                              /\ run'[v].datas = run[v].datas),
           \A s \in Swap : status[s] = "failed" => status'[s] = "failed",
           early \subseteq early', run[v].datas \subseteq Swap
    PROVE  Accounted(v)'
  <1>1. CASE run'[v] = Idle
    BY <1>1 DEF Accounted, Idle
  <1>2. CASE run'[v].calls = run[v].calls /\ run'[v].datas = run[v].datas
    BY <1>2 DEF References, Accounted, Called
  <1>. QED  BY <1>1, <1>2

\* The row of s stays, is made, or fails.
LEMMA StaysNamed ==
    ASSUME Typed, References, NEW s \in Swap, txrow'[s] = txrow[s],
           signed'[s] = None => signed[s] = None,
           \/ status'[s] = status[s]
           \/ status'[s] = "failed" /\ status[s] # "none"
           \/ status'[s] = "pending" /\ status[s] = "none" /\ signed'[s] # None,
           early \subseteq early',
           \A t \in DOMAIN txs : t \in DOMAIN txs' /\ txs'[t].calls = txs[t].calls
    PROVE  Rowless(s)' /\ NamesCall(s)'
  <1>1. Rowless(s) /\ NamesCall(s)
    BY DEF References
  <1>2. txrow[s] \in 0 .. Len(txs) /\ DOMAIN txs = 1 .. Len(txs) /\ Len(txs) \in Nat
    BY LenProperties DEF Typed, TypeOK
  <1>3. Rowless(s)'
    BY <1>1 DEF Rowless
  <1>4. CASE txrow[s] = 0
    BY <1>3, <1>4 DEF NamesCall
  <1>5. CASE txrow[s] # 0
    <2>1. txrow[s] \in DOMAIN txs
      BY <1>2, <1>5
    <2>2. SwapsOf(txrow[s])' = SwapsOf(txrow[s])
      <3>1. txs'[txrow'[s]].calls = txs[txrow[s]].calls
        BY <2>1
      <3>. QED  BY <3>1 DEF SwapsOf
    <2>3. status[s] # "none"
      BY <1>1, <1>5 DEF Rowless
    <2>4. NamesCall(s)'
      BY <1>1, <1>5, <2>2, <2>3 DEF NamesCall
    <2>. QED  BY <1>3, <2>4
  <1>. QED  BY <1>4, <1>5

LEMMA Marking ==
    ASSUME Typed, NEW m \in Swap, NEW s \in Swap,
           status' \in {status, Status(m, "failed")}
    PROVE  /\ \/ status'[s] = status[s]
              \/ status'[s] = "failed" /\ status[s] # "none"
           /\ status[s] = "failed" => status'[s] = "failed"
           /\ s # m => status'[s] = status[s]
  BY DEF Status, Typed, TypeOK

\* The steps of a run that neither count a swap as processed nor record one.
LEMMA PlainWork ==
    ASSUME Typed, NEW w \in Worker, Work(w),
           ~Estimated(w), ~Refused(w), ~Record(w)
    PROVE  /\ run'[w] = Idle \/ (/\ run'[w].calls = run[w].calls
                                 /\ run'[w].datas = run[w].datas)
           /\ \A v \in Worker \ {w} : run'[v] = run[v]
           /\ UNCHANGED <<signed, txrow, early>>
           /\ \A s \in Swap :
                 /\ \/ status'[s] = status[s]
                    \/ status'[s] = "failed" /\ status[s] # "none"
                 /\ status[s] = "failed" => status'[s] = "failed"
           /\ \A t \in DOMAIN txs : t \in DOMAIN txs' /\ txs'[t].calls = txs[t].calls
  <1>1. CASE Start(w) \/ NoMessage(w) \/ CheckGas(w) \/ SendPermits(w)
               \/ NoRelayer(w) \/ NotSigned(w) \/ NotRecorded(w) \/ Receipt(w)
    <2>1. PICK step \in Labels : Goto(w, step)
      BY <1>1 DEF Start, NoMessage, CheckGas, SendPermits, NoRelayer, NotSigned,
                  NotRecorded, Receipt, Labels
    <2>2. UNCHANGED <<signed, txrow, early, status, txs>>
      BY <1>1 DEF Start, NoMessage, CheckGas, SendPermits, NoRelayer, NotSigned,
                  NotRecorded, Receipt, messages, rows
    <2>. QED  BY <2>1, <2>2, Going
  <1>2. CASE Throw(w)
    <2>1. run[w].msg \in Swap
      BY <1>2, RunType DEF Throw, At, Typed, Stages, Staged, HasMessage
    <2>2. /\ Goto(w, "nack") /\ status' \in {status, Status(run[w].msg, "failed")}
          /\ UNCHANGED <<signed, txrow, early, txs>>
      BY <1>2 DEF Throw, messages
    <2>3. run'[w].calls = run[w].calls /\ run'[w].datas = run[w].datas
          /\ \A v \in Worker \ {w} : run'[v] = run[v]
      BY <2>2, Going DEF Labels
    <2>. QED  BY <2>1, <2>2, <2>3, Marking
  <1>3. CASE Broadcast(w) \/ NotBroadcast(w)
    <2>1. PICK step \in Labels : Goto(w, step)
      BY <1>3 DEF Broadcast, NotBroadcast, Labels
    <2>2. UNCHANGED <<signed, txrow, early, status>>
      BY <1>3 DEF Broadcast, NotBroadcast, messages, rows
    <2>3. run[w].tx \in DOMAIN txs
      BY <1>3 DEF Broadcast, NotBroadcast, At, Typed, Stages, Staged, HasTx
    <2>4. txs' = txs \/ txs' = [txs EXCEPT ![run[w].tx].state = "sent"]
      BY <1>3 DEF Broadcast, NotBroadcast
    <2>5. \A t \in DOMAIN txs : t \in DOMAIN txs' /\ txs'[t].calls = txs[t].calls
      BY <2>3, <2>4, StateChange
    <2>. QED  BY <2>1, <2>2, <2>5, Going
  <1>4. CASE Finish(w)
    <2>1. run'[w] = Idle /\ \A v \in Worker \ {w} : run'[v] = run[v]
      BY <1>4, IdleType, Becoming DEF Finish
    <2>2. UNCHANGED <<signed, txrow, early, status, txs>>
      BY <1>4 DEF Finish, messages, rows
    <2>. QED  BY <2>1, <2>2
  <1>5. CASE Fetch(w)
    BY <1>5, Fetching DEF Fetch, rows
  <1>6. CASE PrepareDeposit(w) \/ PrepareWithdraw(w)
    BY <1>6, Preparing DEF messages, rows
  <1>7. CASE Nack(w) \/ Ack(w) \/ AckLost(w)
    <2>1. UNCHANGED <<signed, txrow, early, status, txs>>
      BY <1>7 DEF Nack, Ack, AckLost, messages, rows
    <2>. QED  BY <1>7, <2>1, Dropping
  <1>8. CASE NotMarked(w)
    <2>1. run'[w].calls = run[w].calls /\ run'[w].datas = run[w].datas
          /\ \A v \in Worker \ {w} : run'[v] = run[v]
      BY <1>8, Refusing
    <2>2. /\ run[w].msg \in Swap
          /\ status' \in {status, Status(run[w].msg, "failed")}
          /\ UNCHANGED <<signed, txrow, early, txs>>
      BY <1>8, Refusing DEF NotMarked, messages
    <2>. QED  BY <2>1, <2>2, Marking
  <1>9. CASE Sign(w)
    <2>1. \A t \in DOMAIN txs : t \in DOMAIN txs' /\ txs'[t].calls = txs[t].calls
      BY <1>9, Signing
    <2>2. UNCHANGED <<signed, txrow, early, status>>
      BY <1>9, Signing DEF messages, rows
    <2>. QED  BY <1>9, <2>1, <2>2, Signing
  <1>. QED
    BY <1>1, <1>2, <1>3, <1>4, <1>5, <1>6, <1>7, <1>8, <1>9 DEF Work

LEMMA CollectNamed ==
    ASSUME Typed, References, NEW w \in Worker, Estimated(w)
    PROVE  References'
  <1>1. UNCHANGED <<signed, txrow, early, status, txs>>
    BY DEF Estimated, messages, rows
  <1>2. \A s \in Swap : Rowless(s)' /\ NamesCall(s)'
    BY <1>1, StaysNamed
  <1>3. \A v \in Worker \ {w} : Accounted(v)'
    BY <1>1, Collecting, StaysAccounted, RunType
  <1>4. Accounted(w)'
    <2>. SUFFICES ASSUME NEW s \in run'[w].datas, status'[s] # "failed",
                         s \notin early'
                  PROVE  Called(w, s)'
      BY DEF Accounted
    <2>1. CASE s = run[w].msg
      <3>1. /\ Len(run[w].calls) + 1 \in DOMAIN run'[w].calls
            /\ run'[w].calls[Len(run[w].calls) + 1].swap = s
        BY <2>1, Collecting
      <3>. QED  BY <3>1 DEF Called
    <2>2. CASE s # run[w].msg
      <3>1. s \in run[w].datas
        BY <2>2, Collecting
      <3>2. PICK i \in DOMAIN run[w].calls : run[w].calls[i].swap = s
        BY <1>1, <3>1 DEF References, Accounted, Called
      <3>3. i \in 1 .. Len(run[w].calls) /\ Len(run[w].calls) \in Nat
        BY <3>2, Collecting
      <3>4. i \in DOMAIN run'[w].calls /\ run'[w].calls[i] = run[w].calls[i]
        BY <3>3, Collecting
      <3>. QED  BY <3>2, <3>4 DEF Called
    <2>. QED  BY <2>1, <2>2
  <1>. QED  BY <1>2, <1>3, <1>4 DEF References

LEMMA RefuseNamed ==
    ASSUME Typed, References, NEW w \in Worker, Refused(w)
    PROVE  References'
  <1>1. /\ run[w].msg \in Swap /\ run'[w].calls = run[w].calls
        /\ run'[w].datas = run[w].datas \cup {run[w].msg}
        /\ \A v \in Worker \ {w} : run'[v] = run[v]
        /\ UNCHANGED <<signed, txrow, txs>>
    BY Refusing DEF messages
  <1>2. status' = Status(run[w].msg, "failed") /\ early' = Early(run[w].msg)
    BY DEF Refused
  <1>3. early \subseteq early'
    BY <1>2 DEF Early
  <1>4. \A s \in Swap : Rowless(s)' /\ NamesCall(s)'
    BY <1>1, <1>2, <1>3, Marking, StaysNamed
  <1>5. \A v \in Worker \ {w} : Accounted(v)'
    BY <1>1, <1>2, <1>3, Marking, StaysAccounted, RunType
  <1>6. Accounted(w)'
    <2>1. status'[run[w].msg] = "failed" \/ run[w].msg \in early'
      BY <1>1, <1>2 DEF Status, Early, Typed, TypeOK
    <2>2. \A s \in run[w].datas :
             Called(w, s)' \/ status'[s] = "failed" \/ s \in early'
      BY <1>1, <1>2, <1>3, Marking, RunType DEF References, Accounted, Called
    <2>. QED  BY <1>1, <2>1, <2>2 DEF Accounted
  <1>. QED  BY <1>4, <1>5, <1>6 DEF References

\* The pending rows of a batch refer to its transaction from now on, or go on
\* to refer to an earlier one.
LEMMA RecordedOrKept ==
    ASSUME NEW w \in Worker, Record(w), NEW s \in Swap
    PROVE  \/ /\ s \in run[w].datas /\ status[s] = "pending"
              /\ txrow'[s] = run[w].tx
           \/ /\ txrow'[s] = txrow[s]
              /\ s \in run[w].datas /\ status[s] = "pending" => txrow[s] # 0
  <1>. DEFINE pending == {p \in run[w].datas : status[p] = "pending"}
  <1>1. PICK kept \in SUBSET {p \in pending : txrow[p] # 0} :
           txrow' = [p \in Swap |->
                        IF p \in pending \ kept THEN run[w].tx ELSE txrow[p]]
    BY DEF Record
  <1>2. txrow'[s] = IF s \in pending \ kept THEN run[w].tx ELSE txrow[s]
    BY <1>1
  <1>. QED  BY <1>1, <1>2

LEMMA RecordNamed ==
    ASSUME Typed, References, NEW w \in Worker, Record(w)
    PROVE  References'
  <1>1. /\ run'[w].calls = run[w].calls /\ run'[w].datas = run[w].datas
        /\ \A v \in Worker \ {w} : run'[v] = run[v]
    BY Going DEF Record, Labels
  <1>2. UNCHANGED <<signed, status, early, txs>>
    BY DEF Record, messages
  <1>3. \A v \in Worker : Accounted(v)'
    BY <1>1, <1>2, StaysAccounted, RunType
  <1>4. ASSUME NEW s \in Swap
        PROVE  Rowless(s)' /\ NamesCall(s)'
    <2>1. CASE /\ s \in run[w].datas /\ status[s] = "pending"
               /\ txrow'[s] = run[w].tx
      <3>1. txrow'[s] = run[w].tx
        BY <2>1
      <3>2. run[w].calls = txs[run[w].tx].calls
        BY DEF Record, At, Typed, Stages, Staged, HasTx
      <3>3. s \notin early => Called(w, s)
        BY <2>1 DEF References, Accounted
      <3>4. s \notin early => s \in SwapsOf(txrow[s])'
        BY <1>2, <3>1, <3>2, <3>3 DEF Called, SwapsOf
      <3>5. Rowless(s)' /\ NamesCall(s)'
        BY <1>2, <2>1, <3>4 DEF Rowless, NamesCall, SwapsOf, References
      <3>. QED  BY <3>5
    <2>2. CASE txrow'[s] = txrow[s]
      BY <1>2, <2>2, StaysNamed
    <2>. QED  BY <2>1, <2>2, RecordedOrKept
  <1>. QED  BY <1>3, <1>4 DEF References

LEMMA ReferencesStep == Typed /\ References /\ [Next]_vars => References'
  <1>. SUFFICES ASSUME Typed, References, [Next]_vars  PROVE References'
    OBVIOUS
  <1>1. ASSUME NEW w \in Worker, Work(w),
               ~Estimated(w), ~Refused(w), ~Record(w)
        PROVE  References'
    <2>1. \A v \in Worker : Accounted(v)'
      BY <1>1, PlainWork, StaysAccounted, RunType
    <2>2. \A s \in Swap : Rowless(s)' /\ NamesCall(s)'
      BY <1>1, PlainWork, StaysNamed
    <2>. QED  BY <2>1, <2>2 DEF References
  <1>2. ASSUME NEW s \in Swap, Publish(s) \/ CommitRow(s)
        PROVE  References'
    <2>1. UNCHANGED <<txrow, early, txs, run>>
      BY <1>2 DEF Publish, CommitRow
    <2>2. \A p \in Swap :
             /\ signed'[p] = None => signed[p] = None
             /\ \/ status'[p] = status[p]
                \/ /\ status'[p] = "pending" /\ status[p] = "none"
                   /\ signed'[p] # None
      <3>1. CASE Publish(s)
        <4>1. status[s] = "none"
          BY <3>1, Publishing DEF References, Rowless
        <4>2. signed'[s] # None /\ \A p \in Swap \ {s} : signed'[p] = signed[p]
          BY <3>1, Publishing, ConstantsType DEF Typed, TypeOK
        <4>3. \A p \in Swap : status'[p] = status[p]
                              \/ (p = s /\ status'[p] = "pending")
          BY <3>1 DEF Publish, Typed, TypeOK
        <4>. QED  BY <4>1, <4>2, <4>3
      <3>2. CASE CommitRow(s)
        BY <3>2 DEF CommitRow, messages, Typed, TypeOK
      <3>. QED  BY <1>2, <3>1, <3>2
    <2>3. \A p \in Swap : Rowless(p)' /\ NamesCall(p)'
      BY <2>1, <2>2, StaysNamed
    <2>4. \A p \in Swap : status[p] = "failed" => status'[p] = "failed"
      BY <2>2
    <2>5. \A v \in Worker : Accounted(v)'
      BY <2>1, <2>4, StaysAccounted, RunType
    <2>. QED  BY <2>3, <2>5 DEF References
  <1>3. ASSUME UNCHANGED <<signed, status, txrow, early>>,
               \A v \in Worker : run'[v] \in {run[v], Idle},
               \A t \in DOMAIN txs :
                  t \in DOMAIN txs' /\ txs'[t].calls = txs[t].calls
        PROVE  References'
    <2>1. \A v \in Worker : Accounted(v)'
      BY <1>3, StaysAccounted, RunType
    <2>2. \A s \in Swap : Rowless(s)' /\ NamesCall(s)'
      BY <1>3, StaysNamed
    <2>. QED  BY <2>1, <2>2 DEF References
  <1>4. ASSUME NEW t \in DOMAIN txs, Mine(t)  PROVE References'
    <2>1. UNCHANGED <<signed, status, txrow, early, run>>
      BY <1>4 DEF Mine, messages, rows
    <2>2. PICK st \in {"mined", "reverted"} : txs' = [txs EXCEPT ![t].state = st]
      BY <1>4 DEF Mine
    <2>. QED  BY <1>3, <2>1, <2>2, StateChange
  <1>5. CASE Crash
    <2>1. UNCHANGED <<signed, status, txrow, early, txs>>
      BY <1>5 DEF Crash, rows
    <2>2. \A v \in Worker : run'[v] = Idle
      BY <1>5 DEF Crash
    <2>. QED  BY <1>3, <2>1, <2>2
  <1>6. CASE \/ \E s \in Swap : Spoil(s)
             \/ Tick \/ LockExpire \/ UNCHANGED vars
    <2>1. UNCHANGED <<signed, status, txrow, early, txs, run>>
      BY <1>6 DEF Spoil, Tick, LockExpire, vars, messages, rows
    <2>. QED  BY <1>3, <2>1
  <1>. QED
    BY <1>1, <1>2, <1>4, <1>5, <1>6, CollectNamed, RefuseNamed, RecordNamed
       DEF Next

LEMMA ReferencesInit == Init => References
  BY DEF Init, References, Accounted, Rowless, NamesCall, Idle

\* The reference of a pending row is to a transaction with the swap's call,
\* whatever fails, is repeated or overlaps, and also when locks expire: the
\* refused swaps of a batch are marked before the batch is recorded.
THEOREM ReferencesAreRight == Spec => []RowsNameCalls
  <1>1. Typed /\ References /\ [Next]_vars => Typed' /\ References'
    BY TypeStep, ReferencesStep
  <1>2. References => RowsNameCalls
    BY DEF References, NamesCall, RowsNameCalls
  <1>. QED  BY <1>1, <1>2, InitType, ReferencesInit, PTL DEF Spec

-----------------------------------------------------------------------------
(***************************************************************************)
(* The place of a swap: one message in the queue, the run that works on it *)
(* or one transaction.                                                     *)
(***************************************************************************)
\* Where the calls of a run are not yet in a transaction.
Unsigned == HasMessage \cup {"fetch", "gas", "permit", "send"}

Collects(w, s) == run[w].pc \in Unsigned /\ Called(w, s)

Holds(w, s) == run[w].msg = s \/ Collects(w, s)

OnePosition(s) ==
    \A i, j \in DOMAIN queue : queue[i] = s /\ queue[j] = s => i = j

OneHolder(s) ==
    /\ \A w, v \in Worker : Holds(w, s) /\ Holds(v, s) => w = v
    /\ \A i \in DOMAIN queue, w \in Worker : ~(queue[i] = s /\ Holds(w, s))

\* A run that works on the message has not called it, but to acknowledge it,
\* and calls it once.
OneCall(s) ==
    \A w \in Worker :
        /\ run[w].msg = s /\ Collects(w, s) => run[w].pc = "ack"
        /\ run[w].pc \in Unsigned =>
              \A i, j \in DOMAIN run[w].calls :
                 run[w].calls[i].swap = s /\ run[w].calls[j].swap = s => i = j

OneTransaction(s) ==
    /\ \A t, u \in DOMAIN txs : s \in SwapsOf(t) /\ s \in SwapsOf(u) => t = u
    /\ \A t \in DOMAIN txs : \A i, j \in DOMAIN txs[t].calls :
          txs[t].calls[i].swap = s /\ txs[t].calls[j].swap = s => i = j
    /\ \A t \in DOMAIN txs : s \in SwapsOf(t) =>
          /\ \A i \in DOMAIN queue : queue[i] # s
          /\ \A w \in Worker : ~Holds(w, s)

PaidByOne(s) ==
    \/ paid[s] = 0
    \/ paid[s] = 1 /\ \E t \in DOMAIN txs :
                         txs[t].state = "mined" /\ s \in SwapsOf(t)

Once(s) ==
    OnePosition(s) /\ OneHolder(s) /\ OneCall(s) /\ OneTransaction(s)
      /\ PaidByOne(s)

\* A swap that was not published is nowhere.
Nowhere(s) ==
    /\ \A i \in DOMAIN queue : queue[i] # s
    /\ \A w \in Worker : ~Holds(w, s)
    /\ \A t \in DOMAIN txs : s \notin SwapsOf(t)

Placed(s) ==
    /\ signed[s] = None => Nowhere(s)
    /\ s \notin lost => Once(s)

Places == \A s \in Swap : Placed(s)

\* The run, the queue and the transactions take no swap s up.
RunKeeps(v, s) ==
    \/ run'[v] = run[v]
    \/ run'[v].pc = "idle" /\ run'[v].msg = None
    \/ /\ \A i \in DOMAIN run'[v].calls : run'[v].calls[i].swap = s =>
             i \in DOMAIN run[v].calls /\ run[v].calls[i].swap = s
       /\ run'[v].msg = run[v].msg \/ run'[v].msg # s
       /\ run'[v].pc \in Unsigned => run[v].pc \in Unsigned \/ run[v].calls = <<>>
       /\ run'[v].msg = s => run[v].pc # "ack" \/ run'[v].pc = "ack"

QueueKeeps(k, s) ==
    \A i \in DOMAIN queue' :
        queue'[i] = s => i - k \in DOMAIN queue /\ queue[i - k] = s

TxsKeep ==
    /\ \A t \in DOMAIN txs' : t \in DOMAIN txs /\ txs'[t].calls = txs[t].calls
    /\ \A t \in DOMAIN txs : t \in DOMAIN txs'
    /\ \A t \in DOMAIN txs : txs[t].state = "mined" => txs'[t].state = "mined"

LEMMA RunShrinks ==
    ASSUME Typed, NEW s \in Swap, NEW v \in Worker, RunKeeps(v, s)
    PROVE  /\ Called(v, s)' /\ run'[v].pc \in Unsigned => Collects(v, s)
           /\ Holds(v, s)' => Holds(v, s)
           /\ Once(s) =>
                /\ run'[v].msg = s /\ Collects(v, s)' => run'[v].pc = "ack"
                /\ run'[v].pc \in Unsigned =>
                      \A i, j \in DOMAIN run'[v].calls :
                         /\ run'[v].calls[i].swap = s
                         /\ run'[v].calls[j].swap = s
                         => i = j
  <1>1. CASE run'[v] = run[v]
    BY <1>1 DEF Collects, Called, Holds, Once, OneCall
  <1>2. CASE run'[v].pc = "idle" /\ run'[v].msg = None
    BY <1>2, ConstantsType DEF Collects, Called, Holds, Unsigned, HasMessage
  <1>3. CASE /\ \A i \in DOMAIN run'[v].calls : run'[v].calls[i].swap = s =>
                   i \in DOMAIN run[v].calls /\ run[v].calls[i].swap = s
             /\ run'[v].msg = run[v].msg \/ run'[v].msg # s
             /\ run'[v].pc \in Unsigned =>
                   run[v].pc \in Unsigned \/ run[v].calls = <<>>
             /\ run'[v].msg = s => run[v].pc # "ack" \/ run'[v].pc = "ack"
    BY <1>3 DEF Collects, Called, Holds, Once, OneCall
  <1>. QED  BY <1>1, <1>2, <1>3 DEF RunKeeps

LEMMA NowhereStays ==
    ASSUME Typed, NEW s \in Swap, NEW k \in Int, Nowhere(s), QueueKeeps(k, s),
           \A v \in Worker : RunKeeps(v, s), TxsKeep
    PROVE  Nowhere(s)'
  <1>1. \A t \in DOMAIN txs' : s \notin SwapsOf(t)'
    BY DEF Nowhere, TxsKeep, SwapsOf
  <1>2. \A v \in Worker : ~Holds(v, s)'
    BY RunShrinks DEF Nowhere
  <1>3. \A i \in DOMAIN queue' : queue'[i] # s
    BY DEF Nowhere, QueueKeeps
  <1>. QED  BY <1>1, <1>2, <1>3 DEF Nowhere

LEMMA OnceStays ==
    ASSUME Typed, NEW s \in Swap, NEW k \in Int, Once(s), QueueKeeps(k, s),
           \A v \in Worker : RunKeeps(v, s), TxsKeep, paid'[s] = paid[s], Typed'
    PROVE  Once(s)'
  <1>1. \A t \in DOMAIN txs' : SwapsOf(t)' = SwapsOf(t)
    BY DEF TxsKeep, SwapsOf
  <1>2. \A v \in Worker : Holds(v, s)' => Holds(v, s)
    BY RunShrinks
  <1>3. OnePosition(s)'
    <2>1. DOMAIN queue' \subseteq Int
      <3>1. queue' \in Seq(Swap)
        BY DEF Typed, TypeOK
      <3>. QED  BY <3>1, LenProperties
    <2>. QED  BY <2>1 DEF Once, OnePosition, QueueKeeps
  <1>4. OneHolder(s)'
    BY <1>2 DEF Once, OneHolder, QueueKeeps
  <1>5. OneCall(s)'
    BY RunShrinks DEF OneCall
  <1>6. OneTransaction(s)'
    <2>1. \A t \in DOMAIN txs' : t \in DOMAIN txs /\ txs'[t].calls = txs[t].calls
      BY DEF TxsKeep
    <2>. QED
      BY <1>1, <1>2, <2>1 DEF Once, OneTransaction, QueueKeeps
  <1>7. PaidByOne(s)'
    BY <1>1 DEF Once, PaidByOne, TxsKeep
  <1>. QED  BY <1>3, <1>4, <1>5, <1>6, <1>7 DEF Once

\* A step that leaves queue, transactions and payments alone and every run
\* where it is with s.
LEMMA PlacesStay ==
    ASSUME Typed, Typed', NEW s \in Swap,
           Placed(s),
           \E k \in Int : QueueKeeps(k, s),
           \A v \in Worker : RunKeeps(v, s), TxsKeep, paid'[s] = paid[s],
           signed'[s] = None => signed[s] = None, lost \subseteq lost'
    PROVE  Placed(s)'
  <1>1. PICK k \in Int : QueueKeeps(k, s)
    OBVIOUS
  <1>2. signed[s] = None => Nowhere(s)'
    BY <1>1, NowhereStays DEF Placed
  <1>3. s \notin lost => Once(s)'
    BY <1>1, OnceStays DEF Placed
  <1>. QED  BY <1>2, <1>3 DEF Placed

LEMMA SameQueue ==
    ASSUME Typed, NEW s \in Swap, UNCHANGED queue
    PROVE  \E k \in Int : QueueKeeps(k, s)
  <1>1. \A i \in DOMAIN queue : i - 0 = i
    BY LenProperties DEF Typed, TypeOK
  <1>2. QueueKeeps(0, s)
    BY <1>1 DEF QueueKeeps
  <1>. QED  BY <1>2

\* The steps of a run that move no swap.
LEMMA PlainKeeps ==
    ASSUME Typed, NEW w \in Worker, NEW s \in Swap,
           \/ Start(w) \/ NoMessage(w) \/ CheckGas(w) \/ SendPermits(w)
           \/ NoRelayer(w) \/ NotSigned(w) \/ NotRecorded(w) \/ Receipt(w)
           \/ Throw(w) \/ Record(w) \/ Finish(w)
           \/ PrepareDeposit(w) \/ PrepareWithdraw(w)
           \/ Refused(w) \/ NotMarked(w) \/ Ack(w)
    PROVE  /\ \A v \in Worker : RunKeeps(v, s)
           /\ UNCHANGED <<signed, queue, lost, txs, paid>>
  <1>0. \A v \in Worker : run'[v] = run[v] => RunKeeps(v, s)
    BY DEF RunKeeps
  <1>1. CASE \/ Start(w) \/ NoMessage(w) \/ CheckGas(w) \/ SendPermits(w)
             \/ NoRelayer(w) \/ NotSigned(w) \/ NotRecorded(w) \/ Receipt(w)
             \/ Throw(w) \/ Record(w)
    <2>1. PICK step \in Labels :
              /\ Goto(w, step) /\ run[w].pc # "ack"
              /\ step \in Unsigned => run[w].pc \in Unsigned \cup {"idle"}
      BY <1>1 DEF Start, NoMessage, CheckGas, SendPermits, NoRelayer, NotSigned,
                  NotRecorded, Receipt, Throw, Record, Labels, At, Unsigned,
                  HasMessage
    <2>2. run[w].pc = "idle" => run[w].calls = <<>>
      BY DEF Typed, Stages, Staged
    <2>3. /\ run'[w].pc = step /\ run'[w].msg = run[w].msg
          /\ run'[w].calls = run[w].calls
          /\ \A v \in Worker \ {w} : run'[v] = run[v]
      BY <2>1, Going
    <2>4. RunKeeps(w, s)
      BY <2>1, <2>2, <2>3 DEF RunKeeps
    <2>5. UNCHANGED <<signed, queue, lost, txs, paid>>
      BY <1>1 DEF Start, NoMessage, CheckGas, SendPermits, NoRelayer, NotSigned,
                  NotRecorded, Receipt, Throw, Record, messages, chain
    <2>. QED  BY <1>0, <2>3, <2>4, <2>5
  <1>2. CASE Finish(w)
    <2>1. run'[w] = Idle /\ \A v \in Worker \ {w} : run'[v] = run[v]
      BY <1>2, IdleType, Becoming DEF Finish
    <2>2. UNCHANGED <<signed, queue, lost, txs, paid>>
      BY <1>2 DEF Finish, messages, chain
    <2>. QED  BY <1>0, <2>1, <2>2 DEF RunKeeps, Idle
  <1>3. CASE PrepareDeposit(w) \/ PrepareWithdraw(w)
    <2>1. RunKeeps(w, s)
      BY <1>3, Preparing DEF RunKeeps, Unsigned, HasMessage
    <2>. QED  BY <1>0, <1>3, <2>1, Preparing DEF messages, chain
  <1>4. CASE Refused(w) \/ NotMarked(w)
    <2>1. RunKeeps(w, s)
      BY <1>4, Refusing DEF RunKeeps, Unsigned, HasMessage
    <2>. QED  BY <1>0, <1>4, <2>1, Refusing DEF messages, chain
  <1>5. CASE Ack(w)
    <2>1. RunKeeps(w, s)
      BY <1>5, Dropping, ConstantsType DEF RunKeeps, Unsigned, HasMessage
    <2>2. UNCHANGED <<signed, queue, lost, txs, paid>>
      BY <1>5 DEF Ack, messages, chain
    <2>. QED  BY <1>0, <1>5, <2>1, <2>2, Dropping
  <1>. QED  BY <1>1, <1>2, <1>3, <1>4, <1>5

LEMMA SameTxs ==
    ASSUME UNCHANGED txs
    PROVE  TxsKeep
  BY DEF TxsKeep

LEMMA PlainPlaces ==
    ASSUME Typed, Typed', Places, NEW w \in Worker,
           \/ Start(w) \/ NoMessage(w) \/ CheckGas(w) \/ SendPermits(w)
           \/ NoRelayer(w) \/ NotSigned(w) \/ NotRecorded(w) \/ Receipt(w)
           \/ Throw(w) \/ Record(w) \/ Finish(w)
           \/ PrepareDeposit(w) \/ PrepareWithdraw(w)
           \/ Refused(w) \/ NotMarked(w) \/ Ack(w)
    PROVE  Places'
  <1>1. ASSUME NEW s \in Swap
        PROVE  Placed(s)'
    <2>1. /\ \A v \in Worker : RunKeeps(v, s)
          /\ UNCHANGED <<signed, queue, lost, txs, paid>>
      BY PlainKeeps
    <2>2. Placed(s)
      BY DEF Places
    <2>. QED  BY <2>1, <2>2, SameQueue, SameTxs, PlacesStay
  <1>. QED  BY <1>1 DEF Places

-----------------------------------------------------------------------------
(***************************************************************************)
(* Until a run sends its transaction, nobody does.                         *)
(***************************************************************************)
Unsent == {"record", "broadcast"}

Owned ==
    \A w \in Worker :
        run[w].pc \in Unsent =>
            /\ txs[run[w].tx].state = "signed"
            /\ \A v \in Worker :
                  run[v].pc \in Unsent /\ run[v].tx = run[w].tx => v = w

LEMMA OwnedStays ==
    ASSUME Typed, Owned,
           \A v \in Worker :
              run'[v].pc \in Unsent =>
                 run[v].pc \in Unsent /\ run'[v].tx = run[v].tx,
           \A v \in Worker :
              run'[v].pc \in Unsent => txs'[run[v].tx].state = txs[run[v].tx].state
    PROVE  Owned'
  BY DEF Owned

LEMMA PlainOwned ==
    ASSUME Typed, Owned, NEW w \in Worker, Work(w),
           ~Sign(w), ~Broadcast(w), ~NotBroadcast(w)
    PROVE  Owned'
  <1>1. UNCHANGED txs
    BY DEF Work, Start, Fetch, NoMessage, PrepareDeposit, PrepareWithdraw, Throw,
           Nack, Estimated, Refused, NotMarked, Ack, AckLost, CheckGas,
           SendPermits, NoRelayer, NotSigned, Record, NotRecorded, Receipt, Finish
  <1>2. /\ \A v \in Worker \ {w} : run'[v] = run[v]
        /\ run'[w].pc \in Unsent =>
              run[w].pc \in Unsent /\ run'[w].tx = run[w].tx
    <2>1. CASE \/ Start(w) \/ NoMessage(w) \/ CheckGas(w) \/ SendPermits(w)
               \/ NoRelayer(w) \/ NotSigned(w) \/ NotRecorded(w) \/ Receipt(w)
               \/ Throw(w) \/ Record(w)
      <3>1. PICK step \in Labels :
                Goto(w, step) /\ (step \in Unsent => run[w].pc \in Unsent)
        BY <2>1 DEF Start, NoMessage, CheckGas, SendPermits, NoRelayer,
                    NotSigned, NotRecorded, Receipt, Throw, Record, Labels, At,
                    Unsent
      <3>. QED  BY <3>1, Going
    <2>2. CASE Finish(w)
      <3>1. run'[w] = Idle /\ \A v \in Worker \ {w} : run'[v] = run[v]
        BY <2>2, IdleType, Becoming DEF Finish
      <3>. QED  BY <3>1 DEF Idle, Unsent
    <2>3. CASE Fetch(w)
      BY <2>3, Fetching DEF Unsent
    <2>4. CASE PrepareDeposit(w) \/ PrepareWithdraw(w)
      BY <2>4, Preparing DEF Unsent
    <2>5. CASE Nack(w) \/ Ack(w) \/ AckLost(w)
      BY <2>5, Dropping DEF Unsent
    <2>6. CASE Estimated(w)
      BY <2>6, Collecting DEF Unsent
    <2>7. CASE Refused(w) \/ NotMarked(w)
      BY <2>7, Refusing DEF Unsent
    <2>. QED  BY <2>1, <2>2, <2>3, <2>4, <2>5, <2>6, <2>7 DEF Work
  <1>3. \A v \in Worker :
           run'[v].pc \in Unsent => run[v].pc \in Unsent /\ run'[v].tx = run[v].tx
    BY <1>2
  <1>. QED  BY <1>1, <1>3, OwnedStays

\* A run that sends its transaction, or tries to.
LEMMA Broadcasting ==
    ASSUME Typed, NEW w \in Worker, Broadcast(w) \/ NotBroadcast(w)
    PROVE  /\ run[w].pc = "broadcast" /\ run[w].tx \in DOMAIN txs
           /\ run'[w].pc \in {"wait", "finish"}
           /\ run'[w].msg = run[w].msg /\ run'[w].calls = run[w].calls
           /\ \A v \in Worker \ {w} : run'[v] = run[v]
           /\ DOMAIN txs' = DOMAIN txs
           /\ \A t \in DOMAIN txs : txs'[t].calls = txs[t].calls
           /\ \A t \in DOMAIN txs \ {run[w].tx} : txs'[t] = txs[t]
           /\ UNCHANGED <<messages, rows, chain, index, lock, clock>>
  <1>1. PICK step \in {"wait", "finish"} : Goto(w, step)
    BY DEF Broadcast, NotBroadcast
  <1>2. run[w].pc = "broadcast" /\ run[w].tx \in DOMAIN txs
    BY DEF Broadcast, NotBroadcast, At, Typed, Stages, Staged, HasTx
  <1>3. txs' = txs \/ txs' = [txs EXCEPT ![run[w].tx].state = "sent"]
    BY DEF Broadcast, NotBroadcast
  <1>4. /\ DOMAIN txs' = DOMAIN txs
        /\ \A t \in DOMAIN txs : txs'[t].calls = txs[t].calls
        /\ \A t \in DOMAIN txs \ {run[w].tx} : txs'[t] = txs[t]
    <2>1. CASE txs' = txs
      BY <2>1
    <2>2. CASE txs' = [txs EXCEPT ![run[w].tx].state = "sent"]
      BY <1>2, <2>2, StateChange
    <2>. QED  BY <1>3, <2>1, <2>2
  <1>5. UNCHANGED <<messages, rows, chain, index, lock, clock>>
    BY DEF Broadcast, NotBroadcast
  <1>. QED  BY <1>1, <1>2, <1>4, <1>5, Going DEF Labels

LEMMA BroadcastOwned ==
    ASSUME Typed, Owned, NEW w \in Worker, Broadcast(w) \/ NotBroadcast(w)
    PROVE  Owned'
  <1>1. ASSUME NEW v \in Worker, run'[v].pc \in Unsent
        PROVE  /\ run[v].pc \in Unsent /\ run'[v].tx = run[v].tx
               /\ txs'[run[v].tx].state = txs[run[v].tx].state
    <2>1. v # w
      BY <1>1, Broadcasting DEF Unsent
    <2>2. run'[v] = run[v]
      BY <2>1, Broadcasting
    <2>3. run[v].tx \in DOMAIN txs
      BY <1>1, <2>2 DEF Typed, Stages, Staged, HasTx, Unsent
    <2>4. run[w].pc \in Unsent
      BY Broadcasting DEF Unsent
    <2>5. run[v].tx # run[w].tx
      BY <1>1, <2>1, <2>2, <2>4 DEF Owned
    <2>. QED  BY <1>1, <2>2, <2>3, <2>5, Broadcasting
  <1>. QED  BY <1>1, OwnedStays

LEMMA SignOwned ==
    ASSUME Typed, Owned, NEW w \in Worker, Sign(w)
    PROVE  Owned'
  <1>1. \A v \in Worker \ {w} : run'[v] = run[v]
    BY Signing
  <1>2. \A v \in Worker \ {w} :
           run[v].pc \in Unsent => run[v].tx \in 1 .. Len(txs)
    BY Signing DEF Typed, Stages, Staged, HasTx, Unsent
  <1>3. run'[w].tx = Len(txs) + 1 /\ Len(txs) \in Nat
        /\ txs'[Len(txs) + 1].state = "signed"
        /\ \A t \in 1 .. Len(txs) : txs'[t] = txs[t]
    BY Signing
  <1>4. \A v \in Worker \ {w} :
           run'[v].pc \in Unsent => /\ run'[v].tx # run'[w].tx
                                    /\ txs'[run'[v].tx].state = "signed"
    BY <1>1, <1>2, <1>3 DEF Owned
  <1>5. \A v, u \in Worker \ {w} :
           run'[v].pc \in Unsent /\ run'[u].pc \in Unsent
             /\ run'[v].tx = run'[u].tx => v = u
    BY <1>1 DEF Owned
  <1>. QED  BY <1>3, <1>4, <1>5 DEF Owned

LEMMA OwnedStep == Typed /\ Owned /\ [Next]_vars => Owned'
  <1>. SUFFICES ASSUME Typed, Owned, [Next]_vars  PROVE Owned'
    OBVIOUS
  <1>1. ASSUME NEW w \in Worker, Work(w)  PROVE Owned'
    BY <1>1, PlainOwned, BroadcastOwned, SignOwned
  <1>2. CASE \/ \E s \in Swap : Publish(s) \/ CommitRow(s) \/ Spoil(s)
             \/ Tick \/ LockExpire \/ UNCHANGED vars
    <2>1. UNCHANGED <<run, txs>>
      BY <1>2 DEF Publish, CommitRow, Spoil, Tick, LockExpire, vars
    <2>. QED  BY <2>1, OwnedStays
  <1>3. ASSUME NEW t \in DOMAIN txs, Mine(t)  PROVE Owned'
    <2>1. PICK st \in {"mined", "reverted"} : txs' = [txs EXCEPT ![t].state = st]
      BY <1>3 DEF Mine
    <2>2. txs[t].state = "sent" /\ run' = run
      BY <1>3 DEF Mine
    <2>3. \A v \in Worker : run[v].pc \in Unsent => run[v].tx \in DOMAIN txs \ {t}
      BY <2>2 DEF Owned, Typed, Stages, Staged, HasTx, Unsent
    <2>4. \A u \in DOMAIN txs \ {t} : txs'[u] = txs[u]
      BY <2>1, StateChange
    <2>. QED  BY <2>2, <2>3, <2>4, OwnedStays
  <1>4. CASE Crash
    <2>1. \A v \in Worker : run'[v].pc = "idle"
      BY <1>4, Crashing DEF Idle
    <2>. QED  BY <2>1 DEF Owned, Unsent
  <1>. QED  BY <1>1, <1>2, <1>3, <1>4 DEF Next

LEMMA OwnedInit == Init => Owned
  BY DEF Init, Idle, Owned, Unsent

-----------------------------------------------------------------------------
(***************************************************************************)
(* A swap keeps its place but in the steps that move it.                   *)
(***************************************************************************)
LEMMA BroadcastPlaces ==
    ASSUME Typed, Typed', Owned, Places, NEW w \in Worker,
           Broadcast(w) \/ NotBroadcast(w)
    PROVE  Places'
  <1>1. UNCHANGED <<signed, queue, lost, paid>>
    BY Broadcasting DEF messages, chain
  <1>2. TxsKeep
    <2>1. txs[run[w].tx].state = "signed"
      BY Broadcasting DEF Owned, Unsent
    <2>. QED  BY <2>1, Broadcasting DEF TxsKeep
  <1>3. ASSUME NEW s \in Swap
        PROVE  Placed(s)'
    <2>1. \A v \in Worker : RunKeeps(v, s)
      BY Broadcasting DEF RunKeeps, Unsigned, HasMessage
    <2>2. Placed(s)
      BY DEF Places
    <2>. QED  BY <1>1, <1>2, <2>1, <2>2, SameQueue, PlacesStay
  <1>. QED  BY <1>3 DEF Places

LEMMA FetchPlaces ==
    ASSUME Typed, Typed', Places, NEW w \in Worker, Fetch(w)
    PROVE  Places'
  <1>1. UNCHANGED <<signed, lost, txs, paid>> /\ run[w].pc = "fetch"
    BY DEF Fetch, chain, At
  <1>2. \A i \in DOMAIN queue' : i \in Int /\ i # 0
    <2>1. queue' \in Seq(Swap)
      BY Fetching
    <2>. QED  BY <2>1, LenProperties
  <1>3. ASSUME NEW s \in Swap, s # queue[1]
        PROVE  Placed(s)'
    <2>1. \A v \in Worker : RunKeeps(v, s)
      BY <1>1, <1>3, Fetching DEF RunKeeps, Unsigned, HasMessage
    <2>2. QueueKeeps(-1, s)
      <3>1. ASSUME NEW i \in DOMAIN queue'
            PROVE  i - (-1) \in DOMAIN queue /\ queue'[i] = queue[i - (-1)]
        <4>1. i - (-1) = i + 1
          BY <1>2
        <4>. QED  BY <4>1, Fetching
      <3>. QED  BY <3>1 DEF QueueKeeps
    <2>3. Placed(s)
      BY DEF Places
    <2>. QED  BY <1>1, <2>1, <2>2, <2>3, SameTxs, PlacesStay
  <1>4. ASSUME NEW s \in Swap, s = queue[1]
        PROVE  Placed(s)'
    <2>1. 1 \in DOMAIN queue /\ queue[1] = s
      BY <1>4, Fetching
    <2>2. signed'[s] # None
      BY <1>1, <2>1 DEF Typed, Stages
    <2>3. SUFFICES ASSUME s \notin lost  PROVE Once(s)'
      BY <1>1, <2>2 DEF Placed
    <2>4. Once(s)
      BY <2>3 DEF Places, Placed
    <2>5. \A v \in Worker : ~Holds(v, s)
      BY <2>1, <2>4 DEF Once, OneHolder
    <2>6. \A t \in DOMAIN txs : s \notin SwapsOf(t)
      BY <2>1, <2>4 DEF Once, OneTransaction
    <2>7. \A i \in DOMAIN queue' : queue'[i] # s
      BY <1>2, <2>1, <2>4, Fetching DEF Once, OnePosition
    <2>8. \A v \in Worker : ~Collects(v, s)'
      <3>1. ASSUME NEW v \in Worker \ {w}  PROVE ~Collects(v, s)'
        BY <2>5, Fetching DEF Holds, Collects, Called
      <3>2. ~Collects(w, s)'
        BY <1>1, <2>5, Fetching DEF Holds, Collects, Called, Unsigned
      <3>. QED  BY <3>1, <3>2
    <2>9. \A v \in Worker : Holds(v, s)' => v = w
      BY <2>5, <2>8, Fetching DEF Holds
    <2>10. OnePosition(s)' /\ OneHolder(s)'
      BY <2>7, <2>9 DEF OnePosition, OneHolder
    <2>11. OneCall(s)'
      BY <2>8 DEF OneCall, Collects, Called
    <2>12. OneTransaction(s)' /\ PaidByOne(s)'
      BY <1>1, <2>4, <2>6 DEF Once, OneTransaction, PaidByOne, SwapsOf
    <2>. QED  BY <2>10, <2>11, <2>12 DEF Once
  <1>. QED  BY <1>3, <1>4 DEF Places

LEMMA PutBackPlaces ==
    ASSUME Typed, Typed', Places, NEW w \in Worker, Nack(w) \/ AckLost(w)
    PROVE  Places'
  <1>1. /\ UNCHANGED <<signed, txs, paid>> /\ lost \subseteq lost'
        /\ queue' = <<run[w].msg>> \o queue
    BY DEF Nack, AckLost, chain
  <1>2. \A i \in DOMAIN queue' : i \in Int
    <2>1. queue' \in Seq(Swap)
      BY <1>1, Dropping, PuttingBack
    <2>. QED  BY <2>1, LenProperties
  <1>3. ASSUME NEW s \in Swap, s # run[w].msg
        PROVE  Placed(s)'
    <2>1. \A v \in Worker : RunKeeps(v, s)
      BY Dropping, ConstantsType DEF RunKeeps, Unsigned, HasMessage
    <2>2. QueueKeeps(1, s)
      BY <1>1, <1>3, Dropping, PuttingBack DEF QueueKeeps
    <2>3. Placed(s)
      BY DEF Places
    <2>. QED  BY <1>1, <2>1, <2>2, <2>3, SameTxs, PlacesStay
  <1>4. ASSUME NEW s \in Swap, s = run[w].msg
        PROVE  Placed(s)'
    <2>1. signed'[s] # None
      BY <1>1, <1>4, Dropping
    <2>2. SUFFICES ASSUME s \notin lost'  PROVE Once(s)'
      BY <2>1 DEF Placed
    <2>3. Nack(w) /\ s \notin lost
      BY <1>1, <1>4, <2>2 DEF AckLost
    <2>4. Once(s) /\ Holds(w, s) /\ run[w].pc = "nack"
      BY <1>4, <2>3 DEF Places, Placed, Holds, Nack, At
    <2>5. \A i \in DOMAIN queue : queue[i] # s
      BY <2>4 DEF Once, OneHolder
    <2>6. \A i \in DOMAIN queue' : queue'[i] = s => i = 1
      BY <1>1, <2>5, Dropping, PuttingBack
    <2>7. \A t \in DOMAIN txs : s \notin SwapsOf(t)
      BY <2>4 DEF Once, OneTransaction
    <2>8. \A v \in Worker : ~Holds(v, s)'
      <3>1. ASSUME NEW v \in Worker \ {w}  PROVE ~Holds(v, s)'
        <4>1. ~Holds(v, s)
          BY <2>4 DEF Once, OneHolder
        <4>. QED  BY <4>1, Dropping DEF Holds, Collects, Called
      <3>2. ~Called(w, s)
        BY <1>4, <2>4 DEF Once, OneCall, Collects, Unsigned, HasMessage
      <3>3. ~Holds(w, s)'
        BY <3>2, Dropping, ConstantsType DEF Holds, Collects, Called
      <3>. QED  BY <3>1, <3>3
    <2>9. OnePosition(s)' /\ OneHolder(s)'
      BY <2>6, <2>8 DEF OnePosition, OneHolder
    <2>10. OneCall(s)'
      BY <2>8 DEF OneCall, Holds, Collects, Called
    <2>11. OneTransaction(s)' /\ PaidByOne(s)'
      BY <1>1, <2>4, <2>7 DEF Once, OneTransaction, PaidByOne, SwapsOf
    <2>. QED  BY <2>9, <2>10, <2>11 DEF Once
  <1>. QED  BY <1>3, <1>4 DEF Places

LEMMA CollectPlaces ==
    ASSUME Typed, Typed', Places, NEW w \in Worker, Estimated(w)
    PROVE  Places'
  <1>1. UNCHANGED <<signed, queue, lost, txs, paid>>
    BY DEF Estimated, messages, chain
  <1>2. ASSUME NEW s \in Swap, NEW i \in DOMAIN run'[w].calls,
               run'[w].calls[i].swap = s
        PROVE  \/ i \in DOMAIN run[w].calls /\ run[w].calls[i].swap = s
               \/ s = run[w].msg /\ i = Len(run[w].calls) + 1
    <2>1. i \in 1 .. Len(run[w].calls) \/ i = Len(run[w].calls) + 1
      BY Collecting
    <2>2. CASE i \in 1 .. Len(run[w].calls)
      BY <1>2, <2>2, Collecting
    <2>3. CASE i = Len(run[w].calls) + 1
      BY <1>2, <2>3, Collecting
    <2>. QED  BY <2>1, <2>2, <2>3
  <1>3. ASSUME NEW s \in Swap, s # run[w].msg
        PROVE  Placed(s)'
    <2>1. RunKeeps(w, s)
      BY <1>2, <1>3, Collecting DEF RunKeeps, Unsigned, HasMessage
    <2>2. \A v \in Worker \ {w} : RunKeeps(v, s)
      BY Collecting DEF RunKeeps
    <2>3. Placed(s)
      BY DEF Places
    <2>. QED  BY <1>1, <2>1, <2>2, <2>3, SameQueue, SameTxs, PlacesStay
  <1>4. ASSUME NEW s \in Swap, s = run[w].msg
        PROVE  Placed(s)'
    <2>1. signed'[s] # None
      BY <1>1, <1>4, Collecting, ConstantsType DEF Typed, Stages, Staged
    <2>2. SUFFICES ASSUME s \notin lost  PROVE Once(s)'
      BY <1>1, <2>1 DEF Placed
    <2>3. Once(s) /\ Holds(w, s)
      BY <1>4, <2>2 DEF Places, Placed, Holds
    <2>4. \A v \in Worker \ {w} : ~Holds(v, s) /\ run'[v] = run[v]
      BY <2>3, Collecting DEF Once, OneHolder
    <2>5. \A v \in Worker : Holds(v, s)' => v = w
      BY <2>4 DEF Holds, Collects, Called
    <2>6. \A i \in DOMAIN queue : queue[i] # s
      BY <2>3 DEF Once, OneHolder
    <2>7. OnePosition(s)' /\ OneHolder(s)'
      BY <1>1, <2>5, <2>6 DEF OnePosition, OneHolder
    <2>8. ~Called(w, s)
      BY <1>4, <2>3, Collecting
         DEF Once, OneCall, Collects, Unsigned, HasMessage
    <2>9. \A i \in DOMAIN run'[w].calls :
             run'[w].calls[i].swap = s => i = Len(run[w].calls) + 1
      BY <1>2, <2>8 DEF Called
    <2>10. OneCall(s)'
      <3>1. \A v \in Worker \ {w} : ~Collects(v, s)' /\ run'[v].msg # s
        BY <2>4 DEF Holds, Collects, Called
      <3>2. \A v \in Worker \ {w} : run'[v].pc \in Unsigned => ~Called(v, s)'
        BY <3>1 DEF Collects
      <3>. QED  BY <2>9, <3>1, <3>2, Collecting DEF OneCall, Called
    <2>11. OneTransaction(s)' /\ PaidByOne(s)'
      <3>1. \A t \in DOMAIN txs : s \notin SwapsOf(t)
        BY <2>3 DEF Once, OneTransaction
      <3>. QED
        BY <1>1, <2>3, <3>1 DEF Once, OneTransaction, PaidByOne, SwapsOf
    <2>. QED  BY <2>7, <2>10, <2>11 DEF Once
  <1>. QED  BY <1>3, <1>4 DEF Places

LEMMA SignPlaces ==
    ASSUME Typed, Typed', Places, NEW w \in Worker, Sign(w)
    PROVE  Places'
  <1>1. UNCHANGED <<signed, queue, lost, paid>>
    BY Signing DEF messages, chain
  <1>2. PICK n \in Nat :
            /\ DOMAIN txs' = DOMAIN txs \cup {n} /\ n \notin DOMAIN txs
            /\ txs'[n].calls = run[w].calls
            /\ \A t \in DOMAIN txs : txs'[t] = txs[t]
    <2>1. Len(txs) + 1 \in Nat
      BY Signing
    <2>2. /\ DOMAIN txs' = DOMAIN txs \cup {Len(txs) + 1}
          /\ Len(txs) + 1 \notin DOMAIN txs
      <3>1. \A l \in Nat : 1 .. l + 1 = (1 .. l) \cup {l + 1}
                            /\ l + 1 \notin 1 .. l
        OBVIOUS
      <3>. QED  BY <3>1, Signing
    <2>3. /\ txs'[Len(txs) + 1].calls = run[w].calls
          /\ \A t \in DOMAIN txs : txs'[t] = txs[t]
      BY Signing
    <2>. QED  BY <2>1, <2>2, <2>3
  <1>3. ASSUME NEW s \in Swap  PROVE Placed(s)'
    <2>1. \A v \in Worker : Holds(v, s)' => v # w /\ Holds(v, s)
      BY Signing, ConstantsType
         DEF Holds, Collects, Called, Unsigned, HasMessage
    <2>2. \A t \in DOMAIN txs : SwapsOf(t)' = SwapsOf(t)
      BY <1>2 DEF SwapsOf
    <2>3. s \in SwapsOf(n)' => Holds(w, s) /\ Called(w, s)
      BY <1>2, Signing DEF SwapsOf, Holds, Collects, Called, Unsigned
    <2>4. ASSUME Nowhere(s)  PROVE Nowhere(s)'
      BY <1>1, <1>2, <2>1, <2>2, <2>3, <2>4 DEF Nowhere
    <2>5. ASSUME Once(s)  PROVE Once(s)'
      <3>1. OnePosition(s)' /\ OneHolder(s)'
        BY <1>1, <2>1, <2>5 DEF Once, OnePosition, OneHolder
      <3>2. OneCall(s)'
        <4>1. \A v \in Worker \ {w} : run'[v] = run[v]
          BY Signing
        <4>2. run'[w].pc \notin Unsigned /\ run'[w].msg # s
          BY Signing, ConstantsType DEF Unsigned, HasMessage
        <4>. QED  BY <2>5, <4>1, <4>2 DEF Once, OneCall, Collects, Called
      <3>3. ASSUME s \in SwapsOf(n)'
            PROVE  /\ \A t \in DOMAIN txs : s \notin SwapsOf(t)
                   /\ \A i \in DOMAIN queue : queue[i] # s
                   /\ \A v \in Worker : ~Holds(v, s)'
        BY <2>1, <2>3, <2>5, <3>3 DEF Once, OneHolder, OneTransaction
      <3>4. \A i, j \in DOMAIN txs'[n].calls :
               txs'[n].calls[i].swap = s /\ txs'[n].calls[j].swap = s => i = j
        BY <1>2, <2>5, Signing DEF Once, OneCall, Unsigned
      <3>5. OneTransaction(s)'
        <4>1. \A t, u \in DOMAIN txs' :
                 s \in SwapsOf(t)' /\ s \in SwapsOf(u)' => t = u
          BY <1>2, <2>2, <2>5, <3>3 DEF Once, OneTransaction
        <4>2. \A t \in DOMAIN txs' : \A i, j \in DOMAIN txs'[t].calls :
                 txs'[t].calls[i].swap = s /\ txs'[t].calls[j].swap = s => i = j
          BY <1>2, <2>5, <3>4 DEF Once, OneTransaction
        <4>3. \A t \in DOMAIN txs' : s \in SwapsOf(t)' =>
                 /\ \A i \in DOMAIN queue' : queue'[i] # s
                 /\ \A v \in Worker : ~Holds(v, s)'
          BY <1>1, <1>2, <2>1, <2>2, <2>5, <3>3 DEF Once, OneTransaction
        <4>. QED  BY <4>1, <4>2, <4>3 DEF OneTransaction
      <3>6. PaidByOne(s)'
        BY <1>1, <1>2, <2>2, <2>5 DEF Once, PaidByOne
      <3>. QED  BY <3>1, <3>2, <3>5, <3>6 DEF Once
    <2>. QED  BY <1>1, <2>4, <2>5 DEF Places, Placed
  <1>. QED  BY <1>3 DEF Places

LEMMA PublishPlaces ==
    ASSUME Typed, Typed', Places, NEW p \in Swap, Publish(p)
    PROVE  Places'
  <1>1. UNCHANGED <<lost, txs, paid, run>>
    BY DEF Publish, chain
  <1>2. \A i \in DOMAIN queue' : queue'[i] # p => i \in DOMAIN queue
                                                  /\ queue'[i] = queue[i]
                                                  /\ i - 0 = i
    BY Publishing
  <1>3. \A s \in Swap \ {p} : signed'[s] = signed[s]
    BY Publishing DEF Typed, TypeOK
  <1>4. ASSUME NEW s \in Swap, s # p  PROVE Placed(s)'
    <2>1. QueueKeeps(0, s)
      BY <1>2, <1>4 DEF QueueKeeps
    <2>2. \A v \in Worker : RunKeeps(v, s)
      BY <1>1 DEF RunKeeps
    <2>3. Placed(s)
      BY DEF Places
    <2>. QED  BY <1>1, <1>3, <1>4, <2>1, <2>2, <2>3, SameTxs, PlacesStay
  <1>5. Placed(p)'
    <2>1. Nowhere(p) /\ signed'[p] # None
      BY Publishing, ConstantsType DEF Places, Placed
    <2>2. SUFFICES ASSUME p \notin lost  PROVE Once(p)'
      BY <1>1, <2>1 DEF Placed
    <2>3. Once(p)
      BY <2>2 DEF Places, Placed
    <2>4. \A i \in DOMAIN queue' : queue'[i] = p => i = Len(queue) + 1
      BY <2>1, Publishing DEF Nowhere
    <2>5. \A v \in Worker : Holds(v, p)' = Holds(v, p)
      BY <1>1 DEF Holds, Collects, Called
    <2>6. OnePosition(p)' /\ OneHolder(p)'
      BY <2>1, <2>4, <2>5 DEF Nowhere, OnePosition, OneHolder
    <2>7. OneCall(p)' /\ PaidByOne(p)'
      BY <1>1, <2>3 DEF Once, OneCall, PaidByOne, Collects, Called, SwapsOf
    <2>8. OneTransaction(p)'
      BY <1>1, <2>1 DEF Nowhere, OneTransaction, SwapsOf
    <2>. QED  BY <2>6, <2>7, <2>8 DEF Once
  <1>. QED  BY <1>4, <1>5 DEF Places

\* What one execution of a transaction pays a swap: no more than one call.
LEMMA Counting ==
    ASSUME Typed, NEW t \in DOMAIN txs, NEW s \in Swap, Mine(t),
           Accepted(txs[t].calls)
    PROVE  /\ s \notin SwapsOf(t) => paid'[s] = paid[s]
           /\ /\ s \in SwapsOf(t)
              /\ \A i, j \in DOMAIN txs[t].calls :
                    txs[t].calls[i].swap = s /\ txs[t].calls[j].swap = s => i = j
              => paid'[s] = paid[s] + 1
  <1>. DEFINE I == {i \in DOMAIN txs[t].calls : txs[t].calls[i].swap = s}
  <1>1. paid'[s] = paid[s] + Cardinality(I)
    BY DEF Mine
  <1>2. paid[s] \in Nat
    BY DEF Typed, TypeOK
  <1>3. ASSUME s \notin SwapsOf(t)  PROVE Cardinality(I) = 0
    <2>1. I = {}
      BY <1>3 DEF SwapsOf
    <2>. QED  BY <2>1, FS_EmptySet
  <1>4. ASSUME s \in SwapsOf(t),
               \A i, j \in DOMAIN txs[t].calls :
                  txs[t].calls[i].swap = s /\ txs[t].calls[j].swap = s => i = j
        PROVE  Cardinality(I) = 1
    <2>1. PICK i \in DOMAIN txs[t].calls : txs[t].calls[i].swap = s
      BY <1>4 DEF SwapsOf
    <2>2. I = {i}
      BY <1>4, <2>1
    <2>. QED  BY <2>2, FS_Singleton
  <1>. HIDE DEF I
  <1>. QED  BY <1>1, <1>2, <1>3, <1>4

LEMMA MinePlaces ==
    ASSUME Typed, Typed', Places, NEW t \in DOMAIN txs, Mine(t)
    PROVE  Places'
  <1>1. UNCHANGED <<signed, queue, lost, run>> /\ txs[t].state = "sent"
    BY DEF Mine, messages
  <1>2. PICK st \in {"mined", "reverted"} :
            /\ txs' = [txs EXCEPT ![t].state = st]
            /\ Accepted(txs[t].calls) => st = "mined"
            /\ ~Accepted(txs[t].calls) => paid' = paid
    BY DEF Mine
  <1>3. /\ DOMAIN txs' = DOMAIN txs /\ txs'[t].state = st
        /\ \A u \in DOMAIN txs : txs'[u].calls = txs[u].calls
        /\ \A u \in DOMAIN txs \ {t} : txs'[u] = txs[u]
    BY <1>2, StateChange
  <1>4. TxsKeep
    BY <1>1, <1>3 DEF TxsKeep
  <1>5. ASSUME NEW s \in Swap, paid'[s] = paid[s]  PROVE Placed(s)'
    <2>1. \A v \in Worker : RunKeeps(v, s)
      BY <1>1 DEF RunKeeps
    <2>2. Placed(s)
      BY DEF Places
    <2>. QED  BY <1>1, <1>4, <1>5, <2>1, <2>2, SameQueue, PlacesStay
  <1>6. ASSUME NEW s \in Swap, paid'[s] # paid[s]  PROVE Placed(s)'
    <2>1. Accepted(txs[t].calls) /\ s \in SwapsOf(t)
      BY <1>2, <1>6, Counting
    <2>2. signed'[s] # None
      BY <1>1, <2>1 DEF Places, Placed, Nowhere
    <2>3. SUFFICES ASSUME s \notin lost  PROVE Once(s)'
      BY <1>1, <2>2 DEF Placed
    <2>4. Once(s)
      BY <2>3 DEF Places, Placed
    <2>5. paid'[s] = paid[s] + 1
      BY <2>1, <2>4, Counting DEF Once, OneTransaction
    <2>6. paid[s] = 0
      BY <1>1, <2>1, <2>4 DEF Once, OneTransaction, PaidByOne
    <2>7. \A u \in DOMAIN txs : SwapsOf(u)' = SwapsOf(u)
      BY <1>3 DEF SwapsOf
    <2>8. PaidByOne(s)'
      BY <1>2, <1>3, <2>1, <2>5, <2>6, <2>7 DEF PaidByOne
    <2>9. \A v \in Worker : Holds(v, s)' = Holds(v, s)
      BY <1>1 DEF Holds, Collects, Called
    <2>10. OnePosition(s)' /\ OneHolder(s)' /\ OneCall(s)'
      BY <1>1, <2>4, <2>9
         DEF Once, OnePosition, OneHolder, OneCall, Collects, Called
    <2>11. OneTransaction(s)'
      BY <1>1, <1>3, <2>4, <2>7, <2>9 DEF Once, OneTransaction
    <2>. QED  BY <2>8, <2>10, <2>11 DEF Once
  <1>. QED  BY <1>5, <1>6 DEF Places

LEMMA CrashPlaces ==
    ASSUME Typed, Typed', Places, Crash
    PROVE  Places'
  <1>1. UNCHANGED <<signed, lost, txs, paid>>
    BY Crashing DEF chain
  <1>2. \A v \in Worker : run'[v] = Idle
    BY Crashing
  <1>3. PICK n \in Nat :
            /\ DOMAIN queue' = 1 .. n + Len(queue) /\ Len(queue) \in Nat
            /\ DOMAIN queue = 1 .. Len(queue)
            /\ \A i \in 1 .. n : queue'[i] \in Held
            /\ \A i, j \in 1 .. n : queue'[i] = queue'[j] => i = j
            /\ \A i \in n + 1 .. n + Len(queue) : queue'[i] = queue[i - n]
    BY Crashing
  <1>4. \A i \in DOMAIN queue' :
           i \in 1 .. n \/ (i - n \in DOMAIN queue /\ queue'[i] = queue[i - n])
    BY <1>3
  <1>5. ASSUME NEW s \in Swap, s \notin Held  PROVE Placed(s)'
    <2>1. QueueKeeps(n, s)
      BY <1>3, <1>4, <1>5 DEF QueueKeeps
    <2>2. \A v \in Worker : RunKeeps(v, s)
      BY <1>2 DEF RunKeeps, Idle
    <2>3. Placed(s)
      BY DEF Places
    <2>. QED  BY <1>1, <2>1, <2>2, <2>3, SameTxs, PlacesStay
  <1>6. ASSUME NEW s \in Swap, s \in Held  PROVE Placed(s)'
    <2>1. PICK w \in Worker : run[w].msg = s
      BY <1>6 DEF Held
    <2>2. signed'[s] # None
      BY <1>1, <2>1, ConstantsType DEF Typed, Stages, Staged
    <2>3. SUFFICES ASSUME s \notin lost  PROVE Once(s)'
      BY <1>1, <2>2 DEF Placed
    <2>4. Once(s) /\ Holds(w, s)
      BY <2>1, <2>3 DEF Places, Placed, Holds
    <2>5. \A i \in DOMAIN queue : queue[i] # s
      BY <2>4 DEF Once, OneHolder
    <2>6. \A i \in DOMAIN queue' : queue'[i] = s => i \in 1 .. n
      BY <1>4, <2>5
    <2>7. \A v \in Worker : ~Holds(v, s)'
      BY <1>2, ConstantsType
         DEF Holds, Collects, Called, Idle, Unsigned, HasMessage
    <2>8. OnePosition(s)' /\ OneHolder(s)' /\ OneCall(s)'
      <3>1. OnePosition(s)'
        BY <1>3, <2>6 DEF OnePosition
      <3>2. OneHolder(s)'
        BY <2>7 DEF OneHolder
      <3>3. OneCall(s)'
        BY <1>2, <2>7 DEF OneCall, Holds, Collects, Idle, Unsigned, HasMessage
      <3>. QED  BY <3>1, <3>2, <3>3
    <2>9. OneTransaction(s)' /\ PaidByOne(s)'
      <3>1. \A t \in DOMAIN txs : s \notin SwapsOf(t)
        BY <2>4 DEF Once, OneTransaction
      <3>. QED
        BY <1>1, <2>4, <3>1 DEF Once, OneTransaction, PaidByOne, SwapsOf
    <2>. QED  BY <2>8, <2>9 DEF Once
  <1>. QED  BY <1>5, <1>6 DEF Places

LEMMA QuietPlaces ==
    ASSUME Typed, Typed', Places,
           \/ \E p \in Swap : CommitRow(p) \/ Spoil(p)
           \/ Tick \/ LockExpire \/ UNCHANGED vars
    PROVE  Places'
  <1>1. UNCHANGED <<signed, queue, lost, txs, paid, run>>
    BY DEF CommitRow, Spoil, Tick, LockExpire, vars, messages, chain
  <1>2. ASSUME NEW s \in Swap  PROVE Placed(s)'
    <2>1. \A v \in Worker : RunKeeps(v, s)
      BY <1>1 DEF RunKeeps
    <2>2. Placed(s)
      BY DEF Places
    <2>. QED  BY <1>1, <2>1, <2>2, SameQueue, SameTxs, PlacesStay
  <1>. QED  BY <1>2 DEF Places

LEMMA PlacesStep ==
    Typed /\ Owned /\ Places /\ [Next]_vars => Places'
  <1>. SUFFICES ASSUME Typed, Owned, Places, [Next]_vars  PROVE Places'
    OBVIOUS
  <1>1. Typed'
    BY TypeStep
  <1>2. ASSUME NEW w \in Worker, Work(w)  PROVE Places'
    BY <1>1, <1>2, PlainPlaces, BroadcastPlaces, FetchPlaces, PutBackPlaces,
       CollectPlaces, SignPlaces DEF Work
  <1>. QED
    BY <1>1, <1>2, PublishPlaces, MinePlaces, CrashPlaces, QuietPlaces DEF Next

LEMMA PlacesInit == Init => Places
  BY ConstantsType
     DEF Init, Idle, Places, Placed, Nowhere, Once, OnePosition, OneHolder,
         OneCall, OneTransaction, PaidByOne, Holds, Collects, Called, SwapsOf,
         Unsigned, HasMessage

\* The chain executes a swap at most once, whatever fails, crashes or
\* overlaps, unless the acknowledgement of its message was lost: the swap is
\* in one place at a time, a message, a run or a transaction, and a
\* transaction is executed once.
THEOREM NobodyPaidTwice == Spec => []PaidOnce
  <1>1. Typed /\ Owned /\ Places /\ [Next]_vars => Typed' /\ Owned' /\ Places'
    BY TypeStep, OwnedStep, PlacesStep
  <1>2. Places => PaidOnce
    BY DEF Places, Placed, Once, PaidByOne, PaidOnce
  <1>. QED  BY <1>1, <1>2, InitType, OwnedInit, PlacesInit, PTL DEF Spec

-----------------------------------------------------------------------------
(***************************************************************************)
(* The fate of a swap, where the broker keeps acknowledgements, the server *)
(* does not stop, its rows are there when their messages are, and neither  *)
(* the RPC node nor Redis fails in a preparation or an estimate.  Locks    *)
(* may expire, so that runs overlap, batches may be left unrecorded or     *)
(* unsent, and the contract may refuse any swap.                           *)
(***************************************************************************)
OrderlyFaults == Faults \subseteq {"amqp", "db", "broadcast", "lockExpiry", "spoil"}

Malformed(s) == ask[s].kind = "withdraw" /\ ask[s].permit = "malformed"

\* A swap that may still be called: it has not failed, or never will be
\* called.
Live(s) == status[s] = "failed" => Malformed(s)

Working(w) ==
    /\ run[w].pc \in HasMessage \ {"ack"} => Live(run[w].msg)
    /\ run[w].pc = "estimate" => ~Malformed(run[w].msg)
    /\ \A s \in Swap : Called(w, s) =>
          /\ s \in run[w].datas
          /\ run[w].pc \in Unsigned => status[s] # "failed"
    /\ run[w].pc = "broadcast" =>
          \A s \in SwapsOf(run[w].tx) : txrow[s] = run[w].tx

\* A transaction calls no failed swap, and the rows of its swaps refer to it
\* before it is sent.
Bound(t) ==
    \A s \in SwapsOf(t) :
        /\ status[s] # "failed"
        /\ txs[t].state # "signed" => txrow[s] = t

Fates ==
    /\ lost = {} /\ early = {}
    /\ \A s \in Swap : signed[s] = None <=> status[s] = "none"
    /\ \A i \in DOMAIN queue : Live(queue[i])
    /\ \A w \in Worker : Working(w)
    /\ \A t \in DOMAIN txs : Bound(t)

Traced == Typed /\ Owned /\ Places /\ References /\ Fates

\* What a step leaves of a run and of a transaction it does not touch.
LEMMA StillWorking ==
    ASSUME Typed, NEW v \in Worker, Working(v), run'[v] = run[v],
           UNCHANGED <<ask, status, txrow>>,
           \A t \in DOMAIN txs : t \in DOMAIN txs' /\ txs'[t].calls = txs[t].calls
    PROVE  Working(v)'
  <1>1. run[v].pc = "broadcast" => SwapsOf(run[v].tx)' = SwapsOf(run[v].tx)
    BY DEF SwapsOf, Typed, Stages, Staged, HasTx
  <1>. QED  BY <1>1 DEF Working, Live, Malformed, Called

LEMMA StillBound ==
    ASSUME NEW t \in DOMAIN txs, Bound(t), UNCHANGED <<status, txrow>>,
           txs'[t].calls = txs[t].calls,
           txs'[t].state # "signed" => txs[t].state # "signed"
    PROVE  Bound(t)'
  BY DEF Bound, SwapsOf

\* A run that moves on without a message, a new call or a recorded batch.
LEMMA GoFates ==
    ASSUME Traced, NEW w \in Worker,
           \/ Start(w) \/ NoMessage(w) \/ CheckGas(w) \/ SendPermits(w)
           \/ NoRelayer(w) \/ NotSigned(w) \/ NotRecorded(w) \/ Receipt(w)
           \/ Finish(w) \/ Ack(w)
    PROVE  Fates'
  <1>t. Typed /\ Fates
    BY DEF Traced
  <1>1. UNCHANGED <<ask, signed, queue, lost, status, txrow, early, txs>>
    BY DEF Start, NoMessage, CheckGas, SendPermits, NoRelayer, NotSigned,
           NotRecorded, Receipt, Finish, Ack, messages, rows
  <1>2. /\ \A v \in Worker \ {w} : run'[v] = run[v]
        /\ run'[w].pc \notin HasMessage \cup {"broadcast"}
        /\ \A s \in Swap : Called(w, s)' =>
              Called(w, s) /\ run'[w].datas = run[w].datas
        /\ run'[w].pc \in Unsigned => run[w].pc \in Unsigned \/ run[w].calls = <<>>
    <2>1. CASE \/ Start(w) \/ NoMessage(w) \/ CheckGas(w) \/ SendPermits(w)
               \/ NoRelayer(w) \/ NotSigned(w) \/ NotRecorded(w) \/ Receipt(w)
      <3>1. PICK step \in Labels :
                /\ Goto(w, step) /\ step \notin HasMessage \cup {"broadcast"}
                /\ step \in Unsigned => run[w].pc \in Unsigned \cup {"idle"}
        BY <2>1 DEF Start, NoMessage, CheckGas, SendPermits, NoRelayer,
                    NotSigned, NotRecorded, Receipt, Labels, At, Unsigned,
                    HasMessage
      <3>2. run[w].pc = "idle" => run[w].calls = <<>>
        BY <1>t DEF Typed, Stages, Staged
      <3>. QED  BY <1>t, <3>1, <3>2, Going DEF Called
    <2>2. CASE Finish(w)
      <3>1. run'[w] = Idle /\ \A v \in Worker \ {w} : run'[v] = run[v]
        BY <1>t, <2>2, IdleType, Becoming DEF Finish
      <3>. QED  BY <3>1 DEF Idle, Called, Unsigned, HasMessage
    <2>3. CASE Ack(w)
      BY <1>t, <2>3, Dropping DEF Called, Unsigned, HasMessage
    <2>. QED  BY <2>1, <2>2, <2>3
  <1>3. Working(w)'
    <2>1. ASSUME NEW s \in Swap, Called(w, s)'
          PROVE  s \in run'[w].datas
                 /\ (run'[w].pc \in Unsigned => status'[s] # "failed")
      BY <1>t, <1>1, <1>2, <2>1 DEF Fates, Working, Called
    <2>. QED  BY <1>2, <2>1 DEF Working, HasMessage
  <1>4. \A v \in Worker : Working(v)'
    BY <1>t, <1>1, <1>2, <1>3, StillWorking DEF Fates
  <1>5. \A t \in DOMAIN txs' : Bound(t)'
    BY <1>t, <1>1, StillBound DEF Fates
  <1>. QED  BY <1>t, <1>1, <1>4, <1>5 DEF Fates, Live, Malformed

LEMMA FetchFates ==
    ASSUME Traced, NEW w \in Worker, Fetch(w)
    PROVE  Fates'
  <1>t. Typed /\ Fates
    BY DEF Traced
  <1>1. UNCHANGED <<ask, signed, lost, status, txrow, early, txs>>
        /\ run[w].pc = "fetch"
    BY DEF Fetch, rows, At
  <1>2. /\ \A i \in DOMAIN queue : Live(queue[i])
        /\ \A v \in Worker : Working(v)
    BY <1>t DEF Fates
  <1>4. \A i \in DOMAIN queue' : Live(queue[i + 1])
    BY <1>t, <1>2, Fetching
  <1>5. Working(w)'
    <2>1. \A s \in Swap : Called(w, s)' = Called(w, s)
      BY <1>t, Fetching DEF Called
    <2>2. run'[w].pc = "prepare" /\ status'[run'[w].msg] = status[queue[1]]
          /\ ask'[run'[w].msg] = ask[queue[1]]
      BY <1>t, <1>1, Fetching
    <2>3. Live(queue[1])
      BY <1>t, <1>2, Fetching
    <2>4. Live(run[w].msg)'
      BY <2>2, <2>3 DEF Live, Malformed
    <2>. QED
      BY <1>t, <1>1, <1>2, <2>1, <2>2, <2>4, Fetching DEF Working, Unsigned
  <1>6. \A v \in Worker : Working(v)'
    BY <1>t, <1>1, <1>2, <1>5, Fetching, StillWorking
  <1>7. \A t \in DOMAIN txs' : Bound(t)'
    BY <1>t, <1>1, StillBound DEF Fates
  <1>8. \A i \in DOMAIN queue' : Live(queue[i])'
    <2>1. \A i \in DOMAIN queue' : queue'[i] = queue[i + 1]
      BY <1>t, Fetching
    <2>. QED  BY <1>1, <1>4, <2>1 DEF Live, Malformed
  <1>. QED  BY <1>t, <1>1, <1>6, <1>7, <1>8 DEF Fates

LEMMA PrepareFates ==
    ASSUME Traced, NEW w \in Worker, PrepareDeposit(w) \/ PrepareWithdraw(w)
    PROVE  Fates'
  <1>t. Typed /\ Fates
    BY DEF Traced
  <1>1. UNCHANGED <<ask, signed, queue, lost, status, txrow, early, txs>>
    BY <1>t, Preparing DEF messages, rows
  <1>2. ~Malformed(run[w].msg)
    BY DEF PrepareDeposit, PrepareWithdraw, Malformed
  <1>3. Working(w)'
    <2>1. \A s \in Swap : Called(w, s)' = Called(w, s)
      BY <1>t, Preparing DEF Called
    <2>2. Working(w)
      BY <1>t DEF Fates
    <2>3. Live(run[w].msg) /\ ~Malformed(run[w].msg)
      BY <1>t, <1>2, <2>2, Preparing DEF Working, HasMessage
    <2>4. Live(run[w].msg)' /\ ~Malformed(run[w].msg)'
      BY <1>t, <1>1, <2>3, Preparing DEF Live, Malformed
    <2>. QED
      BY <1>t, <1>1, <2>1, <2>2, <2>4, Preparing
         DEF Working, Unsigned, HasMessage
  <1>4. \A v \in Worker : Working(v)'
    BY <1>t, <1>1, <1>3, Preparing, StillWorking DEF Fates
  <1>5. \A t \in DOMAIN txs' : Bound(t)'
    BY <1>t, <1>1, StillBound DEF Fates
  <1>. QED  BY <1>t, <1>1, <1>4, <1>5 DEF Fates, Live, Malformed

LEMMA NackFates ==
    ASSUME Traced, NEW w \in Worker, Nack(w)
    PROVE  Fates'
  <1>t. Typed /\ Fates
    BY DEF Traced
  <1>1. UNCHANGED <<ask, signed, lost, status, txrow, early, txs>>
        /\ run[w].pc = "nack" /\ queue' = <<run[w].msg>> \o queue
    BY DEF Nack, rows, At
  <1>2. Working(w) /\ Live(run[w].msg)
    BY <1>t, <1>1 DEF Fates, Working, HasMessage
  <1>3. Working(w)'
    <2>1. \A s \in Swap : Called(w, s)' = Called(w, s)
      BY <1>t, Dropping DEF Called
    <2>. QED
      BY <1>t, <1>1, <1>2, <2>1, Dropping DEF Working, Unsigned, HasMessage
  <1>4. \A v \in Worker : Working(v)'
    BY <1>t, <1>1, <1>3, Dropping, StillWorking DEF Fates
  <1>5. \A t \in DOMAIN txs' : Bound(t)'
    BY <1>t, <1>1, StillBound DEF Fates
  <1>6. \A i \in DOMAIN queue' : Live(queue[i])'
    <2>1. /\ queue'[1] = run[w].msg
          /\ \A i \in DOMAIN queue' \ {1} :
                i - 1 \in DOMAIN queue /\ queue'[i] = queue[i - 1]
      BY <1>t, <1>1, Dropping, PuttingBack
    <2>2. \A i \in DOMAIN queue' : Live(queue'[i])
      BY <1>t, <1>2, <2>1 DEF Fates
    <2>. QED  BY <1>1, <2>2 DEF Live, Malformed
  <1>. QED  BY <1>t, <1>1, <1>4, <1>5, <1>6 DEF Fates

LEMMA CollectFates ==
    ASSUME Traced, NEW w \in Worker, Estimated(w)
    PROVE  Fates'
  <1>t. Typed /\ Fates
    BY DEF Traced
  <1>1. UNCHANGED <<ask, signed, queue, lost, status, txrow, early, txs>>
    BY DEF Estimated, messages, rows
  <1>2. Working(w) /\ status[run[w].msg] # "failed"
    <2>1. Working(w)
      BY <1>t DEF Fates
    <2>2. Live(run[w].msg) /\ ~Malformed(run[w].msg)
      BY <1>t, <2>1, Collecting DEF Working, HasMessage
    <2>. QED  BY <2>1, <2>2 DEF Live
  <1>3. \A s \in Swap : Called(w, s)' => Called(w, s) \/ s = run[w].msg
    <2>. SUFFICES ASSUME NEW s \in Swap, NEW i \in DOMAIN run'[w].calls,
                         run'[w].calls[i].swap = s
                  PROVE  Called(w, s) \/ s = run[w].msg
      BY DEF Called
    <2>1. i \in 1 .. Len(run[w].calls) \/ i = Len(run[w].calls) + 1
      BY <1>t, Collecting
    <2>2. CASE i \in 1 .. Len(run[w].calls)
      BY <1>t, <2>2, Collecting DEF Called
    <2>3. CASE i = Len(run[w].calls) + 1
      BY <1>t, <2>3, Collecting
    <2>. QED  BY <2>1, <2>2, <2>3
  <1>4. Working(w)'
    <2>1. \A s \in Swap : Called(w, s)' =>
             s \in run'[w].datas /\ status'[s] # "failed"
      <3>1. run'[w].datas = run[w].datas \cup {run[w].msg}
            /\ run[w].pc \in Unsigned
        BY <1>t, Collecting DEF Unsigned, HasMessage
      <3>. QED  BY <1>1, <1>2, <1>3, <3>1 DEF Working
    <2>2. run'[w].pc = "ack"
      BY <1>t, Collecting
    <2>. QED  BY <2>1, <2>2 DEF Working
  <1>5. \A v \in Worker : Working(v)'
    BY <1>t, <1>1, <1>4, Collecting, StillWorking DEF Fates
  <1>6. \A t \in DOMAIN txs' : Bound(t)'
    BY <1>t, <1>1, StillBound DEF Fates
  <1>. QED  BY <1>t, <1>1, <1>5, <1>6 DEF Fates, Live, Malformed

LEMMA CallType ==
    ASSUME NEW calls \in Seq(Call), NEW i \in DOMAIN calls
    PROVE  calls[i].swap \in Swap
  <1>1. calls[i] \in Call
    BY ElementOfSeq, LenProperties
  <1>. QED  BY <1>1 DEF Call

LEMMA SignFates ==
    ASSUME Traced, NEW w \in Worker, Sign(w)
    PROVE  Fates'
  <1>t. Typed /\ Fates /\ Typed'
    BY SignTyped DEF Traced
  <1>1. UNCHANGED <<ask, signed, queue, lost, status, txrow, early>>
    BY <1>t, Signing DEF messages, rows
  <1>2. \A t \in DOMAIN txs : t \in DOMAIN txs' /\ txs'[t] = txs[t]
    BY <1>t, Signing
  <1>3. Working(w)'
    <2>1. \A s \in Swap : Called(w, s)' = Called(w, s)
      BY <1>t, Signing DEF Called
    <2>. QED
      BY <1>t, <1>1, <2>1, Signing DEF Fates, Working, Unsigned, HasMessage
  <1>4. \A v \in Worker : Working(v)'
    BY <1>t, <1>1, <1>2, <1>3, Signing, StillWorking DEF Fates
  <1>5. \A t \in DOMAIN txs' : Bound(t)'
    <2>1. ASSUME NEW t \in DOMAIN txs  PROVE Bound(t)'
      BY <1>t, <1>1, <1>2, StillBound DEF Fates
    <2>2. ASSUME NEW t \in DOMAIN txs', t \notin DOMAIN txs  PROVE Bound(t)'
      <3>1. t = Len(txs) + 1
        BY <1>t, <2>2, Signing
      <3>2. txs'[t].calls = run[w].calls /\ txs'[t].state = "signed"
        BY <1>t, <3>1, Signing
      <3>3. run[w].calls \in Seq(Call)
        BY <1>t, RunType
      <3>4. \A i \in DOMAIN run[w].calls : run[w].calls[i].swap \in Swap
        BY <3>3, CallType
      <3>5. \A i \in DOMAIN run[w].calls : status[run[w].calls[i].swap] # "failed"
        BY <1>t, <3>4, Signing DEF Fates, Working, Called, Unsigned
      <3>. QED  BY <1>1, <3>2, <3>5 DEF Bound, SwapsOf
    <2>. QED  BY <2>1, <2>2
  <1>. QED  BY <1>t, <1>1, <1>4, <1>5 DEF Fates, Live, Malformed

LEMMA BroadcastFates ==
    ASSUME Traced, NEW w \in Worker, Broadcast(w) \/ NotBroadcast(w)
    PROVE  Fates'
  <1>t. Typed /\ Fates
    BY DEF Traced
  <1>1. UNCHANGED <<ask, signed, queue, lost, status, txrow, early>>
    BY <1>t, Broadcasting DEF messages, rows
  <1>2. Working(w)'
    <2>1. run'[w].datas = run[w].datas
      BY <1>t, Going DEF Broadcast, NotBroadcast, Labels
    <2>2. \A s \in Swap : Called(w, s)' = Called(w, s)
      BY <1>t, Broadcasting DEF Called
    <2>. QED
      BY <1>t, <2>1, <2>2, Broadcasting
         DEF Fates, Working, Unsigned, HasMessage
  <1>3. \A v \in Worker : Working(v)'
    BY <1>t, <1>1, <1>2, Broadcasting, StillWorking DEF Fates
  <1>4. ASSUME NEW t \in DOMAIN txs'  PROVE Bound(t)'
    <2>1. SwapsOf(t)' = SwapsOf(t) /\ t \in DOMAIN txs
      BY <1>t, Broadcasting DEF SwapsOf
    <2>2. CASE t = run[w].tx
      BY <1>t, <1>1, <2>1, <2>2, Broadcasting DEF Fates, Working, Bound
    <2>3. CASE t # run[w].tx
      BY <1>t, <1>1, <2>1, <2>3, Broadcasting, StillBound DEF Fates
    <2>. QED  BY <2>2, <2>3
  <1>. QED  BY <1>t, <1>1, <1>3, <1>4 DEF Fates, Live, Malformed

LEMMA RecordFates ==
    ASSUME Traced, NEW w \in Worker, Record(w)
    PROVE  Fates'
  <1>t. Typed /\ Fates /\ Owned /\ Places /\ References
    BY DEF Traced
  <1>1. UNCHANGED <<ask, signed, queue, lost, status, early, txs>>
    BY DEF Record, messages
  <1>2. /\ run[w].pc = "record" /\ run[w].tx \in DOMAIN txs
        /\ run[w].calls = txs[run[w].tx].calls
    BY <1>t DEF Record, At, Typed, Stages, Staged, HasTx
  <1>3. /\ run'[w].pc = "broadcast" /\ run'[w].tx = run[w].tx
        /\ run'[w].calls = run[w].calls /\ run'[w].datas = run[w].datas
        /\ \A v \in Worker \ {w} : run'[v] = run[v]
    BY <1>t, Going DEF Record, Labels
  <1>4. SwapsOf(run[w].tx) \subseteq Swap
    <2>1. run[w].calls \in Seq(Call)
      BY <1>t, RunType
    <2>2. \A i \in DOMAIN run[w].calls : run[w].calls[i].swap \in Swap
      BY <2>1, CallType
    <2>. QED  BY <1>2, <2>2 DEF SwapsOf
  \* The rows of the batch's swaps, and no others.
  <1>5. ASSUME NEW s \in SwapsOf(run[w].tx)  PROVE txrow'[s] = run[w].tx
    <2>1. Called(w, s) /\ s \in Swap
      BY <1>2, <1>4 DEF SwapsOf, Called
    <2>2. s \in run[w].datas /\ status[s] # "failed"
      BY <1>t, <1>2, <2>1 DEF Fates, Working, Bound
    <2>3. signed[s] # None
      BY <1>t, <1>2, <2>1 DEF Places, Placed, Nowhere
    <2>4. status[s] = "pending"
      BY <1>t, <2>1, <2>2, <2>3 DEF Fates, Typed, TypeOK
    <2>5. CASE txrow'[s] = txrow[s] /\ txrow[s] # 0
      <3>1. txrow[s] \in DOMAIN txs /\ txrow[s] > 0
        BY <1>t, <2>1, <2>5 DEF Typed, TypeOK
      <3>2. s \in SwapsOf(txrow[s])
        BY <1>t, <2>1, <2>4, <2>5, <3>1 DEF Fates, References, NamesCall
      <3>3. txrow[s] = run[w].tx
        BY <1>t, <1>2, <2>1, <3>1, <3>2 DEF Fates, Places, Placed, Once, OneTransaction
      <3>. QED  BY <2>5, <3>3
    <2>. QED  BY <2>1, <2>2, <2>4, <2>5, RecordedOrKept
  <1>6. ASSUME NEW s \in Swap, s \notin SwapsOf(run[w].tx)
        PROVE  txrow'[s] = txrow[s]
    <2>1. ~Called(w, s)
      BY <1>2, <1>6 DEF SwapsOf, Called
    <2>2. ~(s \in run[w].datas /\ status[s] = "pending")
      BY <1>t, <2>1 DEF Fates, References, Accounted
    <2>. QED  BY <2>2, RecordedOrKept
  <1>7. ASSUME NEW t \in DOMAIN txs, t # run[w].tx, NEW s \in SwapsOf(t)
        PROVE  txrow'[s] = txrow[s]
    <2>1. s \in Swap
      <3>1. txs[t].calls \in Seq(Call)
        BY <1>t, TxType
      <3>2. \A i \in DOMAIN txs[t].calls : txs[t].calls[i].swap \in Swap
        BY <3>1, CallType
      <3>. QED  BY <3>2 DEF SwapsOf
    <2>2. s \notin SwapsOf(run[w].tx)
      BY <1>t, <1>2, <1>7, <2>1 DEF Fates, Places, Placed, Once, OneTransaction
    <2>. QED  BY <1>6, <2>1, <2>2
  <1>8. \A t \in DOMAIN txs : SwapsOf(t)' = SwapsOf(t)
    BY <1>1 DEF SwapsOf
  <1>9. Working(w)'
    <2>1. \A s \in Swap : Called(w, s)' = Called(w, s)
      BY <1>3 DEF Called
    <2>. QED
      BY <1>t, <1>2, <1>3, <1>5, <1>8, <2>1
         DEF Fates, Working, Unsigned, HasMessage
  <1>10. ASSUME NEW v \in Worker, v # w  PROVE Working(v)'
    <2>1. Working(v) /\ run'[v] = run[v]
      BY <1>t, <1>3, <1>10 DEF Fates
    <2>2. ASSUME run[v].pc = "broadcast"
          PROVE  \A s \in SwapsOf(run[v].tx)' : txrow'[s] = run[v].tx
      <3>1. run[v].tx \in DOMAIN txs
        BY <1>t, <2>2 DEF Typed, Stages, Staged, HasTx
      <3>2. run[v].tx # run[w].tx
        BY <1>t, <1>2, <1>10, <2>2 DEF Owned, Unsent
      <3>. QED  BY <1>7, <1>8, <2>1, <2>2, <3>1, <3>2 DEF Working
    <2>. QED
      BY <1>1, <2>1, <2>2 DEF Working, Live, Malformed, Called
  <1>11. ASSUME NEW t \in DOMAIN txs  PROVE Bound(t)'
    <2>1. Bound(t)
      BY <1>t DEF Fates
    <2>2. CASE t = run[w].tx
      BY <1>1, <1>5, <1>8, <2>1, <2>2 DEF Bound
    <2>3. CASE t # run[w].tx
      BY <1>1, <1>7, <1>8, <2>1, <2>3 DEF Bound
    <2>. QED  BY <2>2, <2>3
  <1>. QED  BY <1>t, <1>1, <1>9, <1>10, <1>11 DEF Fates, Live, Malformed

\* The message that a run works on, and has not called, is nowhere else.
LEMMA Alone ==
    ASSUME Traced, NEW w \in Worker, run[w].msg \in Swap, run[w].pc # "ack"
    PROVE  /\ \A i \in DOMAIN queue : queue[i] # run[w].msg
           /\ \A v \in Worker \ {w} :
                 run[v].msg # run[w].msg /\ ~Collects(v, run[w].msg)
           /\ ~Collects(w, run[w].msg)
           /\ \A t \in DOMAIN txs : run[w].msg \notin SwapsOf(t)
           /\ paid[run[w].msg] = 0
  <1>1. Once(run[w].msg) /\ Holds(w, run[w].msg)
    BY DEF Traced, Fates, Places, Placed, Holds
  <1>. QED
    BY <1>1 DEF Once, OneHolder, OneCall, OneTransaction, PaidByOne, Holds

LEMMA FailFates ==
    ASSUME OrderlyFaults, Traced, NEW w \in Worker,
           \/ Throw(w) /\ status' = Status(run[w].msg, "failed")
           \/ Refused(w)
    PROVE  Fates'
  <1>. DEFINE m == run[w].msg
  <1>t. Typed /\ Fates /\ Working(w)
    BY DEF Traced, Fates
  <1>1. m \in Swap /\ signed[m] # None /\ run[w].pc \in {"prepare", "estimate"}
    <2>1. CASE Throw(w)
      BY <1>t, <2>1, RunType, ConstantsType
         DEF Throw, At, Typed, Stages, Staged, HasMessage
    <2>2. CASE Refused(w)
      BY <1>t, <2>2, RunType, ConstantsType
         DEF Refused, At, Typed, Stages, Staged, HasMessage
    <2>. QED  BY <2>1, <2>2
  <1>2. /\ status' = Status(m, "failed") /\ status[m] # "none"
        /\ UNCHANGED <<ask, signed, queue, lost, txrow, early, txs>>
    <2>1. status[m] # "none"
      BY <1>t, <1>1 DEF Fates
    <2>2. UNCHANGED <<ask, signed, queue, lost, txrow, txs>>
      BY DEF Throw, Refused, messages
    <2>3. status' = Status(m, "failed")
      BY DEF Refused
    <2>4. UNCHANGED early
      BY <2>1 DEF Throw, Refused, Early
    <2>. QED  BY <2>1, <2>2, <2>3, <2>4
  <1>3. /\ \A s \in Swap : s # m => status'[s] = status[s]
        /\ status'[m] = "failed"
    BY <1>t, <1>1, <1>2 DEF Status, Typed, TypeOK
  <1>4. /\ \A v \in Worker \ {w} : run'[v] = run[v]
        /\ run'[w].msg = m /\ run'[w].calls = run[w].calls
        /\ run[w].datas \subseteq run'[w].datas
        /\ \/ run'[w].pc = "nack" /\ Malformed(m)
           \/ run'[w].pc = "ack"
    <2>1. CASE Throw(w)
      <3>1. Malformed(m)
        BY <2>1 DEF OrderlyFaults, Throw, Malformed
      <3>. QED  BY <1>t, <2>1, <3>1, Going DEF Throw, Labels
    <2>2. CASE Refused(w)
      <3>1. run'[w].pc = "ack"
        <4>. DEFINE r == [run[w] EXCEPT !.pc = "ack", !.call = None,
                                        !.datas = run[w].datas \cup {run[w].msg}]
        <4>1. run[w] \in Run
          BY <1>t, RunType
        <4>2. r \in Run /\ r.pc = "ack"
          BY <1>1, <4>1 DEF Run, Labels
        <4>3. Becomes(w, r)
          BY <2>2 DEF Refused
        <4>. HIDE DEF r
        <4>. QED  BY <1>t, <4>2, <4>3, Becoming
      <3>. QED  BY <1>t, <2>2, <3>1, Refusing
    <2>. QED  BY <2>1, <2>2
  <1>5. /\ \A i \in DOMAIN queue : queue[i] # m
        /\ \A v \in Worker \ {w} : run[v].msg # m /\ ~Collects(v, m)
        /\ ~Called(w, m)
        /\ \A t \in DOMAIN txs : m \notin SwapsOf(t)
    <2>1. run[w].pc \in Unsigned /\ run[w].pc # "ack"
      BY <1>1 DEF Unsigned, HasMessage
    <2>. QED  BY <1>1, <2>1, Alone DEF Collects
  <1>6. Working(w)'
    <2>1. \A s \in Swap : Called(w, s)' => Called(w, s) /\ s # m
      BY <1>4, <1>5 DEF Called
    <2>2. run[w].pc \in Unsigned
      BY <1>1 DEF Unsigned, HasMessage
    <2>3. \A s \in Swap : Called(w, s)' =>
             s \in run'[w].datas /\ status'[s] # "failed"
      BY <1>t, <1>3, <1>4, <2>1, <2>2 DEF Working
    <2>4. run'[w].pc \in HasMessage \ {"ack"} => Malformed(m)'
      BY <1>2, <1>4 DEF Malformed, HasMessage
    <2>5. run'[w].pc \notin {"estimate", "broadcast"}
      BY <1>4
    <2>. QED  BY <1>2, <1>4, <2>3, <2>4, <2>5 DEF Working, Live, Malformed
  <1>7. ASSUME NEW v \in Worker, v # w  PROVE Working(v)'
    <2>1. Working(v) /\ run'[v] = run[v]
      BY <1>t, <1>4, <1>7 DEF Fates
    <2>2. run[v].msg \in Swap \cup {None}
      BY <1>t, RunType
    <2>3. run[v].pc \in HasMessage => run[v].msg # None
      BY <1>t DEF Typed, Stages, Staged
    <2>4. run'[v].pc \in HasMessage \ {"ack"} => Live(run[v].msg)'
      BY <1>2, <1>3, <1>5, <1>7, <2>1, <2>2, <2>3
         DEF Working, Live, Malformed
    <2>5. \A s \in Swap : Called(v, s)' =>
             /\ s \in run'[v].datas
             /\ run'[v].pc \in Unsigned => status'[s] # "failed"
      BY <1>3, <1>5, <1>7, <2>1 DEF Working, Called, Collects
    <2>6. run[v].pc = "broadcast" => SwapsOf(run[v].tx)' = SwapsOf(run[v].tx)
      BY <1>2, <2>1 DEF SwapsOf
    <2>. QED
      BY <1>2, <2>1, <2>4, <2>5, <2>6 DEF Working, Live, Malformed
  <1>8. ASSUME NEW t \in DOMAIN txs'  PROVE Bound(t)'
    <2>1. t \in DOMAIN txs /\ SwapsOf(t)' = SwapsOf(t) /\ Bound(t)
      BY <1>t, <1>2 DEF SwapsOf, Fates
    <2>2. SwapsOf(t) \subseteq Swap /\ m \notin SwapsOf(t)
      BY <1>t, <1>5, <2>1, TxType, CallType DEF SwapsOf
    <2>. QED  BY <1>2, <1>3, <2>1, <2>2 DEF Bound
  <1>9. \A s \in Swap : signed'[s] = None <=> status'[s] = "none"
    BY <1>t, <1>1, <1>2, <1>3 DEF Fates
  <1>10. \A i \in DOMAIN queue' : Live(queue[i])'
    <2>1. \A i \in DOMAIN queue : queue[i] \in Swap
      BY <1>t, ElementOfSeq, LenProperties DEF Typed, TypeOK
    <2>. QED  BY <1>t, <1>2, <1>3, <1>5, <2>1 DEF Fates, Live, Malformed
  <1>. QED
    BY <1>t, <1>2, <1>6, <1>7, <1>8, <1>9, <1>10 DEF Fates

LEMMA PublishFates ==
    ASSUME OrderlyFaults, Traced, NEW p \in Swap, Publish(p)
    PROVE  Fates'
  <1>t. Typed /\ Fates
    BY DEF Traced
  <1>1. /\ UNCHANGED <<ask, lost, txrow, early, txs, run>>
        /\ status' = [status EXCEPT ![p] = "pending"]
    BY DEF Publish, OrderlyFaults
  <1>2. /\ \A s \in Swap \ {p} :
              signed'[s] = signed[s] /\ status'[s] = status[s]
        /\ signed'[p] # None /\ status'[p] = "pending"
    BY <1>t, <1>1, Publishing, ConstantsType DEF Typed, TypeOK
  <1>3. \A s \in Swap : status'[s] = "failed" => status[s] = "failed"
    BY <1>2
  <1>4. \A s \in Swap : Live(s) => Live(s)'
    BY <1>1, <1>3 DEF Live, Malformed
  <1>5. \A v \in Worker : Working(v)'
    <2>. SUFFICES ASSUME NEW v \in Worker  PROVE Working(v)'
      OBVIOUS
    <2>1. Working(v) /\ run'[v] = run[v] /\ run[v].msg \in Swap \cup {None}
      BY <1>t, <1>1, RunType DEF Fates
    <2>2. run[v].pc \in HasMessage => run[v].msg # None
      BY <1>t DEF Typed, Stages, Staged
    <2>3. run'[v].pc \in HasMessage \ {"ack"} => Live(run[v].msg)'
      BY <1>1, <1>3, <2>1, <2>2 DEF Working, Live, Malformed
    <2>4. run'[v].pc = "estimate" => ~Malformed(run[v].msg)'
      BY <1>1, <2>1 DEF Working, Malformed
    <2>5. \A s \in Swap : Called(v, s)' =>
             /\ s \in run'[v].datas
             /\ run'[v].pc \in Unsigned => status'[s] # "failed"
      BY <1>3, <2>1 DEF Working, Called
    <2>6. SwapsOf(run[v].tx)' = SwapsOf(run[v].tx)
      BY <1>1, <2>1 DEF SwapsOf
    <2>. QED  BY <1>1, <2>1, <2>3, <2>4, <2>5, <2>6 DEF Working
  <1>6. \A t \in DOMAIN txs' : Bound(t)'
    <2>. SUFFICES ASSUME NEW t \in DOMAIN txs  PROVE Bound(t)'
      BY <1>1
    <2>1. SwapsOf(t)' = SwapsOf(t) /\ SwapsOf(t) \subseteq Swap /\ Bound(t)
      BY <1>t, <1>1, TxType, CallType DEF SwapsOf, Fates
    <2>. QED  BY <1>1, <1>3, <2>1 DEF Bound
  <1>7. \A i \in DOMAIN queue' : Live(queue[i])'
    <2>1. \A i \in DOMAIN queue : queue[i] \in Swap /\ Live(queue[i])
      BY <1>t, ElementOfSeq, LenProperties DEF Typed, TypeOK, Fates
    <2>2. \A i \in DOMAIN queue' :
             queue'[i] = p \/ (i \in DOMAIN queue /\ queue'[i] = queue[i])
      BY <1>t, Publishing
    <2>. QED  BY <1>1, <1>2, <1>3, <2>1, <2>2 DEF Live, Malformed
  <1>. QED  BY <1>t, <1>1, <1>2, <1>5, <1>6, <1>7 DEF Fates

LEMMA MineFates ==
    ASSUME Traced, NEW t \in DOMAIN txs, Mine(t)
    PROVE  Fates'
  <1>t. Typed /\ Fates
    BY DEF Traced
  <1>1. UNCHANGED <<ask, signed, queue, lost, status, txrow, early, run>>
        /\ txs[t].state = "sent"
    BY DEF Mine, messages, rows
  <1>2. PICK st \in {"mined", "reverted"} : txs' = [txs EXCEPT ![t].state = st]
    BY DEF Mine
  <1>3. /\ DOMAIN txs' = DOMAIN txs
        /\ \A u \in DOMAIN txs : txs'[u].calls = txs[u].calls
        /\ \A u \in DOMAIN txs \ {t} : txs'[u] = txs[u]
    BY <1>t, <1>2, StateChange
  <1>4. \A v \in Worker : Working(v)'
    BY <1>t, <1>1, <1>3, StillWorking DEF Fates
  <1>5. \A u \in DOMAIN txs' : Bound(u)'
    BY <1>t, <1>1, <1>3, StillBound DEF Fates
  <1>. QED  BY <1>t, <1>1, <1>4, <1>5 DEF Fates, Live, Malformed

LEMMA QuietFates ==
    ASSUME Traced,
           \/ \E s \in Swap : CommitRow(s) \/ Spoil(s)
           \/ Tick \/ LockExpire \/ UNCHANGED vars
    PROVE  Fates'
  <1>t. Typed /\ Fates
    BY DEF Traced
  <1>1. \A s \in Swap : ~CommitRow(s)
    BY <1>t DEF Fates, CommitRow
  <1>2. UNCHANGED <<ask, signed, queue, lost, status, txrow, early, txs, run>>
    BY <1>1 DEF Spoil, Tick, LockExpire, vars, messages, rows
  <1>3. \A v \in Worker : Working(v)'
    BY <1>t, <1>2, StillWorking DEF Fates
  <1>4. \A t \in DOMAIN txs' : Bound(t)'
    BY <1>t, <1>2, StillBound DEF Fates
  <1>. QED  BY <1>t, <1>2, <1>3, <1>4 DEF Fates, Live, Malformed

LEMMA FatesStep ==
    ASSUME OrderlyFaults, Traced, [Next]_vars
    PROVE  Fates'
  <1>1. ASSUME NEW w \in Worker, Work(w)  PROVE Fates'
    <2>1. ~NotMarked(w) /\ ~AckLost(w)
      BY DEF OrderlyFaults, NotMarked, AckLost
    <2>2. Throw(w) => status' = Status(run[w].msg, "failed")
      BY DEF OrderlyFaults, Throw
    <2>. QED
      BY <1>1, <2>1, <2>2, GoFates, FetchFates, PrepareFates, NackFates,
         CollectFates, SignFates, BroadcastFates, RecordFates, FailFates
         DEF Work
  <1>2. ~Crash
    BY DEF OrderlyFaults, Crash
  <1>. QED
    BY <1>1, <1>2, PublishFates, MineFates, QuietFates DEF Next

LEMMA TracedStep ==
    ASSUME OrderlyFaults, Traced, [Next]_vars
    PROVE  Traced'
  BY FatesStep, TypeStep, OwnedStep, PlacesStep, ReferencesStep DEF Traced

LEMMA TracedInit == Init => Traced
  <1>. SUFFICES ASSUME Init  PROVE Traced
    OBVIOUS
  <1>1. Fates
    BY DEF Init, Fates, Working, Bound, Live, Called, SwapsOf, Idle, HasMessage
  <1>. QED
    BY <1>1, InitType, OwnedInit, PlacesInit, ReferencesInit DEF Traced

\* Where acknowledgements arrive and neither the node, Redis nor the server
\* fails inside a run, a swap that was paid refers to the transaction that paid it: a batch
\* is recorded before it is sent, and no other batch takes its swaps' rows.
THEOREM PaymentsAreFound ==
    ASSUME OrderlyFaults
    PROVE  Spec => []PaidIsRecorded
  <1>1. Traced /\ [Next]_vars => Traced'
    BY TracedStep
  <1>2. Traced => PaidIsRecorded
    <2>. SUFFICES ASSUME Traced, NEW s \in Swap, paid[s] > 0
                  PROVE  /\ txrow[s] > 0
                         /\ txs[txrow[s]].state = "mined"
                         /\ s \in SwapsOf(txrow[s])
      BY DEF PaidIsRecorded
    <2>1. PaidByOne(s)
      BY DEF Traced, Fates, Places, Placed, Once
    <2>2. PICK t \in DOMAIN txs : txs[t].state = "mined" /\ s \in SwapsOf(t)
      BY <2>1 DEF PaidByOne
    <2>3. txrow[s] = t
      BY <2>2 DEF Traced, Fates, Bound
    <2>4. t > 0
      BY <2>2, LenProperties DEF Traced, Typed, TypeOK
    <2>. QED  BY <2>2, <2>3, <2>4
  <1>. QED  BY <1>1, <1>2, TracedInit, PTL DEF Spec

-----------------------------------------------------------------------------
(***************************************************************************)
(* One outcome: the steps of the pipeline are steps of SwapOutcome.        *)
(***************************************************************************)
Neither == UNCHANGED <<PaidSwaps, FailedSwaps>>

LEMMA NeitherStep == Neither => [Outcome!Next]_(Outcome!vars)
  BY DEF Neither, Outcome!vars

LEMMA NothingPaid ==
    ASSUME UNCHANGED <<paid, status>>
    PROVE  Neither
  BY DEF Neither, PaidSwaps, FailedSwaps

\* A refusal or an exception: the swap it marks was open, or had failed.
LEMMA FailOutcome ==
    ASSUME Traced, NEW w \in Worker, run[w].msg \in Swap, run[w].pc # "ack",
           status' = Status(run[w].msg, "failed"), UNCHANGED paid
    PROVE  [Outcome!Next]_(Outcome!vars)
  <1>. DEFINE m == run[w].msg
  <1>1. CASE status[m] \in {"none", "failed"}
    <2>1. status' = status
      BY <1>1 DEF Status, Traced, Typed, TypeOK
    <2>. QED  BY <2>1, NothingPaid, NeitherStep
  <1>2. CASE status[m] \notin {"none", "failed"}
    <2>1. FailedSwaps' = FailedSwaps \cup {m}
      BY <1>2 DEF FailedSwaps, Status, Traced, Typed, TypeOK
    <2>2. m \notin FailedSwaps
      BY <1>2 DEF FailedSwaps
    <2>3. m \notin PaidSwaps
      BY Alone DEF PaidSwaps
    <2>4. UNCHANGED PaidSwaps
      BY DEF PaidSwaps
    <2>5. m \in Outcome!Open
      BY <2>2, <2>3 DEF Outcome!Open
    <2>6. Outcome!Reject(m)
      BY <2>1, <2>4 DEF Outcome!Reject
    <2>. QED  BY <2>5, <2>6 DEF Outcome!Next
  <1>. QED  BY <1>1, <1>2

\* The chain executes a transaction: its swaps were open.
LEMMA MineOutcome ==
    ASSUME Traced, NEW t \in DOMAIN txs, Mine(t)
    PROVE  [Outcome!Next]_(Outcome!vars)
  <1>1. UNCHANGED status /\ txs[t].state = "sent"
    BY DEF Mine, rows
  <1>2. CASE ~Accepted(txs[t].calls)
    BY <1>1, <1>2, NothingPaid, NeitherStep DEF Mine
  <1>3. CASE Accepted(txs[t].calls)
    <2>1. SwapsOf(t) \subseteq Swap
      BY TxType, CallType DEF Traced, SwapsOf
    <2>2. \A s \in Swap : Once(s) /\ Bound(t)
      BY DEF Traced, Fates, Places, Placed
    <2>3. \A s \in SwapsOf(t) : paid[s] = 0
      BY <1>1, <2>1, <2>2 DEF Once, OneTransaction, PaidByOne
    <2>4. ASSUME NEW s \in Swap
          PROVE  paid'[s] = IF s \in SwapsOf(t) THEN paid[s] + 1 ELSE paid[s]
      BY <1>3, <2>2, Counting DEF Traced, Once, OneTransaction
    <2>5. PaidSwaps' = PaidSwaps \cup SwapsOf(t)
      BY <2>1, <2>3, <2>4 DEF PaidSwaps
    <2>6. SwapsOf(t) \in SUBSET Outcome!Open
      BY <2>1, <2>2, <2>3 DEF Outcome!Open, PaidSwaps, FailedSwaps, Bound
    <2>7. Outcome!Pay(SwapsOf(t))
      BY <1>1, <2>5 DEF Outcome!Pay, FailedSwaps
    <2>. QED  BY <2>6, <2>7 DEF Outcome!Next
  <1>. QED  BY <1>2, <1>3

LEMMA WorkOutcome ==
    ASSUME OrderlyFaults, Traced, NEW w \in Worker, Work(w)
    PROVE  [Outcome!Next]_(Outcome!vars)
  <1>1. UNCHANGED paid
    BY DEF Work, Start, Fetch, NoMessage, PrepareDeposit, PrepareWithdraw, Throw,
           Nack, Estimated, Refused, NotMarked, Ack, AckLost, CheckGas,
           SendPermits, NoRelayer, Sign, NotSigned, Record, NotRecorded,
           Broadcast, NotBroadcast, Receipt, Finish, chain
  <1>2. CASE Throw(w) \/ Refused(w)
    <2>1. run[w].msg # None /\ run[w].pc # "ack"
      BY <1>2 DEF Traced, Typed, Stages, Staged, Throw, Refused, At, HasMessage
    <2>2. run[w].msg \in Swap
      BY <2>1, RunType DEF Traced
    <2>3. status' = Status(run[w].msg, "failed")
      BY <1>2 DEF OrderlyFaults, Throw, Refused
    <2>. QED  BY <1>1, <2>1, <2>2, <2>3, FailOutcome
  <1>3. CASE ~Throw(w) /\ ~Refused(w)
    <2>1. ~NotMarked(w)
      BY DEF OrderlyFaults, NotMarked
    <2>2. UNCHANGED status
      BY <1>3, <2>1
         DEF Work, Start, Fetch, NoMessage, PrepareDeposit, PrepareWithdraw,
             Nack, Estimated, Ack, AckLost, CheckGas, SendPermits, NoRelayer,
             Sign, NotSigned, Record, NotRecorded, Broadcast, NotBroadcast,
             Receipt, Finish, rows
    <2>. QED  BY <1>1, <2>2, NothingPaid, NeitherStep
  <1>. QED  BY <1>2, <1>3

LEMMA OutcomeStep ==
    ASSUME OrderlyFaults, Traced, [Next]_vars
    PROVE  [Outcome!Next]_(Outcome!vars)
  <1>1. ASSUME NEW p \in Swap, Publish(p)  PROVE Neither
    <2>1. status[p] = "none"
      BY <1>1 DEF Traced, Fates, Publish
    <2>2. status' = [status EXCEPT ![p] = "pending"] /\ UNCHANGED paid
      BY <1>1 DEF OrderlyFaults, Publish, chain
    <2>3. \A s \in Swap : status'[s] = "failed" <=> status[s] = "failed"
      BY <2>1, <2>2 DEF Traced, Typed, TypeOK
    <2>. QED  BY <2>2, <2>3 DEF Neither, PaidSwaps, FailedSwaps
  <1>2. ASSUME \/ \E s \in Swap : CommitRow(s) \/ Spoil(s)
               \/ Tick \/ LockExpire \/ UNCHANGED vars
        PROVE  Neither
    <2>1. \A s \in Swap : ~CommitRow(s)
      BY DEF Traced, Fates, CommitRow
    <2>2. UNCHANGED <<paid, status>>
      BY <1>2, <2>1 DEF Spoil, Tick, LockExpire, vars, rows, chain
    <2>. QED  BY <2>2, NothingPaid
  <1>3. ~Crash
    BY DEF OrderlyFaults, Crash
  <1>. QED
    BY <1>1, <1>2, <1>3, WorkOutcome, MineOutcome, NeitherStep DEF Next

\* Where acknowledgements arrive and neither the node, Redis nor the server
\* fails inside a run, each swap is paid or marked as failed, never both, and for good: a
\* message that was refused is not called again, and a batch that the node
\* or the database refused is neither paid nor marked.
THEOREM OneOutcomeEach ==
    ASSUME OrderlyFaults
    PROVE  Spec => OneOutcome
  <1>1. Init => Outcome!Init
    BY DEF Init, Outcome!Init, PaidSwaps, FailedSwaps
  <1>2. Traced /\ [Next]_vars => Traced' /\ [Outcome!Next]_(Outcome!vars)
    BY TracedStep, OutcomeStep
  <1>. QED
    BY <1>1, <1>2, TracedInit, PTL DEF Spec, OneOutcome, Outcome!Spec

-----------------------------------------------------------------------------
(***************************************************************************)
(* No swap is forgotten.  Runs are alone, since locks outlive them, and    *)
(* nothing but a run's own transaction changes what its estimates saw:     *)
(* the calls that passed them can still be executed, all of them.  Reading *)
(* the queue, acknowledgements, the marking of refused swaps may fail, and *)
(* rows may come late.                                                     *)
(***************************************************************************)
SmoothFaults ==
    /\ Faults \subseteq {"amqp", "ackLost", "mark", "slowCommit"}
    /\ MaxNow <= Life

\* The stages of a run whose calls are not with the chain yet.
Batching == Unsigned \cup Unsent

CallsPaid(w) ==
    \A i \in DOMAIN run[w].calls : paid[run[w].calls[i].swap] > 0

\* The refused swap was marked, or could not be.
Marked(s) == status[s] = "failed" \/ s \in early

Safe(w) ==
    /\ run[w].pc # "idle" => lock = w
    /\ run[w].pc = "estimate" => run[w].call.until >= MaxNow
    /\ \A i \in DOMAIN run[w].calls : run[w].calls[i].until >= MaxNow
    /\ run[w].pc \in Batching => Accepted(run[w].calls)
    /\ run[w].pc = "wait" =>
          \/ txs[run[w].tx].state = "sent" /\ Accepted(run[w].calls)
          \/ txs[run[w].tx].state = "mined" /\ CallsPaid(w)
    /\ run[w].pc = "finish" => CallsPaid(w)
    /\ run[w].pc = "ack" => Called(w, run[w].msg) \/ Marked(run[w].msg)

\* A run waits for each transaction that was sent and not executed.
Watched(t) ==
    txs[t].state = "sent" =>
        \E w \in Worker : run[w].pc = "wait" /\ run[w].tx = t

Smooth ==
    /\ good = Swap
    /\ \A w \in Worker : Safe(w)
    /\ \A t \in DOMAIN txs : Watched(t)

LEMMA SmoothInit == Init => Smooth
  <1>. SUFFICES ASSUME Init  PROVE Smooth
    OBVIOUS
  <1>1. \A w \in Worker : run[w].pc = "idle" /\ run[w].calls = <<>>
    BY DEF Init, Idle
  <1>2. txs = <<>> /\ good = Swap
    BY DEF Init
  <1>3. \A w \in Worker : Safe(w)
    BY <1>1 DEF Safe, Batching, Unsigned, Unsent, HasMessage
  <1>. QED  BY <1>2, <1>3 DEF Smooth

LEMMA OthersIdle ==
    ASSUME Smooth, NEW w \in Worker, run[w].pc # "idle", NEW v \in Worker \ {w}
    PROVE  run[v].pc = "idle"
  BY DEF Smooth, Safe

LEMMA IdleSafe ==
    ASSUME Typed', NEW v \in Worker, run'[v].pc = "idle"
    PROVE  Safe(v)'
  <1>1. run'[v].calls = <<>>
    BY DEF Typed, Stages, Staged
  <1>. QED  BY <1>1 DEF Safe, Batching, Unsigned, Unsent, HasMessage

\* While a run collects, nothing is sent; while it waits, its own transaction.
LEMMA NothingSent ==
    ASSUME Smooth, NEW w \in Worker, run[w].pc # "idle", NEW t \in DOMAIN txs,
           txs[t].state = "sent"
    PROVE  run[w].pc = "wait" /\ run[w].tx = t
  BY OthersIdle DEF Smooth, Watched

\* Calls that were accepted are, as long as the contract's nonces stay.
LEMMA StillAccepted ==
    ASSUME Typed, Typed', NEW calls \in Seq(Call), Accepted(calls),
           \A i \in DOMAIN calls : calls[i].until >= MaxNow,
           UNCHANGED <<ask, good, nonce>>, approved \subseteq approved'
    PROVE  Accepted(calls)'
  <1>1. now' \in Nat /\ now' <= MaxNow /\ MaxNow \in Nat
    BY ConstantsType DEF Typed, TypeOK
  <1>2. ASSUME NEW i \in DOMAIN calls  PROVE calls[i].until >= now'
    <2>1. calls[i] \in Call
      BY ElementOfSeq, LenProperties
    <2>2. calls[i].until \in Nat /\ calls[i].until >= MaxNow
      BY <2>1 DEF Call
    <2>. QED  BY <1>1, <2>2
  <1>. QED  BY <1>2 DEF Accepted, CallsOf

\* Accepted, for given states of the contract and the clock.
AcceptedBy(calls, asked, g, a, n, t) ==
    \A i \in DOMAIN calls :
        /\ calls[i].swap \in g
        /\ calls[i].until >= t
        /\ asked[calls[i].swap].kind = "withdraw" => calls[i].swap \in a
        /\ calls[i].nonce =
              n[calls[i].signer]
                + Cardinality({j \in {k \in DOMAIN calls :
                                        calls[k].signer = calls[i].signer} :
                                  j < i})

LEMMA CallsAccepted ==
    ASSUME Typed, Typed', NEW w \in Worker, Accepted(run[w].calls),
           \A i \in DOMAIN run[w].calls : run[w].calls[i].until >= MaxNow,
           UNCHANGED <<ask, good, nonce>>, approved \subseteq approved',
           run'[w].calls = run[w].calls
    PROVE  Accepted(run[w].calls)'
  <1>1. PICK c \in Seq(Call) : c = run[w].calls
    BY RunType
  <1>2. Accepted(c)'
    BY <1>1, StillAccepted
  <1>3. AcceptedBy(c, ask', good', approved', nonce', now')
    BY <1>2 DEF Accepted, CallsOf, AcceptedBy
  <1>4. AcceptedBy(run'[w].calls, ask', good', approved', nonce', now')
    BY <1>1, <1>3
  <1>. QED  BY <1>4 DEF Accepted, CallsOf, AcceptedBy

-----------------------------------------------------------------------------
\* A run that goes on collecting, with the calls it had.
LEMMA BatchStep ==
    ASSUME Typed, Typed', Smooth, NEW w \in Worker,
           run[w].pc \in Batching,
           \A v \in Worker \ {w} : run'[v] = run[v],
           run'[w].calls = run[w].calls,
           \/ run'[w].pc \in Batching
           \/ run'[w].pc = "finish" /\ run'[w].calls = <<>>,
           run'[w].pc = "estimate" => run'[w].call.until >= MaxNow,
           run'[w].pc = "ack" => Called(w, run[w].msg)' \/ Marked(run[w].msg)',
           run'[w].pc = "ack" => run'[w].msg = run[w].msg,
           UNCHANGED <<ask, nonce, good, lock>>, approved \subseteq approved',
           \A t \in DOMAIN txs' :
              txs'[t].state = "sent" => t \in DOMAIN txs /\ txs[t].state = "sent"
    PROVE  Smooth'
  <1>1. Safe(w) /\ run[w].pc \notin {"idle", "wait", "finish"}
    BY DEF Smooth, Batching, Unsigned, Unsent, HasMessage
  <1>2. \A t \in DOMAIN txs' : Watched(t)'
    BY <1>1, NothingSent DEF Watched
  <1>3. \A v \in Worker \ {w} : Safe(v)'
    BY <1>1, OthersIdle, IdleSafe
  <1>4. Accepted(run[w].calls)'
    BY <1>1, CallsAccepted DEF Safe
  <1>5. Safe(w)'
    <2>1. CASE run'[w].pc \in Batching
      <3>1. run'[w].pc \notin {"idle", "wait", "finish"}
        BY <2>1 DEF Batching, Unsigned, Unsent, HasMessage
      <3>. QED  BY <1>1, <1>4, <3>1 DEF Safe
    <2>2. CASE run'[w].pc = "finish" /\ run'[w].calls = <<>>
      BY <1>1, <2>2
         DEF Safe, CallsPaid, Batching, Unsigned, Unsent, HasMessage
    <2>. QED  BY <2>1, <2>2
  <1>. QED  BY <1>2, <1>3, <1>5 DEF Smooth

LEMMA GoSmooth ==
    ASSUME SmoothFaults, Typed, Typed', Smooth, NEW w \in Worker,
           \/ NoMessage(w) \/ Throw(w) \/ CheckGas(w) \/ SendPermits(w)
           \/ Record(w)
    PROVE  Smooth'
  <1>1. PICK step \in Labels :
            /\ Goto(w, step) /\ step \notin {"estimate", "ack"}
            /\ run[w].pc \in Batching
            /\ step \in Batching \/ (step = "finish" /\ run[w].calls = <<>>)
    BY DEF NoMessage, Throw, CheckGas, SendPermits, Record, Labels, At, Batching,
           Unsigned, Unsent, HasMessage
  <1>2. /\ UNCHANGED <<ask, nonce, good, lock, txs>>
        /\ approved \subseteq approved'
    BY DEF NoMessage, Throw, CheckGas, SendPermits, Record, messages, chain
  <1>3. /\ run'[w].pc = step /\ run'[w].calls = run[w].calls
        /\ \A v \in Worker \ {w} : run'[v] = run[v]
    BY <1>1, Going
  <1>. QED  BY <1>1, <1>2, <1>3, BatchStep

LEMMA MessageSmooth ==
    ASSUME SmoothFaults, Typed, Typed', Smooth, NEW w \in Worker,
           \/ Fetch(w) \/ Nack(w) \/ Ack(w) \/ AckLost(w)
    PROVE  Smooth'
  <1>1. UNCHANGED <<ask, nonce, good, approved, lock, txs>>
    BY DEF Fetch, Nack, Ack, AckLost, messages, chain
  <1>2. /\ run[w].pc \in Batching
        /\ run'[w].pc \in Batching \ {"estimate", "ack"}
        /\ run'[w].calls = run[w].calls
        /\ \A v \in Worker \ {w} : run'[v] = run[v]
    <2>1. CASE Fetch(w)
      BY <2>1, Fetching
         DEF Fetch, At, Batching, Unsigned, Unsent, HasMessage
    <2>2. CASE Nack(w) \/ Ack(w) \/ AckLost(w)
      BY <2>2, Dropping DEF Batching, Unsigned, Unsent, HasMessage
    <2>. QED  BY <2>1, <2>2
  <1>. QED  BY <1>1, <1>2, BatchStep

\* The deadline of a call is not before the end of the time considered.
LEMMA LateDeadline ==
    ASSUME SmoothFaults, Typed, NEW w \in Worker,
           PrepareDeposit(w) \/ PrepareWithdraw(w)
    PROVE  run'[w].call.until >= MaxNow
  <1>1. run[w] \in Run /\ run \in [Worker -> Run]
    BY RunType DEF Typed, TypeOK
  <1>2. /\ loaded \in Nat /\ Life \in Nat /\ MaxNow \in Nat
        /\ MaxNow <= Life
    BY ConstantsType DEF Typed, TypeOK, SmoothFaults
  <1>3. CASE PrepareDeposit(w)
    <2>1. run'[w].call.until = loaded + Life
      BY <1>1, <1>3 DEF PrepareDeposit, Becomes, Run
    <2>. QED  BY <1>2, <2>1
  <1>4. CASE PrepareWithdraw(w)
    <2>1. run'[w].call.until = MaxNow
      BY <1>1, <1>4 DEF PrepareWithdraw, Becomes, Run
    <2>. QED  BY <1>2, <2>1
  <1>. QED  BY <1>3, <1>4

LEMMA PrepareSmooth ==
    ASSUME SmoothFaults, Typed, Typed', Smooth, NEW w \in Worker,
           PrepareDeposit(w) \/ PrepareWithdraw(w)
    PROVE  Smooth'
  <1>1. /\ UNCHANGED <<ask, nonce, good, approved, lock, txs>>
        /\ run[w].pc = "prepare" /\ run'[w].pc = "estimate"
        /\ run'[w].calls = run[w].calls
        /\ \A v \in Worker \ {w} : run'[v] = run[v]
    BY Preparing DEF messages, chain
  <1>2. "prepare" \in Batching /\ "estimate" \in Batching
    BY DEF Batching, Unsigned, HasMessage
  <1>. QED  BY <1>1, <1>2, LateDeadline, BatchStep

LEMMA RefuseSmooth ==
    ASSUME SmoothFaults, Typed, Typed', Smooth, NEW w \in Worker,
           Refused(w) \/ NotMarked(w)
    PROVE  Smooth'
  <1>1. /\ UNCHANGED <<ask, nonce, good, approved, lock, txs>>
        /\ run[w].pc = "estimate" /\ run'[w].pc \in {"ack", "nack"}
        /\ run'[w].calls = run[w].calls /\ run'[w].msg = run[w].msg
        /\ run[w].msg \in Swap
        /\ \A v \in Worker \ {w} : run'[v] = run[v]
    BY Refusing DEF messages, chain
  <1>2. {"estimate", "ack", "nack"} \subseteq Batching
    BY DEF Batching, Unsigned, HasMessage
  <1>3. ASSUME run'[w].pc = "ack"  PROVE Marked(run[w].msg)'
    <2>1. Refused(w)
      <3>1. NotMarked(w) => run'[w].pc = "nack"
        BY RunType DEF NotMarked, Becomes, Run, Typed, TypeOK
      <3>. QED  BY <1>3, <3>1
    <2>2. status' = Status(run[w].msg, "failed") /\ early' = Early(run[w].msg)
      BY <2>1 DEF Refused
    <2>. QED  BY <1>1, <2>2 DEF Marked, Status, Early, Typed, TypeOK
  <1>. QED  BY <1>1, <1>2, <1>3, BatchStep

\* The estimate accepted the calls with the new one.
LEMMA CollectSmooth ==
    ASSUME SmoothFaults, Typed, Typed', Smooth, NEW w \in Worker, Estimated(w)
    PROVE  Smooth'
  <1>1. UNCHANGED <<ask, nonce, good, approved, now, lock, txs>>
    BY DEF Estimated, messages, chain, clock
  <1>2. /\ Safe(w) /\ lock = w
        /\ run[w].pc = "estimate" /\ run'[w].pc = "ack"
        /\ run'[w].msg = run[w].msg
        /\ \A v \in Worker \ {w} : run'[v] = run[v]
    BY Collecting DEF Smooth, Safe
  <1>3. Accepted(run'[w].calls)
    BY Collecting DEF Estimated, Passes
  <1>4. Accepted(run[w].calls)'
    <2>1. PICK c : c = run'[w].calls
      OBVIOUS
    <2>2. Accepted(c)
      BY <1>3, <2>1
    <2>3. Accepted(c)'
      BY <1>1, <2>2 DEF Accepted, CallsOf
    <2>. QED  BY <2>1, <2>3 DEF Accepted, CallsOf
  <1>5. \A i \in DOMAIN run'[w].calls : run'[w].calls[i].until >= MaxNow
    <2>1. run[w].calls \in Seq(Call) /\ run[w].call \in Call
      BY RunType, <1>2 DEF Typed, Stages, Staged
    <2>2. run'[w].calls[Len(run[w].calls) + 1] = run[w].call
      BY <2>1, Collecting, AppendProperties
    <2>3. run[w].call.until >= MaxNow
      BY <1>2 DEF Safe
    <2>4. \A i \in 1 .. Len(run[w].calls) : run'[w].calls[i].until >= MaxNow
      BY <1>2, Collecting DEF Safe
    <2>5. /\ DOMAIN run'[w].calls = 1 .. Len(run[w].calls) + 1
          /\ Len(run[w].calls) \in Nat
      BY Collecting
    <2>. SUFFICES ASSUME NEW i \in DOMAIN run'[w].calls
                  PROVE  run'[w].calls[i].until >= MaxNow
      OBVIOUS
    <2>6. CASE i = Len(run[w].calls) + 1
      BY <2>2, <2>3, <2>6
    <2>7. CASE i # Len(run[w].calls) + 1
      <3>1. i \in 1 .. Len(run[w].calls)
        BY <2>5, <2>7
      <3>. QED  BY <2>4, <3>1
    <2>. QED  BY <2>6, <2>7
  <1>6. Called(w, run[w].msg)'
    BY Collecting DEF Called
  <1>7. Safe(w)'
    BY <1>1, <1>2, <1>4, <1>5, <1>6 DEF Safe
  <1>8. \A v \in Worker \ {w} : Safe(v)'
    BY <1>2, OthersIdle, IdleSafe
  <1>9. \A t \in DOMAIN txs' : Watched(t)'
    BY <1>1, <1>2, NothingSent DEF Watched
  <1>. QED  BY <1>1, <1>7, <1>8, <1>9 DEF Smooth

LEMMA SignSmooth ==
    ASSUME SmoothFaults, Typed, Typed', Smooth, NEW w \in Worker, Sign(w)
    PROVE  Smooth'
  <1>1. /\ UNCHANGED <<ask, nonce, good, approved, lock>>
        /\ run[w].pc = "send" /\ run'[w].pc = "record"
        /\ run'[w].calls = run[w].calls
        /\ \A v \in Worker \ {w} : run'[v] = run[v]
    BY Signing DEF messages, chain
  <1>2. "send" \in Batching /\ "record" \in Batching
    BY DEF Batching, Unsigned, Unsent
  <1>3. ASSUME NEW t \in DOMAIN txs', txs'[t].state = "sent"
        PROVE  t \in DOMAIN txs /\ txs[t].state = "sent"
    <2>1. t # Len(txs) + 1
      BY <1>3, Signing
    <2>2. t \in 1 .. Len(txs)
      BY <2>1, Signing
    <2>. QED  BY <1>3, <2>2, Signing
  <1>. QED  BY <1>1, <1>2, <1>3, BatchStep

LEMMA BroadcastSmooth ==
    ASSUME SmoothFaults, Typed, Typed', Smooth, NEW w \in Worker, Broadcast(w)
    PROVE  Smooth'
  <1>1. UNCHANGED <<ask, nonce, good, approved, lock>>
    BY DEF Broadcast, messages, chain
  <1>2. /\ run'[w].pc = "wait" /\ run'[w].calls = run[w].calls
        /\ run'[w].tx = run[w].tx
        /\ \A v \in Worker \ {w} : run'[v] = run[v]
    BY Going DEF Broadcast, Labels
  <1>3. /\ Safe(w) /\ lock = w
        /\ run[w].pc = "broadcast" /\ run[w].tx \in DOMAIN txs
        /\ Accepted(run[w].calls)
    BY Broadcasting DEF Smooth, Safe, Batching, Unsent
  <1>4. Accepted(run[w].calls)'
    BY <1>1, <1>2, <1>3, CallsAccepted DEF Safe
  <1>5. /\ txs'[run[w].tx].state = "sent"
        /\ DOMAIN txs' = DOMAIN txs
        /\ \A t \in DOMAIN txs \ {run[w].tx} : txs'[t] = txs[t]
    BY <1>3, StateChange DEF Broadcast
  <1>6. Safe(w)'
    BY <1>1, <1>2, <1>3, <1>4, <1>5
       DEF Safe, Batching, Unsigned, Unsent, HasMessage
  <1>7. \A v \in Worker \ {w} : Safe(v)'
    BY <1>2, <1>3, OthersIdle, IdleSafe
  <1>8. \A t \in DOMAIN txs' : Watched(t)'
    <2>1. \A t \in DOMAIN txs : txs[t].state # "sent"
      BY <1>3, NothingSent
    <2>. QED  BY <1>2, <1>5, <2>1 DEF Watched
  <1>. QED  BY <1>1, <1>6, <1>7, <1>8 DEF Smooth

\* The run begins, has its receipt, or is over.
LEMMA EndsSmooth ==
    ASSUME SmoothFaults, Typed, Typed', Smooth, NEW w \in Worker,
           Start(w) \/ Receipt(w) \/ Finish(w)
    PROVE  Smooth'
  <1>1. UNCHANGED <<ask, nonce, good, approved, paid, txs>>
    BY DEF Start, Receipt, Finish, messages, chain
  <1>2. CASE Start(w)
    <2>1. /\ run[w].pc = "idle" /\ lock = None /\ lock' = w
          /\ run'[w].pc = "fetch" /\ run'[w].calls = <<>>
          /\ \A v \in Worker \ {w} : run'[v] = run[v]
      <3>1. run[w].pc = "idle" /\ lock = None /\ lock' = w
        BY <1>2 DEF Start, At
      <3>2. run[w].calls = <<>>
        BY <3>1 DEF Typed, Stages, Staged
      <3>. QED  BY <1>2, <3>1, <3>2, Going DEF Start, Labels
    <2>2. \A v \in Worker : run[v].pc = "idle"
      BY <2>1, ConstantsType DEF Smooth, Safe
    <2>3. Safe(w)'
      BY <2>1 DEF Safe, Accepted
    <2>4. \A v \in Worker \ {w} : Safe(v)'
      BY <2>1, <2>2, IdleSafe
    <2>5. \A t \in DOMAIN txs' : Watched(t)'
      BY <1>1, <2>2 DEF Smooth, Watched
    <2>. QED  BY <1>1, <2>3, <2>4, <2>5 DEF Smooth
  <1>3. CASE Receipt(w)
    <2>1. /\ run[w].pc = "wait" /\ txs[run[w].tx].state \in {"mined", "reverted"}
          /\ run'[w].pc = "finish" /\ run'[w].calls = run[w].calls
          /\ \A v \in Worker \ {w} : run'[v] = run[v]
          /\ lock' = lock
      BY <1>3, Going DEF Receipt, At, Labels
    <2>2. Safe(w) /\ lock = w /\ CallsPaid(w)
      BY <2>1 DEF Smooth, Safe
    <2>3. Safe(w)'
      BY <1>1, <2>1, <2>2
         DEF Safe, CallsPaid, Batching, Unsigned, Unsent, HasMessage
    <2>4. \A v \in Worker \ {w} : Safe(v)'
      BY <2>1, OthersIdle, IdleSafe
    <2>5. \A t \in DOMAIN txs' : Watched(t)'
      BY <1>1, <2>1, NothingSent DEF Watched
    <2>. QED  BY <1>1, <2>3, <2>4, <2>5 DEF Smooth
  <1>4. CASE Finish(w)
    <2>1. /\ run[w].pc = "finish" /\ run'[w] = Idle
          /\ \A v \in Worker \ {w} : run'[v] = run[v]
      BY <1>4, IdleType, Becoming DEF Finish, At
    <2>2. \A v \in Worker : run'[v].pc = "idle"
      BY <2>1, OthersIdle DEF Idle
    <2>3. \A t \in DOMAIN txs' : Watched(t)'
      BY <1>1, <2>1, NothingSent DEF Watched
    <2>. QED  BY <1>1, <2>2, <2>3, IdleSafe DEF Smooth
  <1>. QED  BY <1>2, <1>3, <1>4

\* What never happens without the failures, on calls that are accepted.
LEMMA NeverHappens ==
    ASSUME SmoothFaults, Typed, Smooth, NEW w \in Worker
    PROVE  ~NoRelayer(w) /\ ~NotSigned(w) /\ ~NotRecorded(w) /\ ~NotBroadcast(w)
  <1>1. At(w, "send") => Accepted(run[w].calls)
    BY DEF Smooth, Safe, At, Batching, Unsigned
  <1>. QED
    BY <1>1 DEF SmoothFaults, NoRelayer, NotSigned, NotRecorded, NotBroadcast

LEMMA WorkSmooth ==
    ASSUME SmoothFaults, Typed, Typed', Smooth, NEW w \in Worker, Work(w)
    PROVE  Smooth'
  BY GoSmooth, MessageSmooth, PrepareSmooth, RefuseSmooth, CollectSmooth,
     SignSmooth, BroadcastSmooth, EndsSmooth, NeverHappens DEF Work

-----------------------------------------------------------------------------
\* The environment: no run moves.
LEMMA StillSafe ==
    ASSUME Typed, Typed', NEW v \in Worker, Safe(v),
           run'[v] = run[v], UNCHANGED <<ask, good, nonce, approved, paid, txs>>,
           lock' = lock \/ run[v].pc = "idle",
           \A s \in Swap : signed[s] # None /\ status[s] = "failed"
                              => status'[s] = "failed",
           early \subseteq early'
    PROVE  Safe(v)'
  <1>1. run[v].pc \in Batching => Accepted(run[v].calls)'
    BY CallsAccepted DEF Safe
  <1>2. txs[run[v].tx].state = "sent" /\ Accepted(run[v].calls)
           => Accepted(run[v].calls)'
    BY CallsAccepted DEF Safe
  <1>3. run[v].pc = "ack" => run[v].msg \in Swap /\ signed[run[v].msg] # None
    BY RunType DEF Typed, Stages, Staged, HasMessage
  <1>. QED
    BY <1>1, <1>2, <1>3 DEF Safe, CallsPaid, Called, Marked

\* The chain executes the transaction that the only run waits for.
LEMMA Executing ==
    ASSUME SmoothFaults, Typed, Smooth, NEW t \in DOMAIN txs, Mine(t)
    PROVE  /\ Accepted(txs[t].calls)
           /\ \E w \in Worker :
                 run[w].pc = "wait" /\ run[w].tx = t /\ run[w].calls = txs[t].calls
  <1>1. txs[t].state = "sent"
    BY DEF Mine
  <1>2. PICK w \in Worker : run[w].pc = "wait" /\ run[w].tx = t
    BY <1>1 DEF Smooth, Watched
  <1>3. Accepted(run[w].calls)
    BY <1>1, <1>2 DEF Smooth, Safe
  <1>4. run[w].calls = txs[t].calls
    BY <1>2 DEF Typed, Stages, Staged, HasTx
  <1>. QED  BY <1>2, <1>3, <1>4

\* Every swap of an accepted transaction is paid, and payments stay.
LEMMA Paying ==
    ASSUME Typed, NEW t \in DOMAIN txs, Mine(t)
    PROVE  /\ \A s \in Swap : paid[s] > 0 => paid'[s] > 0
           /\ Accepted(txs[t].calls) =>
                 \A i \in DOMAIN txs[t].calls : paid'[txs[t].calls[i].swap] > 0
  <1>. DEFINE I(s) == {i \in DOMAIN txs[t].calls : txs[t].calls[i].swap = s}
  <1>1. txs[t].calls \in Seq(Call)
    BY TxType
  <1>2. \A s \in Swap : IsFiniteSet(I(s)) /\ Cardinality(I(s)) \in Nat
    BY <1>1, FiniteCalls
  <1>3. \A s \in Swap : paid[s] \in Nat
    BY DEF Typed, TypeOK
  <1>4. Accepted(txs[t].calls) =>
           \A s \in Swap : paid'[s] = paid[s] + Cardinality(I(s))
    BY DEF Mine
  <1>5. ~Accepted(txs[t].calls) => paid' = paid
    BY DEF Mine
  <1>6. ASSUME NEW i \in DOMAIN txs[t].calls
        PROVE  /\ txs[t].calls[i].swap \in Swap
               /\ Cardinality(I(txs[t].calls[i].swap)) > 0
    <2>1. txs[t].calls[i].swap \in Swap
      BY <1>1, CallType
    <2>2. I(txs[t].calls[i].swap) # {}
      OBVIOUS
    <2>. QED  BY <1>2, <2>1, <2>2, FS_EmptySet
  <1>. HIDE DEF I
  <1>7. \A s \in Swap : paid[s] > 0 => paid'[s] > 0
    BY <1>2, <1>3, <1>4, <1>5
  <1>8. ASSUME Accepted(txs[t].calls), NEW i \in DOMAIN txs[t].calls
        PROVE  paid'[txs[t].calls[i].swap] > 0
    BY <1>2, <1>3, <1>4, <1>6, <1>8
  <1>. QED  BY <1>7, <1>8

LEMMA MineSmooth ==
    ASSUME SmoothFaults, Typed, Typed', Smooth, NEW t \in DOMAIN txs, Mine(t)
    PROVE  Smooth'
  <1>1. UNCHANGED <<run, good, lock>> /\ txs[t].state = "sent"
    BY DEF Mine
  <1>2. PICK w \in Worker : /\ run[w].pc = "wait" /\ run[w].tx = t
                            /\ run[w].calls = txs[t].calls
    BY Executing
  <1>3. txs' = [txs EXCEPT ![t].state = "mined"]
    BY Executing DEF Mine
  <1>4. /\ DOMAIN txs' = DOMAIN txs /\ txs'[t].state = "mined"
        /\ \A u \in DOMAIN txs \ {t} : txs'[u] = txs[u]
    BY <1>3, StateChange
  <1>5. CallsPaid(w)'
    BY <1>1, <1>2, Executing, Paying DEF CallsPaid
  <1>6. Safe(w)'
    BY <1>1, <1>2, <1>4, <1>5
       DEF Smooth, Safe, Batching, Unsigned, Unsent, HasMessage
  <1>7. \A v \in Worker \ {w} : Safe(v)'
    BY <1>1, <1>2, OthersIdle, IdleSafe
  <1>8. \A u \in DOMAIN txs' : Watched(u)'
    BY <1>1, <1>2, <1>4, NothingSent DEF Watched
  <1>. QED  BY <1>1, <1>6, <1>7, <1>8 DEF Smooth

LEMMA QuietSmooth ==
    ASSUME SmoothFaults, Typed, Typed', Smooth,
           \/ \E s \in Swap : Publish(s) \/ CommitRow(s)
           \/ Tick \/ LockExpire \/ UNCHANGED vars
    PROVE  Smooth'
  <1>1. /\ UNCHANGED <<run, ask, good, nonce, approved, paid, txs>>
        /\ early \subseteq early'
    BY DEF Publish, CommitRow, Tick, LockExpire, vars, messages, chain, rows
  <1>2. \A s \in Swap : signed[s] # None /\ status[s] = "failed"
                           => status'[s] = "failed"
    <2>1. CASE \E p \in Swap : Publish(p)
      <3>1. PICK p \in Swap : Publish(p)
        BY <2>1
      <3>2. /\ signed[p] = None
            /\ status' = status \/ status' = [status EXCEPT ![p] = "pending"]
        BY <3>1 DEF Publish
      <3>. QED  BY <3>2 DEF Typed, TypeOK
    <2>2. CASE \E p \in Swap : CommitRow(p)
      <3>1. PICK p \in Swap : CommitRow(p)
        BY <2>2
      <3>2. status[p] = "none" /\ status' = [status EXCEPT ![p] = "pending"]
        BY <3>1 DEF CommitRow
      <3>. QED  BY <3>2 DEF Typed, TypeOK
    <2>3. CASE Tick \/ LockExpire \/ UNCHANGED vars
      BY <2>3 DEF Tick, LockExpire, vars, rows
    <2>. QED  BY <2>1, <2>2, <2>3
  <1>3. ASSUME NEW v \in Worker  PROVE lock' = lock \/ run[v].pc = "idle"
    <2>1. CASE LockExpire
      <3>1. lock \in Worker /\ run[lock].pc = "idle"
        BY <2>1 DEF LockExpire, SmoothFaults, At, Typed, TypeOK
      <3>. QED  BY <3>1 DEF Smooth, Safe
    <2>2. CASE ~LockExpire
      BY <2>2 DEF Publish, CommitRow, Tick, vars
    <2>. QED  BY <2>1, <2>2
  <1>4. \A v \in Worker : Safe(v)'
    BY <1>1, <1>2, <1>3, StillSafe DEF Smooth
  <1>. QED  BY <1>1, <1>4 DEF Smooth, Watched

LEMMA SmoothStep ==
    SmoothFaults /\ Typed /\ Smooth /\ [Next]_vars => Smooth'
  <1>. SUFFICES ASSUME SmoothFaults, Typed, Smooth, [Next]_vars  PROVE Smooth'
    OBVIOUS
  <1>1. Typed'
    BY TypeStep
  <1>2. ~Crash /\ \A s \in Swap : ~Spoil(s)
    BY DEF SmoothFaults, Crash, Spoil
  <1>. QED
    BY <1>1, <1>2, WorkSmooth, MineSmooth, QuietSmooth DEF Next

-----------------------------------------------------------------------------
Ended(s) == paid[s] > 0 \/ Marked(s)

Remembered == \A s \in Swap : signed[s] # None => UnderWay(s) \/ Ended(s)

\* What a step has to show: what is under way stays so, or comes to an end,
\* and an end is for ever.
LEMMA StaysRemembered ==
    ASSUME Remembered,
           \A s \in Swap : Ended(s) => Ended(s)',
           \A s \in Swap : signed'[s] # None /\ signed[s] = None
                              => UnderWay(s)',
           \A s \in Swap : UnderWay(s) => UnderWay(s)' \/ Ended(s)'
    PROVE  Remembered'
  BY DEF Remembered

LEMMA StillUnderWay ==
    ASSUME NEW s \in Swap, UnderWay(s),
           \A i \in DOMAIN queue : queue[i] = s =>
              \E j \in DOMAIN queue' : queue'[j] = s,
           \A v \in Worker : run[v].msg = s => run'[v].msg = s,
           \A v \in Worker : Called(v, s) => Called(v, s)'
    PROVE  UnderWay(s)'
  BY DEF UnderWay, Called

\* The end of a swap in the steps of a run.
LEMMA WorkEnded ==
    ASSUME Typed, References, NEW w \in Worker, Work(w),
           NEW s \in Swap, Ended(s)
    PROVE  Ended(s)'
  <1>1. paid' = paid
    BY DEF Work, Start, Fetch, NoMessage, PrepareDeposit, PrepareWithdraw, Throw,
           Nack, Estimated, Refused, NotMarked, Ack, AckLost, CheckGas,
           SendPermits, NoRelayer, Sign, NotSigned, Record, NotRecorded,
           Broadcast, NotBroadcast, Receipt, Finish, chain
  <1>2. CASE Estimated(w) \/ Record(w)
    BY <1>1, <1>2 DEF Estimated, Record, rows, Ended, Marked
  <1>3. CASE Refused(w)
    <2>1. run[w].msg \in Swap /\ status' = Status(run[w].msg, "failed")
      BY <1>3, Refusing DEF Refused
    <2>2. early \subseteq early'
      BY <1>3 DEF Refused, Early
    <2>. QED  BY <1>1, <2>1, <2>2, Marking DEF Ended, Marked
  <1>4. CASE ~Estimated(w) /\ ~Record(w) /\ ~Refused(w)
    BY <1>1, <1>4, PlainWork DEF Ended, Marked
  <1>. QED  BY <1>2, <1>3, <1>4

LEMMA WorkRemembered ==
    ASSUME SmoothFaults, Typed, Typed', Smooth, References, Remembered,
           NEW w \in Worker, Work(w)
    PROVE  Remembered'
  <1>1. UNCHANGED signed
    BY DEF Work, Start, Fetch, NoMessage, PrepareDeposit, PrepareWithdraw, Throw,
           Nack, Estimated, Refused, NotMarked, Ack, AckLost, CheckGas,
           SendPermits, NoRelayer, Sign, NotSigned, Record, NotRecorded,
           Broadcast, NotBroadcast, Receipt, Finish, messages
  <1>. SUFFICES ASSUME NEW s \in Swap, UnderWay(s)
                PROVE  UnderWay(s)' \/ Ended(s)'
    BY <1>1, WorkEnded, StaysRemembered
  <1>2. CASE \/ Start(w) \/ NoMessage(w) \/ Throw(w) \/ CheckGas(w)
             \/ SendPermits(w) \/ Record(w) \/ Broadcast(w) \/ Receipt(w)
    <2>1. PICK step \in Labels : Goto(w, step)
      BY <1>2 DEF Start, NoMessage, Throw, CheckGas, SendPermits, Record,
                  Broadcast, Receipt, Labels
    <2>2. queue' = queue
      BY <1>2 DEF Start, NoMessage, Throw, CheckGas, SendPermits, Record,
                  Broadcast, Receipt, messages
    <2>3. /\ run'[w].msg = run[w].msg /\ run'[w].calls = run[w].calls
          /\ \A v \in Worker \ {w} : run'[v] = run[v]
      BY <2>1, Going
    <2>. QED  BY <2>2, <2>3, StillUnderWay DEF Called
  <1>3. CASE \/ PrepareDeposit(w) \/ PrepareWithdraw(w)
             \/ Refused(w) \/ NotMarked(w) \/ Sign(w)
    <2>1. /\ queue' = queue
          /\ run'[w].msg = run[w].msg /\ run'[w].calls = run[w].calls
          /\ \A v \in Worker \ {w} : run'[v] = run[v]
      BY <1>3, Preparing, Refusing, Signing DEF messages
    <2>. QED  BY <2>1, StillUnderWay DEF Called
  <1>4. CASE Estimated(w)
    <2>1. /\ queue' = queue
          /\ run'[w].msg = run[w].msg
          /\ \A v \in Worker \ {w} : run'[v] = run[v]
      BY <1>4, Collecting DEF Estimated, messages
    <2>2. Called(w, s) => Called(w, s)'
      <3>1. DOMAIN run[w].calls \subseteq DOMAIN run'[w].calls
        BY <1>4, Collecting
      <3>2. \A i \in DOMAIN run[w].calls : run'[w].calls[i] = run[w].calls[i]
        BY <1>4, Collecting
      <3>. QED  BY <3>1, <3>2 DEF Called
    <2>. QED  BY <2>1, <2>2, StillUnderWay DEF Called
  <1>5. CASE Fetch(w)
    <2>1. /\ run'[w].msg = queue[1] /\ run'[w].calls = run[w].calls
          /\ run[w].msg = None
          /\ \A v \in Worker \ {w} : run'[v] = run[v]
      BY <1>5, Fetching DEF Fetch, At, Typed, Stages, Staged, HasMessage
    <2>2. CASE s = queue[1]
      BY <2>1, <2>2 DEF UnderWay
    <2>3. CASE s # queue[1]
      <3>1. ASSUME NEW i \in DOMAIN queue, queue[i] = s
            PROVE  \E j \in DOMAIN queue' : queue'[j] = s
        <4>1. /\ queue \in Seq(Swap) /\ queue # <<>> /\ queue' = Tail(queue)
          BY <1>5 DEF Fetch, Typed, TypeOK
        <4>2. /\ DOMAIN queue = 1 .. Len(queue) /\ Len(queue) \in Nat
              /\ DOMAIN queue' = 1 .. Len(queue')
              /\ Len(queue') = Len(queue) - 1
              /\ \A j \in 1 .. Len(queue') : queue'[j] = queue[j + 1]
          BY <4>1, LenProperties, HeadTailProperties
        <4>3. i # 1
          BY <2>3, <3>1
        <4>4. i - 1 \in 1 .. Len(queue') /\ (i - 1) + 1 = i
          BY <4>2, <4>3
        <4>5. queue'[i - 1] = s
          BY <3>1, <4>2, <4>4
        <4>. QED  BY <4>2, <4>4, <4>5
      <3>2. \A v \in Worker : run[v].msg = s => run'[v].msg = s
        BY <2>1, ConstantsType
      <3>. QED  BY <2>1, <3>1, <3>2, StillUnderWay DEF Called
    <2>. QED  BY <2>2, <2>3
  <1>6. CASE Nack(w) \/ AckLost(w)
    <2>1. /\ queue' = <<run[w].msg>> \o queue /\ run[w].msg \in Swap
          /\ run'[w].calls = run[w].calls
          /\ \A v \in Worker \ {w} : run'[v] = run[v]
      BY <1>6, Dropping DEF Nack, AckLost
    <2>2. CASE s = run[w].msg
      BY <2>1, <2>2, PuttingBack DEF UnderWay
    <2>3. CASE s # run[w].msg
      <3>1. ASSUME NEW i \in DOMAIN queue, queue[i] = s
            PROVE  \E j \in DOMAIN queue' : queue'[j] = s
        <4>1. queue \in Seq(Swap) /\ <<run[w].msg>> \in Seq(Swap)
              /\ Len(<<run[w].msg>>) = 1
          BY <2>1 DEF Typed, TypeOK
        <4>2. /\ queue' \in Seq(Swap) /\ Len(queue') = 1 + Len(queue)
              /\ \A j \in 1 .. 1 + Len(queue) :
                    queue'[j] = IF j <= 1 THEN <<run[w].msg>>[j] ELSE queue[j - 1]
          BY <2>1, <4>1, ConcatProperties
        <4>3. /\ DOMAIN queue = 1 .. Len(queue) /\ Len(queue) \in Nat
              /\ DOMAIN queue' = 1 .. 1 + Len(queue)
          BY <4>1, <4>2, LenProperties
        <4>4. i + 1 \in 1 .. 1 + Len(queue) /\ ~(i + 1 <= 1) /\ (i + 1) - 1 = i
          BY <4>3
        <4>5. queue'[i + 1] = s
          BY <3>1, <4>2, <4>4
        <4>. QED  BY <4>3, <4>4, <4>5
      <3>2. \A v \in Worker : run[v].msg = s => run'[v].msg = s
        BY <2>1, <2>3
      <3>3. \A v \in Worker : Called(v, s) => Called(v, s)'
        BY <2>1 DEF Called
      <3>. QED  BY <3>1, <3>2, <3>3, StillUnderWay
    <2>. QED  BY <2>2, <2>3
  <1>7. CASE Ack(w)
    <2>1. /\ run[w].pc = "ack" /\ run'[w].calls = run[w].calls
          /\ UNCHANGED <<queue, status, early>>
          /\ \A v \in Worker \ {w} : run'[v] = run[v]
      BY <1>7, Dropping DEF Ack, At, messages, rows
    <2>2. CASE s = run[w].msg
      <3>1. Called(w, s) \/ Marked(s)
        BY <2>1, <2>2 DEF Smooth, Safe
      <3>. QED  BY <2>1, <3>1 DEF Called, UnderWay, Ended, Marked
    <2>3. CASE s # run[w].msg
      BY <2>1, <2>3, StillUnderWay DEF Called
    <2>. QED  BY <2>2, <2>3
  <1>8. CASE Finish(w)
    <2>1. /\ run[w].pc = "finish" /\ run[w].msg = None
          /\ UNCHANGED <<queue, paid>>
      BY <1>8 DEF Finish, At, messages, chain, Typed, Stages, Staged, HasMessage
    <2>2. \A v \in Worker \ {w} : run'[v] = run[v]
      BY <1>8, IdleType, Becoming DEF Finish
    <2>3. CASE Called(w, s)
      <3>1. CallsPaid(w)
        BY <2>1 DEF Smooth, Safe
      <3>. QED  BY <2>1, <2>3, <3>1 DEF Called, CallsPaid, Ended
    <2>4. CASE ~Called(w, s)
      BY <2>1, <2>2, <2>4, ConstantsType, StillUnderWay DEF Called
    <2>. QED  BY <2>3, <2>4
  <1>. QED
    BY <1>2, <1>3, <1>4, <1>5, <1>6, <1>7, <1>8, NeverHappens DEF Work

LEMMA RememberedStep ==
    ASSUME SmoothFaults, Typed, Smooth, References, Remembered, [Next]_vars
    PROVE  Remembered'
  <1>1. Typed'
    BY TypeStep
  <1>2. ~Crash /\ \A s \in Swap : ~Spoil(s)
    BY DEF SmoothFaults, Crash, Spoil
  <1>3. ASSUME NEW p \in Swap, Publish(p)  PROVE Remembered'
    <2>1. UNCHANGED <<run, paid, early>>
      BY <1>3 DEF Publish, chain
    <2>2. \A s \in Swap : Ended(s) => Ended(s)'
      <3>1. status[p] = "none"
        BY <1>3, Publishing DEF References, Rowless
      <3>2. \A s \in Swap : status[s] = "failed" => status'[s] = "failed"
        BY <1>3, <3>1 DEF Publish, Typed, TypeOK
      <3>. QED  BY <2>1, <3>2 DEF Ended, Marked
    <2>3. UnderWay(p)'
      BY <1>3, Publishing DEF UnderWay
    <2>4. \A s \in Swap : signed'[s] # None /\ signed[s] = None => s = p
      BY <1>3, Publishing DEF Typed, TypeOK
    <2>5. \A i \in DOMAIN queue : i \in DOMAIN queue' /\ queue'[i] = queue[i]
      BY <1>3, Publishing
    <2>6. \A s \in Swap : UnderWay(s) => UnderWay(s)'
      BY <2>1, <2>5, StillUnderWay DEF Called
    <2>. QED  BY <2>2, <2>3, <2>4, <2>6, StaysRemembered
  <1>4. CASE \/ \E s \in Swap : CommitRow(s)
             \/ Tick \/ LockExpire \/ UNCHANGED vars
             \/ \E t \in DOMAIN txs : Mine(t)
    <2>1. UNCHANGED <<run, queue, signed, early>>
      BY <1>4 DEF CommitRow, Tick, LockExpire, Mine, vars, messages, rows
    <2>2. \A s \in Swap : status[s] = "failed" => status'[s] = "failed"
      BY <1>4 DEF CommitRow, Tick, LockExpire, Mine, vars, rows, Typed, TypeOK
    <2>3. \A s \in Swap : paid[s] > 0 => paid'[s] > 0
      <3>1. (\E t \in DOMAIN txs : Mine(t)) \/ paid' = paid
        BY <1>4 DEF CommitRow, Tick, LockExpire, vars, chain
      <3>. QED  BY <3>1, Paying
    <2>4. \A s \in Swap : UnderWay(s) => UnderWay(s)'
      BY <2>1 DEF UnderWay
    <2>5. \A s \in Swap : Ended(s) => Ended(s)'
      BY <2>1, <2>2, <2>3 DEF Ended, Marked
    <2>. QED  BY <2>1, <2>4, <2>5, StaysRemembered
  <1>. QED
    BY <1>1, <1>2, <1>3, <1>4, WorkRemembered DEF Next

\* scheduler.service.ts: as long as locks outlive the runs, no deadline passes
\* and neither the node, Redis, the recording of a batch nor the server fails,
\* each swap that was asked for is under way until it is paid or marked, for
\* any number of swaps and runs and any size of the batches.
THEOREM NoSwapIsForgotten ==
    ASSUME SmoothFaults
    PROVE  Spec => []NothingForgotten
  <1>. DEFINE IInv == Typed /\ References /\ Smooth /\ Remembered
  <1>1. Init => IInv
    <2>1. Init => Remembered
      BY DEF Init, Remembered
    <2>. QED  BY <2>1, InitType, ReferencesInit, SmoothInit
  <1>2. IInv /\ [Next]_vars => IInv'
    BY TypeStep, ReferencesStep, SmoothStep, RememberedStep
  <1>3. IInv => NothingForgotten
    BY DEF Remembered, NothingForgotten, Ended, Marked
  <1>. HIDE DEF IInv
  <1>. QED  BY <1>1, <1>2, <1>3, PTL DEF Spec

=============================================================================
