--------------------------- MODULE WebFormsProofs ---------------------------
(***************************************************************************)
(* Theorems about WebForms, for any number of clicks, any of its forms and *)
(* queries and any of its failures.                                        *)
(***************************************************************************)
EXTENDS WebForms, FiniteSetTheorems, TLAPS

LEMMA ConstantsType ==
    /\ Kinds \subseteq PointTab \cup SwapTab
    /\ MaxClicks \in Nat
  BY WebFormsAssumption DEF WebFormsAssumption

\* The types without the bounds on versions and nonces.
ReqType ==
    [kind : Kinds \cup {"none"}, shown : BOOLEAN, waits : BOOLEAN, at : Stage,
     nonce : Nat, permit : Nat, short : BOOLEAN, overtaken : BOOLEAN]

Typed ==
    /\ tab \in {"other", "point", "swap"}
    /\ query \in [Queries -> [data : Nat, got : Nat, unsure : BOOLEAN,
                              fetch : {"idle", "asked", "read"}]]
    /\ seen \in [Queries -> Nat]
    /\ req \in [Request -> ReqType]
    /\ version \in Nat
    /\ chain \in [nonce : Nat, token : Nat,
                  allowance : {"none", "short", "enough"}]

LEMMA NoRequestType == NoRequest \in ReqType
  BY DEF NoRequest, ReqType, Stage

\* The steps of one request.
Moves(r) ==
    \/ handleGrantPoints(r) \/ handleConsumePoints(r)
    \/ depositPoints(r) \/ withdrawPoints(r)
    \/ ReadAllowance(r) \/ ReadTokenNonce(r) \/ SignPermit(r)
    \/ ReadNonce(r) \/ Sign(r) \/ GiveUp(r)
    \/ Accept(r) \/ Refuse(r) \/ Answer(r) \/ Fail(r) \/ Settle(r)

\* The steps that touch no request but to hide its form.
Shows ==
    \/ \E t \in {"other", "point", "swap"} : SwitchTab(t)
    \/ DomainRead \/ UserNonceRead \/ InfoFails
    \/ \E q \in Queries :
          StartFetch(q) \/ ReadPoints(q) \/ Arrive(q) \/ FetchFails(q)
    \/ NoDomain
    \/ \E k \in Kinds : Reset(k)

LEMMA NextCases ==
    ASSUME [Next]_vars
    PROVE  Shows \/ (\E r \in Request : Moves(r)) \/ UNCHANGED vars
  BY DEF Next, Shows, Moves

-----------------------------------------------------------------------------
LEMMA FetchTypes ==
    ASSUME Typed, NEW q \in Queries
    PROVE  /\ Fetched(query[q]) \in [data : Nat, got : Nat, unsure : BOOLEAN,
                                     fetch : {"idle", "asked", "read"}]
           /\ OnMount(query[q]) \in [data : Nat, got : Nat, unsure : BOOLEAN,
                                     fetch : {"idle", "asked", "read"}]
           /\ Invalidated(query[q]) \in [data : Nat, got : Nat, unsure : BOOLEAN,
                                     fetch : {"idle", "asked", "read"}]
  BY DEF Typed, Fetched, OnMount, Invalidated

\* A request moved by its own step, and by no other's.
LEMMA ShowsType == Typed /\ Shows => Typed'
  <1>. SUFFICES ASSUME Typed, Shows  PROVE Typed'
    OBVIOUS
  <1>1. ASSUME NEW t \in {"other", "point", "swap"}, SwitchTab(t)
        PROVE  Typed'
    <2>1. query' \in [Queries -> [data : Nat, got : Nat, unsure : BOOLEAN,
                                  fetch : {"idle", "asked", "read"}]]
      BY <1>1, FetchTypes DEF SwitchTab, Typed
    <2>2. req' \in [Request -> ReqType]
      BY ZenonT(60), <1>1 DEF SwitchTab, Typed, ReqType
    <2>. QED  BY <1>1, <2>1, <2>2 DEF SwitchTab, Typed
  <1>2. CASE DomainRead \/ UserNonceRead \/ InfoFails \/ NoDomain
    BY <1>2 DEF DomainRead, UserNonceRead, InfoFails, NoDomain, Typed, cached
  <1>3. ASSUME NEW q \in Queries,
               StartFetch(q) \/ ReadPoints(q) \/ Arrive(q) \/ FetchFails(q)
        PROVE  Typed'
    <2>1. query' \in [Queries -> [data : Nat, got : Nat, unsure : BOOLEAN,
                                  fetch : {"idle", "asked", "read"}]]
      <3>1. CASE StartFetch(q)
        <4>1. query' = [query EXCEPT ![q] = Fetched(query[q])]
          BY <3>1 DEF StartFetch
        <4>. QED  BY <4>1, FetchTypes DEF Typed
      <3>2. CASE ReadPoints(q)
        BY ZenonT(60), <3>2 DEF ReadPoints, Typed
      <3>3. CASE Arrive(q)
        <4>1. query' = [query EXCEPT ![q] = [query[q] EXCEPT
                           !.fetch = "idle", !.got = 0, !.data = query[q].got]]
          BY <3>3 DEF Arrive, Typed
        <4>2. [query[q] EXCEPT !.fetch = "idle", !.got = 0,
                               !.data = query[q].got]
                 \in [data : Nat, got : Nat, unsure : BOOLEAN,
                      fetch : {"idle", "asked", "read"}]
          <5>1. query[q] \in [data : Nat, got : Nat, unsure : BOOLEAN,
                              fetch : {"idle", "asked", "read"}]
            BY DEF Typed
          <5>. QED  BY <5>1
        <4>. QED  BY <4>1, <4>2 DEF Typed
      <3>4. CASE FetchFails(q)
        <4>1. query' = [query EXCEPT ![q] = [query[q] EXCEPT
                           !.fetch = "idle", !.got = 0, !.unsure = TRUE]]
          BY <3>4 DEF FetchFails, Typed
        <4>. QED  BY <4>1 DEF Typed
      <3>. QED  BY <1>3, <3>1, <3>2, <3>3, <3>4
    <2>. QED
      BY <1>3, <2>1 DEF StartFetch, ReadPoints, Arrive, FetchFails, Typed, page
  <1>4. ASSUME NEW k \in Kinds, Reset(k)  PROVE Typed'
    BY <1>4 DEF Reset, Typed, cached
  <1>. QED  BY <1>1, <1>2, <1>3, <1>4 DEF Shows

LEMMA MovesType ==
    ASSUME Typed, NEW r \in Request, Moves(r)
    PROVE  Typed'
  <1>1. ASSUME NEW k, NEW at \in Stage, k \in Kinds, Send(k, r, at)
        PROVE  Typed'
    <2>1. [NoRequest EXCEPT !.kind = k, !.shown = TRUE, !.waits = TRUE,
                            !.at = at] \in ReqType
      BY <1>1 DEF NoRequest, ReqType
    <2>2. req' \in [Request -> ReqType]
      BY <1>1, <2>1 DEF Send, Typed
    <2>. QED  BY <1>1, <2>2 DEF Send, Typed, cached
  <1>2. CASE handleGrantPoints(r) \/ handleConsumePoints(r)
               \/ depositPoints(r) \/ withdrawPoints(r)
    BY <1>1, <1>2 DEF handleGrantPoints, handleConsumePoints, depositPoints,
                      withdrawPoints, Stage
  <1>3. CASE ReadAllowance(r) \/ ReadTokenNonce(r) \/ SignPermit(r)
               \/ ReadNonce(r) \/ Sign(r) \/ GiveUp(r)
    <2>1. CASE ReadAllowance(r)
      <3>1. (chain.allowance = "short") \in BOOLEAN
        OBVIOUS
      <3>2. req[r] \in ReqType
        BY DEF Typed
      <3>3. [req[r] EXCEPT
               !.at = IF chain.allowance = "none" THEN "token" ELSE "nonce",
               !.short = chain.allowance = "short"] \in ReqType
        BY <3>1, <3>2 DEF ReqType, Stage
      <3>4. req' \in [Request -> ReqType]
        BY <2>1, <3>3 DEF ReadAllowance, Typed
      <3>. QED  BY <2>1, <3>4 DEF ReadAllowance, Typed, cached, page
    <2>2. CASE ReadTokenNonce(r) \/ ReadNonce(r)
      <3>1. req' \in [Request -> ReqType]
        BY <2>2 DEF ReadTokenNonce, ReadNonce, Typed, ReqType, Stage
      <3>. QED  BY <2>2, <3>1 DEF ReadTokenNonce, ReadNonce, Typed, cached, page
    <2>3. CASE SignPermit(r) \/ Sign(r) \/ GiveUp(r)
      <3>1. req' \in [Request -> ReqType]
        BY SMTT(30), <2>3 DEF SignPermit, Sign, GiveUp, Typed, ReqType, Stage
      <3>. QED
        BY <2>3, <3>1 DEF SignPermit, Sign, GiveUp, Typed, cached, page
    <2>. QED  BY <1>3, <2>1, <2>2, <2>3
  <1>4. CASE Accept(r) \/ Refuse(r) \/ Fail(r)
    <2>1. CASE Accept(r) \/ Refuse(r)
      BY SMTT(30), <2>1 DEF Accept, Refuse, Typed, ReqType, Stage, cached, page
    <2>2. CASE Fail(r)
      <3>1. req' \in [Request -> ReqType]
        BY ZenonT(60), <2>2 DEF Fail, Typed, ReqType
      <3>. QED  BY <2>2, <3>1 DEF Fail, Typed, cached
    <2>. QED  BY <1>4, <2>1, <2>2
  <1>5. CASE Answer(r)
    <2>1. req' \in [Request -> ReqType]
      BY ZenonT(60), <1>5 DEF Answer, Typed, ReqType
    <2>2. /\ query' \in [Queries -> [data : Nat, got : Nat, unsure : BOOLEAN,
                                     fetch : {"idle", "asked", "read"}]]
          /\ seen' \in [Queries -> Nat]
      BY <1>5, FetchTypes DEF Answer, Typed
    <2>. QED  BY <1>5, <2>1, <2>2 DEF Answer, Typed
  <1>6. CASE Settle(r)
    <2>1. Token(r) \in Nat
      BY DEF Token, Typed
    <2>2. CASE Pay(r)
      <3>1. ASSUME NEW s \in Request
            PROVE  /\ [req[s] EXCEPT !.at = "paid"] \in ReqType
                   /\ [req[s] EXCEPT !.overtaken = TRUE] \in ReqType
        BY ZenonT(60) DEF Typed, ReqType, Stage
      <3>2. req' \in [Request -> ReqType]
        BY <2>2, <3>1 DEF Pay, Typed
      <3>3. /\ chain' \in [nonce : Nat, token : Nat,
                            allowance : {"none", "short", "enough"}]
            /\ version' \in Nat
        BY <2>1, <2>2 DEF Pay, Typed
      <3>. QED  BY <1>6, <3>2, <3>3 DEF Settle, Typed, cached, page
    <2>3. CASE Bounce(r)
      <3>1. req' \in [Request -> ReqType]
        BY <2>3 DEF Bounce, Typed, ReqType, Stage
      <3>. QED  BY <1>6, <2>1, <2>3, <3>1 DEF Settle, Bounce, Typed, cached, page
    <2>. QED  BY <1>6, <2>2, <2>3 DEF Settle
  <1>. QED  BY <1>2, <1>3, <1>4, <1>5, <1>6 DEF Moves

LEMMA InitType == Init => Typed
  <1>1. NoQuery \in [data : Nat, got : Nat, unsure : BOOLEAN,
                     fetch : {"idle", "asked", "read"}]
    BY DEF NoQuery
  <1>. QED  BY <1>1, NoRequestType DEF Init, Typed

LEMMA TypeStep == Typed /\ [Next]_vars => Typed'
  <1>1. Typed /\ UNCHANGED vars => Typed'
    BY DEF Typed, vars, page, cached
  <1>. QED  BY <1>1, ShowsType, MovesType, NextCases

-----------------------------------------------------------------------------
(***************************************************************************)
(* Why the chain fails a withdrawal.                                       *)
(***************************************************************************)
\* From its permit on, and again from its nonce on, a withdrawal is one
\* the chain would take, or there is the reason.
Covered(r) ==
    \/ req[r].overtaken \/ req[r].short
    \/ Permitted(r) \/ chain.allowance = "enough"

Current(r) == req[r].overtaken \/ req[r].nonce = chain.nonce

Sound(r) ==
    /\ req[r].kind = "withdraw"
          /\ req[r].at \in {"permit", "nonce", "sign", "posted", "done"} => Covered(r)
    /\ req[r].kind = "withdraw"
          /\ req[r].at \in {"sign", "posted", "done"} => Current(r)
    /\ req[r].at = "failed" => req[r].overtaken \/ req[r].short

Reasons == \A r \in Request : Sound(r)

LEMMA StaySound ==
    ASSUME NEW s \in Request, Sound(s), UNCHANGED chain,
           req'[s].kind = req[s].kind, req'[s].at = req[s].at,
           req'[s].nonce = req[s].nonce, req'[s].permit = req[s].permit,
           req'[s].short = req[s].short, req'[s].overtaken = req[s].overtaken
    PROVE  Sound(s)'
  BY DEF Sound, Covered, Current, Permitted

LEMMA ShowsSound == Typed /\ Reasons /\ Shows => Reasons'
  <1>. SUFFICES ASSUME Typed, Reasons, Shows, NEW s \in Request
                PROVE  Sound(s)'
    BY DEF Reasons
  <1>1. Sound(s)
    BY DEF Reasons
  <1>2. CASE \E t \in {"other", "point", "swap"} : SwitchTab(t)
    <2>1. /\ req' = [r \in Request |-> [req[r] EXCEPT !.shown = FALSE]]
          /\ UNCHANGED chain
      BY <1>2 DEF SwitchTab
    <2>2. req'[s] = [req[s] EXCEPT !.shown = FALSE]
      BY <2>1
    <2>3. req[s] \in ReqType
      BY DEF Typed
    <2>. QED  BY <1>1, <2>1, <2>2, <2>3, StaySound DEF ReqType
  <1>3. CASE UNCHANGED <<req, chain>>
    BY <1>1, <1>3, StaySound
  <1>. QED
    BY <1>2, <1>3 DEF Shows, DomainRead, UserNonceRead, InfoFails, StartFetch,
                      ReadPoints, Arrive, FetchFails, NoDomain, Reset

\* A request that moves leaves the others sound while the chain stays.
LEMMA OthersSound ==
    ASSUME Typed, Reasons, NEW r \in Request, NEW s \in Request, s # r,
           NEW q, req' = [req EXCEPT ![r] = q], UNCHANGED chain
    PROVE  Sound(s)'
  BY StaySound DEF Typed, Reasons

LEMMA SendsSound ==
    ASSUME Typed, NEW r \in Request, NEW k, NEW at \in Stage, Send(k, r, at),
           (at = "posted" /\ k # "withdraw") \/ at = "allowance"
    PROVE  Sound(r)'
  <1>1. req'[r] = [NoRequest EXCEPT !.kind = k, !.shown = TRUE, !.waits = TRUE,
                                    !.at = at]
    BY DEF Send, Typed
  <1>2. req'[r].kind = k /\ req'[r].at = at
    BY <1>1 DEF NoRequest
  <1>. QED  BY <1>2 DEF Sound

LEMMA SignsSound ==
    ASSUME Typed, Reasons, NEW r \in Request,
           \/ ReadAllowance(r) \/ ReadTokenNonce(r) \/ SignPermit(r)
           \/ ReadNonce(r) \/ Sign(r)
    PROVE  Sound(r)'
  <1>0. Sound(r) /\ req[r] \in ReqType
    BY DEF Reasons, Typed
  <1>1. CASE ReadAllowance(r)
    <2>1. /\ req'[r].short = (chain.allowance = "short")
          /\ req'[r].at = IF chain.allowance = "none" THEN "token" ELSE "nonce"
          /\ UNCHANGED chain
      BY <1>1 DEF ReadAllowance, Typed, ReqType
    <2>2. chain.allowance \in {"none", "short", "enough"}
      BY DEF Typed
    <2>. QED  BY <2>1, <2>2 DEF Sound, Covered
  <1>2. CASE ReadTokenNonce(r)
    <2>1. /\ req'[r].permit = chain.token + 1 /\ req'[r].at = "permit"
          /\ UNCHANGED chain
      BY <1>2 DEF ReadTokenNonce, Typed, ReqType
    <2>. QED  BY <2>1 DEF Sound, Covered, Permitted
  <1>3. CASE SignPermit(r)
    <2>1. req'[r] = [req[r] EXCEPT !.at = "nonce"] /\ UNCHANGED chain
      BY <1>3 DEF SignPermit, Typed
    <2>2. /\ req[r].at = "permit" /\ req'[r].at = "nonce"
          /\ req'[r].kind = req[r].kind /\ req'[r].permit = req[r].permit
          /\ req'[r].short = req[r].short
          /\ req'[r].overtaken = req[r].overtaken
      BY <1>0, <1>3, <2>1 DEF SignPermit, ReqType
    <2>. QED  BY <1>0, <2>1, <2>2 DEF Sound, Covered, Permitted
  <1>4. CASE ReadNonce(r)
    <2>1. /\ req'[r] = [req[r] EXCEPT !.at = "sign", !.nonce = chain.nonce]
          /\ UNCHANGED chain
      BY <1>4 DEF ReadNonce, Typed
    <2>2. /\ req[r].at = "nonce" /\ req'[r].at = "sign"
          /\ req'[r].nonce = chain.nonce
          /\ req'[r].kind = req[r].kind /\ req'[r].permit = req[r].permit
          /\ req'[r].short = req[r].short
          /\ req'[r].overtaken = req[r].overtaken
      <3>1. req[r].at = "nonce"
        BY <1>4 DEF ReadNonce
      <3>. QED  BY <1>0, <2>1, <3>1 DEF ReqType
    <2>. QED  BY <1>0, <2>1, <2>2 DEF Sound, Covered, Current, Permitted
  <1>5. CASE Sign(r)
    <2>1. req'[r] = [req[r] EXCEPT !.at = "posted"] /\ UNCHANGED chain
      BY <1>5 DEF Sign, Typed
    <2>2. /\ req[r].at = "sign" /\ req'[r].at = "posted"
          /\ req'[r].nonce = req[r].nonce
          /\ req'[r].kind = req[r].kind /\ req'[r].permit = req[r].permit
          /\ req'[r].short = req[r].short
          /\ req'[r].overtaken = req[r].overtaken
      BY <1>0, <1>5, <2>1 DEF Sign, ReqType
    <2>. QED  BY <1>0, <2>1, <2>2 DEF Sound, Covered, Current, Permitted
  <1>. QED  BY <1>1, <1>2, <1>3, <1>4, <1>5

LEMMA ServesSound ==
    ASSUME Typed, Reasons, NEW r \in Request,
           GiveUp(r) \/ Accept(r) \/ Refuse(r) \/ Answer(r) \/ Fail(r)
    PROVE  Sound(r)'
  <1>0. Sound(r) /\ req[r] \in ReqType
    BY DEF Reasons, Typed
  <1>1. CASE GiveUp(r) \/ Refuse(r)
    <2>1. req'[r].at \in {"dropped", "refused"}
      BY <1>1 DEF GiveUp, Refuse, Typed, ReqType
    <2>. QED  BY <2>1 DEF Sound
  <1>2. CASE Accept(r)
    <2>1. req'[r] = [req[r] EXCEPT !.at = "done"] /\ UNCHANGED chain
      BY <1>2 DEF Accept, Typed
    <2>2. /\ req[r].at = "posted" /\ req'[r].at = "done"
          /\ req'[r].nonce = req[r].nonce
          /\ req'[r].kind = req[r].kind /\ req'[r].permit = req[r].permit
          /\ req'[r].short = req[r].short
          /\ req'[r].overtaken = req[r].overtaken
      BY <1>0, <1>2, <2>1 DEF Accept, ReqType
    <2>. QED  BY <1>0, <2>1, <2>2 DEF Sound, Covered, Current, Permitted
  <1>3. CASE Answer(r) \/ Fail(r)
    <2>1. req'[r] = [req[r] EXCEPT !.waits = FALSE] /\ UNCHANGED chain
      BY <1>3 DEF Answer, Fail, Typed
    <2>. QED  BY <1>0, <2>1, StaySound DEF ReqType
  <1>. QED  BY <1>1, <1>2, <1>3

LEMMA SettleSound ==
    ASSUME Typed, Reasons, NEW r \in Request, Settle(r)
    PROVE  Reasons'
  <1>. SUFFICES ASSUME NEW s \in Request  PROVE Sound(s)'
    BY DEF Reasons
  <1>0. /\ Sound(s) /\ Sound(r) /\ req[s] \in ReqType /\ req[r] \in ReqType
        /\ req[r].kind = "withdraw" /\ req[r].at = "done"
        /\ chain.token \in Nat
    BY DEF Reasons, Typed, Settle
  <1>1. CASE Pay(r)
    <2>1. CASE s = r
      <3>1. req'[s].at = "paid"
        BY <1>0, <1>1, <2>1 DEF Pay, ReqType
      <3>. QED  BY <3>1 DEF Sound
    <2>2. CASE s # r /\ Open(s)
      <3>1. /\ req'[s].overtaken = TRUE /\ req'[s].at = req[s].at
        BY <1>0, <1>1, <2>2 DEF Pay, ReqType
      <3>. QED  BY <3>1 DEF Sound, Covered, Current
    <2>3. CASE s # r /\ ~Open(s)
      <3>1. req'[s] = req[s]
        BY <1>1, <2>3 DEF Pay
      <3>. QED  BY <1>0, <2>3, <3>1 DEF Sound, Open
    <2>. QED  BY <2>1, <2>2, <2>3
  <1>2. CASE Bounce(r)
    <2>1. /\ chain'.nonce = chain.nonce /\ chain'.token = Token(r)
          /\ chain'.allowance = IF Permitted(r) THEN "enough" ELSE chain.allowance
      BY <1>2 DEF Bounce
    <2>2. CASE s = r
      <3>1. /\ req'[s].at = "failed" /\ req'[s].short = req[s].short
            /\ req'[s].overtaken = req[s].overtaken
        BY <1>0, <1>2, <2>2 DEF Bounce, Typed, ReqType
      <3>2. req[r].overtaken \/ req[r].short
        BY <1>0, <1>2 DEF Bounce, Payable, Sound, Covered, Current
      <3>. QED  BY <2>2, <3>1, <3>2 DEF Sound
    <2>3. CASE s # r
      <3>1. req'[s] = req[s]
        BY <1>2, <2>3 DEF Bounce, Typed
      <3>2. Covered(s) => Covered(s)'
        <4>1. CASE Permitted(r)
          BY <2>1, <4>1 DEF Covered
        <4>2. CASE ~Permitted(r)
          BY <2>1, <3>1, <4>2 DEF Covered, Token, Permitted
        <4>. QED  BY <4>1, <4>2
      <3>3. Current(s) => Current(s)'
        BY <2>1, <3>1 DEF Current
      <3>. QED  BY <1>0, <3>1, <3>2, <3>3 DEF Sound
    <2>. QED  BY <2>2, <2>3
  <1>. QED  BY <1>1, <1>2 DEF Settle

LEMMA MovesSound ==
    ASSUME Typed, Reasons, NEW r \in Request, Moves(r)
    PROVE  Reasons'
  <1>1. CASE Settle(r)
    BY <1>1, SettleSound
  <1>2. CASE ~Settle(r)
    <2>. SUFFICES ASSUME NEW s \in Request  PROVE Sound(s)'
      BY DEF Reasons
    <2>1. CASE s = r
      <3>1. CASE handleGrantPoints(r) \/ handleConsumePoints(r)
                   \/ depositPoints(r) \/ withdrawPoints(r)
        BY <2>1, <3>1, SendsSound DEF handleGrantPoints, handleConsumePoints,
                                      depositPoints, withdrawPoints, Stage
      <3>2. CASE ~(handleGrantPoints(r) \/ handleConsumePoints(r)
                   \/ depositPoints(r) \/ withdrawPoints(r))
        BY <1>2, <2>1, <3>2, SignsSound, ServesSound DEF Moves
      <3>. QED  BY <3>1, <3>2
    <2>2. CASE s # r
      <3>1. UNCHANGED chain /\ \E q : req' = [req EXCEPT ![r] = q]
        BY <1>2 DEF Moves, handleGrantPoints, handleConsumePoints, depositPoints,
                    withdrawPoints, Send, ReadAllowance, ReadTokenNonce,
                    SignPermit, ReadNonce, Sign, GiveUp, Accept, Refuse, Answer,
                    Fail
      <3>. QED  BY <2>2, <3>1, OthersSound
    <2>. QED  BY <2>1, <2>2
  <1>. QED  BY <1>1, <1>2

LEMMA ReasonsStep == Typed /\ Reasons /\ [Next]_vars => Reasons'
  <1>1. Reasons /\ UNCHANGED vars => Reasons'
    BY StaySound DEF Reasons, vars
  <1>. QED  BY <1>1, ShowsSound, MovesSound, NextCases

LEMMA ReasonsInit == Init => Reasons
  BY DEF Init, Reasons, Sound, NoRequest

\* A withdrawal with a fresh nonce and a fresh permit fails on the chain
\* only if another one overtook it or the allowance it saw was short: the
\* order of the reads in withdrawPoints leaves no other reason.
THEOREM OnlyOvertakenOrShort == Spec => []FailedForAReason
  <1>1. Typed /\ Reasons /\ [Next]_vars => Typed' /\ Reasons'
    BY TypeStep, ReasonsStep
  <1>2. Reasons => FailedForAReason
    BY DEF Reasons, Sound, FailedForAReason
  <1>. QED  BY <1>1, <1>2, InitType, ReasonsInit, PTL DEF Spec

-----------------------------------------------------------------------------
(***************************************************************************)
(* What a query shows after a success.                                     *)
(***************************************************************************)
\* A request that shows its answer belongs to the open tab.
OnItsTab ==
    \A r \in Request :
        req[r].shown => req[r].kind \in Kinds /\ tab = TabOf(req[r].kind)

\* The fetch under way, or the data at rest, is from after the last success
\* shown.
Fresh(q) ==
    /\ seen[q] <= version
    /\ query[q].fetch = "read" /\ ~query[q].unsure => query[q].got >= seen[q]
    /\ query[q].fetch = "idle" /\ ~query[q].unsure => query[q].data >= seen[q]

AllFresh == \A q \in Queries : Fresh(q)

LEMMA TabStep == Typed /\ OnItsTab /\ [Next]_vars => OnItsTab'
  <1>. SUFFICES ASSUME Typed, OnItsTab, [Next]_vars, NEW s \in Request,
                       req'[s].shown
                PROVE  (req[s].kind \in Kinds /\ tab = TabOf(req[s].kind))'
    BY DEF OnItsTab
  <1>0. req[s] \in ReqType
    BY DEF Typed
  <1>1. CASE UNCHANGED <<tab, req>>
    BY <1>1 DEF OnItsTab
  <1>2. ASSUME NEW t \in {"other", "point", "swap"}, SwitchTab(t)  PROVE FALSE
    <2>1. req'[s] = [req[s] EXCEPT !.shown = FALSE]
      BY <1>2 DEF SwitchTab
    <2>. QED  BY <1>0, <2>1 DEF ReqType
  <1>3. ASSUME NEW r \in Request, NEW k, NEW at \in Stage, k \in Kinds,
               Send(k, r, at)
        PROVE  (req[s].kind \in Kinds /\ tab = TabOf(req[s].kind))'
    <2>1. CASE s = r
      <3>1. req'[s].kind = k
        BY <1>3, <2>1 DEF Send, NoRequest, Typed
      <3>. QED  BY <1>3, <3>1 DEF Send
    <2>2. CASE s # r
      BY <1>3, <2>2 DEF Send, OnItsTab, Typed
    <2>. QED  BY <2>1, <2>2
  <1>4. ASSUME NEW r \in Request, tab' = tab,
               NEW q, req' = [req EXCEPT ![r] = q],
               q.kind = req[r].kind, q.shown = req[r].shown
        PROVE  (req[s].kind \in Kinds /\ tab = TabOf(req[s].kind))'
    BY <1>4 DEF OnItsTab, Typed
  <1>5. ASSUME NEW r \in Request,
               ReadAllowance(r) \/ ReadTokenNonce(r) \/ SignPermit(r)
                 \/ ReadNonce(r) \/ Sign(r)
        PROVE  (req[s].kind \in Kinds /\ tab = TabOf(req[s].kind))'
    BY <1>4, <1>5 DEF ReadAllowance, ReadTokenNonce, SignPermit, ReadNonce, Sign,
                      page, Typed, ReqType
  <1>6. ASSUME NEW r \in Request,
               GiveUp(r) \/ Accept(r) \/ Refuse(r) \/ Answer(r) \/ Fail(r)
        PROVE  (req[s].kind \in Kinds /\ tab = TabOf(req[s].kind))'
    BY <1>4, <1>6 DEF GiveUp, Accept, Refuse, Answer, Fail, page, Typed, ReqType
  <1>7. ASSUME NEW r \in Request, Settle(r)
        PROVE  (req[s].kind \in Kinds /\ tab = TabOf(req[s].kind))'
    <2>1. req'[s].kind = req[s].kind /\ req'[s].shown = req[s].shown
      <3>1. CASE Pay(r)
        BY <1>0, <3>1 DEF Pay, ReqType
      <3>2. CASE Bounce(r)
        BY <1>0, <3>2 DEF Bounce, Typed, ReqType
      <3>. QED  BY <1>7, <3>1, <3>2 DEF Settle
    <2>2. tab' = tab
      BY <1>7 DEF Settle, page
    <2>. QED  BY <2>1, <2>2 DEF OnItsTab
  <1>8. CASE Shows
    BY <1>1, <1>2, <1>8 DEF Shows, DomainRead, UserNonceRead, InfoFails, StartFetch,
                            ReadPoints, Arrive, FetchFails, NoDomain, Reset, page
  <1>9. ASSUME NEW r \in Request, Moves(r)
        PROVE  (req[s].kind \in Kinds /\ tab = TabOf(req[s].kind))'
    BY <1>3, <1>5, <1>6, <1>7, <1>9 DEF Moves, handleGrantPoints,
       handleConsumePoints, depositPoints, withdrawPoints, Stage
  <1>. QED  BY <1>1, <1>8, <1>9, NextCases DEF vars, page

LEMMA StayFresh ==
    ASSUME NEW q \in Queries, Fresh(q), query'[q] = query[q], seen'[q] = seen[q],
           Typed, version' \in Nat, version' >= version
    PROVE  Fresh(q)'
  BY DEF Fresh, Typed

LEMMA ShowsFresh == Typed /\ AllFresh /\ Shows => AllFresh'
  <1>. SUFFICES ASSUME Typed, AllFresh, Shows, NEW p \in Queries
                PROVE  Fresh(p)'
    BY DEF AllFresh
  <1>0. Fresh(p)
    BY DEF AllFresh
  <1>1. CASE UNCHANGED <<query, seen, version>>
    BY <1>0, <1>1 DEF Fresh
  <1>2. ASSUME NEW t \in {"other", "point", "swap"}, SwitchTab(t)
        PROVE  Fresh(p)'
    <2>1. query'[p] = query[p] \/ query'[p] = OnMount(query[p])
      BY <1>2 DEF SwitchTab
    <2>. QED
      BY <1>0, <1>2, <2>1 DEF SwitchTab, OnMount, Fetched, Fresh, Typed
  <1>3. ASSUME NEW q \in Queries,
               StartFetch(q) \/ ReadPoints(q) \/ Arrive(q) \/ FetchFails(q)
        PROVE  Fresh(p)'
    <2>1. UNCHANGED <<seen, version>>
      BY <1>3 DEF StartFetch, ReadPoints, Arrive, FetchFails
    <2>2. CASE p # q
      BY <1>0, <1>3, <2>1, <2>2
         DEF StartFetch, ReadPoints, Arrive, FetchFails, Fresh, Typed
    <2>3. CASE p = q
      <3>1. CASE StartFetch(q)
        BY <1>0, <2>1, <2>3, <3>1 DEF StartFetch, Fetched, Fresh, Typed
      <3>2. CASE ReadPoints(q)
        BY <1>0, <2>1, <2>3, <3>2 DEF ReadPoints, Fresh, Typed
      <3>3. CASE Arrive(q)
        BY <1>0, <2>1, <2>3, <3>3 DEF Arrive, Fresh, Typed
      <3>4. CASE FetchFails(q)
        BY <1>0, <2>1, <2>3, <3>4 DEF FetchFails, Fresh, Typed
      <3>. QED  BY <1>3, <3>1, <3>2, <3>3, <3>4
    <2>. QED  BY <2>2, <2>3
  <1>. QED
    BY <1>1, <1>2, <1>3 DEF Shows, DomainRead, UserNonceRead, InfoFails, NoDomain,
                            Reset, cached

LEMMA MovesFresh ==
    ASSUME Typed, OnItsTab, AllFresh, NEW r \in Request, Moves(r)
    PROVE  AllFresh'
  <1>. SUFFICES ASSUME NEW p \in Queries  PROVE Fresh(p)'
    BY DEF AllFresh
  <1>0. Fresh(p)
    BY DEF AllFresh
  <1>1. CASE Answer(r)
    <2>1. CASE p \notin Named(req[r].kind)
      <3>1. query'[p] = query[p] /\ seen'[p] = seen[p] /\ version' = version
        BY <1>1, <2>1 DEF Answer
      <3>. QED  BY <1>0, <3>1 DEF Fresh
    <2>2. CASE p \in Named(req[r].kind) /\ ~req[r].shown
      <3>1. /\ query'[p] = Invalidated(query[p]) /\ seen'[p] = seen[p]
            /\ version' = version
        BY <1>1, <2>2 DEF Answer
      <3>. QED  BY <1>0, <3>1 DEF Fresh, Invalidated, Fetched, Typed
    <2>3. CASE p \in Named(req[r].kind) /\ req[r].shown
      <3>1. /\ query'[p] = Invalidated(query[p]) /\ seen'[p] = version
            /\ version' = version
        BY <1>1, <2>3 DEF Answer
      <3>2. Mounted
        BY <2>3 DEF OnItsTab, Mounted, TabOf
      <3>3. query'[p].unsure \/ query'[p].fetch = "asked"
        BY <3>1, <3>2 DEF Invalidated, Fetched, Typed
      <3>. QED  BY <3>1, <3>3 DEF Fresh, Typed
    <2>. QED  BY <2>1, <2>2, <2>3
  <1>2. CASE ~Answer(r)
    <2>1. UNCHANGED <<query, seen>> /\ version' \in {version, version + 1}
      BY <1>2 DEF Moves, handleGrantPoints, handleConsumePoints, depositPoints,
                  withdrawPoints, Send, ReadAllowance, ReadTokenNonce,
                  SignPermit, ReadNonce, Sign, GiveUp, Accept, Refuse,
                  Fail, Settle, Pay, Bounce, cached
    <2>2. version \in Nat
      BY DEF Typed
    <2>. QED  BY <1>0, <2>1, <2>2, StayFresh
  <1>. QED  BY <1>1, <1>2

LEMMA FreshStep == Typed /\ OnItsTab /\ AllFresh /\ [Next]_vars => AllFresh'
  <1>1. AllFresh /\ UNCHANGED vars => AllFresh'
    BY DEF AllFresh, Fresh, vars, cached
  <1>. QED  BY <1>1, ShowsFresh, MovesFresh, NextCases

LEMMA FreshInit == Init => OnItsTab /\ AllFresh
  BY DEF Init, OnItsTab, AllFresh, Fresh, NoRequest, NoQuery

\* Whatever fetches and tabs cross an answer, a query at rest shows no data
\* from before the last success the page showed.
THEOREM SuccessThenFreshData == Spec => []ReadYourWrites
  <1>1. Typed /\ OnItsTab /\ AllFresh /\ [Next]_vars
          => Typed' /\ OnItsTab' /\ AllFresh'
    BY TypeStep, TabStep, FreshStep
  <1>2. AllFresh => ReadYourWrites
    BY DEF AllFresh, Fresh, ReadYourWrites
  <1>. QED  BY <1>1, <1>2, InitType, FreshInit, PTL DEF Spec

-----------------------------------------------------------------------------
(***************************************************************************)
(* The bounds of versions and nonces: each request counts once at most.    *)
(***************************************************************************)
\* A request state that has changed the points, and one that has reached
\* the chain.
Counted(e) == e.at = "paid" \/ (e.at = "done" /\ e.kind # "withdraw")
OnChain(e) == e.at \in {"paid", "failed"}

Changed(rq) == {r \in Request : Counted(rq[r])}
Ended(rq)   == {r \in Request : OnChain(rq[r])}

\* Every change of the points is that of one request, and no request takes
\* the chain's nonces further than by one.
Counts ==
    /\ version = 1 + Cardinality(Changed(req))
    /\ chain.nonce <= Cardinality(Ended(req))
    /\ chain.token <= Cardinality(Ended(req))

Forms == [Kinds -> {"idle", "loading", "error", "success"}]
Infos == [at : {"asked", "domain", "loaded", "failed"}, userNonce : Nat]

LEMMA Sizes ==
    /\ IsFiniteSet(Request) /\ Cardinality(Request) = MaxClicks
    /\ \A S \in SUBSET Request :
          /\ IsFiniteSet(S) /\ Cardinality(S) \in Nat
          /\ Cardinality(S) <= MaxClicks
    /\ \A S \in SUBSET Request : \A r \in Request \ S :
          Cardinality(S \cup {r}) = Cardinality(S) + 1
  <1>1. IsFiniteSet(Request) /\ Cardinality(Request) = MaxClicks
    BY ConstantsType, FS_Interval DEF Request
  <1>2. ASSUME NEW S \in SUBSET Request
        PROVE  /\ IsFiniteSet(S) /\ Cardinality(S) \in Nat
               /\ Cardinality(S) <= MaxClicks
    BY <1>1, FS_Subset, FS_CardinalityType
  <1>3. ASSUME NEW S \in SUBSET Request, NEW r \in Request \ S
        PROVE  Cardinality(S \cup {r}) = Cardinality(S) + 1
    BY <1>2, FS_AddElement
  <1>. QED  BY <1>1, <1>2, <1>3

\* A step that leaves every request on its side of the counts.
SameSides ==
    \A s \in Request : /\ Counted(req'[s]) <=> Counted(req[s])
                       /\ OnChain(req'[s]) <=> OnChain(req[s])

LEMMA SameCounts ==
    ASSUME Counts, SameSides, version' = version, chain' = chain
    PROVE  Counts'
  <1>1. Changed(req') = Changed(req) /\ Ended(req') = Ended(req)
    BY DEF SameSides, Changed, Ended
  <1>. QED  BY <1>1 DEF Counts

LEMMA ShowsSides == Typed /\ Shows => SameSides
  <1>. SUFFICES ASSUME Typed, Shows, NEW s \in Request
                PROVE  /\ Counted(req'[s]) <=> Counted(req[s])
                       /\ OnChain(req'[s]) <=> OnChain(req[s])
    BY DEF SameSides
  <1>1. CASE \E t \in {"other", "point", "swap"} : SwitchTab(t)
    <2>1. req'[s] = [req[s] EXCEPT !.shown = FALSE] /\ req[s] \in ReqType
      BY <1>1 DEF SwitchTab, Typed
    <2>2. req'[s].at = req[s].at /\ req'[s].kind = req[s].kind
      BY <2>1 DEF ReqType
    <2>. QED  BY <2>2 DEF Counted, OnChain
  <1>2. CASE UNCHANGED req
    BY <1>2
  <1>. QED
    BY <1>1, <1>2 DEF Shows, DomainRead, UserNonceRead, InfoFails, StartFetch,
                      ReadPoints, Arrive, FetchFails, NoDomain, Reset

\* The moves of r that count for nothing: all but its acceptance by the
\* server and its settlement on the chain.
Silent(r) ==
    \/ handleGrantPoints(r) \/ handleConsumePoints(r)
    \/ depositPoints(r) \/ withdrawPoints(r)
    \/ ReadAllowance(r) \/ ReadTokenNonce(r) \/ SignPermit(r)
    \/ ReadNonce(r) \/ Sign(r) \/ GiveUp(r)
    \/ Refuse(r) \/ Answer(r) \/ Fail(r)

LEMMA SilentSides ==
    ASSUME Typed, NEW r \in Request, Silent(r)
    PROVE  SameSides /\ version' = version /\ chain' = chain
  <1>0. req[r] \in ReqType
    BY DEF Typed
  <1>1. version' = version /\ chain' = chain
    BY DEF Silent, handleGrantPoints, handleConsumePoints, depositPoints,
           withdrawPoints, Send, ReadAllowance, ReadTokenNonce, SignPermit,
           ReadNonce, Sign, GiveUp, Refuse, Answer, Fail
  <1>2. \E e : req' = [req EXCEPT ![r] = e]
    BY DEF Silent, handleGrantPoints, handleConsumePoints, depositPoints,
           withdrawPoints, Send, ReadAllowance, ReadTokenNonce, SignPermit,
           ReadNonce, Sign, GiveUp, Refuse, Answer, Fail
  <1>3. \A s \in Request \ {r} : req'[s] = req[s]
    BY <1>2 DEF Typed
  <1>4. /\ Counted(req'[r]) <=> Counted(req[r])
        /\ OnChain(req'[r]) <=> OnChain(req[r])
    <2>1. ASSUME NEW k, NEW at \in {"posted", "allowance"}, Send(k, r, at)
          PROVE  req[r].at = "unsent" /\ req'[r].at = at
      BY <2>1 DEF Send, Unused, NoRequest, Typed
    <2>2. CASE handleGrantPoints(r) \/ handleConsumePoints(r)
                 \/ depositPoints(r) \/ withdrawPoints(r)
      BY <2>1, <2>2 DEF handleGrantPoints, handleConsumePoints, depositPoints,
                        withdrawPoints, Counted, OnChain
    <2>3. CASE ReadAllowance(r) \/ ReadTokenNonce(r) \/ SignPermit(r)
                 \/ ReadNonce(r) \/ Sign(r) \/ GiveUp(r) \/ Refuse(r)
      <3>1. /\ req[r].at \in {"allowance", "token", "permit", "nonce", "sign",
                              "posted"}
            /\ req'[r].at \in {"token", "permit", "nonce", "sign", "posted",
                               "dropped", "refused"}
        BY <1>0, <2>3 DEF ReadAllowance, ReadTokenNonce, SignPermit, ReadNonce,
                          Sign, GiveUp, Refuse, Typed, ReqType
      <3>. QED  BY <3>1 DEF Counted, OnChain
    <2>4. CASE Answer(r) \/ Fail(r)
      <3>1. req'[r] = [req[r] EXCEPT !.waits = FALSE]
        BY <2>4 DEF Answer, Fail, Typed
      <3>2. req'[r].at = req[r].at /\ req'[r].kind = req[r].kind
        BY <1>0, <3>1 DEF ReqType
      <3>. QED  BY <3>2 DEF Counted, OnChain
    <2>. QED  BY <2>2, <2>3, <2>4 DEF Silent
  <1>. QED  BY <1>1, <1>3, <1>4 DEF SameSides

LEMMA AcceptCounts ==
    ASSUME Typed, Counts, NEW r \in Request, Accept(r)
    PROVE  Counts' /\ version <= version' /\ chain' = chain
  <1>1. /\ req' = [req EXCEPT ![r] = [req[r] EXCEPT !.at = "done"]]
        /\ req[r].at = "posted" /\ chain' = chain
        /\ version' = IF req[r].kind = "withdraw" THEN version ELSE version + 1
    BY DEF Accept, Typed
  <1>2. /\ req'[r].at = "done" /\ req'[r].kind = req[r].kind
        /\ \A s \in Request \ {r} : req'[s] = req[s]
    BY <1>1 DEF Typed, ReqType
  <1>3. Ended(req') = Ended(req)
    BY <1>1, <1>2 DEF Ended, OnChain
  <1>4. version \in Nat
    BY DEF Typed
  <1>5. CASE req[r].kind = "withdraw"
    <2>1. Changed(req') = Changed(req)
      BY <1>1, <1>2, <1>5 DEF Changed, Counted
    <2>. QED  BY <1>1, <1>3, <1>4, <1>5, <2>1 DEF Counts
  <1>6. CASE req[r].kind # "withdraw"
    <2>1. Changed(req') = Changed(req) \cup {r} /\ r \notin Changed(req)
      BY <1>1, <1>2, <1>6 DEF Changed, Counted
    <2>2. Changed(req) \in SUBSET Request
      BY DEF Changed
    <2>3. /\ Cardinality(Changed(req')) = Cardinality(Changed(req)) + 1
          /\ Cardinality(Changed(req)) \in Nat
      BY <2>1, <2>2, Sizes
    <2>. QED  BY <1>1, <1>3, <1>4, <1>6, <2>3 DEF Counts
  <1>. QED  BY <1>5, <1>6

LEMMA SettleCounts ==
    ASSUME Typed, Counts, NEW r \in Request, Settle(r)
    PROVE  /\ Counts' /\ version <= version'
           /\ chain.nonce <= chain'.nonce /\ chain.token <= chain'.token
  <1>0. /\ req[r].kind = "withdraw" /\ req[r].at = "done"
        /\ version \in Nat /\ chain.nonce \in Nat /\ chain.token \in Nat
        /\ \A s \in Request : req[s] \in ReqType
    BY DEF Settle, Typed
  <1>1. Token(r) \in {chain.token, chain.token + 1}
    BY DEF Token
  <1>2. /\ Changed(req) \in SUBSET Request /\ Ended(req) \in SUBSET Request
        /\ r \notin Changed(req) /\ r \notin Ended(req)
    BY <1>0 DEF Changed, Ended, Counted, OnChain
  <1>3. /\ Cardinality(Changed(req) \cup {r}) = Cardinality(Changed(req)) + 1
        /\ Cardinality(Ended(req) \cup {r}) = Cardinality(Ended(req)) + 1
        /\ Cardinality(Changed(req)) \in Nat /\ Cardinality(Ended(req)) \in Nat
    BY <1>2, Sizes
  <1>4. CASE Pay(r)
    <2>1. \A s \in Request \ {r} :
             req'[s].at = req[s].at /\ req'[s].kind = req[s].kind
      <3>1. \A s \in Request \ {r} :
               \/ req'[s] = [req[s] EXCEPT !.overtaken = TRUE]
               \/ req'[s] = req[s]
        BY <1>4 DEF Pay
      <3>. QED  BY <1>0, <3>1 DEF ReqType
    <2>2. req'[r].at = "paid"
      BY <1>0, <1>4 DEF Pay, ReqType
    <2>3. /\ Changed(req') = Changed(req) \cup {r}
          /\ Ended(req') = Ended(req) \cup {r}
      BY <2>1, <2>2 DEF Changed, Ended, Counted, OnChain
    <2>4. /\ version' = version + 1 /\ chain'.nonce = chain.nonce + 1
          /\ chain'.token = Token(r)
      BY <1>4 DEF Pay
    <2>. QED  BY <1>0, <1>1, <1>3, <2>3, <2>4 DEF Counts
  <1>5. CASE Bounce(r)
    <2>1. \A s \in Request \ {r} : req'[s] = req[s]
      BY <1>5 DEF Bounce, Typed
    <2>2. req'[r].at = "failed"
      BY <1>0, <1>5 DEF Bounce, Typed, ReqType
    <2>3. /\ Changed(req') = Changed(req)
          /\ Ended(req') = Ended(req) \cup {r}
      BY <1>2, <2>1, <2>2 DEF Changed, Ended, Counted, OnChain
    <2>4. /\ version' = version /\ chain'.nonce = chain.nonce
          /\ chain'.token = Token(r)
      BY <1>5 DEF Bounce
    <2>. QED  BY <1>0, <1>1, <1>3, <2>3, <2>4 DEF Counts
  <1>. QED  BY <1>4, <1>5 DEF Settle

\* What the chain and the points count only grows.
LEMMA CountsStep ==
    ASSUME Typed, Counts, [Next]_vars
    PROVE  /\ Counts' /\ version <= version'
           /\ chain.nonce <= chain'.nonce /\ chain.token <= chain'.token
  <1>0. version \in Nat /\ chain.nonce \in Nat /\ chain.token \in Nat
    BY DEF Typed
  <1>1. CASE Shows
    <2>1. version' = version /\ chain' = chain
      BY <1>1 DEF Shows, SwitchTab, DomainRead, UserNonceRead, InfoFails,
                  StartFetch, ReadPoints, Arrive, FetchFails, NoDomain, Reset
    <2>. QED  BY <1>0, <1>1, <2>1, ShowsSides, SameCounts
  <1>2. ASSUME NEW r \in Request, Silent(r)
        PROVE  Counts' /\ version' = version /\ chain' = chain
    BY <1>2, SilentSides, SameCounts
  <1>3. CASE UNCHANGED vars
    <2>1. SameSides /\ version' = version /\ chain' = chain
      BY <1>3 DEF vars, SameSides
    <2>. QED  BY <1>0, <2>1, SameCounts
  <1>4. ASSUME NEW r \in Request, Moves(r)
        PROVE  Silent(r) \/ Accept(r) \/ Settle(r)
    BY <1>4 DEF Moves, Silent
  <1>. QED
    BY <1>0, <1>1, <1>2, <1>3, <1>4, AcceptCounts, SettleCounts, NextCases

Grown ==
    /\ version <= version'
    /\ chain.nonce <= chain'.nonce /\ chain.token <= chain'.token

LEMMA FormsStep ==
    ASSUME form \in Forms, [Next]_vars
    PROVE  form' \in Forms
  <1>1. CASE Shows
    BY <1>1 DEF Forms, Shows, SwitchTab, DomainRead, UserNonceRead, InfoFails,
                StartFetch, ReadPoints, Arrive, FetchFails, NoDomain, Reset, page
  <1>2. ASSUME NEW r \in Request, NEW s \in {"error", "success"}
        PROVE  Shown(r, s) \in Forms
    BY DEF Shown, Forms
  <1>3. ASSUME NEW r \in Request, Moves(r)
        PROVE  form' \in Forms
    <2>1. ASSUME NEW k, NEW at, Send(k, r, at)  PROVE form' \in Forms
      BY <2>1 DEF Send, Forms
    <2>2. CASE handleGrantPoints(r) \/ handleConsumePoints(r)
                 \/ depositPoints(r) \/ withdrawPoints(r)
      BY <2>1, <2>2 DEF handleGrantPoints, handleConsumePoints, depositPoints,
                        withdrawPoints
    <2>3. CASE GiveUp(r) \/ Answer(r) \/ Fail(r)
      BY <1>2, <2>3 DEF GiveUp, Answer, Fail
    <2>4. CASE ReadAllowance(r) \/ ReadTokenNonce(r) \/ SignPermit(r)
                 \/ ReadNonce(r) \/ Sign(r) \/ Accept(r) \/ Refuse(r) \/ Settle(r)
      BY <2>4 DEF ReadAllowance, ReadTokenNonce, SignPermit, ReadNonce, Sign,
                  Accept, Refuse, Settle, page
    <2>. QED  BY <1>3, <2>2, <2>3, <2>4 DEF Moves
  <1>4. UNCHANGED vars => form' \in Forms
    BY DEF vars, page
  <1>. QED  BY <1>1, <1>3, <1>4, NextCases

InfoFits == info \in Infos /\ info.userNonce <= chain.nonce

LEMMA InfoStep ==
    ASSUME Typed, InfoFits, Grown, [Next]_vars
    PROVE  InfoFits'
  <1>0. /\ chain.nonce \in Nat /\ chain'.nonce \in Nat
        /\ info \in Infos /\ info.userNonce \in Nat
        /\ info.userNonce <= chain.nonce /\ chain.nonce <= chain'.nonce
    BY TypeStep DEF Typed, InfoFits, Infos, Grown
  <1>1. \/ info' = NoInfo \/ info' = info
        \/ info' = [at |-> "loaded", userNonce |-> chain.nonce]
        \/ \E s \in {"domain", "failed"} : info' = [info EXCEPT !.at = s]
    <2>1. CASE Shows
      BY <2>1 DEF Shows, SwitchTab, DomainRead, UserNonceRead, InfoFails,
                  StartFetch, ReadPoints, Arrive, FetchFails, NoDomain, Reset, page
    <2>2. ASSUME NEW r \in Request, Moves(r)  PROVE info' = info
      BY <2>2 DEF Moves, handleGrantPoints, handleConsumePoints, depositPoints,
                  withdrawPoints, Send, ReadAllowance, ReadTokenNonce, SignPermit,
                  ReadNonce, Sign, GiveUp, Accept, Refuse, Answer, Fail, Settle, page
    <2>3. UNCHANGED vars => info' = info
      BY DEF vars, page
    <2>. QED  BY <2>1, <2>2, <2>3, NextCases
  <1>2. CASE info' = NoInfo
    BY <1>0, <1>2 DEF NoInfo, InfoFits, Infos
  <1>3. CASE info' = info
    BY <1>0, <1>3 DEF InfoFits
  <1>4. CASE info' = [at |-> "loaded", userNonce |-> chain.nonce]
    BY <1>0, <1>4 DEF InfoFits, Infos
  <1>5. ASSUME NEW s \in {"domain", "failed"}, info' = [info EXCEPT !.at = s]
        PROVE  InfoFits'
    BY <1>0, <1>5 DEF InfoFits, Infos
  <1>. QED  BY <1>1, <1>2, <1>3, <1>4, <1>5

\* What a query holds was a version of the points when it was read.
Known(e, n) == e.data <= n /\ e.got <= n

QueriesFit == \A q \in Queries : Known(query[q], version) /\ seen[q] <= version

LEMMA FetchKnown ==
    ASSUME Typed, NEW q \in Queries, Known(query[q], version)
    PROVE  /\ Known(Fetched(query[q]), version)
           /\ Known(OnMount(query[q]), version)
           /\ Known(Invalidated(query[q]), version)
  <1>1. /\ query[q] \in [data : Nat, got : Nat, unsure : BOOLEAN,
                         fetch : {"idle", "asked", "read"}]
        /\ version \in Nat
    BY DEF Typed
  <1>. QED  BY <1>1 DEF Known, Fetched, OnMount, Invalidated

LEMMA QueriesStep ==
    ASSUME Typed, QueriesFit, Grown, [Next]_vars
    PROVE  QueriesFit'
  <1>0. /\ Typed' /\ version \in Nat /\ version' \in Nat /\ version <= version'
        /\ \A q \in Queries :
              /\ query[q] \in [data : Nat, got : Nat, unsure : BOOLEAN,
                               fetch : {"idle", "asked", "read"}]
              /\ query'[q] \in [data : Nat, got : Nat, unsure : BOOLEAN,
                                fetch : {"idle", "asked", "read"}]
              /\ seen[q] \in Nat /\ seen'[q] \in Nat
    BY TypeStep DEF Typed, Grown
  <1>. SUFFICES ASSUME NEW q \in Queries
                PROVE  Known(query'[q], version) /\ seen'[q] <= version
    BY <1>0 DEF QueriesFit, Known
  <1>1. Known(query[q], version) /\ seen[q] <= version
    BY DEF QueriesFit
  <1>2. CASE Shows
    <2>1. seen' = seen
      BY <1>2 DEF Shows, SwitchTab, DomainRead, UserNonceRead, InfoFails,
                  StartFetch, ReadPoints, Arrive, FetchFails, NoDomain, Reset,
                  cached
    <2>2. ASSUME NEW p \in Queries,
                 StartFetch(p) \/ ReadPoints(p) \/ Arrive(p) \/ FetchFails(p)
          PROVE  Known(query'[q], version)
      <3>1. CASE p # q
        BY <1>1, <2>2, <3>1 DEF StartFetch, ReadPoints, Arrive, FetchFails, Typed
      <3>2. CASE p = q /\ StartFetch(p)
        BY <1>1, <3>2, FetchKnown DEF StartFetch, Typed
      <3>3. CASE p = q /\ ReadPoints(p)
        <4>1. query'[q] = [query[q] EXCEPT !.fetch = "read", !.got = version]
          BY <3>3 DEF ReadPoints, Typed
        <4>. QED  BY <1>0, <1>1, <4>1 DEF Known
      <3>4. CASE p = q /\ Arrive(p)
        <4>1. query'[q] = [query[q] EXCEPT !.fetch = "idle", !.got = 0,
                                           !.data = query[q].got]
          BY <3>4 DEF Arrive, Typed
        <4>. QED  BY <1>0, <1>1, <4>1 DEF Known
      <3>5. CASE p = q /\ FetchFails(p)
        <4>1. query'[q] = [query[q] EXCEPT !.fetch = "idle", !.got = 0,
                                           !.unsure = TRUE]
          BY <3>5 DEF FetchFails, Typed
        <4>. QED  BY <1>0, <1>1, <4>1 DEF Known
      <3>. QED  BY <2>2, <3>1, <3>2, <3>3, <3>4, <3>5
    <2>3. ASSUME NEW t \in {"other", "point", "swap"}, SwitchTab(t)
          PROVE  Known(query'[q], version)
      BY <1>1, <2>3, FetchKnown DEF SwitchTab
    <2>4. CASE DomainRead \/ UserNonceRead \/ InfoFails \/ NoDomain
                 \/ \E k \in Kinds : Reset(k)
      BY <1>1, <2>4 DEF DomainRead, UserNonceRead, InfoFails, NoDomain, Reset, cached
    <2>. QED  BY <1>1, <1>2, <2>1, <2>2, <2>3, <2>4 DEF Shows
  <1>3. ASSUME NEW r \in Request, Answer(r)
        PROVE  Known(query'[q], version) /\ seen'[q] <= version
    BY <1>0, <1>1, <1>3, FetchKnown DEF Answer
  <1>4. ASSUME NEW r \in Request, Moves(r), ~Answer(r)
        PROVE  query' = query /\ seen' = seen
    BY <1>4 DEF Moves, handleGrantPoints, handleConsumePoints, depositPoints,
                withdrawPoints, Send, ReadAllowance, ReadTokenNonce, SignPermit,
                ReadNonce, Sign, GiveUp, Accept, Refuse, Fail, Settle, cached
  <1>5. UNCHANGED vars => query' = query /\ seen' = seen
    BY DEF vars, cached
  <1>. QED  BY <1>1, <1>2, <1>3, <1>4, <1>5, NextCases

Signed(e, c) == e.nonce <= c.nonce /\ e.permit <= c.token + 1

RequestsFit == \A r \in Request : Signed(req[r], chain)

LEMMA RequestsStep ==
    ASSUME Typed, RequestsFit, Grown, [Next]_vars
    PROVE  RequestsFit'
  <1>0. /\ Typed'
        /\ chain.nonce \in Nat /\ chain.token \in Nat
        /\ chain'.nonce \in Nat /\ chain'.token \in Nat
        /\ chain.nonce <= chain'.nonce /\ chain.token <= chain'.token
    BY TypeStep DEF Typed, Grown
  <1>. SUFFICES ASSUME NEW s \in Request  PROVE Signed(req'[s], chain')
    BY DEF RequestsFit
  <1>1. req[s] \in ReqType /\ Signed(req[s], chain)
    BY DEF Typed, RequestsFit
  <1>2. ASSUME req'[s].nonce = req[s].nonce, req'[s].permit = req[s].permit
        PROVE  Signed(req'[s], chain')
    BY <1>0, <1>1, <1>2 DEF Signed, ReqType
  <1>3. CASE Shows
    <2>1. ASSUME NEW t \in {"other", "point", "swap"}, SwitchTab(t)
          PROVE  req'[s] = [req[s] EXCEPT !.shown = FALSE]
      BY <2>1 DEF SwitchTab
    <2>2. req'[s] = req[s] \/ req'[s] = [req[s] EXCEPT !.shown = FALSE]
      BY <1>3, <2>1 DEF Shows, DomainRead, UserNonceRead, InfoFails, StartFetch,
                        ReadPoints, Arrive, FetchFails, NoDomain, Reset
    <2>. QED  BY <1>1, <1>2, <2>2 DEF ReqType
  <1>4. ASSUME NEW r \in Request, Moves(r)  PROVE Signed(req'[s], chain')
    <2>1. CASE Settle(r)
      <3>1. \/ req'[s] = [req[s] EXCEPT !.at = "paid"]
            \/ req'[s] = [req[s] EXCEPT !.at = "failed"]
            \/ req'[s] = [req[s] EXCEPT !.overtaken = TRUE]
            \/ req'[s] = req[s]
        BY <2>1 DEF Settle, Pay, Bounce, Typed
      <3>. QED  BY <1>1, <1>2, <3>1 DEF ReqType
    <2>2. ASSUME ~Settle(r)
          PROVE  \E e : req' = [req EXCEPT ![r] = e]
      BY <1>4, <2>2 DEF Moves, handleGrantPoints, handleConsumePoints,
                  depositPoints, withdrawPoints, Send, ReadAllowance,
                  ReadTokenNonce, SignPermit, ReadNonce, Sign, GiveUp, Accept,
                  Refuse, Answer, Fail
    <2>3. CASE ~Settle(r) /\ s # r
      BY <1>2, <2>2, <2>3 DEF Typed
    <2>4. CASE ~Settle(r) /\ s = r
      <3>1. ASSUME NEW k, NEW at, Send(k, r, at)
            PROVE  req'[r].nonce = 0 /\ req'[r].permit = 0
        BY <3>1 DEF Send, NoRequest, Typed
      <3>2. CASE handleGrantPoints(r) \/ handleConsumePoints(r)
                   \/ depositPoints(r) \/ withdrawPoints(r)
        <4>1. req'[r].nonce = 0 /\ req'[r].permit = 0
          BY <3>1, <3>2 DEF handleGrantPoints, handleConsumePoints,
                            depositPoints, withdrawPoints
        <4>. QED  BY <1>0, <2>4, <4>1 DEF Signed
      <3>3. CASE ReadTokenNonce(r)
        <4>1. /\ req'[r] = [req[r] EXCEPT !.at = "permit", !.permit = chain.token + 1]
              /\ chain' = chain
          BY <3>3 DEF ReadTokenNonce, Typed
        <4>. QED  BY <1>0, <1>1, <2>4, <4>1 DEF Signed, ReqType
      <3>4. CASE ReadNonce(r)
        <4>1. /\ req'[r] = [req[r] EXCEPT !.at = "sign", !.nonce = chain.nonce]
              /\ chain' = chain
          BY <3>4 DEF ReadNonce, Typed
        <4>. QED  BY <1>0, <1>1, <2>4, <4>1 DEF Signed, ReqType
      <3>5. CASE ReadAllowance(r) \/ SignPermit(r) \/ Sign(r) \/ GiveUp(r)
                   \/ Accept(r) \/ Refuse(r) \/ Answer(r) \/ Fail(r)
        <4>0. req[r] \in ReqType
          BY DEF Typed
        <4>1. CASE ReadAllowance(r)
          <5>1. req'[r] = [req[r] EXCEPT
                   !.at = IF chain.allowance = "none" THEN "token" ELSE "nonce",
                   !.short = chain.allowance = "short"]
            BY <4>1 DEF ReadAllowance, Typed
          <5>. QED  BY <1>2, <2>4, <4>0, <5>1 DEF ReqType
        <4>2. CASE SignPermit(r) \/ Sign(r) \/ Accept(r) \/ Refuse(r)
          <5>1. \E at : req'[r] = [req[r] EXCEPT !.at = at]
            BY <4>2 DEF SignPermit, Sign, Accept, Refuse, Typed
          <5>. QED  BY <1>2, <2>4, <4>0, <5>1 DEF ReqType
        <4>3. CASE GiveUp(r)
          <5>1. req'[r] = [req[r] EXCEPT !.at = "dropped", !.waits = FALSE]
            BY <4>3 DEF GiveUp, Typed
          <5>. QED  BY <1>2, <2>4, <4>0, <5>1 DEF ReqType
        <4>4. CASE Answer(r) \/ Fail(r)
          <5>1. req'[r] = [req[r] EXCEPT !.waits = FALSE]
            BY <4>4 DEF Answer, Fail, Typed
          <5>. QED  BY <1>2, <2>4, <4>0, <5>1 DEF ReqType
        <4>. QED  BY <3>5, <4>1, <4>2, <4>3, <4>4
      <3>. QED  BY <1>4, <2>4, <3>2, <3>3, <3>4, <3>5 DEF Moves
    <2>. QED  BY <2>1, <2>3, <2>4
  <1>5. UNCHANGED vars => Signed(req'[s], chain')
    BY <1>1 DEF vars
  <1>. QED  BY <1>3, <1>4, <1>5, NextCases

Bounded == form \in Forms /\ InfoFits /\ QueriesFit /\ RequestsFit /\ Counts

LEMMA BoundedStep == Typed /\ Bounded /\ [Next]_vars => Bounded'
  <1>. SUFFICES ASSUME Typed, Bounded, [Next]_vars  PROVE Bounded'
    OBVIOUS
  <1>1. Counts' /\ Grown
    BY CountsStep DEF Bounded, Grown
  <1>. QED
    BY <1>1, FormsStep, InfoStep, QueriesStep, RequestsStep DEF Bounded

LEMMA BoundedInit == Init => Bounded
  <1>. SUFFICES ASSUME Init  PROVE Bounded
    OBVIOUS
  <1>1. Changed(req) = {} /\ Ended(req) = {}
    BY DEF Init, NoRequest, Changed, Ended, Counted, OnChain
  <1>2. Counts
    BY <1>1, FS_EmptySet DEF Init, Counts
  <1>3. form \in Forms
    BY DEF Init, Forms
  <1>4. InfoFits
    BY DEF Init, InfoFits, Infos, NoInfo
  <1>5. QueriesFit
    BY DEF Init, QueriesFit, Known, NoQuery
  <1>6. RequestsFit
    BY DEF Init, RequestsFit, Signed, NoRequest
  <1>. QED  BY <1>2, <1>3, <1>4, <1>5, <1>6 DEF Bounded

LEMMA WithinBounds == Typed /\ Bounded => TypeOK
  <1>. SUFFICES ASSUME Typed, Bounded  PROVE TypeOK
    OBVIOUS
  <1>1. /\ Cardinality(Changed(req)) \in Nat /\ Cardinality(Changed(req)) <= MaxClicks
        /\ Cardinality(Ended(req)) \in Nat /\ Cardinality(Ended(req)) <= MaxClicks
    <2>1. Changed(req) \in SUBSET Request /\ Ended(req) \in SUBSET Request
      BY DEF Changed, Ended
    <2>. QED  BY <2>1, Sizes
  <1>2. /\ MaxClicks \in Nat /\ version \in Nat
        /\ chain.nonce \in Nat /\ chain.token \in Nat
    BY ConstantsType DEF Typed
  <1>3. /\ version <= MaxClicks + 1
        /\ chain.nonce <= MaxClicks /\ chain.token <= MaxClicks
    BY <1>1, <1>2 DEF Bounded, Counts
  <1>4. version \in Version
    BY <1>2, <1>3 DEF Version
  <1>5. chain \in [nonce : Nonce, token : Nonce,
                   allowance : {"none", "short", "enough"}]
    BY <1>2, <1>3 DEF Nonce, Typed
  <1>6. info \in [at : {"asked", "domain", "loaded", "failed"}, userNonce : Nonce]
    BY <1>2, <1>3 DEF Nonce, Bounded, InfoFits, Infos
  <1>7. query \in [Queries -> [data : Version, got : Version, unsure : BOOLEAN,
                               fetch : {"idle", "asked", "read"}]]
    <2>1. ASSUME NEW q \in Queries
          PROVE  query[q] \in [data : Version, got : Version, unsure : BOOLEAN,
                               fetch : {"idle", "asked", "read"}]
      <3>1. query[q] \in [data : Nat, got : Nat, unsure : BOOLEAN,
                          fetch : {"idle", "asked", "read"}]
        BY DEF Typed
      <3>2. query[q].data <= version /\ query[q].got <= version
        BY DEF Bounded, QueriesFit, Known
      <3>3. query[q].data \in Version /\ query[q].got \in Version
        BY <1>2, <1>3, <3>1, <3>2 DEF Version
      <3>. QED  BY <3>1, <3>3
    <2>. QED  BY <2>1 DEF Typed
  <1>8. seen \in [Queries -> Version]
    <2>1. ASSUME NEW q \in Queries  PROVE seen[q] \in Version
      BY <1>2, <1>3 DEF Version, Bounded, QueriesFit, Typed
    <2>. QED  BY <2>1 DEF Typed
  <1>9. req \in [Request -> RequestState]
    <2>1. ASSUME NEW r \in Request  PROVE req[r] \in RequestState
      <3>1. req[r] \in ReqType
        BY DEF Typed
      <3>2. req[r].nonce <= chain.nonce /\ req[r].permit <= chain.token + 1
        BY DEF Bounded, RequestsFit, Signed
      <3>3. req[r].nonce \in Nonce /\ req[r].permit \in 0..(MaxClicks + 1)
        BY <1>2, <1>3, <3>1, <3>2 DEF Nonce, ReqType
      <3>. QED  BY <3>1, <3>3 DEF ReqType, RequestState
    <2>. QED  BY <2>1 DEF Typed
  <1>. QED
    BY <1>4, <1>5, <1>6, <1>7, <1>8, <1>9 DEF TypeOK, Typed, Bounded, Forms

\* Every variable keeps its type.  The bounds are those of the clicks: a
\* request changes the points at most once and takes each nonce of the wallet
\* further by at most one, and a page knows no version and signs no nonce
\* that was not there when it read it.
THEOREM FormTypes == Spec => []TypeOK
  <1>1. Typed /\ Bounded /\ [Next]_vars => Typed' /\ Bounded'
    BY TypeStep, BoundedStep
  <1>. QED  BY <1>1, InitType, BoundedInit, WithinBounds, PTL DEF Spec

=============================================================================
