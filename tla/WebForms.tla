------------------------------ MODULE WebForms ------------------------------
(***************************************************************************)
(* The forms of one page, for one user with one wallet: grant and consume  *)
(* on the point tab (usePoint), deposit and withdraw on the swap tab       *)
(* (useSwap), and the queries of points and histories that both tabs show. *)
(*                                                                         *)
(* A request goes on when its tab is left.  The query cache outlives the   *)
(* tabs; the forms do not.  Amounts are left out: a withdrawal is small    *)
(* against an allowance that is "enough", and a permit grants enough.  The *)
(* chain takes withdrawals in time; SwapPipeline has the deadlines, and    *)
(* what the scheduler refuses before the chain sees it.                    *)
(* Variants named "Wrong..." are mistakes the properties are checked to    *)
(* find; they are not part of the specification.                           *)
(***************************************************************************)
EXTENDS Naturals, FiniteSets

CONSTANTS
    Kinds,      \* the forms in use
    Queries,    \* the queries in use
    MaxClicks,  \* bound: requests sent
    Faults      \* the failures the environment may produce

PointTab  == {"grant", "consume"}
SwapTab   == {"deposit", "withdraw"}
AllFaults == {"timeout", "rpc", "fetch"}

ASSUME WebFormsAssumption ==
    /\ Kinds \subseteq PointTab \cup SwapTab
    /\ Queries \subseteq {"point", "grants", "uses"} /\ "point" \in Queries
    /\ MaxClicks \in Nat
    /\ Faults \subseteq AllFaults

Request == 1..MaxClicks

\* The versions of the user's points: 0 is nothing, 1 what the page found.
Version == 0..(MaxClicks + 1)
Nonce   == 0..MaxClicks

(***************************************************************************)
(* A request: its form, whether that form is still mounted and the page    *)
(* waits for the answer, how far it is, the nonces it signed (token + 1;   *)
(* 0 without a permit), and two observations: the allowance was positive   *)
(* but short when it was read, and another withdrawal was paid since the   *)
(* click.                                                                  *)
(***************************************************************************)
Stage == {"unsent", "allowance", "token", "permit", "nonce", "sign",
          "dropped", "posted", "refused", "done", "paid", "failed"}

RequestState ==
    [kind : Kinds \cup {"none"}, shown : BOOLEAN, waits : BOOLEAN, at : Stage,
     nonce : Nonce, permit : 0..(MaxClicks + 1),
     short : BOOLEAN, overtaken : BOOLEAN]

NoRequest == [kind |-> "none", shown |-> FALSE, waits |-> FALSE, at |-> "unsent",
              nonce |-> 0, permit |-> 0, short |-> FALSE, overtaken |-> FALSE]

\* A query: the version it shows, its fetch and the version that one read.
\* unsure: the last fetch failed, or an invalidation hit the first load.
NoQuery == [data |-> 0, fetch |-> "idle", got |-> 0, unsure |-> FALSE]

VARIABLES
    tab,        \* the open tab
    form,       \* the status of each form
    info,       \* eip712Domain and userNonce of the swap tab
    query,      \* the query cache
    seen,       \* per query, the version of the last success shown
    req,        \* the requests
    version,    \* changes of the user's points
    chain       \* nonces of the wallet, and what PointManager may spend

page   == <<tab, form, info>>
cached == <<query, seen>>
vars   == <<page, cached, req, version, chain>>

NoInfo == [at |-> "asked", userNonce |-> 0]

Init ==
    /\ tab = "other"
    /\ form = [k \in Kinds |-> "idle"]
    /\ info = NoInfo
    /\ query = [q \in Queries |-> NoQuery]
    /\ seen = [q \in Queries |-> 0]
    /\ req = [r \in Request |-> NoRequest]
    /\ version = 1
    /\ chain \in [nonce : {0}, token : {0}, allowance : {"none", "short", "enough"}]

-----------------------------------------------------------------------------
(***************************************************************************)
(* The query cache.                                                        *)
(***************************************************************************)
Mounted == tab # "other"

Fetched(e) == [e EXCEPT !.fetch = "asked", !.got = 0, !.unsure = FALSE]

\* A fetch on mount is served by one that is still under way.
OnMount(e) == IF e.fetch = "idle" THEN Fetched(e) ELSE e

\* A mistake: an invalidation is served by the fetch under way.
WrongInvalidated(e) == OnMount(e)

\* A mounted query with data gives up its fetch for a new one; without
\* data the first load goes on.  A query nobody shows is not fetched.
Invalidated(e) ==
    IF ~Mounted THEN e
    ELSE IF e.fetch # "idle" /\ e.data = 0 THEN [e EXCEPT !.unsure = TRUE]
    ELSE Fetched(e)

\* A mistake: nothing is fetched again once there is data.
WrongStartFetch(q) ==
    /\ Mounted /\ query[q].fetch = "idle" /\ query[q].data = 0
    /\ query' = [query EXCEPT ![q] = Fetched(@)]
    /\ UNCHANGED <<page, seen, req, version, chain>>

\* The poll of the balance, and the window coming into focus.
StartFetch(q) ==
    /\ Mounted /\ query[q].fetch = "idle"
    /\ query' = [query EXCEPT ![q] = Fetched(@)]
    /\ UNCHANGED <<page, seen, req, version, chain>>

\* The server reads for the query.
ReadPoints(q) ==
    /\ query[q].fetch = "asked"
    /\ query' = [query EXCEPT ![q].fetch = "read", ![q].got = version]
    /\ UNCHANGED <<page, seen, req, version, chain>>

Arrive(q) ==
    /\ query[q].fetch = "read"
    /\ query' = [query EXCEPT ![q].fetch = "idle", ![q].got = 0,
                              ![q].data = query[q].got]
    /\ UNCHANGED <<page, seen, req, version, chain>>

FetchFails(q) ==
    /\ "fetch" \in Faults
    /\ query[q].fetch # "idle"
    /\ query' = [query EXCEPT ![q].fetch = "idle", ![q].got = 0,
                              ![q].unsure = TRUE]
    /\ UNCHANGED <<page, seen, req, version, chain>>

-----------------------------------------------------------------------------
(***************************************************************************)
(* The tabs and the forms.                                                 *)
(***************************************************************************)
TabOf(k) == IF k \in PointTab THEN "point" ELSE "swap"

\* The other panel is mounted: its forms are new, and so is its domain.
SwitchTab(t) ==
    /\ t # tab
    /\ tab' = t
    /\ form' = [k \in Kinds |-> "idle"]
    /\ info' = NoInfo
    /\ req' = [r \in Request |-> [req[r] EXCEPT !.shown = FALSE]]
    /\ query' = IF t = "other" THEN query
                ELSE [q \in Queries |-> OnMount(query[q])]
    /\ UNCHANGED <<seen, version, chain>>

\* fetchContractInfo runs once per mount of the swap tab.
DomainRead ==
    /\ tab = "swap" /\ info.at = "asked"
    /\ info' = [info EXCEPT !.at = "domain"]
    /\ UNCHANGED <<tab, form, cached, req, version, chain>>

UserNonceRead ==
    /\ tab = "swap" /\ info.at = "domain"
    /\ info' = [at |-> "loaded", userNonce |-> chain.nonce]
    /\ UNCHANGED <<tab, form, cached, req, version, chain>>

InfoFails ==
    /\ "rpc" \in Faults
    /\ tab = "swap" /\ info.at = "asked"
    /\ info' = [info EXCEPT !.at = "failed"]
    /\ UNCHANGED <<tab, form, cached, req, version, chain>>

hasDomain == info.at \in {"domain", "loaded"}

\* Whether the form's button is enabled, enough points taken for granted.
isFormValid(k) ==
    /\ form[k] # "loading"
    /\ k \in {"consume", "deposit"} => query["point"].data # 0

Unused(r) == req[r] = NoRequest /\ \A s \in Request : s < r => req[s] # NoRequest

\* The click on a form's button: the form waits for request r.
Send(k, r, at) ==
    /\ tab = TabOf(k) /\ isFormValid(k)
    /\ Unused(r)
    /\ form' = [form EXCEPT ![k] = "loading"]
    /\ req' = [req EXCEPT ![r] = [NoRequest EXCEPT
          !.kind = k, !.shown = TRUE, !.waits = TRUE, !.at = at]]
    /\ UNCHANGED <<tab, info, cached, version, chain>>

handleGrantPoints(r) == "grant" \in Kinds /\ Send("grant", r, "posted")

handleConsumePoints(r) == "consume" \in Kinds /\ Send("consume", r, "posted")

depositPoints(r) == "deposit" \in Kinds /\ Send("deposit", r, "posted")

withdrawPoints(r) ==
    "withdraw" \in Kinds /\ hasDomain /\ Send("withdraw", r, "allowance")

\* Without the domain a withdrawal ends at once.
NoDomain ==
    /\ "withdraw" \in Kinds
    /\ tab = "swap" /\ ~hasDomain
    /\ form["withdraw"] \notin {"loading", "error"}
    /\ form' = [form EXCEPT !["withdraw"] = "error"]
    /\ UNCHANGED <<tab, info, cached, req, version, chain>>

Shown(r, s) == IF req[r].shown THEN [form EXCEPT ![req[r].kind] = s] ELSE form

\* The point tab clears a success after three seconds.
Reset(k) ==
    /\ k \in PointTab /\ form[k] = "success"
    /\ form' = [form EXCEPT ![k] = "idle"]
    /\ UNCHANGED <<tab, info, cached, req, version, chain>>

-----------------------------------------------------------------------------
(***************************************************************************)
(* withdrawPoints up to its POST.  The allowance in wei is compared with   *)
(* whole tokens: a short one passes unless it is next to nothing.          *)
(***************************************************************************)
ReadAllowance(r) ==
    /\ req[r].at = "allowance"
    /\ req' = [req EXCEPT
          ![r].at = IF chain.allowance = "none" THEN "token" ELSE "nonce",
          ![r].short = chain.allowance = "short"]
    /\ UNCHANGED <<page, cached, version, chain>>

ReadTokenNonce(r) ==
    /\ req[r].at = "token"
    /\ req' = [req EXCEPT ![r].at = "permit", ![r].permit = chain.token + 1]
    /\ UNCHANGED <<page, cached, version, chain>>

SignPermit(r) ==
    /\ req[r].at = "permit"
    /\ req' = [req EXCEPT ![r].at = "nonce"]
    /\ UNCHANGED <<page, cached, version, chain>>

\* A mistake: the nonce of the last load of the domain is signed.
WrongReadNonce(r) ==
    /\ req[r].at = "nonce"
    /\ req' = [req EXCEPT ![r].at = "sign", ![r].nonce = info.userNonce]
    /\ UNCHANGED <<page, cached, version, chain>>

ReadNonce(r) ==
    /\ req[r].at = "nonce"
    /\ req' = [req EXCEPT ![r].at = "sign", ![r].nonce = chain.nonce]
    /\ UNCHANGED <<page, cached, version, chain>>

Sign(r) ==
    /\ req[r].at = "sign"
    /\ req' = [req EXCEPT ![r].at = "posted"]
    /\ UNCHANGED <<page, cached, version, chain>>

\* A mistake: a failed read is not caught.
WrongGiveUp(r) ==
    /\ \/ req[r].at \in {"permit", "sign"}
       \/ "rpc" \in Faults /\ req[r].at \in {"allowance", "token", "nonce"}
    /\ req' = [req EXCEPT ![r].at = "dropped", ![r].waits = FALSE]
    /\ form' = IF req[r].at = "nonce" THEN form ELSE Shown(r, "error")
    /\ UNCHANGED <<tab, info, cached, version, chain>>

\* The wallet rejects a signature, or a read of the chain fails.
GiveUp(r) ==
    /\ \/ req[r].at \in {"permit", "sign"}
       \/ "rpc" \in Faults /\ req[r].at \in {"allowance", "token", "nonce"}
    /\ req' = [req EXCEPT ![r].at = "dropped", ![r].waits = FALSE]
    /\ form' = Shown(r, "error")
    /\ UNCHANGED <<tab, info, cached, version, chain>>

-----------------------------------------------------------------------------
(***************************************************************************)
(* The routes of the frontend, the server and the chain.                   *)
(***************************************************************************)
\* A mistake: a request may be handled again.
WrongAccept(r) ==
    /\ req[r].at = "posted"
    /\ \E at \in {"posted", "done"} : req' = [req EXCEPT ![r].at = at]
    /\ version' = IF req[r].kind = "withdraw" THEN version ELSE version + 1
    /\ UNCHANGED <<page, cached, chain>>

\* The server changes the points, or queues the withdrawal.
Accept(r) ==
    /\ req[r].at = "posted"
    /\ req' = [req EXCEPT ![r].at = "done"]
    /\ version' = IF req[r].kind = "withdraw" THEN version ELSE version + 1
    /\ UNCHANGED <<page, cached, chain>>

\* A route or the server refuses, or the server fails.
Refuse(r) ==
    /\ req[r].at = "posted"
    /\ req' = [req EXCEPT ![r].at = "refused"]
    /\ UNCHANGED <<page, cached, version, chain>>

\* The queries a success names.
Named(k) == CASE k = "grant" -> {"point", "grants"}
              [] k = "consume" -> {"point", "uses"}
              [] OTHER -> {}

Accepted(r) == req[r].at \in {"done", "paid", "failed"}

\* The page learns of the success.  Swaps invalidate no query.
Answer(r) ==
    LET named == Queries \cap Named(req[r].kind)
    IN  /\ req[r].waits /\ Accepted(r)
        /\ req' = [req EXCEPT ![r].waits = FALSE]
        /\ form' = Shown(r, "success")
        /\ query' = [q \in Queries |->
               IF q \in named THEN Invalidated(query[q]) ELSE query[q]]
        /\ seen' = [q \in Queries |->
               IF q \in named /\ req[r].shown THEN version ELSE seen[q]]
        /\ UNCHANGED <<tab, info, version, chain>>

\* The refusal arrives, or the route gave up after ten seconds.
Fail(r) ==
    /\ req[r].waits
    /\ \/ req[r].at = "refused"
       \/ "timeout" \in Faults /\ (req[r].at = "posted" \/ Accepted(r))
    /\ req' = [req EXCEPT ![r].waits = FALSE]
    /\ form' = Shown(r, "error")
    /\ UNCHANGED <<tab, info, cached, version, chain>>

Open(r) == req[r].at \notin {"unsent", "dropped", "refused", "paid", "failed"}

Permitted(r) == req[r].permit = chain.token + 1

Token(r) == IF Permitted(r) THEN chain.token + 1 ELSE chain.token

Payable(r) ==
    /\ Permitted(r) \/ chain.allowance = "enough"
    /\ req[r].nonce = chain.nonce

\* It is paid, and overtakes the others that are on their way.
Pay(r) ==
    /\ Payable(r)
    /\ req' = [s \in Request |->
           IF s = r THEN [req[s] EXCEPT !.at = "paid"]
           ELSE IF Open(s) THEN [req[s] EXCEPT !.overtaken = TRUE]
           ELSE req[s]]
    /\ \E left \in {"none", "short", "enough"} :
          /\ Permitted(r) => left = "enough"
          /\ chain' = [nonce |-> chain.nonce + 1, token |-> Token(r),
                       allowance |-> left]
    /\ version' = version + 1

Bounce(r) ==
    /\ ~Payable(r)
    /\ req' = [req EXCEPT ![r].at = "failed"]
    /\ chain' = [nonce |-> chain.nonce, token |-> Token(r),
                 allowance |-> IF Permitted(r) THEN "enough" ELSE chain.allowance]
    /\ UNCHANGED version

\* A queued withdrawal reaches the chain, its permit first.
Settle(r) ==
    /\ req[r].kind = "withdraw" /\ req[r].at = "done"
    /\ Pay(r) \/ Bounce(r)
    /\ UNCHANGED <<page, cached>>

-----------------------------------------------------------------------------
Next ==
    \/ \E t \in {"other", "point", "swap"} : SwitchTab(t)
    \/ DomainRead \/ UserNonceRead \/ InfoFails
    \/ \E q \in Queries :
          StartFetch(q) \/ ReadPoints(q) \/ Arrive(q) \/ FetchFails(q)
    \/ NoDomain
    \/ \E k \in Kinds : Reset(k)
    \/ \E r \in Request :
          \/ handleGrantPoints(r) \/ handleConsumePoints(r)
          \/ depositPoints(r) \/ withdrawPoints(r)
          \/ ReadAllowance(r) \/ ReadTokenNonce(r) \/ SignPermit(r)
          \/ ReadNonce(r) \/ Sign(r) \/ GiveUp(r)
          \/ Accept(r) \/ Refuse(r) \/ Answer(r) \/ Fail(r) \/ Settle(r)

(***************************************************************************)
(* Every call of the page ends: reads of the chain and the routes have     *)
(* timeouts.  The balance is polled while a tab shows it, and a poll       *)
(* succeeds now and then.  Nobody has to answer a prompt of the wallet.    *)
(***************************************************************************)
Serve(r) ==
    \/ ReadAllowance(r) \/ ReadTokenNonce(r) \/ ReadNonce(r)
    \/ Accept(r) \/ Refuse(r) \/ Answer(r) \/ Fail(r)

Fairness ==
    /\ \A r \in Request : WF_vars(Serve(r))
    /\ WF_vars(StartFetch("point"))
    /\ SF_vars(ReadPoints("point")) /\ SF_vars(Arrive("point"))

Spec == Init /\ [][Next]_vars /\ Fairness

-----------------------------------------------------------------------------
(***************************************************************************)
(* The properties.                                                         *)
(***************************************************************************)
\* Every variable has its type.
TypeOK ==
    /\ tab \in {"other", "point", "swap"}
    /\ form \in [Kinds -> {"idle", "loading", "error", "success"}]
    /\ info \in [at : {"asked", "domain", "loaded", "failed"}, userNonce : Nonce]
    /\ query \in [Queries -> [data : Version, got : Version, unsure : BOOLEAN,
                              fetch : {"idle", "asked", "read"}]]
    /\ seen \in [Queries -> Version]
    /\ req \in [Request -> RequestState]
    /\ version \in Version
    /\ chain \in [nonce : Nonce, token : Nonce,
                  allowance : {"none", "short", "enough"}]

\* Once a success was shown, a query at rest shows no data from before it,
\* whatever fetch was under way when the answer came: onSuccess of usePoint
\* invalidates.  Excused while the query is unsure.
ReadYourWrites ==
    \A q \in Queries :
        query[q].fetch = "idle" /\ ~query[q].unsure => query[q].data >= seen[q]

\* The chain fails a withdrawal only if another one of the wallet was paid
\* since the click, or the allowance was short when useSwap read it.
FailedForAReason ==
    \A r \in Request :
        req[r].at = "failed" => req[r].overtaken \/ req[r].short

Prompted == \E r \in Request : req[r].shown /\ req[r].at \in {"permit", "sign"}

\* No form stays loading, unless a prompt of the wallet stays open: every
\* way out of depositPoints, withdrawPoints and the mutations resets it.
LoadingEnds == <>[]~Prompted => []<>(\A k \in Kinds : form[k] # "loading")

\* A page that keeps a tab with the balance open shows in the end every
\* change, those that no success announces included: useQuery polls.
CatchesUp == <>[]Mounted => []<>(query["point"].data = version)
=============================================================================
