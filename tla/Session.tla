------------------------------ MODULE Session ------------------------------
(***************************************************************************)
(* Who the browser acts for: the hook useUser keeps a user id in each      *)
(* panel and in the local storage and ties it to the connected wallet; the *)
(* server registers the wallet of a new user, declares it valid on the     *)
(* chain after its transaction, and lets a user swap once the event of     *)
(* that declaration came back.                                             *)
(*                                                                         *)
(* The panels of a page share the storage and the query cache.  A request  *)
(* outlives the panel that sent it, and the browser that gave it up.       *)
(***************************************************************************)
EXTENDS Naturals, FiniteSets

CONSTANTS
    Wallet,     \* the wallets a browser may connect
    Panels,     \* panels of a page that use the hook at the same time
    MaxUsers,   \* bound: user ids generated
    Faults,     \* the failures the environment may produce
    None        \* no wallet, no user data, no panel

AllFaults == {"timeout", "chain", "crash"}

ASSUME SessionAssumption ==
    /\ Panels \in Nat /\ MaxUsers \in Nat
    /\ Faults \subseteq AllFaults
    /\ None \notin Wallet \cup Nat

Panel   == 1..Panels
User    == 1..MaxUsers
Address == Wallet \cup {None}

\* What saveUserData writes, the balance left out.
UserData == [user : User, wallet : Address]
Storage  == UserData \cup {None}

\* One use of the hook: its user data and the status of its creation.
Hook == [data : Storage,
         status : {"gone", "idle", "loading", "error", "success"}]

\* The row of user: its status, "none" without a row.
UserStatus == {"none", "pending", "valid"}

\* A creation: the wallet it was sent with, the address its panel shows
\* now, the panel while it is mounted, and how far the server is.
Stage == {"unsent", "sent", "new", "known", "declare", "failed", "done"}
Creation == [wallet : Address, address : Address,
             panel : Panel \cup {None}, waits : BOOLEAN, at : Stage]

VARIABLES
    address,    \* the connected wallet
    storage,    \* user_data in the local storage
    hook,       \* the panels
    cache,      \* users whose point row the query cache holds
    create,     \* POST user-points of each user id
    points,     \* users with a row of user_point
    status,     \* user.status, "none" without a row
    valid,      \* wallets the contract holds valid
    swap,       \* the last accepted swap: the user debited, the wallet paid
    raced       \* users registered while the wallet's user was not visible

page   == <<address, storage, hook, cache>>
server == <<points, status, valid, swap, raced>>
vars   == <<page, create, server>>

Mounted(h) == hook[h].status # "gone"

(***************************************************************************)
(* The effects of one panel after a render with address w.  The first      *)
(* loads the storage if it is of that wallet and clears it otherwise; the  *)
(* second saves what the query of the rendered user data holds under the   *)
(* address shown.  A switch of the wallet in an open page therefore drops  *)
(* the stored session and then writes the old user again, under the new    *)
(* wallet, although the first effect is there to clear it.                 *)
(*                                                                         *)
(* Variants named "Wrong..." are mistakes the properties are checked to    *)
(* find; they are not part of the specification.                           *)
(***************************************************************************)
getUserDataByWallet(s, w) ==
    IF s # None /\ s.wallet = w THEN s ELSE None

Queried(d) == d # None /\ d.user \in cache

LoadEffect(w, pg, h) ==
    LET found == IF w = None THEN None ELSE getUserDataByWallet(pg.storage, w)
    IN  [storage |-> IF w = None THEN pg.storage ELSE found,
         hook    |-> [pg.hook EXCEPT ![h].data = found]]

SaveEffect(w, u, pg, h) ==
    LET d == [user |-> u, wallet |-> w]
    IN  [storage |-> d, hook |-> [pg.hook EXCEPT ![h].data = d]]

Effects(w, pg, h) ==
    LET d == pg.hook[h].data
    IN  IF Queried(d) THEN SaveEffect(w, d.user, LoadEffect(w, pg, h), h)
        ELSE LoadEffect(w, pg, h)

\* The panels of a page run their effects one after the other.
Commit(w, hooks) ==
    LET after[h \in 0..Panels] ==
            IF h = 0 THEN [storage |-> storage, hook |-> hooks]
            ELSE IF hooks[h].status = "gone" THEN after[h - 1]
            ELSE Effects(w, after[h - 1], h)
    IN  after[Panels]

WrongNewHook == [data |-> None, status |-> None]

NewHook == [data |-> None, status |-> "idle"]
Gone    == [data |-> None, status |-> "gone"]

NoCreation == [wallet |-> None, address |-> None, panel |-> None,
               waits |-> FALSE, at |-> "unsent"]

Init ==
    /\ address = None
    /\ storage = None
    /\ hook = [h \in Panel |-> Gone]
    /\ cache = {}
    /\ create = [u \in User |-> NoCreation]
    /\ points = {}
    /\ status = [u \in User |-> "none"]
    /\ valid = {}
    /\ swap = None
    /\ raced = {}

-----------------------------------------------------------------------------
(***************************************************************************)
(* The page.                                                               *)
(***************************************************************************)
\* The wallet is connected, switched or disconnected.
Connect(w) ==
    LET pg == Commit(w, hook)
    IN  /\ w # address
        /\ address' = w
        /\ storage' = pg.storage
        /\ hook' = pg.hook
        /\ create' = [u \in User |->
               IF create[u].panel = None THEN create[u]
               ELSE [create[u] EXCEPT !.address = w]]
        /\ UNCHANGED <<cache, server>>

\* A tab is opened: a new use of the hook starts empty and runs its effects.
Mount(h) ==
    LET pg == Effects(address, [storage |-> storage,
                                hook |-> [hook EXCEPT ![h] = NewHook]], h)
    IN  /\ ~Mounted(h)
        /\ storage' = pg.storage
        /\ hook' = pg.hook
        /\ UNCHANGED <<address, cache, create, server>>

\* Another tab is chosen.  The request of the panel goes on.
Unmount(h) ==
    /\ Mounted(h)
    /\ hook' = [hook EXCEPT ![h] = Gone]
    /\ create' = [u \in User |->
           IF create[u].panel = h THEN [create[u] EXCEPT !.panel = None]
           ELSE create[u]]
    /\ UNCHANGED <<address, storage, cache, server>>

\* The page is loaded anew: only the storage remains, and wagmi connects the
\* wallet again or not.
Reload ==
    /\ \E h \in Panel : Mounted(h)
    /\ hook' = [h \in Panel |-> Gone]
    /\ cache' = {}
    /\ address' \in {address, None}
    /\ create' = [u \in User |-> [create[u] EXCEPT !.panel = None, !.waits = FALSE]]
    /\ UNCHANGED <<storage, server>>

\* The form is shown without user data and before a success; its button is
\* disabled while a creation of this panel runs.
FormShown(h)     == Mounted(h) /\ hook[h].data = None /\ hook[h].status # "success"
ButtonEnabled(h) == hook[h].status # "loading"

NextUser(u) == create[u].at = "unsent" /\ \A v \in 1..(u - 1) : create[v].at # "unsent"

createUserPoint(h) ==
    [wallet |-> address, address |-> address, panel |-> h,
     waits |-> TRUE, at |-> "sent"]

\* A mistake: the session is saved before the server answers.
WrongCreateUser(h, u) ==
    /\ FormShown(h) /\ ButtonEnabled(h)
    /\ address # None /\ NextUser(u)
    /\ hook' = [hook EXCEPT ![h] =
           [data |-> [user |-> u, wallet |-> address], status |-> "loading"]]
    /\ create' = [create EXCEPT ![u] = createUserPoint(h)]
    /\ UNCHANGED <<address, storage, cache, server>>

createUser(h, u) ==
    /\ FormShown(h) /\ ButtonEnabled(h)
    /\ address # None /\ NextUser(u)
    /\ hook' = [hook EXCEPT ![h].status = "loading"]
    /\ create' = [create EXCEPT ![u] = createUserPoint(h)]
    /\ UNCHANGED <<address, storage, cache, server>>

\* onSuccess saves the new user under the address shown by then, also when
\* the panel is gone.
Created(u) ==
    LET c == create[u]
        d == [user |-> u, wallet |-> c.address]
    IN  /\ c.waits /\ c.at = "done"
        /\ storage' = d
        /\ hook' = IF c.panel = None THEN hook
                   ELSE [hook EXCEPT ![c.panel] =
                            [data |-> d, status |-> "success"]]
        /\ create' = [create EXCEPT ![u].waits = FALSE]
        /\ UNCHANGED <<address, cache, server>>

\* The route of the frontend waits ten seconds for the server.
TimesOut == "timeout" \in Faults

\* The server failed, or the route gave up; the server goes on.
CreateFails(u) ==
    LET c == create[u]
    IN  /\ c.waits /\ (c.at = "failed" \/ TimesOut)
        /\ hook' = IF c.panel = None THEN hook
                   ELSE [hook EXCEPT ![c.panel].status = "error"]
        /\ create' = [create EXCEPT ![u].waits = FALSE]
        /\ UNCHANGED <<address, storage, cache, server>>

\* The rows of user_point that the server lists for a user id.
getUserPoints(u) == points \cap {u}

\* The query of a session's user is answered: its point row is saved again.
UserLoaded(u) ==
    LET named == {h \in Panel : hook[h].data # None /\ hook[h].data.user = u}
        d     == [user |-> u, wallet |-> address]
    IN  /\ named # {} /\ getUserPoints(u) # {}
        /\ cache' = cache \cup {u}
        /\ storage' = d
        /\ hook' = [h \in Panel |->
               IF h \in named THEN [hook[h] EXCEPT !.data = d] ELSE hook[h]]
        /\ UNCHANGED <<address, create, server>>

\* The button of UserInfoDisplay clears the storage and its own panel only.
clearUserData(h) ==
    /\ hook[h].data # None
    /\ storage' = None
    /\ hook' = [hook EXCEPT ![h] = NewHook]
    /\ UNCHANGED <<address, cache, create, server>>

-----------------------------------------------------------------------------
(***************************************************************************)
(* The server.                                                             *)
(***************************************************************************)
Registered(w) == {u \in User : status[u] # "none" /\ create[u].wallet = w}

WrongFindUser(u) ==
    /\ create[u].at = "sent"
    /\ create' = [create EXCEPT ![u].at = "new"]
    /\ UNCHANGED <<page, server>>

\* The search for the wallet's user, on a connection of its own.
FindUser(u) ==
    LET known == Registered(create[u].wallet) # {}
    IN  /\ create[u].at = "sent"
        /\ create' = [create EXCEPT ![u].at = IF known THEN "known" ELSE "new"]
        /\ UNCHANGED <<page, server>>

\* The transaction commits: a user for a new wallet, point rows always.
NewUser(u)  == [status EXCEPT ![u] = "pending"]
NewPoint(u) == points \cup {u}

Twins(u) ==
    {v \in User \ {u} : create[v].at = "new" /\ create[v].wallet = create[u].wallet}

\* A mistake: the wallet of a new user is not declared valid.
WrongCreateCommits(u) ==
    /\ create[u].at \in {"new", "known"}
    /\ status' = IF create[u].at = "new" THEN NewUser(u) ELSE status
    /\ create' = [create EXCEPT ![u].at = "done"]
    /\ points' = NewPoint(u)
    /\ UNCHANGED <<page, valid, swap, raced>>

CreateCommits(u) ==
    /\ \/ /\ create[u].at = "new"
          /\ status' = NewUser(u)
          /\ raced' = raced \cup Twins(u)
          /\ create' = [create EXCEPT ![u].at = "declare"]
       \/ /\ create[u].at = "known"
          /\ create' = [create EXCEPT ![u].at = "done"]
          /\ UNCHANGED <<status, raced>>
    /\ points' = NewPoint(u)
    /\ UNCHANGED <<page, valid, swap>>

\* After the commit: setValidUser is mined, and its receipt read.
SetValidUser(u) ==
    /\ create[u].at = "declare"
    /\ valid' = valid \cup {create[u].wallet}
    /\ create' = [create EXCEPT ![u].at = "done"]
    /\ UNCHANGED <<page, points, status, swap, raced>>

\* The call throws, or the process ends.  Nothing repeats it.
SetValidFails(u) ==
    /\ "chain" \in Faults \/ "crash" \in Faults
    /\ create[u].at = "declare"
    /\ \/ valid' = valid
       \/ valid' = valid \cup {create[u].wallet}
    /\ create' = [create EXCEPT ![u].at = "failed"]
    /\ UNCHANGED <<page, points, status, swap, raced>>

\* The process ends before the commit: the transaction is undone.
Crash(u) ==
    /\ "crash" \in Faults
    /\ create[u].at \in {"sent", "new", "known"}
    /\ create' = [create EXCEPT ![u].at = "failed"]
    /\ UNCHANGED <<page, server>>

\* The event of the declaration: findOne takes one of the wallet's users.
ValidateUser(w) ==
    /\ w \in valid
    /\ \E u \in Registered(w) :
          /\ status[u] = "pending"
          /\ status' = [status EXCEPT ![u] = "valid"]
    /\ UNCHANGED <<page, create, points, valid, swap, raced>>

\* A mistake: the wallet is not looked at.
WrongAccepts(u, w) == status[u] = "valid"

\* A swap of the session's user for the connected wallet, as the checks at
\* the head of depositPoints and withdrawPoints accept it.
Accepts(u, w) ==
    /\ status[u] = "valid"
    /\ \E v \in Registered(w) : v = u

Swap(h) ==
    LET d == hook[h].data
    IN  /\ d # None /\ address # None
        /\ Accepts(d.user, address)
        /\ swap' = [user |-> d.user, wallet |-> address]
        /\ UNCHANGED <<page, create, points, status, valid, raced>>

-----------------------------------------------------------------------------
Handler(u) ==
    FindUser(u) \/ CreateCommits(u) \/ SetValidUser(u) \/ SetValidFails(u)

Next ==
    \/ \E w \in Address : Connect(w)
    \/ \E h \in Panel :
          \/ Mount(h) \/ Unmount(h) \/ clearUserData(h) \/ Swap(h)
          \/ \E u \in User : createUser(h, u)
    \/ Reload
    \/ \E u \in User :
          Handler(u) \/ Created(u) \/ CreateFails(u) \/ UserLoaded(u) \/ Crash(u)
    \/ \E w \in Wallet : ValidateUser(w)

Spec == Init /\ [][Next]_vars

-----------------------------------------------------------------------------
(***************************************************************************)
(* Properties.                                                             *)
(***************************************************************************)
\* The types of the variables.
TypeOK ==
    /\ address \in Address
    /\ storage \in Storage
    /\ hook \in [Panel -> Hook]
    /\ cache \subseteq points /\ points \subseteq User
    /\ create \in [User -> Creation]
    /\ status \in [User -> UserStatus]
    /\ valid \subseteq Wallet
    /\ swap \in [user : User, wallet : Wallet] \cup {None}
    /\ raced \subseteq User

\* A swap is accepted only for a user with a point row and for a wallet that
\* the contract declared valid: the multicall would find it a valid user,
\* however the declaration went, whose event came back, whatever the session.
AcceptedIsDeclared ==
    swap # None => swap.user \in points /\ swap.wallet \in valid

\* The user data that panels and storage hold.
Sessions == {storage} \cup {hook[h].data : h \in Panel}

\* A session names a user with a point row whose wallet has a user: also
\* after lost answers, repeated creations, switched wallets and crashes.
SessionIsBacked ==
    \A d \in Sessions \ {None} :
        d.user \in points /\ Registered(create[d.user].wallet) # {}

\* A wallet has one user, those aside that were registered while the wallet's
\* user was not yet committed.
OneUserPerWallet ==
    \A w \in Wallet : Cardinality(Registered(w) \ raced) <= 1

\* A user waits for its validity only while the call to the contract runs, or
\* once the contract holds the wallet valid, or for ever after the call failed:
\* nothing repeats it.
PendingIsDeclared ==
    \A u \in User :
        status[u] = "pending" =>
            \/ create[u].wallet \in valid
            \/ create[u].at \in {"declare", "failed"}
=============================================================================
