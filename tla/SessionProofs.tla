--------------------------- MODULE SessionProofs ---------------------------
(***************************************************************************)
(* Theorems about Session, for any number of wallets, panels and users and *)
(* any of its failures.                                                    *)
(***************************************************************************)
EXTENDS Session, FiniteSums

LEMMA NoneIsNoWallet == None \notin Wallet
  BY SessionAssumption DEF SessionAssumption

\* What the invariants need of the types.
CreationType ==
    [wallet : Address, address : Address, panel : Panel \cup {None},
     waits : BOOLEAN, at : Stage]

Typed ==
    /\ address \in Address
    /\ create \in [User -> CreationType]
    /\ status \in [User -> UserStatus]

\* What the browser does: it leaves the server alone, and of a creation it
\* changes the wallet and the stage only when it sends it.
PageMoves ==
    \/ \E w \in Address : Connect(w)
    \/ \E h \in Panel :
          \/ Mount(h) \/ Unmount(h) \/ clearUserData(h)
          \/ \E u \in User : createUser(h, u)
    \/ Reload
    \/ \E u \in User : Created(u) \/ CreateFails(u) \/ UserLoaded(u)

LEMMA NextCases ==
    ASSUME [Next]_vars
    PROVE  \/ PageMoves
           \/ \E u \in User : Handler(u) \/ Crash(u)
           \/ \E h \in Panel : Swap(h)
           \/ \E w \in Wallet : ValidateUser(w)
           \/ UNCHANGED vars
  BY DEF Next, PageMoves

Kept(u) == create'[u].wallet = create[u].wallet /\ create'[u].at = create[u].at

SentNow(u) ==
    /\ create[u].at = "unsent" /\ create'[u].at = "sent"
    /\ create'[u].wallet \in Wallet

LEMMA PageType == Typed /\ PageMoves => Typed'
  <1>. SUFFICES ASSUME Typed, PageMoves  PROVE Typed'
    OBVIOUS
  <1>1. ASSUME NEW w \in Address, Connect(w)  PROVE Typed'
    <2>1. ASSUME NEW u \in User
          PROVE  [create[u] EXCEPT !.address = w] \in CreationType
      BY DEF Typed, CreationType
    <2>2. create' \in [User -> CreationType]
      BY <1>1, <2>1 DEF Connect, Typed
    <2>. QED  BY <1>1, <2>2 DEF Connect, Typed, server
  <1>2. ASSUME NEW h \in Panel, NEW u \in User, createUser(h, u)  PROVE Typed'
    <2>1. createUserPoint(h) \in CreationType
      BY DEF createUserPoint, CreationType, Typed, Stage
    <2>2. create' \in [User -> CreationType]
      BY <1>2, <2>1 DEF createUser, Typed
    <2>. QED  BY <1>2, <2>2 DEF createUser, Typed, server
  <1>3. ASSUME NEW h \in Panel, Mount(h) \/ clearUserData(h)  PROVE Typed'
    BY <1>3 DEF Mount, clearUserData, Typed, server
  <1>4. ASSUME NEW h \in Panel, Unmount(h)  PROVE Typed'
    <2>1. ASSUME NEW u \in User
          PROVE  [create[u] EXCEPT !.panel = None] \in CreationType
      BY DEF Typed, CreationType
    <2>2. create' \in [User -> CreationType]
      BY <1>4, <2>1 DEF Unmount, Typed
    <2>. QED  BY <1>4, <2>2 DEF Unmount, Typed, server
  <1>5. CASE Reload
    <2>1. ASSUME NEW u \in User
          PROVE  [create[u] EXCEPT !.panel = None, !.waits = FALSE] \in CreationType
      BY DEF Typed, CreationType
    <2>2. create' \in [User -> CreationType]
      BY <1>5, <2>1 DEF Reload, Typed
    <2>. QED  BY <1>5, <2>2 DEF Reload, Typed, Address, server
  <1>6. ASSUME NEW u \in User, Created(u) \/ CreateFails(u)  PROVE Typed'
    <2>1. create' = [create EXCEPT ![u].waits = FALSE]
      BY <1>6 DEF Created, CreateFails
    <2>2. create' \in [User -> CreationType]
      BY <2>1 DEF Typed, CreationType
    <2>. QED  BY <1>6, <2>2 DEF Created, CreateFails, Typed, server
  <1>7. ASSUME NEW u \in User, UserLoaded(u)  PROVE Typed'
    BY <1>7 DEF UserLoaded, Typed, server
  <1>. QED
    BY <1>1, <1>2, <1>3, <1>4, <1>5, <1>6, <1>7 DEF PageMoves

LEMMA PageKeeps ==
    ASSUME Typed, PageMoves
    PROVE  /\ UNCHANGED server
           /\ \A u \in User : Kept(u) \/ SentNow(u)
  <1>1. UNCHANGED server
    BY DEF PageMoves, Connect, Mount, Unmount, clearUserData, createUser, Reload,
           Created, CreateFails, UserLoaded
  <1>2. ASSUME NEW v \in User
        PROVE  Kept(v) \/ SentNow(v)
    <2>0. create[v] \in CreationType
      BY DEF Typed
    <2>1. CASE \E h \in Panel, u \in User : createUser(h, u)
      <3>1. PICK h \in Panel, u \in User : createUser(h, u)
        BY <2>1
      <3>2. /\ create' = [create EXCEPT ![u] = createUserPoint(h)]
            /\ create[u].at = "unsent" /\ address \in Wallet
        BY <3>1 DEF createUser, NextUser, Typed, Address
      <3>. QED  BY <3>2 DEF Typed, Kept, SentNow, createUserPoint
    <2>2. CASE \E w \in Address : Connect(w)
      <3>1. PICK w \in Address : Connect(w)
        BY <2>2
      <3>2. create'[v] = create[v] \/ create'[v] = [create[v] EXCEPT !.address = w]
        BY <3>1 DEF Connect
      <3>. QED  BY <2>0, <3>2 DEF Kept, CreationType
    <2>3. CASE \E h \in Panel : Unmount(h)
      <3>1. create'[v] = create[v] \/ create'[v] = [create[v] EXCEPT !.panel = None]
        BY <2>3 DEF Unmount
      <3>. QED  BY <2>0, <3>1 DEF Kept, CreationType
    <2>4. CASE Reload
      <3>1. create'[v] = [create[v] EXCEPT !.panel = None, !.waits = FALSE]
        BY <2>4 DEF Reload
      <3>. QED  BY <2>0, <3>1 DEF Kept, CreationType
    <2>5. CASE \E u \in User : Created(u) \/ CreateFails(u)
      <3>1. PICK u \in User : create' = [create EXCEPT ![u].waits = FALSE]
        BY <2>5 DEF Created, CreateFails
      <3>. QED  BY <2>0, <3>1 DEF Kept, CreationType, Typed
    <2>6. CASE create' = create
      BY <2>6 DEF Kept
    <2>. QED
      BY <2>1, <2>2, <2>3, <2>4, <2>5, <2>6
         DEF PageMoves, Mount, clearUserData, UserLoaded
  <1>. QED  BY <1>1, <1>2

\* A step of the server on creation u moves its stage, and no other field.
LEMMA ServerMoves ==
    ASSUME Typed, NEW u \in User, Handler(u) \/ Crash(u)
    PROVE  /\ create' \in [User -> CreationType]
           /\ \E at \in Stage \ {"unsent"} :
                 create' = [create EXCEPT ![u].at = at]
           /\ create'[u].wallet = create[u].wallet
           /\ \A v \in User \ {u} : create'[v] = create[v]
           /\ UNCHANGED <<page, swap>>
  <1>1. PICK at \in Stage \ {"unsent"} : create' = [create EXCEPT ![u].at = at]
    BY DEF Handler, Crash, FindUser, CreateCommits, SetValidUser, SetValidFails,
           Stage
  <1>2. create' \in [User -> CreationType]
    BY <1>1 DEF Typed, CreationType
  <1>3. create'[u].wallet = create[u].wallet
    BY <1>1 DEF Typed, CreationType
  <1>4. \A v \in User \ {u} : create'[v] = create[v]
    BY <1>1 DEF Typed
  <1>5. UNCHANGED <<page, swap>>
    BY DEF Handler, Crash, FindUser, CreateCommits, SetValidUser, SetValidFails,
           server
  <1>. QED  BY <1>1, <1>2, <1>3, <1>4, <1>5

LEMMA InitType == Init => Typed
  <1>1. NoCreation \in CreationType
    BY DEF NoCreation, CreationType, Address, Stage
  <1>. QED  BY <1>1 DEF Init, Typed, Address, UserStatus

LEMMA TypeStep == Typed /\ [Next]_vars => Typed'
  <1>. SUFFICES ASSUME Typed, [Next]_vars  PROVE Typed'
    OBVIOUS
  <1>1. ASSUME NEW u \in User, Handler(u) \/ Crash(u)  PROVE Typed'
    <2>1. status' \in [User -> UserStatus]
      BY <1>1 DEF Handler, Crash, FindUser, CreateCommits, SetValidUser,
                  SetValidFails, NewUser, Typed, UserStatus, server
    <2>. QED  BY <1>1, <2>1, ServerMoves DEF Typed, page
  <1>2. ASSUME NEW h \in Panel, Swap(h)  PROVE Typed'
    BY <1>2 DEF Swap, Typed, page
  <1>3. ASSUME NEW w \in Wallet, ValidateUser(w)  PROVE Typed'
    BY <1>3 DEF ValidateUser, Typed, UserStatus, page
  <1>4. CASE UNCHANGED vars
    BY <1>4 DEF vars, page, server, Typed
  <1>. QED  BY <1>1, <1>2, <1>3, <1>4, PageType, NextCases

-----------------------------------------------------------------------------
(***************************************************************************)
(* The rows of the users.                                                  *)
(***************************************************************************)
\* A row belongs to a creation that committed with its point row; one that
\* waits was declared or its declaration goes on or failed, one that is valid
\* was declared.
Declared ==
    \A u \in User :
        /\ status[u] # "none" =>
              u \in points /\ create[u].at \in {"declare", "failed", "done"}
        /\ status[u] = "valid" => create[u].wallet \in valid
        /\ status[u] = "pending" =>
              \/ create[u].wallet \in valid
              \/ create[u].at \in {"declare", "failed"}

\* An accepted swap names a user with a point row and a declared wallet.
SwapIsBacked == swap # None => swap.user \in points /\ swap.wallet \in valid

\* A creation that found no user while there is one now was raced, and so
\* were all users of a wallet but one.
OneEach ==
    /\ \A u, v \in User :
          /\ create[u].at = "new" /\ status[v] # "none"
          /\ create[u].wallet = create[v].wallet
          => u \in raced
    /\ \A u, v \in User :
          /\ status[u] # "none" /\ status[v] # "none" /\ u # v
          /\ create[u].wallet = create[v].wallet
          => u \in raced \/ v \in raced

Rows == Declared /\ SwapIsBacked /\ OneEach

LEMMA RowsStayOnPage == Typed /\ Rows /\ PageMoves => Rows'
  <1>. SUFFICES ASSUME Typed, Rows, PageMoves  PROVE Rows'
    OBVIOUS
  <1>1. /\ UNCHANGED <<points, status, valid, swap, raced>>
        /\ \A u \in User : Kept(u) \/ SentNow(u)
    BY PageKeeps DEF server
  <1>2. Declared'
    BY <1>1 DEF Rows, Declared, Kept, SentNow
  <1>3. \A u \in User : status[u] # "none" => Kept(u)
    BY <1>1 DEF Rows, Declared, SentNow
  <1>4. SwapIsBacked'
    BY <1>1 DEF Rows, SwapIsBacked
  <1>5. OneEach'
    BY <1>1, <1>3 DEF Rows, OneEach, Kept, SentNow
  <1>. QED  BY <1>2, <1>4, <1>5 DEF Rows

LEMMA RowsStayOnServer ==
    ASSUME Typed, Rows, NEW u \in User, Handler(u) \/ Crash(u)
    PROVE  Rows'
  <1>0. /\ create'[u].wallet = create[u].wallet
        /\ \A v \in User \ {u} : create'[v] = create[v]
        /\ UNCHANGED swap /\ points \subseteq points'
    BY ServerMoves DEF Handler, Crash, FindUser, CreateCommits, SetValidUser,
                       SetValidFails, NewPoint, server
  <1>1. \A at : create' = [create EXCEPT ![u].at = at] => create'[u].at = at
    BY DEF Typed, CreationType
  <1>2. CASE FindUser(u)
    <2>1. /\ UNCHANGED <<status, valid, raced>> /\ create[u].at = "sent"
          /\ create'[u].at \in {"known", "new"}
          /\ create'[u].at = "new" => Registered(create[u].wallet) = {}
      BY <1>1, <1>2 DEF FindUser, server
    <2>2. status[u] = "none"
      BY <2>1 DEF Rows, Declared
    <2>3. Declared'
      BY <1>0, <2>1, <2>2 DEF Rows, Declared
    <2>4. SwapIsBacked'
      BY <1>0, <2>1 DEF Rows, SwapIsBacked
    <2>5. OneEach'
      BY <1>0, <2>1, <2>2 DEF Rows, OneEach, Registered
    <2>. QED  BY <2>3, <2>4, <2>5 DEF Rows
  <1>3. CASE CreateCommits(u) /\ create[u].at = "new"
    <2>1. /\ status' = NewUser(u) /\ raced' = raced \cup Twins(u)
          /\ create'[u].at = "declare" /\ UNCHANGED valid
          /\ u \in points'
      BY <1>1, <1>3 DEF CreateCommits, NewPoint
    <2>2. status' = [status EXCEPT ![u] = "pending"]
      BY <2>1 DEF NewUser
    <2>3. status[u] = "none"
      BY <1>3 DEF Rows, Declared
    <2>4. Declared'
      BY <1>0, <2>1, <2>2 DEF Rows, Declared, Typed
    <2>5. SwapIsBacked'
      BY <1>0, <2>1 DEF Rows, SwapIsBacked, Typed
    <2>6. \A v, w \in User :
             /\ create'[v].at = "new" /\ status'[w] # "none"
             /\ create'[v].wallet = create'[w].wallet
             => v \in raced'
      <3>. SUFFICES ASSUME NEW v \in User, NEW w \in User,
                           create'[v].at = "new", status'[w] # "none",
                           create'[v].wallet = create'[w].wallet
                    PROVE  v \in raced'
        OBVIOUS
      <3>1. v # u /\ create'[v] = create[v]
        BY <1>0, <2>1
      <3>2. CASE w = u
        BY <1>0, <2>1, <3>1, <3>2 DEF Twins
      <3>3. CASE w # u
        BY <1>0, <2>1, <2>2, <3>1, <3>3 DEF Rows, OneEach, Typed
      <3>. QED  BY <3>2, <3>3
    <2>7. \A v, w \in User :
             /\ status'[v] # "none" /\ status'[w] # "none" /\ v # w
             /\ create'[v].wallet = create'[w].wallet
             => v \in raced' \/ w \in raced'
      <3>. SUFFICES ASSUME NEW v \in User, NEW w \in User,
                           status'[v] # "none", status'[w] # "none", v # w,
                           create'[v].wallet = create'[w].wallet
                    PROVE  v \in raced' \/ w \in raced'
        OBVIOUS
      <3>1. create[v].wallet = create[w].wallet
        BY <1>0
      <3>2. CASE v = u
        BY <1>3, <2>1, <2>2, <3>1, <3>2 DEF Rows, OneEach, Typed
      <3>3. CASE w = u
        BY <1>3, <2>1, <2>2, <3>1, <3>3 DEF Rows, OneEach, Typed
      <3>4. CASE v # u /\ w # u
        BY <2>1, <2>2, <3>1, <3>4 DEF Rows, OneEach, Typed
      <3>. QED  BY <3>2, <3>3, <3>4
    <2>. QED  BY <2>4, <2>5, <2>6, <2>7 DEF Rows, OneEach
  <1>4. CASE CreateCommits(u) /\ create[u].at # "new"
    <2>1. /\ UNCHANGED <<status, valid, raced>> /\ create[u].at = "known"
          /\ create'[u].at = "done"
      BY <1>1, <1>4 DEF CreateCommits
    <2>2. status[u] = "none"
      BY <2>1 DEF Rows, Declared
    <2>. QED  BY <1>0, <2>1, <2>2 DEF Rows, Declared, SwapIsBacked, OneEach
  <1>5. CASE SetValidUser(u) \/ SetValidFails(u)
    <2>1. /\ UNCHANGED <<status, raced>> /\ valid \subseteq valid'
          /\ create[u].at = "declare"
          /\ \/ create'[u].at = "done" /\ create[u].wallet \in valid'
             \/ create'[u].at = "failed"
      BY <1>1, <1>5 DEF SetValidUser, SetValidFails
    <2>2. Declared'
      BY <1>0, <2>1 DEF Rows, Declared
    <2>3. SwapIsBacked'
      BY <1>0, <2>1 DEF Rows, SwapIsBacked
    <2>4. OneEach'
      BY <1>0, <2>1 DEF Rows, OneEach
    <2>. QED  BY <2>2, <2>3, <2>4 DEF Rows
  <1>6. CASE Crash(u)
    <2>1. /\ UNCHANGED <<status, valid, raced>> /\ create'[u].at = "failed"
          /\ create[u].at \in {"sent", "new", "known"}
      BY <1>1, <1>6 DEF Crash, server
    <2>2. status[u] = "none"
      BY <2>1 DEF Rows, Declared
    <2>. QED  BY <1>0, <2>1, <2>2 DEF Rows, Declared, SwapIsBacked, OneEach
  <1>. QED  BY <1>2, <1>3, <1>4, <1>5, <1>6 DEF Handler

LEMMA RowsStep == Typed /\ Rows /\ [Next]_vars => Rows'
  <1>. SUFFICES ASSUME Typed, Rows, [Next]_vars  PROVE Rows'
    OBVIOUS
  <1>1. ASSUME NEW h \in Panel, Swap(h)  PROVE Rows'
    <2>1. /\ UNCHANGED <<create, points, status, valid, raced>>
          /\ \E v \in Registered(address) :
                /\ status[v] = "valid"
                /\ swap' = [user |-> v, wallet |-> address]
      BY <1>1 DEF Swap, Accepts
    <2>2. SwapIsBacked'
      BY <2>1 DEF Rows, Declared, SwapIsBacked, Registered
    <2>. QED  BY <2>1, <2>2 DEF Rows, Declared, OneEach
  <1>2. ASSUME NEW w \in Wallet, ValidateUser(w)  PROVE Rows'
    <2>1. PICK u \in User :
              /\ status[u] = "pending" /\ status' = [status EXCEPT ![u] = "valid"]
              /\ create[u].wallet \in valid
              /\ UNCHANGED <<create, points, valid, swap, raced>>
      BY <1>2 DEF ValidateUser, Registered
    <2>2. Declared'
      BY <2>1 DEF Rows, Declared, Typed
    <2>3. SwapIsBacked'
      BY <2>1 DEF Rows, SwapIsBacked, Typed
    <2>4. OneEach'
      BY <2>1 DEF Rows, OneEach, Typed
    <2>. QED  BY <2>2, <2>3, <2>4 DEF Rows
  <1>3. CASE UNCHANGED vars
    BY <1>3 DEF vars, server, Rows, Declared, SwapIsBacked, OneEach
  <1>. QED
    BY <1>1, <1>2, <1>3, RowsStayOnPage, RowsStayOnServer, NextCases

LEMMA RowsInit == Init => Rows
  BY DEF Init, Rows, Declared, SwapIsBacked, OneEach, NoCreation

LEMMA RowsHold == Spec => [](Typed /\ Rows)
  <1>1. Typed /\ Rows /\ [Next]_vars => Typed' /\ Rows'
    BY TypeStep, RowsStep
  <1>. QED  BY <1>1, InitType, RowsInit, PTL DEF Spec

-----------------------------------------------------------------------------
(***************************************************************************)
(* The effects of the panels after a switch of the wallet.                 *)
(***************************************************************************)
Pages == [storage : Storage, hook : [Panel -> Hook]]

Saved(w, d) == [user |-> d.user, wallet |-> w]

\* What the effects of a panel do: they replace its user data x, and what
\* they store y, by nothing, the stored session, or its own saved anew.
LEMMA EffectsAre ==
    ASSUME NEW w \in Address, NEW pg \in Pages, NEW h \in Panel
    PROVE  \E x, y \in Storage :
              /\ Effects(w, pg, h)
                    = [storage |-> y, hook |-> [pg.hook EXCEPT ![h].data = x]]
              /\ x # None => x.wallet = w
              /\ \/ x \in {None, pg.storage}
                 \/ Queried(pg.hook[h].data) /\ x = Saved(w, pg.hook[h].data)
              /\ \/ y \in {None, pg.storage}
                 \/ Queried(pg.hook[h].data) /\ y = Saved(w, pg.hook[h].data)
  <1>. DEFINE d == pg.hook[h].data
              found == IF w = None THEN None
                       ELSE getUserDataByWallet(pg.storage, w)
              loaded == IF w = None THEN pg.storage ELSE found
  <1>1. /\ pg.storage \in Storage /\ pg.hook \in [Panel -> Hook]
        /\ pg.hook[h] \in Hook /\ d \in Storage
    BY DEF Pages, Hook
  <1>2. /\ found \in {None, pg.storage} /\ found \in Storage
        /\ found # None => found.wallet = w
    BY <1>1 DEF getUserDataByWallet, Storage
  <1>3. LoadEffect(w, pg, h)
           = [storage |-> loaded, hook |-> [pg.hook EXCEPT ![h].data = found]]
    BY DEF LoadEffect
  <1>4. CASE Queried(d)
    <2>1. Saved(w, d) \in Storage
      BY <1>1, <1>4 DEF Queried, Saved, Storage, UserData
    <2>2. Effects(w, pg, h)
             = [storage |-> Saved(w, d),
                hook |-> [[pg.hook EXCEPT ![h].data = found]
                             EXCEPT ![h].data = Saved(w, d)]]
      BY <1>3, <1>4 DEF Effects, SaveEffect, Saved
    <2>3. [[pg.hook EXCEPT ![h].data = found] EXCEPT ![h].data = Saved(w, d)]
             = [pg.hook EXCEPT ![h].data = Saved(w, d)]
      BY <1>1 DEF Hook
    <2>4. Saved(w, d).wallet = w
      BY DEF Saved
    <2>. HIDE DEF d, found
    <2>. QED  BY <1>4, <2>1, <2>2, <2>3, <2>4 DEF d
  <1>5. CASE ~Queried(d)
    <2>1. Effects(w, pg, h) = LoadEffect(w, pg, h)
      BY <1>5 DEF Effects
    <2>2. loaded \in {None, pg.storage} /\ loaded \in Storage
      BY <1>1, <1>2
    <2>. HIDE DEF d, found, loaded
    <2>. QED  BY <1>2, <1>3, <2>1, <2>2
  <1>. QED  BY <1>4, <1>5

\* The function after is the recursion of Commit over the first n panels.
CommitsUpTo(after, n, w, hooks) ==
    after = [h \in 0..n |->
                IF h = 0 THEN [storage |-> storage, hook |-> hooks]
                ELSE IF hooks[h].status = "gone" THEN after[h - 1]
                ELSE Effects(w, after[h - 1], h)]

LEMMA CommitExtends ==
    ASSUME NEW w, NEW hooks, NEW n \in Nat, NEW f, CommitsUpTo(f, n, w, hooks)
    PROVE  \E g : CommitsUpTo(g, n + 1, w, hooks)
  <1>. DEFINE next == IF hooks[n + 1].status = "gone" THEN f[n]
                      ELSE Effects(w, f[n], n + 1)
              g == [h \in 0..(n + 1) |-> IF h = n + 1 THEN next ELSE f[h]]
  <1>1. ASSUME NEW h \in 0..(n + 1)
        PROVE  g[h] = IF h = 0 THEN [storage |-> storage, hook |-> hooks]
                      ELSE IF hooks[h].status = "gone" THEN g[h - 1]
                      ELSE Effects(w, g[h - 1], h)
    <2>1. CASE h = n + 1
      <3>1. h # 0 /\ h - 1 = n /\ n \in 0..(n + 1) /\ n # n + 1
        BY <2>1
      <3>2. g[h] = next /\ g[h - 1] = f[n]
        BY <3>1, <2>1
      <3>. HIDE DEF g
      <3>. QED  BY <2>1, <3>1, <3>2
    <2>2. CASE h # n + 1
      <3>1. h \in 0..n /\ g[h] = f[h]
        BY <2>2
      <3>2. h # 0 => g[h - 1] = f[h - 1]
        BY <2>2
      <3>3. f[h] = IF h = 0 THEN [storage |-> storage, hook |-> hooks]
                   ELSE IF hooks[h].status = "gone" THEN f[h - 1]
                   ELSE Effects(w, f[h - 1], h)
        BY <3>1 DEF CommitsUpTo
      <3>. HIDE DEF g
      <3>. QED  BY <3>1, <3>2, <3>3
    <2>. QED  BY <2>1, <2>2
  <1>2. g = [h \in 0..(n + 1) |-> g[h]]
    OBVIOUS
  <1>. HIDE DEF g
  <1>3. CommitsUpTo(g, n + 1, w, hooks)
    BY <1>1, <1>2 DEF CommitsUpTo
  <1>. QED  BY <1>3

LEMMA CommitIs ==
    ASSUME NEW w, NEW hooks
    PROVE  \E after : /\ CommitsUpTo(after, Panels, w, hooks)
                      /\ Commit(w, hooks) = after[Panels]
  <1>. DEFINE N == {n \in Nat : \E g : CommitsUpTo(g, n, w, hooks)}
              after == CHOOSE g : CommitsUpTo(g, Panels, w, hooks)
  <1>1. 0 \in N
    <2>. DEFINE g == [h \in 0..0 |-> [storage |-> storage, hook |-> hooks]]
    <2>1. CommitsUpTo(g, 0, w, hooks)
      BY DEF CommitsUpTo
    <2>. QED  BY <2>1
  <1>2. ASSUME NEW n \in Nat, n \in N  PROVE n + 1 \in N
    BY <1>2, CommitExtends
  <1>3. Panels \in N
    <2>. HIDE DEF N
    <2>. QED  BY <1>1, <1>2, InductionBySets, SessionAssumption
              DEF SessionAssumption
  <1>4. CommitsUpTo(after, Panels, w, hooks)
    BY <1>3
  <1>5. Commit(w, hooks) = after[Panels]
    BY DEF Commit, CommitsUpTo
  <1>. QED  BY <1>4, <1>5

\* Where a session shown or stored after a switch to w comes from.
From(d, w) ==
    \/ d \in {None, storage}
    \/ \E h \in Panel : Queried(hook[h].data) /\ d = Saved(w, hook[h].data)

\* The page pg after the effects of the first n panels.
Switched(pg, n, w) ==
    /\ pg \in Pages /\ From(pg.storage, w)
    /\ \A h \in Panel :
          /\ pg.hook[h].status = hook[h].status
          /\ h > n \/ hook[h].status = "gone" => pg.hook[h] = hook[h]
          /\ h <= n /\ hook[h].status # "gone" =>
                /\ From(pg.hook[h].data, w)
                /\ pg.hook[h].data # None => pg.hook[h].data.wallet = w

LEMMA SwitchStep ==
    ASSUME NEW w \in Address, hook \in [Panel -> Hook], NEW n \in Nat,
           n + 1 \in Panel, NEW pg, Switched(pg, n, w)
    PROVE  /\ hook[n + 1].status = "gone" => Switched(pg, n + 1, w)
           /\ hook[n + 1].status # "gone" =>
                 Switched(Effects(w, pg, n + 1), n + 1, w)
  <1>0. \A h \in Panel : h \in Nat /\ (h <= n + 1 <=> h <= n \/ h = n + 1)
                                   /\ (h > n <=> h > n + 1 \/ h = n + 1)
    BY DEF Panel
  <1>1. CASE hook[n + 1].status = "gone"
    BY <1>0, <1>1 DEF Switched
  <1>2. CASE hook[n + 1].status # "gone"
    <2>. DEFINE k == n + 1
                p == Effects(w, pg, k)
    <2>1. pg \in Pages /\ pg.hook \in [Panel -> Hook] /\ pg.hook[k] = hook[k]
      BY <1>0 DEF Switched, Pages
    <2>2. PICK x, y \in Storage :
              /\ p = [storage |-> y, hook |-> [pg.hook EXCEPT ![k].data = x]]
              /\ x # None => x.wallet = w
              /\ \/ x \in {None, pg.storage}
                 \/ Queried(hook[k].data) /\ x = Saved(w, hook[k].data)
              /\ \/ y \in {None, pg.storage}
                 \/ Queried(hook[k].data) /\ y = Saved(w, hook[k].data)
      <3>. HIDE DEF k
      <3>1. k \in Panel
        BY DEF k
      <3>. QED  BY <2>1, <3>1, EffectsAre
    <2>3. From(x, w) /\ From(y, w)
      BY <2>2 DEF Switched, From
    <2>4. /\ p \in Pages /\ p.storage = y
          /\ p.hook[k].data = x /\ p.hook[k].status = hook[k].status
          /\ \A h \in Panel \ {k} : p.hook[h] = pg.hook[h]
      BY <2>1, <2>2 DEF Pages, Hook
    <2>. HIDE DEF p
    <2>5. \A h \in Panel :
             /\ p.hook[h].status = hook[h].status
             /\ h > k \/ hook[h].status = "gone" => p.hook[h] = hook[h]
             /\ h <= k /\ hook[h].status # "gone" =>
                   /\ From(p.hook[h].data, w)
                   /\ p.hook[h].data # None => p.hook[h].data.wallet = w
      <3>. SUFFICES ASSUME NEW h \in Panel
           PROVE  /\ p.hook[h].status = hook[h].status
                  /\ h > k \/ hook[h].status = "gone" => p.hook[h] = hook[h]
                  /\ h <= k /\ hook[h].status # "gone" =>
                        /\ From(p.hook[h].data, w)
                        /\ p.hook[h].data # None => p.hook[h].data.wallet = w
        OBVIOUS
      <3>1. CASE h = k
        BY <1>0, <1>2, <2>2, <2>3, <2>4, <3>1
      <3>2. CASE h # k
        <4>1. p.hook[h] = pg.hook[h] /\ (h <= k => h <= n) /\ (h > k => h > n)
          BY <1>0, <2>4, <3>2
        <4>. QED  BY <4>1 DEF Switched
      <3>. QED  BY <3>1, <3>2
    <2>. QED  BY <1>2, <2>3, <2>4, <2>5 DEF Switched, p
  <1>. QED  BY <1>1, <1>2

LEMMA CommitEffect ==
    ASSUME NEW w \in Address, storage \in Storage, hook \in [Panel -> Hook]
    PROVE  Switched(Commit(w, hook), Panels, w)
  <1>1. PICK after : /\ CommitsUpTo(after, Panels, w, hook)
                     /\ Commit(w, hook) = after[Panels]
    BY CommitIs
  <1>. DEFINE N == {n \in Nat : n <= Panels => Switched(after[n], n, w)}
  <1>2. Panels \in Nat
    BY SessionAssumption DEF SessionAssumption
  <1>3. 0 \in N
    <2>1. after[0] = [storage |-> storage, hook |-> hook]
      BY <1>1, <1>2 DEF CommitsUpTo
    <2>2. \A h \in Panel : h > 0 /\ ~ (h <= 0)
      BY DEF Panel
    <2>3. Switched(after[0], 0, w)
      BY <2>1, <2>2 DEF Switched, Pages, From
    <2>. QED  BY <2>3
  <1>4. ASSUME NEW n \in Nat, n \in N  PROVE n + 1 \in N
    <2>. SUFFICES ASSUME n + 1 <= Panels
                  PROVE  Switched(after[n + 1], n + 1, w)
      OBVIOUS
    <2>1. Switched(after[n], n, w)
      BY <1>2, <1>4
    <2>2. n + 1 \in Panel /\ n + 1 \in 0..Panels /\ n + 1 # 0 /\ (n + 1) - 1 = n
      BY <1>2 DEF Panel
    <2>3. after[n + 1] = IF hook[n + 1].status = "gone" THEN after[n]
                         ELSE Effects(w, after[n], n + 1)
      BY <1>1, <2>2 DEF CommitsUpTo
    <2>. QED  BY <2>1, <2>2, <2>3, SwitchStep
  <1>5. Panels \in N
    <2>. HIDE DEF N
    <2>. QED  BY <1>2, <1>3, <1>4, InductionBySets
  <1>. QED  BY <1>1, <1>2, <1>5

-----------------------------------------------------------------------------
(***************************************************************************)
(* The sessions that the page holds.                                       *)
(***************************************************************************)
\* The rest of the types.
PageTyped ==
    /\ storage \in Storage
    /\ hook \in [Panel -> Hook]
    /\ cache \subseteq points /\ points \subseteq User
    /\ valid \subseteq Wallet
    /\ swap \in [user : User, wallet : Wallet] \cup {None}
    /\ raced \subseteq User

\* A panel shows a session under the connected wallet only, and a creation
\* knows the wallet shown while its panel is there.
Visible ==
    /\ \A h \in Panel :
          /\ hook[h].status = "gone" => hook[h].data = None
          /\ hook[h].data # None => hook[h].data.wallet = address
    /\ \A u \in User :
          create[u].panel # None =>
              /\ hook[create[u].panel].status # "gone"
              /\ create[u].address = address

\* The wallet of creation u has a user, given the creations cr and the users'
\* status st; and u has a point row as well, given the points pts.
Known(u, cr, st) ==
    \E v \in User : st[v] # "none" /\ cr[v].wallet = cr[u].wallet

Backed(u, pts, cr, st) == u \in pts /\ Known(u, cr, st)

\* How far a creation is says what the server holds of it.
Reached ==
    \A u \in User :
        /\ create[u].at # "unsent" => create[u].wallet \in Wallet
        /\ u \in points => create[u].at \in {"declare", "failed", "done"}
        /\ create[u].at = "known" => Known(u, create, status)
        /\ create[u].at \in {"declare", "done"} =>
              Backed(u, points, create, status)

\* Session d is backed.
Fit(d, pts, cr, st) == d # None => Backed(d.user, pts, cr, st)

AllFit ==
    /\ Fit(storage, points, create, status)
    /\ \A h \in Panel : Fit(hook[h].data, points, create, status)

Held == PageTyped /\ Visible /\ Reached /\ AllFit

\* No step takes back what a session rests on.
LEMMA StepKeeps ==
    ASSUME Typed, Rows, [Next]_vars
    PROVE  /\ points \subseteq points'
           /\ \A u \in User :
                 /\ create[u].at # "unsent" =>
                       /\ create'[u].at # "unsent"
                       /\ create'[u].wallet = create[u].wallet
                 /\ status[u] # "none" => status'[u] # "none"
  <1>1. CASE PageMoves
    <2>1. points' = points /\ status' = status
      BY <1>1, PageKeeps DEF server
    <2>. QED  BY <1>1, <2>1, PageKeeps DEF Kept, SentNow
  <1>2. ASSUME NEW v \in User, Handler(v) \/ Crash(v)
        PROVE  /\ points \subseteq points'
               /\ \A u \in User :
                     /\ create[u].at # "unsent" =>
                           /\ create'[u].at # "unsent"
                           /\ create'[u].wallet = create[u].wallet
                     /\ status[u] # "none" => status'[u] # "none"
    <2>1. points \subseteq points'
      BY <1>2 DEF Handler, Crash, FindUser, CreateCommits, SetValidUser,
                  SetValidFails, NewPoint, server
    <2>3. \A u \in User : status[u] # "none" => status'[u] # "none"
      BY <1>2 DEF Handler, Crash, FindUser, CreateCommits, SetValidUser,
                  SetValidFails, NewUser, server, Typed
    <2>4. PICK at \in Stage \ {"unsent"} :
              create' = [create EXCEPT ![v].at = at]
      BY <1>2, ServerMoves
    <2>5. create'[v].at # "unsent" /\ create'[v].wallet = create[v].wallet
      BY <2>4 DEF Typed, CreationType
    <2>6. \A u \in User \ {v} : create'[u] = create[u]
      BY <2>4 DEF Typed
    <2>. QED  BY <2>1, <2>3, <2>5, <2>6
  <1>3. ASSUME NEW h \in Panel, Swap(h)
        PROVE  UNCHANGED <<points, create, status>>
    BY <1>3 DEF Swap, page
  <1>4. ASSUME NEW w \in Wallet, ValidateUser(w)
        PROVE  /\ UNCHANGED <<points, create>>
               /\ \A u \in User : status[u] # "none" => status'[u] # "none"
    BY <1>4 DEF ValidateUser, page, Typed
  <1>5. CASE UNCHANGED vars
    BY <1>5 DEF vars, page, server
  <1>. QED  BY <1>1, <1>2, <1>3, <1>4, <1>5, NextCases

LEMMA BackedStays ==
    ASSUME Typed, Rows, Held, [Next]_vars, NEW u \in User,
           Backed(u, points, create, status)
    PROVE  /\ Backed(u, points', create', status')
           /\ create'[u].wallet = create[u].wallet
  <1>1. PICK v \in User :
            status[v] # "none" /\ create[v].wallet = create[u].wallet
    BY DEF Backed, Known
  <1>2. create[u].at # "unsent" /\ create[v].at # "unsent"
    BY <1>1 DEF Backed, Held, Reached, Rows, Declared
  <1>3. /\ create'[u].wallet = create[u].wallet
        /\ create'[v].wallet = create[v].wallet
        /\ status'[v] # "none" /\ u \in points'
    BY <1>1, <1>2, StepKeeps DEF Backed
  <1>. QED  BY <1>1, <1>3 DEF Backed, Known

LEMMA FitStays ==
    ASSUME Typed, Rows, Held, [Next]_vars, NEW d \in Storage,
           Fit(d, points, create, status)
    PROVE  Fit(d, points', create', status')
  <1>. SUFFICES ASSUME d # None
                PROVE  Fit(d, points', create', status')
    BY DEF Fit
  <1>1. d.user \in User /\ Backed(d.user, points, create, status)
    BY DEF Fit, Storage, UserData
  <1>2. /\ Backed(d.user, points', create', status')
        /\ create'[d.user].wallet = create[d.user].wallet
    BY <1>1, BackedStays
  <1>. QED  BY <1>2 DEF Fit

\* A session saved for a user that is backed.
LEMMA FitSaved ==
    ASSUME Typed, Rows, Held, [Next]_vars, NEW u \in User, NEW x,
           Backed(u, points, create, status)
    PROVE  Fit([user |-> u, wallet |-> x], points', create', status')
  <1>1. /\ Backed(u, points', create', status')
        /\ create'[u].wallet = create[u].wallet
    BY BackedStays
  <1>. QED  BY <1>1 DEF Fit

\* What the steps of the page have to keep; the server's part is PageReached.
PageHeld == PageTyped /\ Visible /\ AllFit

LEMMA HookParts ==
    ASSUME hook \in [Panel -> Hook], NEW h \in Panel
    PROVE  /\ hook[h] \in Hook /\ hook[h].data \in Storage
           /\ Queried(hook[h].data) =>
                 hook[h].data # None /\ hook[h].data \in UserData
           /\ hook[h].data # None => hook[h].data.user \in User
  BY DEF Hook, Storage, UserData, Queried

LEMMA ConnectHeld ==
    ASSUME Typed, Rows, Held, NEW w \in Address, Connect(w), [Next]_vars
    PROVE  PageHeld'
  <1>. DEFINE pg == Commit(w, hook)
  <1>1. Switched(pg, Panels, w)
    BY CommitEffect DEF Held, PageTyped
  <1>. HIDE DEF pg
  <1>2. /\ address' = w /\ storage' = pg.storage /\ hook' = pg.hook
        /\ create' = [u \in User |->
               IF create[u].panel = None THEN create[u]
               ELSE [create[u] EXCEPT !.address = w]]
        /\ UNCHANGED <<cache, points, status, valid, swap, raced>>
    BY DEF Connect, pg, server
  <1>3. \A h \in Panel : Queried(hook[h].data) => hook[h].data.user \in User
    BY HookParts DEF Held, PageTyped
  <1>4. PageTyped'
    <2>1. storage' \in Storage /\ hook' \in [Panel -> Hook]
      BY <1>1, <1>2 DEF Switched, Pages
    <2>. QED  BY <1>2, <2>1 DEF Held, PageTyped
  <1>5. Visible'
    <2>1. ASSUME NEW h \in Panel
          PROVE  /\ hook'[h].status = hook[h].status
                 /\ hook'[h].status = "gone" => hook'[h].data = None
                 /\ hook'[h].data # None => hook'[h].data.wallet = w
      <3>1. h <= Panels
        BY SessionAssumption DEF SessionAssumption, Panel
      <3>2. hook[h].status = "gone" => hook[h].data = None
        BY DEF Held, Visible
      <3>. QED  BY <1>1, <1>2, <3>1, <3>2 DEF Switched
    <2>2. ASSUME NEW u \in User, create'[u].panel # None
          PROVE  /\ create[u].panel # None
                 /\ create'[u].panel = create[u].panel
                 /\ create'[u].address = w /\ create[u].panel \in Panel
      <3>1. create[u] \in CreationType
        BY DEF Typed
      <3>2. create'[u] = IF create[u].panel = None THEN create[u]
                         ELSE [create[u] EXCEPT !.address = w]
        BY <1>2
      <3>3. CASE create[u].panel = None
        BY <2>2, <3>2, <3>3
      <3>4. CASE create[u].panel # None
        <4>1. create'[u] = [create[u] EXCEPT !.address = w]
          BY <3>2, <3>4
        <4>. QED  BY <3>1, <3>4, <4>1 DEF CreationType
      <3>. QED  BY <3>3, <3>4
    <2>3. ASSUME NEW u \in User, create'[u].panel # None
          PROVE  /\ hook'[create'[u].panel].status # "gone"
                 /\ create'[u].address = address'
      <3>1. hook[create[u].panel].status # "gone"
        BY <2>2, <2>3 DEF Held, Visible
      <3>. QED  BY <1>2, <2>1, <2>2, <2>3, <3>1
    <2>. QED  BY <1>2, <2>1, <2>3 DEF Visible
  <1>6. ASSUME NEW d \in Storage, From(d, w)
        PROVE  Fit(d, points', create', status')
    <2>1. CASE d = None
      BY <2>1 DEF Fit
    <2>2. CASE d = storage
      BY <2>2, FitStays DEF Held, AllFit
    <2>3. ASSUME NEW h \in Panel, Queried(hook[h].data),
                 d = Saved(w, hook[h].data)
          PROVE  Fit(d, points', create', status')
      <3>. DEFINE u == hook[h].data.user
      <3>1. u \in User /\ hook[h].data # None
        BY <1>3, <2>3 DEF Queried
      <3>2. Backed(u, points, create, status)
        BY <3>1 DEF Held, AllFit, Fit
      <3>3. d = [user |-> u, wallet |-> w]
        BY <2>3 DEF Saved
      <3>. HIDE DEF u
      <3>. QED  BY <3>1, <3>2, <3>3, FitSaved
    <2>. QED  BY <1>6, <2>1, <2>2, <2>3 DEF From
  <1>7. AllFit'
    <2>1. Fit(storage', points', create', status')
      BY <1>1, <1>2, <1>4, <1>6 DEF Switched, PageTyped
    <2>2. ASSUME NEW h \in Panel
          PROVE  Fit(hook'[h].data, points', create', status')
      <3>1. h <= Panels /\ hook[h].data \in Storage
        BY HookParts, SessionAssumption
           DEF SessionAssumption, Panel, Held, PageTyped
      <3>2. CASE hook[h].status = "gone"
        <4>1. hook'[h] = hook[h]
          BY <1>1, <1>2, <3>2 DEF Switched
        <4>. QED  BY <3>1, <4>1, FitStays DEF Held, AllFit
      <3>3. CASE hook[h].status # "gone"
        <4>1. From(hook'[h].data, w)
          BY <1>1, <1>2, <3>1, <3>3 DEF Switched
        <4>2. hook'[h].data \in Storage
          BY <1>4 DEF PageTyped, Hook
        <4>. QED  BY <1>6, <4>1, <4>2
      <3>. QED  BY <3>2, <3>3
    <2>. QED  BY <2>1, <2>2 DEF AllFit
  <1>. QED  BY <1>4, <1>5, <1>7 DEF PageHeld

LEMMA MountHeld ==
    ASSUME Typed, Rows, Held, NEW h \in Panel, Mount(h), [Next]_vars
    PROVE  PageHeld'
  <1>. DEFINE k0 == [hook EXCEPT ![h] = NewHook]
              pg == [storage |-> storage, hook |-> k0]
  <1>1. NewHook \in Hook /\ NewHook.data = None /\ ~Queried(None)
    BY DEF NewHook, Hook, Storage, Queried
  <1>2. /\ k0 \in [Panel -> Hook] /\ pg \in Pages /\ k0[h].data = None
        /\ pg.hook = k0 /\ pg.storage = storage
    BY <1>1 DEF Held, PageTyped, Pages
  <1>3. /\ storage' = Effects(address, pg, h).storage
        /\ hook' = Effects(address, pg, h).hook
        /\ UNCHANGED <<address, cache, create, points, status,
                       valid, swap, raced>>
    BY DEF Mount, server
  <1>4. address \in Address
    BY DEF Typed
  <1>. HIDE DEF pg
  <1>5. PICK x, y \in Storage :
              /\ Effects(address, pg, h)
                    = [storage |-> y, hook |-> [pg.hook EXCEPT ![h].data = x]]
              /\ x # None => x.wallet = address
              /\ \/ x \in {None, pg.storage}
                 \/ /\ Queried(pg.hook[h].data)
                    /\ x = Saved(address, pg.hook[h].data)
              /\ \/ y \in {None, pg.storage}
                 \/ /\ Queried(pg.hook[h].data)
                    /\ y = Saved(address, pg.hook[h].data)
    BY <1>2, <1>4, EffectsAre
  <1>6. /\ x \in {None, storage} /\ y \in {None, storage}
        /\ x # None => x.wallet = address
    BY <1>1, <1>2, <1>5
  <1>7. /\ storage' = y /\ hook' \in [Panel -> Hook]
        /\ hook'[h].data = x /\ hook'[h].status # "gone"
        /\ \A g \in Panel \ {h} : hook'[g] = hook[g]
    <2>1. hook' = [k0 EXCEPT ![h].data = x] /\ storage' = y
      BY <1>2, <1>3, <1>5
    <2>2. k0[h].status = "idle" /\ \A g \in Panel \ {h} : k0[g] = hook[g]
      BY DEF NewHook, Held, PageTyped
    <2>. HIDE DEF k0
    <2>. QED  BY <1>2, <2>1, <2>2 DEF Hook
  <1>. HIDE DEF k0
  <1>8. PageTyped'
    BY <1>3, <1>7 DEF Held, PageTyped
  <1>9. Visible'
    <2>1. \A u \in User : create[u].panel # None => create[u].panel \in Panel
      BY DEF Typed, CreationType
    <2>2. \A g \in Panel :
             /\ hook'[g].status = "gone" => hook'[g].data = None
             /\ hook'[g].data # None => hook'[g].data.wallet = address'
             /\ hook[g].status # "gone" => hook'[g].status # "gone"
      BY <1>3, <1>6, <1>7 DEF Held, Visible
    <2>. QED  BY <1>3, <2>1, <2>2 DEF Held, Visible
  <1>10. AllFit'
    <2>1. \A d \in {None, storage} :
             Fit(d, points', create', status')
      BY FitStays DEF Held, AllFit, PageTyped, Fit
    <2>2. ASSUME NEW g \in Panel \ {h}
          PROVE  Fit(hook'[g].data, points', create', status')
      BY <1>7, HookParts, FitStays DEF Held, AllFit, PageTyped
    <2>. QED  BY <1>6, <1>7, <2>1, <2>2 DEF AllFit
  <1>. QED  BY <1>8, <1>9, <1>10 DEF PageHeld

LEMMA UnmountHeld ==
    ASSUME Typed, Rows, Held, NEW h \in Panel, Unmount(h), [Next]_vars
    PROVE  PageHeld'
  <1>1. /\ hook' = [hook EXCEPT ![h] = Gone]
        /\ create' = [u \in User |->
               IF create[u].panel = h THEN [create[u] EXCEPT !.panel = None]
               ELSE create[u]]
        /\ UNCHANGED <<address, storage, cache, points, status,
                       valid, swap, raced>>
    BY DEF Unmount, server
  <1>2. Gone \in Hook /\ Gone.data = None /\ Gone.status = "gone"
    BY DEF Gone, Hook, Storage
  <1>3. /\ hook' \in [Panel -> Hook] /\ hook'[h] = Gone
        /\ \A g \in Panel \ {h} : hook'[g] = hook[g]
    BY <1>1, <1>2 DEF Held, PageTyped
  <1>4. PageTyped'
    BY <1>1, <1>3 DEF Held, PageTyped
  <1>5. ASSUME NEW u \in User, create'[u].panel # None
        PROVE  create'[u] = create[u] /\ create[u].panel \in Panel \ {h}
    <2>1. create[u] \in CreationType
      BY DEF Typed
    <2>2. create'[u] = IF create[u].panel = h
                       THEN [create[u] EXCEPT !.panel = None] ELSE create[u]
      BY <1>1
    <2>. QED  BY <1>5, <2>1, <2>2 DEF CreationType
  <1>6. Visible'
    BY <1>1, <1>2, <1>3, <1>5 DEF Held, Visible
  <1>7. AllFit'
    <2>1. ASSUME NEW g \in Panel
          PROVE  Fit(hook'[g].data, points', create', status')
      <3>1. CASE g = h
        BY <1>2, <1>3, <3>1 DEF Fit
      <3>2. CASE g # h
        BY <1>3, <3>2, HookParts, FitStays DEF Held, AllFit, PageTyped
      <3>. QED  BY <3>1, <3>2
    <2>2. Fit(storage, points', create', status')
      BY FitStays DEF Held, AllFit, PageTyped
    <2>. QED  BY <1>1, <2>1, <2>2 DEF AllFit
  <1>. QED  BY <1>4, <1>6, <1>7 DEF PageHeld

LEMMA ReloadHeld ==
    ASSUME Typed, Rows, Held, Reload, [Next]_vars
    PROVE  PageHeld'
  <1>1. /\ hook' = [h \in Panel |-> Gone] /\ cache' = {}
        /\ create' = [u \in User |->
               [create[u] EXCEPT !.panel = None, !.waits = FALSE]]
        /\ UNCHANGED <<storage, points, status, valid, swap, raced>>
    BY DEF Reload, server
  <1>2. Gone \in Hook /\ Gone.data = None
    BY DEF Gone, Hook, Storage
  <1>3. PageTyped'
    BY <1>1, <1>2 DEF Held, PageTyped
  <1>4. \A u \in User : create'[u].panel = None
    BY <1>1 DEF Typed, CreationType
  <1>5. Visible'
    BY <1>1, <1>2, <1>4 DEF Visible
  <1>6. AllFit'
    <2>1. Fit(storage, points', create', status')
      BY FitStays DEF Held, AllFit, PageTyped
    <2>. QED  BY <1>1, <1>2, <2>1 DEF AllFit, Fit
  <1>. QED  BY <1>3, <1>5, <1>6 DEF PageHeld

LEMMA SendHeld ==
    ASSUME Typed, Rows, Held, NEW h \in Panel, NEW u \in User,
           createUser(h, u), [Next]_vars
    PROVE  PageHeld'
  <1>1. /\ hook[h].status # "gone"
        /\ hook' = [hook EXCEPT ![h].status = "loading"]
        /\ create' = [create EXCEPT ![u] = createUserPoint(h)]
        /\ UNCHANGED <<address, storage, cache, points, status,
                       valid, swap, raced>>
    BY DEF createUser, server, FormShown, Mounted
  <1>2. /\ hook' \in [Panel -> Hook]
        /\ \A g \in Panel : /\ hook'[g].data = hook[g].data
                            /\ hook'[g].status = "gone" =>
                                  hook[g].status = "gone" /\ g # h
    BY <1>1 DEF Held, PageTyped, Hook
  <1>3. PageTyped'
    BY <1>1, <1>2 DEF Held, PageTyped
  <1>4. Visible'
    <2>1. create'[u].panel = h /\ create'[u].address = address
      BY <1>1 DEF Typed, createUserPoint
    <2>2. \A v \in User \ {u} : create'[v] = create[v]
      BY <1>1 DEF Typed
    <2>3. \A v \in User : create[v].panel # None => create[v].panel \in Panel
      BY DEF Typed, CreationType
    <2>. QED  BY <1>1, <1>2, <2>1, <2>2, <2>3 DEF Held, Visible
  <1>5. AllFit'
    <2>1. Fit(storage, points', create', status')
      BY FitStays DEF Held, AllFit, PageTyped
    <2>2. \A g \in Panel :
             Fit(hook[g].data, points', create', status')
      BY HookParts, FitStays DEF Held, AllFit, PageTyped
    <2>. QED  BY <1>1, <1>2, <2>1, <2>2 DEF AllFit
  <1>. QED  BY <1>3, <1>4, <1>5 DEF PageHeld

LEMMA CreatedHeld ==
    ASSUME Typed, Rows, Held, NEW u \in User, Created(u), [Next]_vars
    PROVE  PageHeld'
  <1>. DEFINE c == create[u]
              d == [user |-> u, wallet |-> c.address]
  <1>1. /\ c.at = "done" /\ storage' = d
        /\ hook' = IF c.panel = None THEN hook
                   ELSE [hook EXCEPT ![c.panel] =
                            [data |-> d, status |-> "success"]]
        /\ create' = [create EXCEPT ![u].waits = FALSE]
        /\ UNCHANGED <<address, cache, points, status, valid, swap, raced>>
    BY DEF Created, server
  <1>2. c \in CreationType
    BY DEF Typed
  <1>3. d \in Storage /\ [data |-> d, status |-> "success"] \in Hook
    BY <1>2 DEF CreationType, Storage, UserData, Hook
  <1>4. Fit(d, points', create', status')
    <2>1. Backed(u, points, create, status)
      BY <1>1 DEF Held, Reached
    <2>. QED  BY <2>1, FitSaved
  <1>5. d.wallet = c.address
    OBVIOUS
  <1>6. /\ hook' \in [Panel -> Hook]
        /\ \A h \in Panel :
              \/ hook'[h] = hook[h]
              \/ /\ c.panel = h /\ h # None
                 /\ hook'[h].data = d /\ hook'[h].status = "success"
    <2>1. c.panel # None => c.panel \in Panel
      BY <1>2 DEF CreationType
    <2>. HIDE DEF c, d
    <2>. QED  BY <1>1, <1>3, <2>1 DEF Held, PageTyped
  <1>7. \A v \in User : /\ create'[v].panel = create[v].panel
                        /\ create'[v].address = create[v].address
    BY <1>1 DEF Typed, CreationType
  <1>8. c.panel # None => c.address = address
    BY DEF Held, Visible
  <1>. HIDE DEF c, d
  <1>9. PageTyped'
    BY <1>1, <1>3, <1>6 DEF Held, PageTyped
  <1>10. Visible'
    <2>1. \A h \in Panel : hook[h].status # "gone" => hook'[h].status # "gone"
      BY <1>6
    <2>2. \A v \in User : create[v].panel # None => create[v].panel \in Panel
      BY DEF Typed, CreationType
    <2>3. \A h \in Panel : hook'[h].status = "gone" => hook'[h] = hook[h]
      BY <1>6
    <2>4. \A h \in Panel :
             hook'[h].data # None => hook'[h].data.wallet = address
      BY <1>5, <1>6, <1>8 DEF Held, Visible
    <2>. QED  BY <1>1, <1>7, <2>1, <2>2, <2>3, <2>4 DEF Held, Visible
  <1>11. AllFit'
    <2>1. ASSUME NEW h \in Panel
          PROVE  Fit(hook'[h].data, points', create', status')
      <3>1. CASE hook'[h].data = d
        BY <1>4, <3>1
      <3>2. CASE hook'[h] = hook[h]
        BY <3>2, HookParts, FitStays DEF Held, AllFit, PageTyped
      <3>. QED  BY <1>6, <3>1, <3>2
    <2>. QED  BY <1>1, <1>4, <2>1 DEF AllFit
  <1>. QED  BY <1>9, <1>10, <1>11 DEF PageHeld

LEMMA FailsHeld ==
    ASSUME Typed, Rows, Held, NEW u \in User, CreateFails(u), [Next]_vars
    PROVE  PageHeld'
  <1>. DEFINE c == create[u]
  <1>1. /\ hook' = IF c.panel = None THEN hook
                   ELSE [hook EXCEPT ![c.panel].status = "error"]
        /\ create' = [create EXCEPT ![u].waits = FALSE]
        /\ UNCHANGED <<address, storage, cache, points, status,
                       valid, swap, raced>>
    BY DEF CreateFails, server
  <1>2. c.panel # None => c.panel \in Panel /\ hook[c.panel].status # "gone"
    BY DEF Typed, CreationType, Held, Visible
  <1>3. \A v \in User : /\ create'[v].panel = create[v].panel
                        /\ create'[v].address = create[v].address
    BY <1>1 DEF Typed, CreationType
  <1>. HIDE DEF c
  <1>4. /\ hook' \in [Panel -> Hook]
        /\ \A h \in Panel :
              /\ hook'[h].data = hook[h].data
              /\ hook'[h].status = "gone" <=> hook[h].status = "gone"
    BY <1>1, <1>2 DEF Held, PageTyped, Hook
  <1>5. PageTyped'
    BY <1>1, <1>4 DEF Held, PageTyped
  <1>6. Visible'
    <2>1. \A v \in User : create[v].panel # None => create[v].panel \in Panel
      BY DEF Typed, CreationType
    <2>. QED  BY <1>1, <1>3, <1>4, <2>1 DEF Held, Visible
  <1>7. AllFit'
    <2>1. Fit(storage, points', create', status')
      BY FitStays DEF Held, AllFit, PageTyped
    <2>2. \A g \in Panel :
             Fit(hook[g].data, points', create', status')
      BY HookParts, FitStays DEF Held, AllFit, PageTyped
    <2>. QED  BY <1>1, <1>4, <2>1, <2>2 DEF AllFit
  <1>. QED  BY <1>5, <1>6, <1>7 DEF PageHeld

LEMMA LoadedHeld ==
    ASSUME Typed, Rows, Held, NEW u \in User, UserLoaded(u), [Next]_vars
    PROVE  PageHeld'
  <1>. DEFINE named == {h \in Panel :
                           hook[h].data # None /\ hook[h].data.user = u}
              d == [user |-> u, wallet |-> address]
  <1>1. /\ named # {} /\ getUserPoints(u) # {}
        /\ cache' = cache \cup {u} /\ storage' = d
        /\ hook' = [h \in Panel |->
               IF h \in named THEN [hook[h] EXCEPT !.data = d] ELSE hook[h]]
        /\ UNCHANGED <<address, create, points, status, valid,
                       swap, raced>>
    BY DEF UserLoaded, server
  <1>2. d \in UserData /\ d \in Storage /\ d.wallet = address
    BY DEF UserData, Storage, Typed
  <1>3. u \in points
    BY <1>1 DEF getUserPoints
  <1>4. PICK g \in Panel : hook[g].data # None /\ hook[g].data.user = u
    BY <1>1
  <1>5. Fit(d, points', create', status')
    <2>1. Backed(u, points, create, status)
      BY <1>4 DEF Held, AllFit, Fit
    <2>. QED  BY <2>1, FitSaved
  <1>6. ASSUME NEW h \in Panel
        PROVE  /\ hook'[h] \in Hook
               /\ hook'[h].status = hook[h].status
               /\ \/ hook'[h].data = d /\ hook[h].data # None
                  \/ hook'[h].data = hook[h].data
    <2>1. hook[h] \in Hook
      BY DEF Held, PageTyped
    <2>2. hook'[h] = IF h \in named THEN [hook[h] EXCEPT !.data = d] ELSE hook[h]
      BY <1>1
    <2>3. h \in named => hook[h].data # None
      OBVIOUS
    <2>. HIDE DEF d, named
    <2>. QED  BY <1>2, <2>1, <2>2, <2>3 DEF Hook
  <1>. HIDE DEF d, named
  <1>7. PageTyped'
    <2>1. hook' \in [Panel -> Hook]
      BY <1>1, <1>6
    <2>. QED  BY <1>1, <1>2, <1>3, <2>1 DEF Held, PageTyped
  <1>8. Visible'
    <2>1. \A v \in User : create[v].panel # None => create[v].panel \in Panel
      BY DEF Typed, CreationType
    <2>2. \A h \in Panel :
             /\ hook'[h].status = "gone" => hook'[h].data = None
             /\ hook'[h].data # None => hook'[h].data.wallet = address
      BY <1>2, <1>6 DEF Held, Visible
    <2>. QED  BY <1>1, <1>6, <2>1, <2>2 DEF Held, Visible
  <1>9. AllFit'
    <2>1. ASSUME NEW h \in Panel
          PROVE  Fit(hook'[h].data, points', create', status')
      <3>1. CASE hook'[h].data = d
        BY <1>5, <3>1
      <3>2. CASE hook'[h].data = hook[h].data
        BY <3>2, HookParts, FitStays DEF Held, AllFit, PageTyped
      <3>. QED  BY <1>6, <3>1, <3>2
    <2>. QED  BY <1>1, <1>5, <2>1 DEF AllFit
  <1>. QED  BY <1>7, <1>8, <1>9 DEF PageHeld

LEMMA ClearHeld ==
    ASSUME Typed, Rows, Held, NEW h \in Panel, clearUserData(h), [Next]_vars
    PROVE  PageHeld'
  <1>1. /\ hook[h].data # None /\ storage' = None
        /\ hook' = [hook EXCEPT ![h] = NewHook]
        /\ UNCHANGED <<address, cache, create, points, status,
                       valid, swap, raced>>
    BY DEF clearUserData, server
  <1>2. NewHook \in Hook /\ NewHook.data = None /\ NewHook.status # "gone"
    BY DEF NewHook, Hook, Storage
  <1>3. /\ hook' \in [Panel -> Hook] /\ hook'[h] = NewHook
        /\ \A g \in Panel \ {h} : hook'[g] = hook[g]
    BY <1>1, <1>2 DEF Held, PageTyped
  <1>4. PageTyped'
    BY <1>1, <1>3 DEF Held, PageTyped, Storage
  <1>5. Visible'
    <2>1. \A v \in User : create[v].panel # None => create[v].panel \in Panel
      BY DEF Typed, CreationType
    <2>. QED  BY <1>1, <1>2, <1>3, <2>1 DEF Held, Visible
  <1>6. AllFit'
    <2>1. ASSUME NEW g \in Panel
          PROVE  Fit(hook'[g].data, points', create', status')
      <3>1. CASE g = h
        BY <1>2, <1>3, <3>1 DEF Fit
      <3>2. CASE g # h
        BY <1>3, <3>2, HookParts, FitStays DEF Held, AllFit, PageTyped
      <3>. QED  BY <3>1, <3>2
    <2>. QED  BY <1>1, <2>1 DEF AllFit, Fit
  <1>. QED  BY <1>4, <1>5, <1>6 DEF PageHeld

LEMMA PageReached ==
    ASSUME Typed, Rows, Held, PageMoves, [Next]_vars
    PROVE  Reached'
  <1>1. points' = points /\ status' = status
    BY PageKeeps DEF server
  <1>2. ASSUME NEW u \in User, Kept(u)
        PROVE  /\ create'[u].at # "unsent" => create'[u].wallet \in Wallet
               /\ u \in points =>
                     create'[u].at \in {"declare", "failed", "done"}
               /\ create'[u].at = "known" => Known(u, create', status')
               /\ create'[u].at \in {"declare", "done"} =>
                     Backed(u, points', create', status')
    <2>1. create'[u].at = create[u].at /\ create'[u].wallet = create[u].wallet
      BY <1>2 DEF Kept
    <2>2. create'[u].at = "known" => Known(u, create', status')
      <3>. SUFFICES ASSUME create[u].at = "known"
                    PROVE  Known(u, create', status')
        BY <2>1
      <3>1. PICK v \in User :
                status[v] # "none" /\ create[v].wallet = create[u].wallet
        BY DEF Held, Reached, Known
      <3>2. create'[v].wallet = create[v].wallet
        BY <3>1, StepKeeps DEF Rows, Declared
      <3>. QED  BY <1>1, <2>1, <3>1, <3>2 DEF Known
    <2>3. create[u].at \in {"declare", "done"} =>
             Backed(u, points', create', status')
      BY BackedStays DEF Held, Reached
    <2>. QED  BY <2>1, <2>2, <2>3 DEF Held, Reached
  <1>3. ASSUME NEW u \in User, SentNow(u)
        PROVE  /\ create'[u].at = "sent" /\ create'[u].wallet \in Wallet
               /\ u \notin points
    BY <1>3 DEF SentNow, Held, Reached
  <1>. QED  BY <1>1, <1>2, <1>3, PageKeeps DEF Reached

LEMMA PageStepHeld ==
    ASSUME Typed, Rows, Held, PageMoves, [Next]_vars
    PROVE  Held'
  <1>1. PageHeld'
    BY ConnectHeld, MountHeld, UnmountHeld, ReloadHeld, SendHeld, CreatedHeld,
       FailsHeld, LoadedHeld, ClearHeld DEF PageMoves
  <1>. QED  BY <1>1, PageReached DEF Held, PageHeld

\* A step that changes neither the page nor a field of a creation but its
\* stage leaves what the page holds as it was.
LEMMA PageRests ==
    ASSUME Typed, Rows, Held, [Next]_vars, UNCHANGED page, PageTyped',
           \A u \in User : /\ create'[u].panel = create[u].panel
                           /\ create'[u].address = create[u].address
    PROVE  PageHeld'
  <1>1. UNCHANGED <<address, storage, hook, cache>>
    BY DEF page
  <1>2. Visible'
    BY <1>1 DEF Held, Visible
  <1>3. AllFit'
    <2>1. Fit(storage, points', create', status')
      BY FitStays DEF Held, AllFit, PageTyped
    <2>2. \A h \in Panel :
             Fit(hook[h].data, points', create', status')
      BY HookParts, FitStays DEF Held, AllFit, PageTyped
    <2>. QED  BY <1>1, <2>1, <2>2 DEF AllFit
  <1>. QED  BY <1>2, <1>3 DEF PageHeld

LEMMA ServerStepHeld ==
    ASSUME Typed, Rows, Held, NEW u \in User, Handler(u) \/ Crash(u),
           [Next]_vars
    PROVE  Held'
  <1>0. PICK at \in Stage \ {"unsent"} : create' = [create EXCEPT ![u].at = at]
    BY ServerMoves
  <1>1. /\ create'[u].at = at /\ create'[u].wallet = create[u].wallet
        /\ \A v \in User \ {u} : create'[v] = create[v]
        /\ \A v \in User : /\ create'[v].panel = create[v].panel
                           /\ create'[v].address = create[v].address
    BY <1>0 DEF Typed, CreationType
  <1>2. UNCHANGED page /\ swap' = swap
    BY ServerMoves
  <1>3. create[u].at # "unsent" /\ create[u].wallet \in Wallet
    BY DEF Handler, Crash, FindUser, CreateCommits, SetValidUser,
           SetValidFails, Held, Reached
  <1>4. PageTyped'
    <2>1. points \subseteq points' /\ points' \subseteq points \cup {u}
      BY DEF Handler, Crash, FindUser, CreateCommits, SetValidUser,
             SetValidFails, NewPoint, server
    <2>2. valid' \subseteq valid \cup {create[u].wallet}
      BY DEF Handler, Crash, FindUser, CreateCommits, SetValidUser,
             SetValidFails, server
    <2>3. raced' \subseteq raced \cup User
      BY DEF Handler, Crash, FindUser, CreateCommits, SetValidUser,
             SetValidFails, Twins, server
    <2>. QED
      BY <1>2, <1>3, <2>1, <2>2, <2>3 DEF page, Held, PageTyped
  <1>5. PageHeld'
    BY <1>1, <1>2, <1>4, PageRests
  <1>6. Reached'
    <2>1. ASSUME NEW v \in User \ {u}
          PROVE  /\ create'[v].at # "unsent" => create'[v].wallet \in Wallet
                 /\ v \in points' =>
                       create'[v].at \in {"declare", "failed", "done"}
                 /\ create'[v].at = "known" => Known(v, create', status')
                 /\ create'[v].at \in {"declare", "done"} =>
                       Backed(v, points', create', status')
      <3>1. create'[v] = create[v]
        BY <1>1
      <3>2. v \in points' => v \in points
        BY DEF Handler, Crash, FindUser, CreateCommits, SetValidUser,
               SetValidFails, NewPoint, server
      <3>3. create[v].at = "known" => Known(v, create', status')
        <4>. SUFFICES ASSUME create[v].at = "known"
                      PROVE  Known(v, create', status')
          OBVIOUS
        <4>1. PICK t \in User :
                  status[t] # "none" /\ create[t].wallet = create[v].wallet
          BY DEF Held, Reached, Known
        <4>2. status'[t] # "none" /\ create'[t].wallet = create[t].wallet
          BY <4>1, StepKeeps DEF Rows, Declared
        <4>. QED  BY <3>1, <4>1, <4>2 DEF Known
      <3>4. create[v].at \in {"declare", "done"} =>
               Backed(v, points', create', status')
        BY BackedStays DEF Held, Reached
      <3>. QED  BY <3>1, <3>2, <3>3, <3>4 DEF Held, Reached
    <2>2. /\ create'[u].wallet \in Wallet
          /\ u \in points' => create'[u].at \in {"declare", "failed", "done"}
          /\ create'[u].at = "known" => Known(u, create', status')
          /\ create'[u].at \in {"declare", "done"} =>
                Backed(u, points', create', status')
      <3>1. create'[u].wallet \in Wallet
        BY <1>1, <1>3
      <3>2. CASE FindUser(u)
        <4>1. /\ points' = points /\ status' = status
              /\ create[u].at = "sent" /\ at \in {"known", "new"}
              /\ at = "known" => Registered(create[u].wallet) # {}
          BY <1>1, <3>2 DEF FindUser, server, Typed, CreationType
        <4>2. u \notin points'
          BY <4>1 DEF Held, Reached
        <4>3. ASSUME at = "known"  PROVE Known(u, create', status')
          <5>1. PICK v \in User :
                    status[v] # "none" /\ create[v].wallet = create[u].wallet
            BY <4>1, <4>3 DEF Registered
          <5>2. create'[v].wallet = create[v].wallet
            BY <1>1
          <5>. QED  BY <1>1, <4>1, <5>1, <5>2 DEF Known
        <4>. QED  BY <1>1, <3>1, <4>1, <4>2, <4>3
      <3>3. CASE CreateCommits(u)
        <4>1. /\ points' = points \cup {u} /\ at \in {"declare", "done"}
              /\ \/ status' = [status EXCEPT ![u] = "pending"]
                 \/ create[u].at = "known" /\ status' = status
          BY <1>1, <3>3 DEF CreateCommits, NewPoint, NewUser, Typed,
                            CreationType
        <4>2. Known(u, create', status')
          <5>1. CASE status' = [status EXCEPT ![u] = "pending"]
            <6>1. status'[u] # "none"
              BY <5>1 DEF Typed
            <6>. QED  BY <6>1 DEF Known
          <5>2. CASE create[u].at = "known" /\ status' = status
            <6>1. PICK v \in User :
                      status[v] # "none" /\ create[v].wallet = create[u].wallet
              BY <5>2 DEF Held, Reached, Known
            <6>2. create'[v].wallet = create[v].wallet
              BY <1>1
            <6>. QED  BY <1>1, <5>2, <6>1, <6>2 DEF Known
          <5>. QED  BY <4>1, <5>1, <5>2
        <4>. QED  BY <1>1, <3>1, <4>1, <4>2 DEF Backed
      <3>4. CASE SetValidUser(u) \/ SetValidFails(u)
        <4>1. create[u].at = "declare" /\ at \in {"done", "failed"}
          BY <1>1, <3>4 DEF SetValidUser, SetValidFails, Typed, CreationType
        <4>2. Backed(u, points', create', status')
          BY <4>1, BackedStays DEF Held, Reached
        <4>. QED  BY <1>1, <3>1, <4>1, <4>2 DEF Backed
      <3>5. CASE Crash(u)
        <4>1. at = "failed"
          BY <1>1, <3>5 DEF Crash, Typed, CreationType
        <4>. QED  BY <1>1, <3>1, <4>1
      <3>. QED  BY <3>2, <3>3, <3>4, <3>5 DEF Handler
    <2>. QED  BY <2>1, <2>2 DEF Reached
  <1>. QED  BY <1>5, <1>6 DEF Held, PageHeld

LEMMA OtherStepHeld ==
    ASSUME Typed, Rows, Held, [Next]_vars, UNCHANGED page, create' = create,
           points' = points, valid' = valid, raced' = raced,
           swap' \in [user : User, wallet : Wallet] \cup {None}
    PROVE  Held'
  <1>1. PageTyped'
    BY DEF page, Held, PageTyped
  <1>2. PageHeld'
    BY <1>1, PageRests
  <1>3. Reached'
    <2>1. ASSUME NEW u \in User, create[u].at = "known"
          PROVE  Known(u, create', status')
      <3>1. PICK v \in User :
                status[v] # "none" /\ create[v].wallet = create[u].wallet
        BY <2>1 DEF Held, Reached, Known
      <3>2. status'[v] # "none"
        BY <3>1, StepKeeps
      <3>. QED  BY <3>1, <3>2 DEF Known
    <2>2. \A u \in User : create[u].at \in {"declare", "done"} =>
             Backed(u, points', create', status')
      BY BackedStays DEF Held, Reached
    <2>. QED  BY <2>1, <2>2 DEF Held, Reached
  <1>. QED  BY <1>2, <1>3 DEF Held, PageHeld

LEMMA HeldStep == Typed /\ Rows /\ Held /\ [Next]_vars => Held'
  <1>. SUFFICES ASSUME Typed, Rows, Held, [Next]_vars  PROVE Held'
    OBVIOUS
  <1>1. ASSUME NEW h \in Panel, Swap(h)  PROVE Held'
    <2>1. /\ UNCHANGED page /\ create' = create /\ points' = points
          /\ valid' = valid /\ raced' = raced
          /\ hook[h].data # None /\ address \in Wallet
          /\ swap' = [user |-> hook[h].data.user, wallet |-> address]
      BY <1>1 DEF Swap, Typed, Address
    <2>2. hook[h].data.user \in User
      BY <2>1, HookParts DEF Held, PageTyped
    <2>. QED  BY <2>1, <2>2, OtherStepHeld
  <1>2. ASSUME NEW w \in Wallet, ValidateUser(w)  PROVE Held'
    <2>1. /\ UNCHANGED page /\ create' = create /\ points' = points
          /\ valid' = valid /\ raced' = raced /\ swap' = swap
      BY <1>2 DEF ValidateUser
    <2>. QED  BY <2>1, OtherStepHeld DEF Held, PageTyped
  <1>3. CASE UNCHANGED vars
    BY <1>3, OtherStepHeld DEF vars, server, Held, PageTyped
  <1>. QED
    BY <1>1, <1>2, <1>3, PageStepHeld, ServerStepHeld, NextCases

LEMMA HeldInit == Init => Held
  <1>. SUFFICES ASSUME Init  PROVE Held
    OBVIOUS
  <1>1. Gone \in Hook /\ Gone.data = None
    BY DEF Gone, Hook, Storage
  <1>2. NoCreation.panel = None /\ NoCreation.at = "unsent"
    BY DEF NoCreation
  <1>3. PageTyped
    BY <1>1 DEF Init, PageTyped, Storage
  <1>4. Visible /\ Reached /\ AllFit
    BY <1>1, <1>2 DEF Init, Visible, Reached, AllFit, Fit
  <1>. QED  BY <1>3, <1>4 DEF Held

LEMMA HeldHolds == Spec => [](Typed /\ Rows /\ Held)
  <1>1. Init => Typed /\ Rows /\ Held
    BY InitType, RowsInit, HeldInit
  <1>2. Typed /\ Rows /\ Held /\ [Next]_vars => Typed' /\ Rows' /\ Held'
    BY TypeStep, RowsStep, HeldStep
  <1>. QED  BY <1>1, <1>2, PTL DEF Spec

-----------------------------------------------------------------------------
\* Whatever wallets are switched, tabs opened, creations raced or repeated and
\* declarations lost, depositPoints and withdrawPoints accept a swap only for
\* a user with a point row and a wallet that the contract holds valid: users
\* become valid by the event of the declaration alone.
THEOREM AcceptedAreDeclared == Spec => []AcceptedIsDeclared
  <1>1. Rows => AcceptedIsDeclared
    BY DEF Rows, SwapIsBacked, AcceptedIsDeclared
  <1>. QED  BY <1>1, RowsHold, PTL

\* A pending user's wallet is declared, or the call that declares it runs or
\* failed: createUserPoint leaves no other gap after its commit.
THEOREM NoPendingUndeclared == Spec => []PendingIsDeclared
  <1>1. Rows => PendingIsDeclared
    BY DEF Rows, Declared, PendingIsDeclared
  <1>. QED  BY <1>1, RowsHold, PTL

\* A wallet gets a second user only from creations that searched for the
\* first before it was committed.
THEOREM SecondUserOnlyByRace == Spec => []OneUserPerWallet
  <1>1. ASSUME OneEach, NEW w \in Wallet
        PROVE  Cardinality(Registered(w) \ raced) <= 1
    <2>1. \A u, v \in Registered(w) \ raced : u = v
      BY <1>1 DEF OneEach, Registered
    <2>2. CASE Registered(w) \ raced = {}
      BY <2>2, FS_EmptySet
    <2>3. CASE Registered(w) \ raced # {}
      <3>1. PICK u : u \in Registered(w) \ raced
        BY <2>3
      <3>2. Registered(w) \ raced = {u}
        BY <2>1, <3>1
      <3>. QED  BY <3>2, FS_Singleton
    <2>. QED  BY <2>2, <2>3
  <1>2. Rows => OneUserPerWallet
    BY <1>1 DEF Rows, OneUserPerWallet
  <1>. QED  BY <1>2, RowsHold, PTL

\* The variables keep their types; the creation's wallet is one of the
\* browser's when the server declares it, and a session names a user.
THEOREM SessionTypes == Spec => []TypeOK
  <1>1. Typed /\ Held => TypeOK
    BY DEF Typed, CreationType, Held, PageTyped, TypeOK, Creation
  <1>. QED  BY <1>1, HeldHolds, PTL

\* A session that a panel shows or the storage keeps names a user with a
\* point row whose wallet is registered: after lost answers, repeated
\* creations, switches of the wallet in an open page, reloads and crashes.
THEOREM SessionsAreBacked == Spec => []SessionIsBacked
  <1>1. ASSUME Held, NEW d \in Sessions \ {None}
        PROVE  d.user \in points /\ Registered(create[d.user].wallet) # {}
    <2>1. Fit(d, points, create, status)
      BY <1>1 DEF Held, AllFit, Sessions
    <2>. QED  BY <2>1 DEF Fit, Backed, Known, Registered
  <1>2. Held => SessionIsBacked
    BY <1>1 DEF SessionIsBacked
  <1>. QED  BY <1>2, HeldHolds, PTL
=============================================================================
