---------------------------- MODULE HistoryPages ----------------------------
(***************************************************************************)
(* The histories of the server, listed page by page while rows are added:  *)
(* grants, uses and swaps, with random ids and ordered by created_at, and  *)
(* the transactions of mints and burns, with serial ids and ordered by     *)
(* them.  The handler of a swap's event finds the swaps of a transaction   *)
(* in the newest page of all.                                              *)
(*                                                                         *)
(* A row is visible when its transaction commits; its time is the second   *)
(* in which that began.  Rows of equal time come in any order.  The        *)
(* filters by user and type choose a fixed part of a table: a table here   *)
(* is such a part.  Left out are the filter by status, and lastId with     *)
(* random ids: getWithPagination compares them although it orders by       *)
(* created_at, so that such a walk lists no part of a table in particular. *)
(***************************************************************************)
EXTENDS Naturals, FiniteSets, SequencesExt

CONSTANTS
    MaxRows,    \* bound: rows made
    MaxNow,     \* bound: seconds
    MaxEvents,  \* bound: events handled at a time
    Limit,      \* rows of a page
    Newest      \* rows that the handler of an event searches

ASSUME HistoryPagesAssumption ==
    /\ MaxRows \in Nat /\ MaxNow \in Nat \ {0} /\ MaxEvents \in Nat
    /\ Limit \in Nat \ {0} /\ Newest \in Nat \ {0}

Row    == 1..MaxRows
Serial == {"mints", "burns"}
Random == {"grants", "uses", "swaps"}
Table  == Serial \cup Random

\* Tables that meet in one statement.
Scope == {{"grants"}, {"uses"}, {"swaps", "mints"}, {"swaps", "burns"}}

\* A row: its table, whether it is committed, its time, whether it is
\* completed or confirmed; of a transaction the swap it was made for and its
\* hash, which is named by the first row that has it; of a swap the
\* transaction it refers to.
RowState ==
    [table : Table \cup {"none"}, at : {"unmade", "open", "there"},
     created : 0..MaxNow, done : BOOLEAN, of : {0} \cup Row,
     hash : {0} \cup Row, ref : {0} \cup Row]

NoRow == [table |-> "none", at |-> "unmade", created |-> 0, done |-> FALSE,
          of |-> 0, hash |-> 0, ref |-> 0]

NoWalk == [at |-> "idle", table |-> "none", by |-> "offset", order |-> "DESC",
           start |-> {}, listed |-> <<>>]

\* The history panel shows the first page; a client of the API may ask for
\* page after page, by lastId or by offset, in either order.
By == {"first", "lastId", "offset"}

VARIABLES
    scope,  \* the tables in use
    row,    \* the rows, in the order they were begun
    now,    \* the second
    walk,   \* the client
    found   \* the transactions each event in progress is about

vars == <<scope, row, now, walk, found>>

Init ==
    /\ scope \in Scope
    /\ row = [r \in Row |-> NoRow]
    /\ now = 1
    /\ walk = NoWalk
    /\ found = {}

-----------------------------------------------------------------------------
(***************************************************************************)
(* Rows.                                                                   *)
(***************************************************************************)
RowsOf(t)   == {r \in Row : row[r].table = t}
Visible(t)  == {r \in RowsOf(t) : row[r].at = "there"}
Unmade(r)   == row[r] = NoRow /\ \A s \in Row : s < r => row[s] # NoRow

\* Row r of table t is begun, for swap i or none, with hash h or none.
Begin(t, r, i, h) ==
    row' = [row EXCEPT ![r] = [table |-> t, at |-> "open", created |-> now,
                               done |-> FALSE, of |-> i, hash |-> h, ref |-> 0]]

\* grantPoint, consumePoint or a request for a swap.
Create(r) ==
    /\ Unmade(r)
    /\ \E t \in scope \cap Random : Begin(t, r, 0, 0)
    /\ UNCHANGED <<scope, now, walk, found>>

\* The hashes that were recorded.
Hashes == {row[s].hash : s \in Row} \ {0}

\* processSwapHistoryTransactions makes a transaction of a pending swap, with
\* the hash of its batch.  A message that is delivered again makes another
\* one; so does a swap that is sent again.  The rows of a batch are committed
\* together; here they may also be committed apart.
createTransaction(r, i) ==
    /\ Unmade(r)
    /\ i \in Visible("swaps") /\ ~row[i].done
    /\ \E t \in scope \cap Serial, h \in {r} \cup Hashes : Begin(t, r, i, h)
    /\ UNCHANGED <<scope, now, walk, found>>

\* The swap refers to the transaction from now on.  One that was loaded with
\* an earlier transaction is saved with that and the new id: which of them
\* TypeORM writes is left open.
Commit(r) ==
    /\ row[r].at = "open"
    /\ \E ref \in {r} \cup ({row[i].ref : i \in Row \cap {row[r].of}} \ {0}) :
          row' = [s \in Row |->
              IF s = r THEN [row[r] EXCEPT !.at = "there"]
              ELSE IF s = row[r].of THEN [row[s] EXCEPT !.ref = ref]
              ELSE row[s]]
    /\ UNCHANGED <<scope, now, walk, found>>

Tick ==
    /\ now < MaxNow
    /\ now' = now + 1
    /\ UNCHANGED <<scope, row, walk, found>>

-----------------------------------------------------------------------------
(***************************************************************************)
(* getWithPagination of the repositories.  Variants named "Wrong..." are   *)
(* mistakes the properties are checked to find; they are not part of the   *)
(* specification.                                                          *)
(***************************************************************************)
\* A mistake: the page begins with the last row of the one before.
WrongPast(order, last, r) ==
    \/ last = 0
    \/ IF order = "ASC" THEN r >= last ELSE r <= last

\* The condition on lastId, of row last; 0 without it.
Past(order, last, r) ==
    \/ last = 0
    \/ IF order = "ASC" THEN r > last ELSE r < last

\* The pages from offset on of the rows R, in the orders that respect the
\* relation before.
Pages(R, before, offset, limit) ==
    LET orders == {s \in SetToSeqs(R) :
                      \A m, n \in DOMAIN s : m < n => <<s[m], s[n]>> \in before}
        upto   == IF offset + limit < Cardinality(R) THEN offset + limit
                  ELSE Cardinality(R)
    IN  {SubSeq(s, offset + 1, upto) : s \in orders}

\* The answers for a table with random ids.
PagesByTime(t, order, offset, limit) ==
    LET R == Visible(t)
        before == {p \in R \X R :
                      IF order = "ASC" THEN row[p[1]].created <= row[p[2]].created
                      ELSE row[p[1]].created >= row[p[2]].created}
    IN  Pages(R, before, offset, limit)

\* The answers for a table with serial ids, which number its rows.
PagesById(t, order, last, offset, limit) ==
    LET R == {r \in Visible(t) : Past(order, last, r)}
        before == {p \in R \X R : IF order = "ASC" THEN p[1] < p[2] ELSE p[1] > p[2]}
    IN  Pages(R, before, offset, limit)

-----------------------------------------------------------------------------
(***************************************************************************)
(* The clients.  The queries of the history panel give no next page; to    *)
(* others a short page is the last one.                                    *)
(***************************************************************************)
StartWalk ==
    /\ walk.at = "idle"
    /\ \E t \in scope, by \in By, order \in {"ASC", "DESC"} :
          /\ by = "lastId" => t \in Serial
          /\ by = "first" => order = "DESC"
          /\ walk' = [at |-> "busy", table |-> t, by |-> by, order |-> order,
                      start |-> Visible(t), listed |-> <<>>]
    /\ UNCHANGED <<scope, row, now, found>>

EndWalk ==
    /\ walk.at = "done"
    /\ walk' = NoWalk
    /\ UNCHANGED <<scope, row, now, found>>

lastId == IF walk.by = "lastId" /\ walk.listed # <<>> THEN Last(walk.listed) ELSE 0
Offset == IF walk.by = "offset" THEN Len(walk.listed) ELSE 0

hasNextPage(p) == walk.by # "first" /\ Len(p) = Limit

Listed(p) ==
    walk' = [walk EXCEPT !.listed = @ \o p,
                         !.at = IF hasNextPage(p) THEN "busy" ELSE "done"]

ByTime(t) ==
    /\ walk.at = "busy" /\ walk.table = t
    /\ \E p \in PagesByTime(t, walk.order, Offset, Limit) : Listed(p)
    /\ UNCHANGED <<scope, row, now, found>>

ById(t) ==
    /\ walk.at = "busy" /\ walk.table = t
    /\ \E p \in PagesById(t, walk.order, lastId, Offset, Limit) : Listed(p)
    /\ UNCHANGED <<scope, row, now, found>>

getGrantHistories           == ByTime("grants")
getConsumptionHistories     == ByTime("uses")
getUserSwapHistories        == ByTime("swaps")
getPointToTokenTransactions == ById("mints")
getTokenToPointTransactions == ById("burns")

-----------------------------------------------------------------------------
(***************************************************************************)
(* The handler of the event of a transaction.                              *)
(***************************************************************************)
\* A mistake: the oldest rows are searched.
WrongSearched == PagesByTime("swaps", "ASC", 0, Newest)

Searched == PagesByTime("swaps", "DESC", 0, Newest)

\* The rows of the transactions and swaps, and what becomes of them.
updateStatusByIds(R) == [r \in Row |-> [row[r] EXCEPT !.done = @ \/ r \in R]]

\* A mistake: rows that are not committed are found too.
WrongFindByTransactionHash(r) ==
    /\ Cardinality(found) < MaxEvents
    /\ row[r].hash # 0 /\ row[r].at = "there"
    /\ found' = found \cup {{s \in RowsOf(row[r].table) : row[s].hash = row[r].hash}}
    /\ UNCHANGED <<scope, row, now, walk>>

\* findByTransactionHash: the event of a transaction that was recorded.
findByTransactionHash(r) ==
    /\ Cardinality(found) < MaxEvents
    /\ row[r].hash # 0 /\ row[r].at = "there"
    /\ found' = found \cup {{s \in Visible(row[r].table) : row[s].hash = row[r].hash}}
    /\ UNCHANGED <<scope, row, now, walk>>

\* The transactions R found are confirmed, and the swaps among those searched
\* that refer to one of them are completed.
process(R) ==
    /\ R \in found
    /\ \E p \in Searched :
          row' = updateStatusByIds(R \cup {i \in ToSet(p) : row[i].ref \in R})
    /\ found' = found \ {R}
    /\ UNCHANGED <<scope, now, walk>>

processPointToTokenTransaction(R) == R \subseteq RowsOf("mints") /\ process(R)
processTokenToPointTransaction(R) == R \subseteq RowsOf("burns") /\ process(R)

Next ==
    \/ Tick \/ StartWalk \/ EndWalk
    \/ getGrantHistories \/ getConsumptionHistories \/ getUserSwapHistories
    \/ getPointToTokenTransactions \/ getTokenToPointTransactions
    \/ \E r \in Row :
          \/ Create(r) \/ Commit(r) \/ findByTransactionHash(r)
          \/ \E i \in Row : createTransaction(r, i)
    \/ \E R \in found : \/ processPointToTokenTransaction(R)
                        \/ processTokenToPointTransaction(R)

Spec == Init /\ [][Next]_vars

-----------------------------------------------------------------------------
(***************************************************************************)
(* The properties.                                                         *)
(***************************************************************************)
\* Every variable has its type, and no page goes beyond the rows made.
TypeOK ==
    /\ scope \in Scope
    /\ row \in [Row -> RowState]
    /\ now \in 1..MaxNow
    /\ DOMAIN walk = {"at", "table", "by", "order", "start", "listed"}
    /\ walk.at \in {"idle", "busy", "done"} /\ walk.table \in Table \cup {"none"}
    /\ walk.by \in By /\ walk.order \in {"ASC", "DESC"}
    /\ walk.start \subseteq RowsOf(walk.table)
    /\ ToSet(walk.listed) \subseteq Visible(walk.table)
    /\ \A R \in found : \E t \in Serial : R \subseteq Visible(t)

Times(s, r) == Cardinality({n \in DOMAIN s : s[n] = r})

\* The other rows of the walk's table that may come before r.
AsNew(r, s) == IF walk.table \in Serial THEN s >= r ELSE row[s].created >= row[r].created

Newer(r) == {s \in Visible(walk.table) \ {r} : AsNew(r, s)}
Tied(r)  == \E s \in RowsOf(walk.table) \ {r} : AsNew(r, s) /\ AsNew(s, r)

\* A walk that ended listed each row that was there at its start: exactly
\* once by lastId, at least once by offset, but for rows of equal time, and
\* on the first page if less than a page of rows is as new.  Rows that
\* commit late, or while the client walks, make no difference.
WalkIsComplete ==
    walk.at = "done" =>
        \A r \in walk.start :
            /\ walk.by = "lastId" => Times(walk.listed, r) = 1
            /\ walk.by = "offset" /\ ~Tied(r) => Times(walk.listed, r) >= 1
            /\ walk.by = "first" /\ Cardinality(Newer(r)) < Limit =>
                   Times(walk.listed, r) = 1

\* A swap that refers to a confirmed transaction is completed, unless as many
\* other swaps as the handler searches are as new: the page of 1000 rows of
\* updateSwapHistoryStatusByTokenMintHistoryIds and its twin.  However often
\* the swap was recorded, and whatever is recorded while an event is handled.
HandledIsCompleted ==
    \A i \in Row : row[i].ref # 0 /\ row[row[i].ref].done =>
        \/ row[i].done
        \/ Cardinality({s \in Visible("swaps") \ {i} :
                           row[s].created >= row[i].created}) >= Newest
=============================================================================
