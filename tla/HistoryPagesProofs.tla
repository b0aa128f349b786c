------------------------- MODULE HistoryPagesProofs -------------------------
(***************************************************************************)
(* Theorems about HistoryPages, for any numbers of rows, sizes of a page   *)
(* and of the page the handler searches.                                   *)
(***************************************************************************)
EXTENDS HistoryPages, SequenceTheorems, FiniteSetTheorems, TLAPS

LEMMA ConstantsType ==
    /\ MaxRows \in Nat /\ MaxNow \in Nat \ {0} /\ MaxEvents \in Nat
    /\ Limit \in Nat \ {0} /\ Newest \in Nat \ {0}
  BY HistoryPagesAssumption DEF HistoryPagesAssumption

LEMMA RowsFinite ==
    ASSUME NEW R \in SUBSET Row
    PROVE  IsFiniteSet(R) /\ Cardinality(R) \in Nat
  <1>1. 1 \in Int /\ MaxRows \in Int
    BY ConstantsType
  <1>2. IsFiniteSet(1 .. MaxRows)
    BY <1>1, FS_Interval, Zenon
  <1>. QED  BY <1>2, FS_Subset, FS_CardinalityType DEF Row

LEMMA Smaller ==
    ASSUME NEW A \in SUBSET Row, NEW B \in SUBSET A
    PROVE  Cardinality(B) <= Cardinality(A)
  BY RowsFinite, FS_Subset

-----------------------------------------------------------------------------
(***************************************************************************)
(* A page is a part of an arrangement of the rows.                         *)
(***************************************************************************)
Arranged(s, R, before) ==
    /\ s \in [1 .. Cardinality(R) -> R]
    /\ \A i, j \in 1 .. Cardinality(R) : i # j => s[i] # s[j]
    /\ \A i, j \in 1 .. Cardinality(R) : i < j => <<s[i], s[j]>> \in before
    /\ \A x \in R : \E i \in 1 .. Cardinality(R) : s[i] = x

\* Page p is what the arrangement s has after offset.
PageOf(p, s, R, offset, limit) ==
    /\ p \in Seq(R)
    /\ Len(p) = IF offset >= Cardinality(R) THEN 0
                ELSE IF offset + limit < Cardinality(R) THEN limit
                ELSE Cardinality(R) - offset
    /\ \A k \in 1 .. Len(p) : offset + k <= Cardinality(R) /\ p[k] = s[offset + k]

LEMMA PageFacts ==
    ASSUME NEW R \in SUBSET Row, NEW before, NEW offset \in Nat,
           NEW limit \in Nat \ {0}, NEW p \in Pages(R, before, offset, limit)
    PROVE  \E s : Arranged(s, R, before) /\ PageOf(p, s, R, offset, limit)
  <1>. DEFINE n == Cardinality(R)
              upto == IF offset + limit < n THEN offset + limit ELSE n
  <1>1. IsFiniteSet(R) /\ n \in Nat
    BY RowsFinite
  <1>2. PICK s \in SetToSeqs(R) :
           /\ \A i, j \in DOMAIN s : i < j => <<s[i], s[j]>> \in before
           /\ p = SubSeq(s, offset + 1, upto)
    BY DEF Pages
  <1>3. /\ s \in [1 .. n -> R]
        /\ \A i, j \in 1 .. n : i # j => s[i] # s[j]
    BY <1>2 DEF SetToSeqs
  <1>4. \A x \in R : \E i \in 1 .. n : s[i] = x
    <2>1. s \in Injection(1 .. n, R)
      BY <1>3 DEF Injection, IsInjective
    <2>2. IsFiniteSet(1 .. n) /\ Cardinality(1 .. n) = n
      BY <1>1, FS_Interval
    <2>3. s \in Surjection(1 .. n, R)
      BY <1>1, <2>1, <2>2, FS_Injection
    <2>. QED  BY <2>3 DEF Surjection
  <1>5. Arranged(s, R, before)
    BY <1>2, <1>3, <1>4 DEF Arranged
  <1>6. upto \in Nat /\ offset + 1 \in Nat /\ upto <= n
    BY <1>1
  <1>7. \A i \in offset + 1 .. upto : s[i] \in R
    BY <1>1, <1>3, <1>6
  <1>. DEFINE q == SubSeq(s, offset + 1, upto)
  <1>8. /\ q \in Seq(R)
        /\ Len(q) = IF offset + 1 <= upto THEN upto - (offset + 1) + 1 ELSE 0
        /\ \A k \in 1 .. upto - (offset + 1) + 1 : q[k] = s[offset + 1 + k - 1]
    <2>. HIDE DEF upto
    <2>1. upto \in Int /\ offset + 1 \in Int
      BY <1>6
    <2>. QED  BY <1>7, <2>1, SubSeqProperties
  <1>9. p = q
    BY <1>2
  <1>. HIDE DEF q
  <1>10. Len(p) = IF offset >= n THEN 0
                  ELSE IF offset + limit < n THEN limit ELSE n - offset
    BY <1>1, <1>8, <1>9
  <1>11. ASSUME NEW k \in 1 .. Len(p)
         PROVE  offset + k <= n /\ p[k] = s[offset + k]
    <2>. HIDE DEF upto, n
    <2>1. /\ offset + 1 <= upto /\ Len(p) = upto - (offset + 1) + 1
          /\ k \in Nat
      BY <1>6, <1>8, <1>9, <1>11
    <2>2. k \in 1 .. upto - (offset + 1) + 1 /\ offset + 1 + k - 1 = offset + k
      BY <1>6, <2>1
    <2>3. p[k] = s[offset + 1 + k - 1]
      BY <1>8, <1>9, <2>2
    <2>4. offset + k <= n
      BY <1>1, <1>6, <2>1
    <2>. QED  BY <2>2, <2>3, <2>4
  <1>. QED  BY <1>5, <1>8, <1>9, <1>10, <1>11 DEF PageOf

\* The place of a row: at least those must come before it that cannot come
\* after it, and at most those that can.
LEMMA AtLeast ==
    ASSUME NEW R \in SUBSET Row, NEW before, NEW s, Arranged(s, R, before),
           NEW k \in 1 .. Cardinality(R), NEW A \in SUBSET (R \ {s[k]}),
           \A x \in A : <<s[k], x>> \notin before
    PROVE  Cardinality(A) <= k - 1
  <1>. DEFINE f == [x \in A |-> CHOOSE i \in 1 .. Cardinality(R) : s[i] = x]
  <1>0. Cardinality(R) \in Nat
    BY RowsFinite
  <1>1. \A x \in A : f[x] \in 1 .. Cardinality(R) /\ s[f[x]] = x
    BY DEF Arranged
  <1>2. ASSUME NEW x \in A  PROVE f[x] \in 1 .. k - 1
    <2>1. f[x] # k
      BY <1>1
    <2>2. ~(k < f[x])
      BY <1>1 DEF Arranged
    <2>. HIDE DEF f
    <2>. QED  BY <1>0, <1>1, <2>1, <2>2
  <1>3. f \in Injection(A, 1 .. k - 1)
    BY <1>1, <1>2 DEF Injection, IsInjective
  <1>4. IsFiniteSet(1 .. k - 1) /\ Cardinality(1 .. k - 1) = k - 1
    <2>1. k - 1 \in Nat
      BY <1>0
    <2>. QED  BY <2>1, FS_Interval
  <1>. HIDE DEF f
  <1>. QED  BY <1>3, <1>4, FS_Injection

LEMMA AtMost ==
    ASSUME NEW R \in SUBSET Row, NEW before, NEW s, Arranged(s, R, before),
           NEW k \in 1 .. Cardinality(R), NEW B \in SUBSET Row,
           \A x \in R \ {s[k]} : <<x, s[k]>> \in before => x \in B
    PROVE  k - 1 <= Cardinality(B)
  <1>. DEFINE f == [i \in 1 .. k - 1 |-> s[i]]
  <1>0. Cardinality(R) \in Nat
    BY RowsFinite
  <1>1. ASSUME NEW i \in 1 .. k - 1  PROVE f[i] \in B
    <2>1. i \in 1 .. Cardinality(R) /\ i < k
      BY <1>0
    <2>2. s[i] \in R \ {s[k]} /\ <<s[i], s[k]>> \in before
      BY <2>1 DEF Arranged
    <2>. QED  BY <2>2
  <1>2. \A i, j \in 1 .. k - 1 : f[i] = f[j] => i = j
    <2>1. 1 .. k - 1 \subseteq 1 .. Cardinality(R)
      BY <1>0
    <2>. QED  BY <2>1 DEF Arranged
  <1>3. f \in Injection(1 .. k - 1, B)
    BY <1>1, <1>2 DEF Injection, IsInjective
  <1>4. IsFiniteSet(1 .. k - 1) /\ Cardinality(1 .. k - 1) = k - 1
    <2>1. k - 1 \in Nat
      BY <1>0
    <2>. QED  BY <2>1, FS_Interval
  <1>5. IsFiniteSet(B)
    BY RowsFinite
  <1>. HIDE DEF f
  <1>. QED  BY <1>3, <1>4, <1>5, FS_Injection

-----------------------------------------------------------------------------
(***************************************************************************)
(* Rows are made once; what they are stays, and visible rows stay visible. *)
(***************************************************************************)
WalkState ==
    [at : {"idle", "busy", "done"}, table : Table \cup {"none"}, by : By,
     order : {"ASC", "DESC"}, start : SUBSET Row, listed : Seq(Row)]

Rows ==
    /\ row \in [Row -> RowState]
    /\ now \in 1 .. MaxNow
    /\ \A r \in Row : row[r].at # "unmade" => row[r].table # "none"

\* Transactions are made for visible swaps, which refer to visible ones; what
\* is not committed is not done; events are about visible transactions.
Linked ==
    /\ \A r \in Row : row[r].of # 0 \/ row[r].hash # 0 => row[r].table \in Serial
    /\ \A r \in Row : row[r].of # 0 => row[r].of \in Visible("swaps")
    /\ \A r \in Row : row[r].ref # 0 =>
           /\ r \in Visible("swaps")
           /\ row[row[r].ref].table \in Serial /\ row[row[r].ref].at = "there"
    /\ \A r \in Row : row[r].at # "there" => ~row[r].done
    /\ \A R \in found : \E t \in Serial : R \subseteq Visible(t)

RowsGrow ==
    \A r \in Row : row[r].table # "none" =>
        /\ row'[r].table = row[r].table
        /\ row'[r].created = row[r].created
        /\ row'[r].of = row[r].of
        /\ row[r].at = "there" => row'[r].at = "there"
        /\ row[r].done => row'[r].done

FindStep == \E r \in Row : findByTransactionHash(r)

RowStep ==
    \/ \E r \in Row : \/ Create(r) \/ Commit(r)
                      \/ \E i \in Row : createTransaction(r, i)
    \/ \E R \in found : process(R)

LEMMA VisibleStays ==
    ASSUME Rows, RowsGrow, NEW t
    PROVE  Visible(t) \subseteq Visible(t)'
  BY DEF Rows, RowsGrow, Visible, RowsOf

\* Events go on as rows are added.
LEMMA FoundStays ==
    ASSUME Rows, RowsGrow, Linked, found' \subseteq found
    PROVE  \A R \in found' : \E t \in Serial : R \subseteq Visible(t)'
  <1>. SUFFICES ASSUME NEW R \in found'
                PROVE  \E t \in Serial : R \subseteq Visible(t)'
    OBVIOUS
  <1>1. PICK t \in Serial : R \subseteq Visible(t)
    BY DEF Linked
  <1>. QED  BY <1>1, VisibleStays

\* A row begun at r.
LEMMA BeginStep ==
    ASSUME Rows, Linked, NEW r \in Row, Unmade(r), NEW t \in Table,
           NEW i \in {0} \cup Row, NEW h \in {0} \cup Row,
           i # 0 \/ h # 0 => t \in Serial, i # 0 => i \in Visible("swaps"),
           Begin(t, r, i, h), now' \in 1 .. MaxNow, UNCHANGED found
    PROVE  Rows' /\ RowsGrow /\ Linked'
  <1>. DEFINE new == [table |-> t, at |-> "open", created |-> now,
                      done |-> FALSE, of |-> i, hash |-> h, ref |-> 0]
  <1>1. /\ new \in RowState /\ new.table = t /\ new.of = i /\ new.at = "open"
        /\ new.ref = 0 /\ new.done = FALSE /\ new.hash = h /\ t # "none"
    BY ConstantsType DEF RowState, Rows, Visible, RowsOf, Table, Serial, Random
  <1>2. row[r] = NoRow /\ row' = [row EXCEPT ![r] = new]
    BY DEF Unmade, Begin
  <1>. HIDE DEF new
  <1>3. /\ row' \in [Row -> RowState] /\ row'[r] = new
        /\ \A s \in Row \ {r} : row'[s] = row[s]
    BY <1>1, <1>2 DEF Rows
  <1>4. Rows' /\ RowsGrow
    BY <1>1, <1>2, <1>3 DEF Rows, RowsGrow, NoRow
  <1>5. Visible("swaps") \subseteq Visible("swaps")'
    BY <1>4, VisibleStays
  <1>6. ASSUME NEW s \in Row, row'[s].ref # 0
        PROVE  /\ s \in Visible("swaps")'
               /\ row'[row'[s].ref].table \in Serial
               /\ row'[row'[s].ref].at = "there"
    <2>1. s # r /\ row'[s] = row[s]
      BY <1>1, <1>3, <1>6
    <2>2. row[row[s].ref].at = "there" /\ row[s].ref \in Row
      BY <1>6, <2>1 DEF Linked, Rows, RowState
    <2>3. row[s].ref # r
      BY <1>2, <2>2 DEF NoRow
    <2>. QED  BY <1>3, <1>5, <1>6, <2>1, <2>2, <2>3 DEF Linked
  <1>7. Linked'
    BY <1>1, <1>3, <1>4, <1>5, <1>6, FoundStays DEF Linked
  <1>. QED  BY <1>4, <1>7

\* What the handler changes.
LEMMA Updated ==
    ASSUME Rows, NEW R, row' = updateStatusByIds(R)
    PROVE  /\ row' \in [Row -> RowState]
           /\ \A r \in Row :
                 /\ row'[r].table = row[r].table /\ row'[r].at = row[r].at
                 /\ row'[r].created = row[r].created /\ row'[r].of = row[r].of
                 /\ row'[r].ref = row[r].ref /\ row'[r].hash = row[r].hash
                 /\ r \in R => row'[r].done
                 /\ r \notin R => row'[r].done = row[r].done
                 /\ row[r].done => row'[r].done
  <1>1. ASSUME NEW r \in Row
        PROVE  /\ row'[r] \in RowState
               /\ row'[r].table = row[r].table /\ row'[r].at = row[r].at
               /\ row'[r].created = row[r].created /\ row'[r].of = row[r].of
               /\ row'[r].ref = row[r].ref /\ row'[r].hash = row[r].hash
               /\ r \in R => row'[r].done
               /\ r \notin R => row'[r].done = row[r].done
               /\ row[r].done => row'[r].done
    <2>. DEFINE d == row[r].done \/ r \in R
    <2>1. row'[r] = [row[r] EXCEPT !.done = d] /\ row[r] \in RowState
      BY DEF Rows, updateStatusByIds
    <2>2. /\ d \in BOOLEAN /\ (row[r].done => d) /\ (r \in R => d)
          /\ (r \notin R => d = row[r].done)
      BY <2>1 DEF RowState
    <2>. HIDE DEF d
    <2>. QED  BY <2>1, <2>2 DEF RowState
  <1>. QED  BY <1>1 DEF updateStatusByIds

LEMMA UpdateStep ==
    ASSUME Rows, Linked, NEW R, row' = updateStatusByIds(R), UNCHANGED now,
           \A r \in R : row[r].at = "there", found' \subseteq found
    PROVE  Rows' /\ RowsGrow /\ Linked'
  <1>1. Rows' /\ RowsGrow
    BY Updated DEF Rows, RowsGrow
  <1>2. Visible("swaps")' = Visible("swaps")
    BY Updated DEF Visible, RowsOf
  <1>3. ASSUME NEW s \in Row, row'[s].ref # 0
        PROVE  /\ s \in Visible("swaps")'
               /\ row'[row'[s].ref].table \in Serial
               /\ row'[row'[s].ref].at = "there"
    <2>1. row'[s].ref = row[s].ref /\ row[s].ref \in Row
      BY <1>3, Updated DEF Rows, RowState
    <2>. QED  BY <1>2, <1>3, <2>1, Updated DEF Linked
  <1>4. \A s \in Row : row'[s].at # "there" => ~row'[s].done
    BY Updated DEF Linked
  <1>. QED  BY <1>1, <1>2, <1>3, <1>4, Updated, FoundStays DEF Linked

\* A page of swaps.
LEMMA SearchedSwaps ==
    ASSUME NEW p \in Searched
    PROVE  ToSet(p) \subseteq Visible("swaps")
  <1>. DEFINE R == Visible("swaps")
              before == {q \in R \X R : row[q[1]].created >= row[q[2]].created}
  <1>1. R \in SUBSET Row
    BY DEF Visible, RowsOf
  <1>2. p \in Pages(R, before, 0, Newest)
    BY DEF Searched, PagesByTime
  <1>3. p \in Seq(R)
    <2>. HIDE DEF R, before
    <2>. QED  BY <1>1, <1>2, ConstantsType, PageFacts DEF PageOf
  <1>. QED  BY <1>3, LenProperties DEF ToSet

\* The rows an event is about.
LEMMA EventRows ==
    ASSUME Linked, NEW R \in found, NEW p \in Searched
    PROVE  /\ R \subseteq Row /\ ToSet(p) \subseteq Row
           /\ \A r \in R : row[r].table \in Serial /\ row[r].at = "there"
           /\ \A r \in ToSet(p) : row[r].table = "swaps" /\ row[r].at = "there"
  <1>1. PICK t \in Serial : R \subseteq Visible(t)
    BY DEF Linked
  <1>. QED  BY <1>1, SearchedSwaps DEF Visible, RowsOf

LEMMA CommitStep ==
    ASSUME Rows, Linked, NEW r \in Row, Commit(r)
    PROVE  /\ Rows' /\ RowsGrow /\ Linked'
           /\ row[r].of # r /\ row'[r].done = FALSE
           /\ \A s \in Row : /\ row'[s].done = row[s].done
                             /\ \/ row'[s].ref = row[s].ref
                                \/ s = row[r].of /\ row'[s].ref = r
  <1>1. /\ row[r].at = "open" /\ row[r] \in RowState /\ ~row[r].done
        /\ UNCHANGED <<now, found>>
    BY DEF Commit, Rows, Linked
  <1>2. row[r].of # r
    <2>1. row[r].of = r => r # 0 /\ r \in Visible("swaps")
      BY ConstantsType DEF Row, Linked
    <2>. QED  BY <1>1, <2>1 DEF Visible
  <1>. DEFINE refs == {r} \cup ({row[i].ref : i \in Row \cap {row[r].of}} \ {0})
  <1>c. PICK ref \in refs :
           row' = [s \in Row |->
               IF s = r THEN [row[r] EXCEPT !.at = "there"]
               ELSE IF s = row[r].of THEN [row[s] EXCEPT !.ref = ref]
               ELSE row[s]]
    BY DEF Commit
  <1>k. /\ ref \in Row
        /\ \A s \in Row : s = row[r].of => ref = r \/ ref = row[s].ref
    BY DEF Rows, RowState
  <1>. HIDE DEF refs
  <1>3. ASSUME NEW s \in Row
        PROVE  /\ row'[s] \in RowState
               /\ row'[s].table = row[s].table /\ row'[s].of = row[s].of
               /\ row'[s].created = row[s].created
               /\ row'[s].done = row[s].done /\ row'[s].hash = row[s].hash
               /\ row'[s].at = IF s = r THEN "there" ELSE row[s].at
               /\ \/ row'[s].ref = row[s].ref
                  \/ s = row[r].of /\ row'[s].ref = r
    <2>1. row[s] \in RowState
      BY DEF Rows
    <2>2. CASE s = r
      <3>1. row'[s] = [row[s] EXCEPT !.at = "there"]
        BY <1>c, <2>2
      <3>. QED  BY <1>2, <2>1, <2>2, <3>1 DEF RowState
    <2>3. CASE s # r /\ s = row[r].of
      <3>1. row'[s] = [row[s] EXCEPT !.ref = ref]
        BY <1>c, <2>3
      <3>. QED  BY <1>k, <2>1, <2>3, <3>1 DEF RowState
    <2>4. CASE s # r /\ s # row[r].of
      <3>1. row'[s] = row[s]
        BY <1>c, <2>4
      <3>. QED  BY <2>1, <2>4, <3>1
    <2>. QED  BY <2>2, <2>3, <2>4
  <1>4. row' \in [Row -> RowState]
    BY <1>c, <1>3
  <1>5. Rows' /\ RowsGrow
    BY <1>1, <1>3, <1>4 DEF Rows, RowsGrow
  <1>6. Visible("swaps") \subseteq Visible("swaps")'
    BY <1>5, VisibleStays
  <1>7. ASSUME NEW s \in Row, row'[s].ref # 0
        PROVE  /\ s \in Visible("swaps")'
               /\ row'[row'[s].ref].table \in Serial
               /\ row'[row'[s].ref].at = "there"
    <2>1. CASE s = row[r].of /\ row'[s].ref = r
      <3>1. s # 0 /\ row'[s].ref = r
        BY <2>1, ConstantsType DEF Row
      <3>2. row[r].table \in Serial /\ s \in Visible("swaps")
        BY <2>1, <3>1 DEF Linked
      <3>. QED  BY <1>3, <1>6, <3>1, <3>2
    <2>2. CASE row'[s].ref = row[s].ref
      <3>1. row'[s].ref = row[s].ref /\ row[s].ref \in Row
        BY <1>3, <1>7, <2>2 DEF Rows, RowState
      <3>. QED  BY <1>3, <1>6, <1>7, <3>1 DEF Linked
    <2>. QED  BY <1>3, <2>1, <2>2
  <1>8. \A s \in Row : row'[s].at # "there" => ~row'[s].done
    BY <1>1, <1>3 DEF Linked
  <1>9. \A s \in Row :
           /\ row'[s].of # 0 \/ row'[s].hash # 0 => row'[s].table \in Serial
           /\ row'[s].of # 0 => row'[s].of \in Visible("swaps")'
    BY <1>3, <1>6 DEF Linked
  <1>10. \A R \in found' : \E t \in Serial : R \subseteq Visible(t)'
    BY <1>1, <1>5, FoundStays
  <1>11. Linked'
    BY <1>7, <1>8, <1>9, <1>10 DEF Linked
  <1>. QED  BY <1>1, <1>2, <1>3, <1>5, <1>11

LEMMA RowsStep ==
    ASSUME Rows, Linked, scope \in Scope, RowStep
    PROVE  Rows' /\ RowsGrow /\ Linked' /\ UNCHANGED <<scope, walk>>
  <1>1. UNCHANGED <<scope, now, walk>>
    BY DEF RowStep, Create, Commit, createTransaction, process
  <1>2. ASSUME NEW r \in Row, Create(r)  PROVE Rows' /\ RowsGrow /\ Linked'
    <2>1. PICK t \in scope \cap Random : Begin(t, r, 0, 0)
      BY <1>2 DEF Create
    <2>2. /\ t \in Table /\ Unmade(r) /\ now' \in 1 .. MaxNow /\ UNCHANGED found
          /\ 0 \in {0} \cup Row
      BY <1>1, <1>2 DEF Create, Table, Rows
    <2>3. PICK i \in {0} \cup Row : i = 0 /\ Begin(t, r, i, i)
      BY <2>1
    <2>. QED  BY <2>2, <2>3, BeginStep
  <1>3. ASSUME NEW r \in Row, NEW i \in Row, createTransaction(r, i)
        PROVE  Rows' /\ RowsGrow /\ Linked'
    <2>1. PICK t \in scope \cap Serial, h \in {r} \cup Hashes : Begin(t, r, i, h)
      BY <1>3 DEF createTransaction
    <2>2. /\ t \in Table /\ Unmade(r) /\ now' \in 1 .. MaxNow /\ UNCHANGED found
          /\ i \in Visible("swaps")
      BY <1>1, <1>3 DEF createTransaction, Table, Rows
    <2>3. h \in {0} \cup Row
      BY <2>1 DEF Hashes, Rows, RowState
    <2>. QED  BY <2>1, <2>2, <2>3, BeginStep
  <1>4. ASSUME NEW r \in Row, Commit(r)  PROVE Rows' /\ RowsGrow /\ Linked'
    BY <1>4, CommitStep
  <1>5. ASSUME NEW R \in found, process(R)
        PROVE  Rows' /\ RowsGrow /\ Linked'
    <2>1. PICK p \in Searched :
             row' = updateStatusByIds(R \cup {i \in ToSet(p) : row[i].ref \in R})
      BY <1>5 DEF process
    <2>2. found' \subseteq found /\ UNCHANGED now
      BY <1>5 DEF process
    <2>3. \A r \in R \cup {i \in ToSet(p) : row[i].ref \in R} : row[r].at = "there"
      BY EventRows
    <2>. QED  BY <2>1, <2>2, <2>3, UpdateStep
  <1>. QED
    BY <1>1, <1>2, <1>3, <1>4, <1>5 DEF RowStep

\* The rows of an event are found.
LEMMA FindTyped ==
    ASSUME Rows, Linked, FindStep
    PROVE  Rows' /\ Linked' /\ UNCHANGED <<scope, row, walk>>
  <1>1. PICK r \in Row : findByTransactionHash(r)
    BY DEF FindStep
  <1>. DEFINE R == {s \in Visible(row[r].table) : row[s].hash = row[r].hash}
  <1>2. UNCHANGED <<scope, row, now, walk>> /\ found' = found \cup {R}
    BY <1>1 DEF findByTransactionHash
  <1>3. row[r].table \in Serial
    BY <1>1 DEF findByTransactionHash, Linked
  <1>4. R \subseteq Visible(row[r].table)
    OBVIOUS
  <1>. HIDE DEF R
  <1>. QED  BY <1>2, <1>3, <1>4 DEF Rows, Linked, Visible, RowsOf

-----------------------------------------------------------------------------
(***************************************************************************)
(* The swap of a confirmed transaction.                                    *)
(***************************************************************************)
\* The rows that may stand before r in an answer of swaps, newest first.
NewerSwaps(r) ==
    {s \in Visible("swaps") \ {r} : row[s].created >= row[r].created}

LEMMA Missed ==
    ASSUME Rows, NEW p \in Searched, NEW r \in Visible("swaps"), r \notin ToSet(p)
    PROVE  Cardinality(NewerSwaps(r)) >= Newest
  <1>. DEFINE R == Visible("swaps")
              before == {q \in R \X R : row[q[1]].created >= row[q[2]].created}
              n == Cardinality(R)
  <1>1. R \in SUBSET Row /\ n \in Nat
    BY RowsFinite DEF Visible, RowsOf
  <1>2. p \in Pages(R, before, 0, Newest)
    BY DEF Searched, PagesByTime
  <1>3. PICK s : Arranged(s, R, before) /\ PageOf(p, s, R, 0, Newest)
    <2>. HIDE DEF R, before
    <2>. QED  BY <1>1, <1>2, ConstantsType, PageFacts
  <1>4. PICK k \in 1 .. n : s[k] = r
    BY <1>3 DEF Arranged
  <1>5. Len(p) = IF Newest < n THEN Newest ELSE n
    BY <1>1, <1>3, ConstantsType DEF PageOf
  <1>6. ~(k <= Len(p))
    <2>1. k <= Len(p) => k \in 1 .. Len(p) /\ 0 + k = k
      BY <1>1, <1>5, ConstantsType
    <2>2. k <= Len(p) => p[k] = r
      BY <1>3, <1>4, <2>1 DEF PageOf
    <2>3. p \in Seq(R) /\ DOMAIN p = 1 .. Len(p)
      BY <1>3, LenProperties DEF PageOf
    <2>. QED  BY <2>1, <2>2, <2>3 DEF ToSet
  <1>7. k - 1 >= Newest
    BY <1>1, <1>5, <1>6, ConstantsType
  <1>8. k - 1 <= Cardinality(NewerSwaps(r))
    <2>1. \A x \in R \ {s[k]} : <<x, s[k]>> \in before => x \in NewerSwaps(r)
      BY <1>4 DEF NewerSwaps
    <2>2. NewerSwaps(r) \in SUBSET Row
      BY DEF NewerSwaps, Visible, RowsOf
    <2>. HIDE DEF R, before
    <2>. QED  BY <1>1, <1>3, <2>1, <2>2, AtMost
  <1>9. Cardinality(NewerSwaps(r)) \in Nat
    BY RowsFinite DEF NewerSwaps, Visible, RowsOf
  <1>. QED  BY <1>1, <1>7, <1>8, <1>9, ConstantsType

\* HandledIsCompleted for one row, in the terms above.
Completed(i) ==
    row[i].ref # 0 /\ row[row[i].ref].done =>
        row[i].done \/ Cardinality(NewerSwaps(i)) >= Newest

LEMMA NewerSwapsStay ==
    ASSUME Rows, RowsGrow, NEW i \in Visible("swaps"),
           Cardinality(NewerSwaps(i)) >= Newest
    PROVE  Cardinality(NewerSwaps(i)') >= Newest
  <1>1. NewerSwaps(i) \subseteq NewerSwaps(i)'
    <2>1. Visible("swaps") \subseteq Visible("swaps")'
      BY VisibleStays
    <2>2. \A s \in Visible("swaps") : row'[s].created = row[s].created
      BY DEF Visible, RowsOf, RowsGrow
    <2>. QED  BY <2>1, <2>2 DEF NewerSwaps
  <1>2. NewerSwaps(i)' \in SUBSET Row
    BY DEF NewerSwaps, Visible, RowsOf
  <1>3. Cardinality(NewerSwaps(i)) <= Cardinality(NewerSwaps(i)')
    BY <1>1, <1>2, Smaller
  <1>4. /\ Cardinality(NewerSwaps(i)) \in Nat
        /\ Cardinality(NewerSwaps(i)') \in Nat
    BY <1>1, <1>2, RowsFinite
  <1>. QED  BY <1>3, <1>4, ConstantsType

\* Nothing new is confirmed of the transaction that the swap refers to.
LEMMA CompletedStays ==
    ASSUME Rows, Linked, RowsGrow, NEW i \in Row, Completed(i),
           row'[i].ref = row[i].ref,
           row[i].ref # 0 => row'[row[i].ref].done = row[row[i].ref].done
    PROVE  Completed(i)'
  <1>. SUFFICES ASSUME row[i].ref # 0, row[row[i].ref].done
                PROVE  row'[i].done \/ Cardinality(NewerSwaps(i)') >= Newest
    BY DEF Completed
  <1>1. i \in Visible("swaps") /\ row[i].table # "none"
    BY DEF Linked, Visible, RowsOf
  <1>2. CASE row[i].done
    BY <1>1, <1>2 DEF RowsGrow
  <1>3. CASE Cardinality(NewerSwaps(i)) >= Newest
    BY <1>1, <1>3, NewerSwapsStay
  <1>. QED  BY <1>2, <1>3 DEF Completed

\* A transaction and the swap that refers to it are done together.
LEMMA ProcessCompletes ==
    ASSUME Rows, Linked, NEW R \in found, process(R), RowsGrow,
           NEW i \in Row, Completed(i)
    PROVE  Completed(i)'
  <1>1. PICK p \in Searched :
           row' = updateStatusByIds(R \cup {s \in ToSet(p) : row[s].ref \in R})
    BY DEF process
  <1>. DEFINE D == R \cup {s \in ToSet(p) : row[s].ref \in R}
              t == row[i].ref
  <1>2. row'[i].ref = t /\ (i \in D => row'[i].done)
    BY <1>1, Updated
  <1>3. CASE t = 0
    BY <1>2, <1>3 DEF Completed
  <1>4. CASE t # 0 /\ t \notin R
    <2>1. t \in Row /\ row[t].table \in Serial
      BY <1>4 DEF Linked, Rows, RowState
    <2>2. t \notin D
      BY <1>4, <2>1, EventRows DEF Serial
    <2>3. row'[t].done = row[t].done
      BY <1>1, <2>1, <2>2, Updated
    <2>. QED  BY <1>2, <2>3, CompletedStays
  <1>5. CASE t # 0 /\ t \in R /\ i \in ToSet(p)
    BY <1>2, <1>5 DEF Completed
  <1>6. CASE t # 0 /\ t \in R /\ i \notin ToSet(p)
    <2>1. i \in Visible("swaps")
      BY <1>6 DEF Linked
    <2>2. Cardinality(NewerSwaps(i)') >= Newest
      BY <1>6, <2>1, Missed, NewerSwapsStay
    <2>. QED  BY <2>2 DEF Completed
  <1>. QED  BY <1>3, <1>4, <1>5, <1>6

LEMMA CompletedStep ==
    ASSUME Rows, Linked, scope \in Scope, RowStep, NEW x \in Row, Completed(x)
    PROVE  Completed(x)'
  <1>1. RowsGrow
    BY RowsStep
  <1>2. ASSUME NEW R \in found, process(R)  PROVE Completed(x)'
    BY <1>1, <1>2, ProcessCompletes
  <1>3. ASSUME NEW r \in Row, Commit(r)  PROVE Completed(x)'
    <2>0. /\ row'[r].done = FALSE
          /\ \A s \in Row : /\ row'[s].done = row[s].done
                            /\ \/ row'[s].ref = row[s].ref
                               \/ s = row[r].of /\ row'[s].ref = r
      BY <1>3, CommitStep
    <2>1. CASE row'[x].ref = r
      <3>1. row'[x].ref = r /\ row'[r].done = FALSE
        BY <2>0, <2>1
      <3>. QED  BY <3>1 DEF Completed
    <2>2. CASE row'[x].ref = row[x].ref
      <3>1. row[x].ref # 0 => row[x].ref \in Row
        BY DEF Rows, RowState
      <3>2. /\ row'[x].ref = row[x].ref
            /\ row[x].ref # 0 => row'[row[x].ref].done = row[row[x].ref].done
        BY <2>0, <2>2, <3>1
      <3>. QED  BY <1>1, <3>2, CompletedStays
    <2>. QED  BY <2>0, <2>1, <2>2
  <1>4. ASSUME NEW r \in Row, NEW t, NEW i, NEW h, Unmade(r), Begin(t, r, i, h)
        PROVE  Completed(x)'
    <2>1. row[r] = NoRow /\ \A s \in Row \ {r} : row'[s] = row[s]
      BY <1>4 DEF Begin, Unmade, Rows
    <2>2. CASE x = r
      <3>1. row'[r].ref = 0
        BY <1>4 DEF Begin, Rows, NoRow
      <3>. QED  BY <2>2, <3>1 DEF Completed
    <2>3. CASE x # r
      <3>1. row'[x] = row[x]
        BY <2>1, <2>3
      <3>2. row[x].ref # 0 => row[x].ref \in Row \ {r}
        BY <2>1 DEF Linked, Rows, RowState, NoRow
      <3>. QED  BY <1>1, <2>1, <3>1, <3>2, CompletedStays
    <2>. QED  BY <2>2, <2>3
  <1>. QED
    BY <1>2, <1>3, <1>4 DEF RowStep, Create, createTransaction

-----------------------------------------------------------------------------
(***************************************************************************)
(* The walk: its type, and the answers it gets.                            *)
(***************************************************************************)
WalkTyped ==
    /\ walk \in WalkState
    /\ walk.start \subseteq Visible(walk.table)
    /\ ToSet(walk.listed) \subseteq Visible(walk.table)
    /\ walk.at # "idle" => walk.table \in Table
    /\ walk.by = "lastId" => walk.table \in Serial
    /\ walk.by = "first" => walk.order = "DESC"

Typed ==
    /\ scope \in Scope
    /\ Rows
    /\ Linked
    /\ WalkTyped

\* The rows after last, and which of them may stand before which.
Rest(t, order, last) == {r \in Visible(t) : Past(order, last, r)}

Rel(t, order, x, y) ==
    IF t \in Serial
    THEN IF order = "ASC" THEN x < y ELSE x > y
    ELSE IF order = "ASC" THEN row[x].created <= row[y].created
         ELSE row[x].created >= row[y].created

Ordered(t, order, R) == {q \in R \X R : Rel(t, order, q[1], q[2])}

Answer(t, order, last, offset, p) ==
    IF t \in Serial THEN p \in PagesById(t, order, last, offset, Limit)
    ELSE last = 0 /\ p \in PagesByTime(t, order, offset, Limit)

LEMMA AnswerFacts ==
    ASSUME NEW t, NEW order, NEW last, NEW offset \in Nat, NEW p,
           Answer(t, order, last, offset, p)
    PROVE  /\ Rest(t, order, last) \in SUBSET Row
           /\ \E s : /\ Arranged(s, Rest(t, order, last),
                                 Ordered(t, order, Rest(t, order, last)))
                     /\ PageOf(p, s, Rest(t, order, last), offset, Limit)
  <1>. DEFINE R == Rest(t, order, last)
              before == Ordered(t, order, R)
  <1>1. R \in SUBSET Row
    BY DEF Rest, Visible, RowsOf
  <1>2. p \in Pages(R, before, offset, Limit)
    <2>1. CASE t \in Serial
      <3>1. before = {q \in R \X R : IF order = "ASC" THEN q[1] < q[2]
                                     ELSE q[1] > q[2]}
        BY <2>1 DEF Ordered, Rel
      <3>. QED  BY <2>1, <3>1 DEF Answer, PagesById, Rest
    <2>2. CASE t \notin Serial
      <3>1. R = Visible(t)
        BY <2>2 DEF Answer, Rest, Past
      <3>2. before = {q \in R \X R :
                         IF order = "ASC"
                         THEN row[q[1]].created <= row[q[2]].created
                         ELSE row[q[1]].created >= row[q[2]].created}
        BY <2>2 DEF Ordered, Rel
      <3>. QED  BY <2>2, <3>1, <3>2 DEF Answer, PagesByTime
    <2>. QED  BY <2>1, <2>2
  <1>. HIDE DEF R, before
  <1>3. \E s : Arranged(s, R, before) /\ PageOf(p, s, R, offset, Limit)
    BY <1>1, <1>2, ConstantsType, PageFacts
  <1>. QED  BY <1>1, <1>3 DEF R, before

\* A page is read.
ListStep(p) ==
    /\ walk.at = "busy"
    /\ Answer(walk.table, walk.order, lastId, Offset, p)
    /\ Listed(p)
    /\ UNCHANGED <<scope, row, now, found>>

LEMMA NextSteps ==
    ASSUME Typed, Next
    PROVE  \/ Tick \/ StartWalk \/ EndWalk
           \/ \E p : ListStep(p)
           \/ RowStep \/ FindStep
  <1>1. ASSUME NEW t \in Random, ByTime(t)  PROVE \E p : ListStep(p)
    <2>1. walk.table \notin Serial /\ lastId = 0
      BY <1>1 DEF ByTime, Random, Serial, lastId, Typed, WalkTyped
    <2>. QED  BY <1>1, <2>1 DEF ByTime, ListStep, Answer
  <1>2. ASSUME NEW t \in Serial, ById(t)  PROVE \E p : ListStep(p)
    BY <1>2 DEF ById, ListStep, Answer
  <1>. QED
    BY <1>1, <1>2
       DEF Next, RowStep, FindStep, getGrantHistories, getConsumptionHistories,
           getUserSwapHistories, getPointToTokenTransactions,
           getTokenToPointTransactions, processPointToTokenTransaction,
           processTokenToPointTransaction, Random, Serial

LEMMA OffsetType ==
    ASSUME Typed
    PROVE  /\ Offset \in Nat /\ walk.listed \in Seq(Row)
           /\ Len(walk.listed) \in Nat
           /\ DOMAIN walk.listed = 1 .. Len(walk.listed)
  <1>1. walk.listed \in Seq(Row)
    BY DEF Typed, WalkTyped, WalkState
  <1>. QED  BY <1>1, LenProperties DEF Offset

LEMMA Appended ==
    ASSUME Typed, NEW p, ListStep(p)
    PROVE  /\ p \in Seq(Visible(walk.table)) /\ p \in Seq(Row)
           /\ Len(p) \in Nat /\ DOMAIN p = 1 .. Len(p)
           /\ walk'.listed = walk.listed \o p
           /\ walk'.at = IF hasNextPage(p) THEN "busy" ELSE "done"
           /\ walk'.table = walk.table /\ walk'.by = walk.by
           /\ walk'.order = walk.order /\ walk'.start = walk.start
           /\ walk' \in WalkState
           /\ Len(walk'.listed) = Len(walk.listed) + Len(p)
           /\ \A i \in 1 .. Len(walk.listed) : walk'.listed[i] = walk.listed[i]
           /\ \A i \in 1 .. Len(p) :
                 walk'.listed[Len(walk.listed) + i] = p[i]
  <1>1. p \in Seq(Rest(walk.table, walk.order, lastId))
    BY OffsetType, AnswerFacts DEF ListStep, PageOf
  <1>2. /\ Rest(walk.table, walk.order, lastId) \subseteq Visible(walk.table)
        /\ Visible(walk.table) \subseteq Row
    BY DEF Rest, Visible, RowsOf
  <1>3. p \in Seq(Visible(walk.table)) /\ p \in Seq(Row)
    BY <1>1, <1>2
  <1>4. Len(p) \in Nat /\ DOMAIN p = 1 .. Len(p)
    BY <1>3, LenProperties
  <1>5. /\ walk \in WalkState
        /\ walk' = [walk EXCEPT !.listed = walk.listed \o p,
                       !.at = IF hasNextPage(p) THEN "busy" ELSE "done"]
    BY DEF ListStep, Listed, Typed, WalkTyped
  <1>6. walk.listed \o p \in Seq(Row)
    BY <1>3, OffsetType
  <1>7. /\ walk'.listed = walk.listed \o p
        /\ walk'.at = IF hasNextPage(p) THEN "busy" ELSE "done"
        /\ walk'.table = walk.table /\ walk'.by = walk.by
        /\ walk'.order = walk.order /\ walk'.start = walk.start
        /\ walk' \in WalkState
    BY <1>5, <1>6 DEF WalkState
  <1>8. /\ Len(walk.listed \o p) = Len(walk.listed) + Len(p)
        /\ \A i \in 1 .. Len(walk.listed) : (walk.listed \o p)[i] = walk.listed[i]
        /\ \A i \in 1 .. Len(p) :
              (walk.listed \o p)[Len(walk.listed) + i] = p[i]
    BY <1>3, <1>4, OffsetType
  <1>. QED  BY <1>3, <1>4, <1>7, <1>8

LEMMA ListedSplit ==
    ASSUME Typed, NEW p, ListStep(p), NEW r
    PROVE  r \in ToSet(walk'.listed) <=> r \in ToSet(walk.listed) \/ r \in ToSet(p)
  <1>. DEFINE m == Len(walk.listed)
              n == Len(p)
  <1>1. /\ m \in Nat /\ n \in Nat
        /\ DOMAIN walk.listed = 1 .. m /\ DOMAIN p = 1 .. n
    BY OffsetType, Appended
  <1>2. walk'.listed \in Seq(Row) /\ DOMAIN walk'.listed = 1 .. (m + n)
    <2>1. walk'.listed \in Seq(Row) /\ Len(walk'.listed) = m + n
      BY Appended DEF WalkState
    <2>. QED  BY <2>1, LenProperties
  <1>3. /\ \A i \in 1 .. m : walk'.listed[i] = walk.listed[i]
        /\ \A i \in 1 .. n : walk'.listed[m + i] = p[i]
    BY Appended
  <1>. HIDE DEF m, n
  <1>4. ASSUME NEW j \in 1 .. (m + n)
        PROVE  j \in 1 .. m \/ (j - m \in 1 .. n /\ m + (j - m) = j)
    BY <1>1
  <1>5. ASSUME r \in ToSet(walk'.listed)
        PROVE  r \in ToSet(walk.listed) \/ r \in ToSet(p)
    <2>1. PICK j \in 1 .. (m + n) : walk'.listed[j] = r
      BY <1>2, <1>5 DEF ToSet
    <2>2. CASE j \in 1 .. m
      BY <1>1, <1>3, <2>1, <2>2 DEF ToSet
    <2>3. CASE j - m \in 1 .. n /\ m + (j - m) = j
      <3>1. p[j - m] = r
        BY <1>3, <2>1, <2>3
      <3>. QED  BY <1>1, <2>3, <3>1 DEF ToSet
    <2>. QED  BY <1>4, <2>2, <2>3
  <1>6. ASSUME r \in ToSet(walk.listed)  PROVE r \in ToSet(walk'.listed)
    <2>1. PICK i \in 1 .. m : walk.listed[i] = r
      BY <1>1, <1>6 DEF ToSet
    <2>2. i \in 1 .. (m + n) /\ walk'.listed[i] = r
      BY <1>1, <1>3, <2>1
    <2>. QED  BY <1>2, <2>2 DEF ToSet
  <1>7. ASSUME r \in ToSet(p)  PROVE r \in ToSet(walk'.listed)
    <2>1. PICK i \in 1 .. n : p[i] = r
      BY <1>1, <1>7 DEF ToSet
    <2>2. m + i \in 1 .. (m + n) /\ walk'.listed[m + i] = r
      BY <1>1, <1>3, <2>1
    <2>. QED  BY <1>2, <2>2 DEF ToSet
  <1>. QED  BY <1>5, <1>6, <1>7

-----------------------------------------------------------------------------
(***************************************************************************)
(* The types.                                                              *)
(***************************************************************************)
LEMMA TypedInit == Init => Typed /\ \A r \in Row : Completed(r)
  <1>. SUFFICES ASSUME Init  PROVE Typed /\ \A r \in Row : Completed(r)
    OBVIOUS
  <1>1. NoRow \in RowState
    BY ConstantsType DEF NoRow, RowState
  <1>2. \A r \in Row : row[r] = NoRow
    BY DEF Init
  <1>3. Rows
    BY <1>1, <1>2, ConstantsType DEF Init, Rows, NoRow
  <1>4. Linked /\ \A r \in Row : Completed(r)
    BY <1>2 DEF Init, Linked, Completed, NoRow
  <1>5. walk.listed = <<>> /\ walk.start = {} /\ ToSet(walk.listed) = {}
    BY DEF Init, NoWalk, ToSet
  <1>6. walk \in WalkState
    BY DEF Init, NoWalk, WalkState, By
  <1>7. WalkTyped
    BY <1>5, <1>6 DEF Init, NoWalk, WalkTyped
  <1>. QED  BY <1>3, <1>4, <1>7 DEF Init, Typed

LEMMA TickStep ==
    ASSUME Typed, Tick
    PROVE  Typed' /\ RowsGrow
  <1>1. now' \in 1 .. MaxNow
    BY ConstantsType DEF Tick, Typed, Rows
  <1>2. UNCHANGED <<scope, row, walk, found>>
    BY DEF Tick
  <1>3. Rows'
    BY <1>1, <1>2 DEF Typed, Rows
  <1>4. RowsGrow
    BY <1>2 DEF RowsGrow
  <1>. QED
    BY <1>2, <1>3, <1>4 DEF Typed, Linked, WalkTyped, Visible, RowsOf

LEMMA StartStep ==
    ASSUME Typed, StartWalk
    PROVE  /\ Typed' /\ walk'.at = "busy" /\ walk'.listed = <<>>
           /\ UNCHANGED <<scope, row, now, found>>
  <1>1. UNCHANGED <<scope, row, now, found>>
    BY DEF StartWalk
  <1>2. PICK t \in scope, by \in By, order \in {"ASC", "DESC"} :
          /\ by = "lastId" => t \in Serial
          /\ by = "first" => order = "DESC"
          /\ walk' = [at |-> "busy", table |-> t, by |-> by, order |-> order,
                      start |-> Visible(t), listed |-> <<>>]
    BY DEF StartWalk
  <1>3. t \in Table
    BY <1>2 DEF Typed, Scope, Table, Serial, Random
  <1>4. Visible(t) \in SUBSET Row
    BY DEF Visible, RowsOf
  <1>5. walk' \in WalkState
    BY <1>2, <1>3, <1>4 DEF WalkState
  <1>6. ToSet(<<>>) = {}
    BY DEF ToSet
  <1>7. Visible(t)' = Visible(t)
    BY <1>1 DEF Visible, RowsOf
  <1>8. WalkTyped'
    BY <1>2, <1>3, <1>5, <1>6, <1>7 DEF WalkTyped
  <1>9. (scope \in Scope)' /\ Rows' /\ Linked'
    BY <1>1 DEF Typed, Rows, Linked, Visible, RowsOf
  <1>. QED  BY <1>1, <1>2, <1>8, <1>9 DEF Typed

LEMMA EndStep ==
    ASSUME Typed, EndWalk
    PROVE  /\ Typed' /\ walk'.at = "idle" /\ walk'.by = "offset"
           /\ UNCHANGED <<scope, row, now, found>>
  <1>1. UNCHANGED <<scope, row, now, found>> /\ walk' = NoWalk
    BY DEF EndWalk
  <1>2. ToSet(<<>>) = {}
    BY DEF ToSet
  <1>3. WalkTyped'
    BY <1>1, <1>2 DEF WalkTyped, NoWalk, WalkState, By
  <1>4. (scope \in Scope)' /\ Rows' /\ Linked'
    BY <1>1 DEF Typed, Rows, Linked, Visible, RowsOf
  <1>. QED  BY <1>1, <1>3, <1>4 DEF Typed, NoWalk

LEMMA ListTyped ==
    ASSUME Typed, NEW p, ListStep(p)
    PROVE  Typed'
  <1>1. UNCHANGED <<scope, row, now, found>>
    BY DEF ListStep
  <1>2. (scope \in Scope)' /\ Rows' /\ Linked'
    BY <1>1 DEF Typed, Rows, Linked, Visible, RowsOf
  <1>3. Visible(walk.table)' = Visible(walk.table)
    BY <1>1, Appended DEF Visible, RowsOf
  <1>4. ASSUME NEW r \in ToSet(walk'.listed)
        PROVE  r \in Visible(walk.table)
    <2>1. ToSet(p) \subseteq Visible(walk.table)
      BY Appended DEF ToSet
    <2>. QED  BY <1>4, <2>1, ListedSplit DEF Typed, WalkTyped
  <1>5. WalkTyped'
    BY <1>3, <1>4, Appended DEF Typed, WalkTyped, ListStep
  <1>. QED  BY <1>2, <1>5 DEF Typed

LEMMA RowsTyped ==
    ASSUME Typed, RowStep
    PROVE  Typed' /\ RowsGrow /\ UNCHANGED walk
  <1>1. Rows' /\ RowsGrow /\ Linked' /\ UNCHANGED <<scope, walk>>
    BY RowsStep DEF Typed
  <1>2. Visible(walk.table) \subseteq Visible(walk.table)'
    BY <1>1, VisibleStays DEF Typed, Visible, RowsOf
  <1>. QED  BY <1>1, <1>2 DEF Typed, WalkTyped

LEMMA FoundTyped ==
    ASSUME Typed, FindStep
    PROVE  Typed' /\ UNCHANGED <<row, walk>>
  <1>1. Rows' /\ Linked' /\ UNCHANGED <<scope, row, walk>>
    BY FindTyped DEF Typed
  <1>. QED  BY <1>1 DEF Typed, WalkTyped, Visible, RowsOf

LEMMA TypedStep == Typed /\ [Next]_vars => Typed'
  <1>. SUFFICES ASSUME Typed, [Next]_vars  PROVE Typed'
    OBVIOUS
  <1>1. CASE UNCHANGED vars
    BY <1>1 DEF vars, Typed, Rows, Linked, WalkTyped, Visible, RowsOf
  <1>2. CASE Next
    BY <1>2, NextSteps, TickStep, StartStep, EndStep, ListTyped, RowsTyped, FoundTyped
  <1>. QED  BY <1>1, <1>2

LEMMA AlwaysTyped == Spec => []Typed
  BY TypedInit, TypedStep, PTL DEF Spec

\* TypeOK: every variable has its type; a page that a client got holds rows
\* of the table it asked for, which were committed.
THEOREM TypeCorrect == Spec => []TypeOK
  <1>1. Typed => TypeOK
    <2>. SUFFICES ASSUME Typed  PROVE TypeOK
      OBVIOUS
    <2>1. /\ walk \in WalkState
          /\ DOMAIN walk = {"at", "table", "by", "order", "start", "listed"}
      BY DEF Typed, WalkTyped, WalkState
    <2>2. walk.start \subseteq RowsOf(walk.table)
      BY DEF Typed, WalkTyped, Visible
    <2>3. \A R \in found : \E t \in Serial : R \subseteq Visible(t)
      BY DEF Typed, Linked
    <2>. QED  BY <2>1, <2>2, <2>3 DEF TypeOK, Typed, Rows, WalkTyped, WalkState
  <1>. QED  BY <1>1, AlwaysTyped, PTL

-----------------------------------------------------------------------------
\* HandledIsCompleted: however often a swap is recorded, and whatever rows are
\* added while the event of its transaction is handled, it is completed with
\* the transaction it refers to, unless Newest others are as new.
THEOREM ConfirmedIsCompleted == Spec => []HandledIsCompleted
  <1>. DEFINE Inv == \A r \in Row : Completed(r)
  <1>1. Init => Inv
    BY TypedInit
  <1>2. Typed /\ Inv /\ [Next]_vars => Inv'
    <2>. SUFFICES ASSUME Typed, Inv, [Next]_vars, NEW x \in Row
                  PROVE  Completed(x)'
      OBVIOUS
    <2>1. CASE UNCHANGED row
      BY <2>1 DEF Completed, NewerSwaps, Visible, RowsOf
    <2>2. CASE RowStep
      BY <2>2, CompletedStep DEF Typed
    <2>3. Next => UNCHANGED row \/ RowStep
      BY NextSteps, FoundTyped DEF Tick, StartWalk, EndWalk, ListStep
    <2>. QED  BY <2>1, <2>2, <2>3 DEF vars
  <1>3. Inv => HandledIsCompleted
    BY DEF Completed, HandledIsCompleted, NewerSwaps
  <1>. HIDE DEF Inv
  <1>. QED  BY <1>1, <1>2, <1>3, AlwaysTyped, PTL DEF Spec

-----------------------------------------------------------------------------
(***************************************************************************)
(* The walks.  A row that is not tied keeps its place among the others as  *)
(* rows are added, or moves on to a later place.                           *)
(***************************************************************************)
Earlier(r) ==
    {x \in Visible(walk.table) \ {r} : Rel(walk.table, walk.order, x, r)}

Sorted ==
    \A i, j \in DOMAIN walk.listed :
        i < j => Rel(walk.table, walk.order, walk.listed[i], walk.listed[j])

FirstPage ==
    /\ walk.at = "busy" => walk.listed = <<>>
    /\ walk.at = "done" =>
          \A r \in walk.start :
              Cardinality(Newer(r)) < Limit => Times(walk.listed, r) = 1

ByLastId ==
    walk.at # "idle" =>
        /\ Sorted
        /\ \A r \in walk.start :
              \/ r \in ToSet(walk.listed)
              \/ walk.at = "busy" /\ Past(walk.order, lastId, r)

ByOffset ==
    walk.at # "idle" =>
        \A r \in walk.start :
            \/ Tied(r)
            \/ r \in ToSet(walk.listed)
            \/ /\ walk.at = "busy"
               /\ Cardinality(Earlier(r)) >= Len(walk.listed)

WalkInv ==
    /\ walk.by = "first" => FirstPage
    /\ walk.by = "lastId" => ByLastId
    /\ walk.by = "offset" => ByOffset

LEMMA SometimesListed ==
    ASSUME NEW s \in Seq(Row), NEW r \in ToSet(s)
    PROVE  Times(s, r) >= 1
  <1>. DEFINE N == {n \in DOMAIN s : s[n] = r}
  <1>1. PICK i \in DOMAIN s : s[i] = r
    BY DEF ToSet
  <1>2. IsFiniteSet(N) /\ Cardinality(N) \in Nat
    <2>1. DOMAIN s = 1 .. Len(s) /\ Len(s) \in Nat
      BY LenProperties
    <2>2. IsFiniteSet(1 .. Len(s))
      BY <2>1, FS_Interval
    <2>. QED  BY <2>1, <2>2, FS_Subset, FS_CardinalityType
  <1>3. Cardinality({i}) = 1 /\ {i} \subseteq N
    BY <1>1, FS_Singleton
  <1>4. Cardinality({i}) <= Cardinality(N)
    BY <1>2, <1>3, FS_Subset
  <1>. QED  BY <1>2, <1>3, <1>4 DEF Times

LEMMA ListedOnce ==
    ASSUME NEW s, NEW r \in ToSet(s),
           \A i, j \in DOMAIN s : s[i] = r /\ s[j] = r => i = j
    PROVE  Times(s, r) = 1
  <1>1. PICK i \in DOMAIN s : s[i] = r
    BY DEF ToSet
  <1>2. {n \in DOMAIN s : s[n] = r} = {i}
    BY <1>1
  <1>. QED  BY <1>2, FS_Singleton DEF Times

\* Rows that are added.
LEMMA WalkGrows ==
    ASSUME Typed, Typed', RowsGrow, UNCHANGED walk, WalkInv
    PROVE  WalkInv'
  <1>1. \A r \in walk.start : r \in Visible(walk.table) /\ walk.table # "none"
    BY DEF Typed, WalkTyped, Visible, RowsOf, Rows
  <1>2. walk.table # "none" => Visible(walk.table) \subseteq Visible(walk.table)'
    BY VisibleStays DEF Typed
  <1>3. ASSUME walk.table # "none"
        PROVE  \A x \in RowsOf(walk.table) :
                  x \in RowsOf(walk.table)' /\ row'[x].created = row[x].created
    BY <1>3 DEF RowsOf, RowsGrow
  <1>4. ASSUME NEW r \in walk.start
        PROVE  /\ Newer(r) \subseteq Newer(r)' /\ Newer(r)' \in SUBSET Row
               /\ Earlier(r) \subseteq Earlier(r)' /\ Earlier(r)' \in SUBSET Row
               /\ Tied(r) => Tied(r)'
    <2>1. /\ r \in RowsOf(walk.table)
          /\ Visible(walk.table) \subseteq RowsOf(walk.table)
      BY <1>1, <1>4 DEF Visible
    <2>2. \A x \in RowsOf(walk.table) :
             /\ AsNew(r, x)' = AsNew(r, x) /\ AsNew(x, r)' = AsNew(x, r)
             /\ Rel(walk.table, walk.order, x, r)'
                   = Rel(walk.table, walk.order, x, r)
      BY <1>1, <1>3, <1>4, <2>1 DEF AsNew, Rel
    <2>3. Newer(r) \subseteq Newer(r)' /\ Earlier(r) \subseteq Earlier(r)'
      BY <1>1, <1>2, <1>4, <2>1, <2>2 DEF Newer, Earlier
    <2>4. Tied(r) => Tied(r)'
      BY <1>1, <1>3, <1>4, <2>2 DEF Tied
    <2>5. Newer(r)' \in SUBSET Row /\ Earlier(r)' \in SUBSET Row
      BY DEF Newer, Earlier, Visible, RowsOf
    <2>. QED  BY <2>3, <2>4, <2>5
  <1>5. ASSUME NEW r \in walk.start
        PROVE  /\ Cardinality(Newer(r)) <= Cardinality(Newer(r)')
               /\ Cardinality(Earlier(r)) <= Cardinality(Earlier(r)')
               /\ Cardinality(Newer(r)) \in Nat
               /\ Cardinality(Newer(r)') \in Nat
               /\ Cardinality(Earlier(r)) \in Nat
               /\ Cardinality(Earlier(r)') \in Nat
    <2>1. /\ Newer(r) \subseteq Newer(r)' /\ Newer(r)' \in SUBSET Row
          /\ Earlier(r) \subseteq Earlier(r)' /\ Earlier(r)' \in SUBSET Row
      BY <1>4, <1>5
    <2>2. Newer(r) \in SUBSET Row /\ Earlier(r) \in SUBSET Row
      BY <2>1
    <2>. QED  BY <2>1, <2>2, Smaller, RowsFinite
  <1>6. FirstPage => FirstPage'
    <2>1. \A r \in walk.start : Times(walk.listed, r)' = Times(walk.listed, r)
      BY DEF Times
    <2>. QED  BY <1>5, <2>1, ConstantsType DEF FirstPage
  <1>7. walk.by = "lastId" /\ ByLastId => ByLastId'
    <2>1. walk.by = "lastId" /\ Sorted => Sorted'
      BY DEF Sorted, Rel, Typed, WalkTyped
    <2>2. lastId' = lastId
      BY DEF lastId
    <2>. QED  BY <2>1, <2>2 DEF ByLastId, Past
  <1>8. ByOffset => ByOffset'
    BY <1>4, <1>5, OffsetType DEF ByOffset
  <1>. QED  BY <1>6, <1>7, <1>8 DEF WalkInv

LEMMA WalkStarts ==
    ASSUME Typed, StartWalk
    PROVE  WalkInv'
  <1>1. walk'.at = "busy" /\ walk'.listed = <<>> /\ Len(walk'.listed) = 0
    BY StartStep
  <1>2. FirstPage'
    BY <1>1 DEF FirstPage
  <1>3. ByLastId'
    <2>1. lastId' = 0
      BY <1>1 DEF lastId
    <2>2. Sorted'
      BY <1>1 DEF Sorted
    <2>. QED  BY <1>1, <2>1, <2>2 DEF ByLastId, Past
  <1>4. ByOffset'
    <2>1. \A r : Earlier(r)' \in SUBSET Row
      BY DEF Earlier, Visible, RowsOf
    <2>2. \A r : Cardinality(Earlier(r)') \in Nat
      BY <2>1, RowsFinite
    <2>. QED  BY <1>1, <2>2 DEF ByOffset
  <1>. QED  BY <1>2, <1>3, <1>4 DEF WalkInv

LEMMA WalkEnds ==
    ASSUME Typed, EndWalk
    PROVE  WalkInv'
  <1>1. walk'.at = "idle" /\ walk'.by = "offset"
    BY EndStep
  <1>. QED  BY <1>1 DEF WalkInv, FirstPage, ByLastId, ByOffset

\* The rows an answer is about, in the terms of the walk.
Left    == Rest(walk.table, walk.order, lastId)
May(x, y) == Rel(walk.table, walk.order, x, y)

LEMMA LeftRows ==
    Left \in SUBSET Row /\ IsFiniteSet(Left) /\ Cardinality(Left) \in Nat
  <1>1. Left \in SUBSET Row
    BY DEF Left, Rest, Visible, RowsOf
  <1>. QED  BY <1>1, RowsFinite

\* The rows of a page, and the place of any row.
LEMMA Placed ==
    ASSUME Typed, NEW p, ListStep(p)
    PROVE  /\ \A i, j \in 1 .. Len(p) :
                 i < j => May(p[i], p[j]) /\ p[i] # p[j]
           /\ \A i \in 1 .. Len(p) : p[i] \in Left
           /\ Len(p) \in 0 .. Limit
           /\ \A r \in Left : \E k \in 1 .. Cardinality(Left) :
                 /\ Cardinality({x \in Left \ {r} : ~May(r, x)}) <= k - 1
                 /\ k - 1 <= Cardinality({x \in Left \ {r} : May(x, r)})
                 /\ \/ k <= Offset
                    \/ k - Offset \in 1 .. Len(p) /\ p[k - Offset] = r
                    \/ /\ k > Offset + Len(p) /\ Len(p) = Limit
                       /\ \A i \in 1 .. Len(p) : May(p[i], r)
  <1>. DEFINE n == Cardinality(Left)
              before == Ordered(walk.table, walk.order, Left)
              o == Offset
  <1>1. n \in Nat /\ o \in Nat /\ Left \in SUBSET Row
    BY LeftRows, OffsetType
  <1>2. PICK s : Arranged(s, Left, before) /\ PageOf(p, s, Left, o, Limit)
    BY OffsetType, AnswerFacts DEF ListStep, Left
  <1>3. /\ Len(p) = IF o >= n THEN 0 ELSE IF o + Limit < n THEN Limit ELSE n - o
        /\ \A i \in 1 .. Len(p) : o + i <= n /\ p[i] = s[o + i]
        /\ p \in Seq(Left)
    BY <1>2 DEF PageOf
  <1>4. \A x, y \in Left : <<x, y>> \in before <=> May(x, y)
    BY DEF Ordered, May
  <1>5. /\ \A i \in 1 .. n : s[i] \in Left
        /\ \A i, j \in 1 .. n : i # j => s[i] # s[j]
        /\ \A i, j \in 1 .. n : i < j => May(s[i], s[j])
        /\ \A x \in Left : \E i \in 1 .. n : s[i] = x
    <2>. HIDE DEF before
    <2>. QED  BY <1>2, <1>4 DEF Arranged
  <1>. HIDE DEF n, before, o
  <1>6. Len(p) \in 0 .. Limit
    BY <1>1, <1>3, ConstantsType
  <1>7. \A i \in 1 .. Len(p) : o + i \in 1 .. n
    BY <1>1, <1>3, <1>6, ConstantsType
  <1>8. ASSUME NEW i \in 1 .. Len(p), NEW j \in 1 .. Len(p), i < j
        PROVE  May(p[i], p[j]) /\ p[i] # p[j]
    <2>1. o + i \in 1 .. n /\ o + j \in 1 .. n /\ o + i < o + j
      BY <1>1, <1>6, <1>7, <1>8, ConstantsType
    <2>. QED  BY <1>3, <1>5, <2>1
  <1>9. ASSUME NEW r \in Left
        PROVE  \E k \in 1 .. n :
                 /\ Cardinality({x \in Left \ {r} : ~May(r, x)}) <= k - 1
                 /\ k - 1 <= Cardinality({x \in Left \ {r} : May(x, r)})
                 /\ \/ k <= o
                    \/ k - o \in 1 .. Len(p) /\ p[k - o] = r
                    \/ /\ k > o + Len(p) /\ Len(p) = Limit
                       /\ \A i \in 1 .. Len(p) : May(p[i], r)
    <2>1. PICK k \in 1 .. n : s[k] = r
      BY <1>5
    <2>2. Cardinality({x \in Left \ {r} : ~May(r, x)}) <= k - 1
      <3>1. \A x \in {x \in Left \ {r} : ~May(r, x)} : <<s[k], x>> \notin before
        BY <1>4, <2>1
      <3>. QED  BY <1>1, <1>2, <2>1, <3>1, AtLeast DEF n
    <2>3. k - 1 <= Cardinality({x \in Left \ {r} : May(x, r)})
      <3>1. \A x \in Left \ {s[k]} :
               <<x, s[k]>> \in before => x \in {y \in Left \ {r} : May(y, r)}
        BY <1>4, <2>1
      <3>2. {y \in Left \ {r} : May(y, r)} \in SUBSET Row
        BY <1>1
      <3>. QED  BY <1>1, <1>2, <2>1, <3>1, <3>2, AtMost DEF n
    <2>4. CASE k > o /\ k <= o + Len(p)
      <3>1. k - o \in 1 .. Len(p) /\ o + (k - o) = k
        BY <1>1, <1>6, <2>4, ConstantsType
      <3>2. p[k - o] = r
        BY <1>3, <2>1, <3>1
      <3>. QED  BY <2>2, <2>3, <3>1, <3>2
    <2>5. CASE k > o + Len(p)
      <3>1. Len(p) = Limit
        BY <1>1, <1>3, <2>5, ConstantsType
      <3>2. ASSUME NEW i \in 1 .. Len(p)  PROVE May(p[i], r)
        <4>1. o + i \in 1 .. n /\ o + i < k
          BY <1>1, <1>6, <1>7, <2>5, ConstantsType
        <4>. QED  BY <1>3, <1>5, <2>1, <4>1
      <3>. QED  BY <2>2, <2>3, <2>5, <3>1, <3>2
    <2>6. k <= o \/ (k > o /\ k <= o + Len(p)) \/ k > o + Len(p)
      BY <1>1, <1>6, ConstantsType
    <2>. QED  BY <2>2, <2>3, <2>4, <2>5, <2>6
  <1>10. \A i \in 1 .. Len(p) : p[i] \in Left
    BY <1>3, <1>5, <1>7
  <1>. QED  BY <1>6, <1>8, <1>9, <1>10 DEF n, o

LEMMA ListKeeps ==
    ASSUME Typed, NEW p, ListStep(p), NEW r \in walk.start
    PROVE  /\ r \in Visible(walk.table) /\ r \in Row
           /\ Newer(r)' = Newer(r) /\ Earlier(r)' = Earlier(r)
           /\ Tied(r)' = Tied(r)
  <1>1. UNCHANGED row
    BY DEF ListStep
  <1>2. walk'.table = walk.table /\ walk'.order = walk.order
    BY Appended
  <1>3. \A x : /\ AsNew(r, x)' = AsNew(r, x) /\ AsNew(x, r)' = AsNew(x, r)
               /\ Rel(walk.table, walk.order, x, r)'
                     = Rel(walk.table, walk.order, x, r)
    BY <1>1, <1>2 DEF AsNew, Rel
  <1>4. r \in Visible(walk.table) /\ r \in Row
    BY DEF Typed, WalkTyped, Visible, RowsOf
  <1>. QED
    BY <1>1, <1>2, <1>3, <1>4 DEF Newer, Earlier, Tied, Visible, RowsOf

LEMMA FirstPageListed ==
    ASSUME Typed, NEW p, ListStep(p), walk.by = "first", FirstPage
    PROVE  FirstPage'
  <1>1. walk'.at = "done" /\ walk'.listed = p
    <2>1. walk.listed = <<>>
      BY DEF ListStep, FirstPage
    <2>2. <<>> \o p = p
      BY Appended
    <2>. QED  BY <2>1, <2>2, Appended DEF hasNextPage
  <1>2. Offset = 0 /\ Left = Visible(walk.table)
    BY DEF Offset, Left, Rest, lastId, Past
  <1>3. ASSUME NEW r \in walk.start, Cardinality(Newer(r)) < Limit
        PROVE  Times(p, r) = 1
    <2>1. r \in Left
      BY <1>2, <1>3, ListKeeps
    <2>2. PICK k \in 1 .. Cardinality(Left) :
             /\ Cardinality({x \in Left \ {r} : ~May(r, x)}) <= k - 1
             /\ k - 1 <= Cardinality({x \in Left \ {r} : May(x, r)})
             /\ \/ k <= Offset
                \/ k - Offset \in 1 .. Len(p) /\ p[k - Offset] = r
                \/ /\ k > Offset + Len(p) /\ Len(p) = Limit
                   /\ \A i \in 1 .. Len(p) : May(p[i], r)
      BY <2>1, Placed
    <2>3. {x \in Left \ {r} : May(x, r)} \subseteq Newer(r)
      <3>1. walk.order = "DESC"
        BY DEF Typed, WalkTyped
      <3>2. \A x \in Left : May(x, r) => AsNew(r, x)
        BY <1>3, <3>1, LeftRows, ListKeeps DEF May, Rel, AsNew, Row
      <3>. QED  BY <1>2, <3>2 DEF Newer
    <2>4. Newer(r) \in SUBSET Row
      BY DEF Newer, Visible, RowsOf
    <2>5. /\ Cardinality({x \in Left \ {r} : May(x, r)}) <= Cardinality(Newer(r))
          /\ Cardinality({x \in Left \ {r} : May(x, r)}) \in Nat
          /\ Cardinality(Newer(r)) \in Nat
      BY <2>3, <2>4, Smaller, RowsFinite
    <2>6. k \in 1 .. Len(p) /\ p[k] = r
      <3>1. k - Offset = k /\ k >= 1 /\ k - 1 < Limit
        BY <1>2, <1>3, <2>2, <2>5, LeftRows, ConstantsType
      <3>. QED  BY <1>2, <2>2, <3>1, Appended, LeftRows, ConstantsType
    <2>7. DOMAIN p = 1 .. Len(p) /\ Len(p) \in Nat
      BY Appended
    <2>8. r \in ToSet(p)
      BY <2>6, <2>7 DEF ToSet
    <2>9. \A i, j \in DOMAIN p : p[i] = r /\ p[j] = r => i = j
      <3>1. \A i, j \in 1 .. Len(p) : i < j => p[i] # p[j]
        BY Placed
      <3>2. \A i, j \in 1 .. Len(p) : i = j \/ i < j \/ j < i
        BY <2>7
      <3>. QED  BY <2>7, <3>1, <3>2
    <2>. QED  BY <2>8, <2>9, ListedOnce
  <1>. QED  BY <1>1, <1>3, ListKeeps, Appended DEF FirstPage

LEMMA OffsetListed ==
    ASSUME Typed, NEW p, ListStep(p), walk.by = "offset", ByOffset
    PROVE  ByOffset'
  <1>1. /\ Offset = Len(walk.listed) /\ Len(walk.listed) \in Nat
        /\ Left = Visible(walk.table)
    BY OffsetType DEF Offset, Left, Rest, lastId, Past
  <1>2. ASSUME NEW r \in walk.start, ~Tied(r), r \notin ToSet(walk'.listed)
        PROVE  /\ walk'.at = "busy"
               /\ Cardinality(Earlier(r)) >= Len(walk'.listed)
    <2>1. Cardinality(Earlier(r)) >= Len(walk.listed) /\ r \notin ToSet(p)
      BY <1>2, ListedSplit DEF ByOffset, ListStep
    <2>2. r \in Left /\ r \in Row
      BY <1>1, <1>2, ListKeeps
    <2>3. PICK k \in 1 .. Cardinality(Left) :
             /\ Cardinality({x \in Left \ {r} : ~May(r, x)}) <= k - 1
             /\ k - 1 <= Cardinality({x \in Left \ {r} : May(x, r)})
             /\ \/ k <= Offset
                \/ k - Offset \in 1 .. Len(p) /\ p[k - Offset] = r
                \/ /\ k > Offset + Len(p) /\ Len(p) = Limit
                   /\ \A i \in 1 .. Len(p) : May(p[i], r)
      BY <2>2, Placed
    <2>4. {x \in Left \ {r} : May(x, r)} = Earlier(r)
      BY <1>1 DEF May, Earlier
    <2>5. Earlier(r) \subseteq {x \in Left \ {r} : ~May(r, x)}
      <3>1. ASSUME NEW x \in Left \ {r}, May(x, r), May(r, x)
            PROVE  FALSE
        <4>1. CASE walk.table \in Serial
          BY <2>2, <3>1, <4>1, LeftRows DEF May, Rel, Row
        <4>2. CASE walk.table \notin Serial
          <5>1. row[x].created \in Int /\ row[r].created \in Int
            BY <2>2, LeftRows, ConstantsType DEF Typed, Rows, RowState
          <5>2. AsNew(r, x) /\ AsNew(x, r)
            BY <3>1, <4>2, <5>1 DEF May, Rel, AsNew
          <5>3. x \in RowsOf(walk.table) \ {r}
            BY <1>1, <3>1 DEF Visible
          <5>. QED  BY <1>2, <5>2, <5>3 DEF Tied
        <4>. QED  BY <4>1, <4>2
      <3>. QED  BY <2>4, <3>1
    <2>6. /\ Cardinality(Earlier(r)) <= k - 1
          /\ k - 1 <= Cardinality(Earlier(r))
          /\ Cardinality(Earlier(r)) \in Nat
      <3>1. {x \in Left \ {r} : ~May(r, x)} \in SUBSET Row
        BY LeftRows
      <3>2. Earlier(r) \in SUBSET Row
        BY <2>5, <3>1
      <3>3. /\ Cardinality(Earlier(r))
                  <= Cardinality({x \in Left \ {r} : ~May(r, x)})
            /\ Cardinality(Earlier(r)) \in Nat
            /\ Cardinality({x \in Left \ {r} : ~May(r, x)}) \in Nat
        BY <2>5, <3>1, <3>2, Smaller, RowsFinite
      <3>4. k - 1 <= Cardinality(Earlier(r))
        BY <2>3, <2>4
      <3>5. Cardinality({x \in Left \ {r} : ~May(r, x)}) <= k - 1
        BY <2>3
      <3>. HIDE DEF Left
      <3>. QED  BY <3>3, <3>4, <3>5, LeftRows
    <2>7. ~(k - Offset \in 1 .. Len(p) /\ p[k - Offset] = r)
      BY <2>1, Appended DEF ToSet
    <2>8. k > Offset + Len(p) /\ Len(p) = Limit
      BY <1>1, <2>1, <2>3, <2>6, <2>7, LeftRows
    <2>9. Len(walk'.listed) = Len(walk.listed) + Len(p) /\ walk'.at = "busy"
      BY <2>8, Appended DEF hasNextPage
    <2>. QED  BY <1>1, <2>6, <2>8, <2>9, LeftRows, ConstantsType
  <1>. QED  BY <1>2, ListKeeps, Appended DEF ByOffset

LEMMA SerialOrder ==
    ASSUME walk.by = "lastId", Typed
    PROVE  /\ \A x, y, z \in Row : May(x, y) /\ May(y, z) => May(x, z)
           /\ \A x, y \in Row : Past(walk.order, x, y) <=> May(x, y)
  <1>1. walk.table \in Serial /\ walk.order \in {"ASC", "DESC"}
    BY DEF Typed, WalkTyped, WalkState
  <1>2. \A x, y, z \in Row : May(x, y) /\ May(y, z) => May(x, z)
    BY <1>1 DEF May, Rel, Row
  <1>3. \A x, y \in Row : Past(walk.order, x, y) <=> May(x, y)
    BY <1>1, ConstantsType DEF May, Rel, Row, Past
  <1>. QED  BY <1>2, <1>3

LEMMA LastIdSorted ==
    ASSUME Typed, NEW p, ListStep(p), walk.by = "lastId", ByLastId
    PROVE  Sorted'
  <1>. DEFINE m == Len(walk.listed)
              n == Len(p)
              all == walk'.listed
  <1>1. /\ m \in Nat /\ n \in Nat /\ DOMAIN walk.listed = 1 .. m
        /\ walk.listed \in Seq(Row)
    BY OffsetType, Appended
  <1>2. DOMAIN all = 1 .. (m + n)
    <2>1. all \in Seq(Row) /\ Len(all) = m + n
      BY Appended DEF WalkState
    <2>. QED  BY <2>1, LenProperties
  <1>3. /\ \A i \in 1 .. m : all[i] = walk.listed[i] /\ all[i] \in Row
        /\ \A i \in 1 .. n : all[m + i] = p[i] /\ all[m + i] \in Left
    BY <1>1, Appended, Placed
  <1>4. \A i, j \in 1 .. m : i < j => May(all[i], all[j])
    BY <1>1, <1>3 DEF ByLastId, ListStep, Sorted, May
  <1>5. \A i, j \in 1 .. n : i < j => May(all[m + i], all[m + j])
    BY <1>3, Placed
  <1>. HIDE DEF m, n, all
  <1>6. ASSUME NEW i \in 1 .. m, NEW j \in 1 .. n
        PROVE  May(all[i], all[m + j])
    <2>1. m \in 1 .. m /\ all[m] \in Row /\ all[i] \in Row
      BY <1>1, <1>3, <1>6
    <2>2. all[m + j] \in Row /\ Past(walk.order, lastId, all[m + j])
      BY <1>3, <1>6, LeftRows DEF Left, Rest
    <2>3. lastId = all[m]
      <3>1. walk.listed # <<>> /\ Last(walk.listed) = walk.listed[m]
        BY <1>1, <2>1 DEF Last, m
      <3>. QED  BY <1>3, <2>1, <3>1 DEF lastId
    <2>4. May(all[m], all[m + j])
      BY <2>1, <2>2, <2>3, SerialOrder
    <2>5. i = m \/ May(all[i], all[m])
      BY <1>1, <1>4, <1>6, <2>1
    <2>. QED  BY <2>1, <2>2, <2>4, <2>5, SerialOrder
  <1>7. ASSUME NEW i \in 1 .. (m + n), NEW j \in 1 .. (m + n), i < j
        PROVE  May(all[i], all[j])
    <2>1. CASE j <= m
      BY <1>1, <1>4, <1>7, <2>1
    <2>2. CASE i <= m /\ m < j
      <3>1. i \in 1 .. m /\ j - m \in 1 .. n /\ m + (j - m) = j
        BY <1>1, <1>7, <2>2
      <3>2. May(all[i], all[m + (j - m)])
        BY <1>6, <3>1
      <3>. QED  BY <3>1, <3>2
    <2>3. CASE m < i
      <3>1. /\ i - m \in 1 .. n /\ m + (i - m) = i /\ i - m < j - m
            /\ j - m \in 1 .. n /\ m + (j - m) = j
        BY <1>1, <1>7, <2>3
      <3>2. May(all[m + (i - m)], all[m + (j - m)])
        BY <1>5, <3>1
      <3>. QED  BY <3>1, <3>2
    <2>. QED  BY <1>1, <1>7, <2>1, <2>2, <2>3
  <1>8. UNCHANGED row /\ walk'.table = walk.table /\ walk'.order = walk.order
    BY Appended DEF ListStep
  <1>. QED  BY <1>2, <1>7, <1>8 DEF Sorted, May, Rel, all

LEMMA LastIdListed ==
    ASSUME Typed, NEW p, ListStep(p), walk.by = "lastId", ByLastId
    PROVE  ByLastId'
  <1>1. Offset = 0
    BY DEF Offset
  <1>2. ASSUME NEW r \in walk.start, r \notin ToSet(walk'.listed)
        PROVE  walk'.at = "busy" /\ Past(walk.order, lastId', r)
    <2>1. /\ Past(walk.order, lastId, r) /\ r \notin ToSet(p)
          /\ r \in Visible(walk.table) /\ r \in Row
      BY <1>2, ListedSplit, ListKeeps DEF ByLastId, ListStep
    <2>2. r \in Left
      BY <2>1 DEF Left, Rest
    <2>3. PICK k \in 1 .. Cardinality(Left) :
             /\ Cardinality({x \in Left \ {r} : ~May(r, x)}) <= k - 1
             /\ k - 1 <= Cardinality({x \in Left \ {r} : May(x, r)})
             /\ \/ k <= Offset
                \/ k - Offset \in 1 .. Len(p) /\ p[k - Offset] = r
                \/ /\ k > Offset + Len(p) /\ Len(p) = Limit
                   /\ \A i \in 1 .. Len(p) : May(p[i], r)
      BY <2>2, Placed
    <2>4. ~(k - Offset \in 1 .. Len(p) /\ p[k - Offset] = r)
      BY <2>1, Appended DEF ToSet
    <2>5. Len(p) = Limit /\ \A i \in 1 .. Len(p) : May(p[i], r)
      BY <1>1, <2>3, <2>4, LeftRows
    <2>6. walk'.at = "busy"
      BY <2>5, Appended DEF hasNextPage
    <2>7. lastId' = p[Limit]
      <3>1. walk'.listed[Len(walk.listed) + Limit] = p[Limit]
        <4>1. Limit \in 1 .. Len(p)
          BY <2>5, ConstantsType
        <4>2. \A i \in 1 .. Len(p) :
                 walk'.listed[Len(walk.listed) + i] = p[i]
          BY Appended
        <4>. QED  BY <4>1, <4>2
      <3>2. /\ Len(walk'.listed) = Len(walk.listed) + Limit
            /\ walk'.listed # <<>> /\ walk'.by = "lastId"
        <4>1. /\ Len(walk'.listed) = Len(walk.listed) + Len(p)
              /\ walk'.by = walk.by
          BY Appended
        <4>2. Len(walk'.listed) # 0
          BY <2>5, <4>1, OffsetType, ConstantsType
        <4>. QED  BY <2>5, <4>1, <4>2
      <3>. QED  BY <3>1, <3>2 DEF lastId, Last
    <2>8. Limit \in 1 .. Len(p) /\ p[Limit] \in Row
      BY <2>5, Placed, LeftRows, ConstantsType
    <2>9. Past(walk.order, p[Limit], r)
      BY <2>1, <2>5, <2>8, SerialOrder
    <2>. QED  BY <2>6, <2>7, <2>9
  <1>. QED  BY <1>2, LastIdSorted, Appended DEF ByLastId, Past

LEMMA WalkIsDone == Typed /\ WalkInv => WalkIsComplete
  <1>. SUFFICES ASSUME Typed, WalkInv, walk.at = "done", NEW r \in walk.start
                PROVE  /\ walk.by = "lastId" => Times(walk.listed, r) = 1
                       /\ walk.by = "offset" /\ ~Tied(r) =>
                              Times(walk.listed, r) >= 1
                       /\ walk.by = "first" /\ Cardinality(Newer(r)) < Limit =>
                              Times(walk.listed, r) = 1
    BY DEF WalkIsComplete
  <1>1. ASSUME walk.by = "lastId"  PROVE Times(walk.listed, r) = 1
    <2>1. r \in ToSet(walk.listed) /\ Sorted
      BY <1>1 DEF WalkInv, ByLastId
    <2>2. ASSUME NEW i \in DOMAIN walk.listed, NEW j \in DOMAIN walk.listed,
                 walk.listed[i] = r, walk.listed[j] = r
          PROVE  i = j
      <3>1. i = j \/ i < j \/ j < i
        BY OffsetType
      <3>2. r \in Row /\ walk.table \in Serial
        BY <1>1 DEF Typed, WalkTyped, Visible, RowsOf
      <3>3. ~Rel(walk.table, walk.order, r, r)
        BY <3>2 DEF Rel, Row
      <3>. QED  BY <2>1, <2>2, <3>1, <3>3 DEF Sorted
    <2>. QED  BY <2>1, <2>2, ListedOnce
  <1>2. ASSUME walk.by = "offset", ~Tied(r)  PROVE Times(walk.listed, r) >= 1
    <2>1. r \in ToSet(walk.listed)
      BY <1>2 DEF WalkInv, ByOffset
    <2>. QED  BY <2>1, OffsetType, SometimesListed
  <1>3. walk.by = "first" /\ Cardinality(Newer(r)) < Limit =>
            Times(walk.listed, r) = 1
    BY DEF WalkInv, FirstPage
  <1>. QED  BY <1>1, <1>2, <1>3

\* WalkIsComplete: the rows that were there when a client began are all on
\* the pages it got, whatever is added meanwhile: once by lastId, at least
\* once by offset but for ties, and on the first page if not too many rows
\* are as new.
THEOREM WalksAreComplete == Spec => []WalkIsComplete
  <1>1. Init => WalkInv
    <2>. SUFFICES ASSUME Init  PROVE WalkInv
      OBVIOUS
    <2>1. walk.at = "idle" /\ walk.by = "offset"
      BY DEF Init, NoWalk
    <2>. QED  BY <2>1 DEF WalkInv, ByOffset
  <1>2. Typed /\ Typed' /\ WalkInv /\ [Next]_vars => WalkInv'
    <2>. SUFFICES ASSUME Typed, Typed', WalkInv, [Next]_vars  PROVE WalkInv'
      OBVIOUS
    <2>1. CASE UNCHANGED <<row, walk>>
      <3>1. RowsGrow
        BY <2>1 DEF RowsGrow
      <3>. QED  BY <2>1, <3>1, WalkGrows
    <2>2. CASE StartWalk \/ EndWalk
      BY <2>2, WalkStarts, WalkEnds
    <2>3. ASSUME NEW p, ListStep(p)  PROVE WalkInv'
      BY <2>3, Appended, FirstPageListed, LastIdListed, OffsetListed
         DEF WalkInv
    <2>4. CASE RowStep
      BY <2>4, RowsTyped, WalkGrows
    <2>5. Tick \/ FindStep => UNCHANGED <<row, walk>>
      BY FoundTyped DEF Tick
    <2>. QED  BY <2>1, <2>2, <2>3, <2>4, <2>5, NextSteps DEF vars
  <1>. QED  BY <1>1, <1>2, WalkIsDone, AlwaysTyped, PTL DEF Spec
=============================================================================
