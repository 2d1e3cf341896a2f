------------------------ MODULE ExpenseSyncFeedProofs ------------------------
(***************************************************************************)
(* Proofs about ExpenseSyncFeed: what a device that follows the feed can   *)
(* miss, and that it never goes back, for every number of expenses and     *)
(* transactions and every page limit.                                      *)
(***************************************************************************)
EXTENDS ExpenseSyncFeed, TLAPS, FiniteSetTheorems

(***************************************************************************)
(* The inductive invariant.                                                *)
(***************************************************************************)

\* The clock is ahead of every reading that was stored.
ClockInv ==
  /\ cursor.time < now
  /\ \A i \in Ids : rows[i].updatedAt < now

\* Nothing is known of a version that was never committed.
TableInv ==
  \A i \in Ids :
    /\ rows[i].deleted => Exists(i)
    /\ splits[i].writtenBy <= rows[i].version
    /\ replica[i].version <= rows[i].version
    /\ replica[i].sharesOf <= rows[i].version
    /\ replica[i].deleted => rows[i].deleted

\* An open transaction that can still commit began after the version it
\* replaces was stored; and one that no page read overlapped will be stamped
\* after the cursor and after every row of the page.
FitToCommit(w) ==
  /\ txn[w].op # "none" /\ txn[w].id \in Ids
  /\ txn[w].expected < MaxVersion
  /\ txn[w].expected <= rows[txn[w].id].version
  /\ txn[w].began <= now
  /\ StillExpected(w) => /\ rows[txn[w].id].updatedAt < txn[w].began
                         /\ ~rows[txn[w].id].deleted
  /\ ~txn[w].overlapped => /\ cursor.time < txn[w].began
                           /\ \A r \in page : r.updatedAt < txn[w].began

TxnInv == \A w \in Writers : txn[w] # NoTxn => FitToCommit(w)

\* A row of the page is a version that its expense has or had, not an older
\* one than the device holds.
PageInv ==
  /\ page = {} <=> ~serving
  /\ \A r \in page :
       /\ r.updatedAt < now
       /\ r.version <= rows[r.id].version
       /\ r.version = rows[r.id].version => r = RowOf(r.id)
       /\ r.version >= replica[r.id].version
       /\ r.deleted => rows[r.id].deleted
       /\ replica[r.id].deleted => r.deleted
  /\ \A r, s \in page : r.id = s.id => r = s

\* What the device lacks is on the page, or comes after every row of it,
\* unless its transaction overlapped a page read.
CoverInv ==
  serving => \A i \in Ids :
    rows[i].version > replica[i].version =>
      \/ rows[i].overlapped
      \/ RowOf(i) \in page
      \/ \A r \in page : After(rows[i].updatedAt, i, NextCursor(r))

FeedInv == /\ TypeOK /\ ClockInv /\ TableInv /\ TxnInv /\ PageInv /\ CoverInv
           /\ OnlyOverlappedChangesAreMissed

-----------------------------------------------------------------------------
(***************************************************************************)
(* Lemmas about a page.                                                    *)
(***************************************************************************)

\* What is used of the types when nothing is said of cardinalities.
LEMMA Constants ==
  /\ Ids \subseteq Nat /\ 0 \notin Ids /\ IsFiniteSet(Ids)
  /\ Limit \in Nat /\ Limit > 0
  /\ MaxVersion \in Nat /\ MaxClock \in Nat
  BY IdsAreOrdered, LimitIsPositive, BoundsArePositive

\* A row of the table is fit for a page.
LEMMA RowOfType ==
  ASSUME TypeOK, NEW i \in Ids
  PROVE  /\ RowOf(i) \in PageRow
         /\ RowOf(i).id = i /\ RowOf(i).version = rows[i].version
         /\ RowOf(i).updatedAt = rows[i].updatedAt
         /\ RowOf(i).deleted = rows[i].deleted
  BY DEF TypeOK, Row, PageRow, RowOf

\* Ids, versions and times of a row of a page are numbers.
LEMMA PageRowNumbers ==
  ASSUME NEW r \in PageRow
  PROVE  /\ r.id \in Ids /\ r.id \in Nat
         /\ r.version \in Versions /\ r.version \in Nat
         /\ r.updatedAt \in Times /\ r.updatedAt \in Nat
<1>1. r.id \in Ids /\ r.version \in Versions /\ r.updatedAt \in Times
  BY DEF PageRow
<1>2. r.id \in Nat
  BY <1>1, Constants
<1>3. r.version \in Nat /\ r.updatedAt \in Nat
  BY <1>1, Constants DEF Versions, Times
<1>4. QED
  BY <1>1, <1>2, <1>3

LEMMA LaterType == TypeOK => Later \subseteq PageRow
  BY RowOfType DEF Later

\* The rows after the cursor are finitely many, one for each expense.
LEMMA LaterFinite ==
  ASSUME TypeOK
  PROVE  IsFiniteSet(Later)
<1> DEFINE f == [r \in Later |-> r.id]
<1>1. \A r \in Later : r.id \in Ids /\ r = RowOf(r.id)
  BY RowOfType DEF Later
<1>2. f \in Injection(Later, Ids)
  BY <1>1 DEF Injection, IsInjective
<1>3. QED
  BY <1>2, FS_Injection, Constants

LEMMA AheadFinite ==
  ASSUME TypeOK, NEW r
  PROVE  /\ IsFiniteSet(Ahead(r)) /\ Cardinality(Ahead(r)) \in Nat
         /\ Ahead(r) \subseteq Later
<1>1. Ahead(r) \in SUBSET Later
  BY DEF Ahead
<1>2. QED
  BY <1>1, LaterFinite, FS_Subset, FS_CardinalityType

\* Of two rows after the cursor one is ahead of the other,
LEMMA FeedOrderTotal ==
  ASSUME TypeOK, NEW r \in Later, NEW s \in Later, r # s
  PROVE  InFeedOrder(r, s) \/ InFeedOrder(s, r)
<1>1. r \in PageRow /\ s \in PageRow
  BY LaterType
<1>2. r.id # s.id
  BY RowOfType DEF Later
<1>3. QED
  BY <1>1, <1>2, PageRowNumbers DEF InFeedOrder

\* and fewer rows are ahead of that one.
LEMMA FewerAhead ==
  ASSUME TypeOK, NEW r \in Later, NEW s \in Later, InFeedOrder(r, s)
  PROVE  Cardinality(Ahead(r)) < Cardinality(Ahead(s))
<1>1. r \in PageRow /\ s \in PageRow /\ Later \subseteq PageRow
  BY LaterType
<1>2. \A q \in PageRow : InFeedOrder(q, r) => InFeedOrder(q, s)
  BY <1>1, PageRowNumbers DEF InFeedOrder
<1>3. ~InFeedOrder(r, r)
  BY <1>1, PageRowNumbers DEF InFeedOrder
<1>4. Ahead(r) \in SUBSET Ahead(s) /\ Ahead(r) # Ahead(s)
  BY <1>1, <1>2, <1>3 DEF Ahead
<1>5. QED
  BY <1>4, AheadFinite, FS_Subset

\* A page holds at most Limit rows.
LEMMA PageSize ==
  ASSUME TypeOK
  PROVE  Cardinality({r \in Later : OnPage(r)}) <= Limit
<1> DEFINE P == {r \in Later : OnPage(r)}
           f == [r \in P |-> Cardinality(Ahead(r))]
<1>1. \A r \in P : Cardinality(Ahead(r)) \in 0 .. Limit - 1
  BY AheadFinite, Constants DEF OnPage
<1>2. ASSUME NEW r \in P, NEW s \in P, r # s
      PROVE  Cardinality(Ahead(r)) # Cardinality(Ahead(s))
  <2>1. InFeedOrder(r, s) \/ InFeedOrder(s, r)
    BY <1>2, FeedOrderTotal
  <2>2. QED
    BY <2>1, FewerAhead, AheadFinite
<1>3. f \in Injection(P, 0 .. Limit - 1)
  BY <1>1, <1>2 DEF Injection, IsInjective
<1>4. IsFiniteSet(0 .. Limit - 1) /\ Cardinality(0 .. Limit - 1) = Limit
  BY FS_Interval, Constants
<1>5. QED
  BY <1>3, <1>4, FS_Injection

-----------------------------------------------------------------------------
(***************************************************************************)
(* Lemmas about the state.                                                 *)
(***************************************************************************)

\* Times, versions and ids are numbers.
LEMMA StateNumbers ==
  ASSUME TypeOK
  PROVE  /\ now \in Nat /\ cursor.time \in Nat /\ cursor.id \in Nat
         /\ \A i \in Ids : /\ i \in Nat
                           /\ rows[i].version \in Nat /\ rows[i].updatedAt \in Nat
                           /\ splits[i].writtenBy \in Nat
                           /\ replica[i].version \in Nat
                           /\ replica[i].sharesOf \in Nat
         /\ \A w \in Writers : txn[w].expected \in Nat /\ txn[w].began \in Nat
<1>1. Versions \subseteq Nat /\ Times \subseteq Nat /\ Ids \cup {0} \subseteq Nat
  BY Constants DEF Versions, Times
<1>2. now \in Times /\ cursor.time \in Times /\ cursor.id \in Ids \cup {0}
  BY DEF TypeOK
<1>3. \A i \in Ids : /\ rows[i].version \in Versions /\ rows[i].updatedAt \in Times
                     /\ splits[i].writtenBy \in Versions
                     /\ replica[i].version \in Versions
                     /\ replica[i].sharesOf \in Versions
  BY DEF TypeOK, Row, Split, Copy
<1>4. \A w \in Writers : txn[w].expected \in Versions /\ txn[w].began \in Times
  BY DEF TypeOK, Txn
<1>5. QED
  BY <1>1, <1>2, <1>3, <1>4

\* A transaction that commits stamps a row of the table's type.
LEMMA WrittenType ==
  ASSUME TypeOK, NEW w \in Writers, txn[w].expected < MaxVersion
  PROVE  /\ Written(txn[w]) \in Row
         /\ [total |-> txn[w].amount, writtenBy |-> txn[w].expected + 1] \in Split
<1>1. txn[w].expected + 1 \in Versions
  BY StateNumbers, Constants DEF Versions
<1>2. /\ txn[w].began \in Times /\ txn[w].amount \in Amounts \cup {0}
      /\ txn[w].overlapped \in BOOLEAN /\ (txn[w].op = "delete") \in BOOLEAN
  BY DEF TypeOK, Txn
<1>3. QED
  BY <1>1, <1>2 DEF Written, Row, Split

\* What the device makes of a row of the page is a copy of it.
LEMMA CopyOfType ==
  ASSUME TypeOK, NEW r \in page
  PROVE  /\ CopyOf(r) \in Copy
         /\ CopyOf(r).version = r.version /\ CopyOf(r).deleted = r.deleted
         /\ CopyOf(r).sharesOf = r.version \/ CopyOf(r).sharesOf = splits[r.id].writtenBy
<1>1. r.version \in Versions /\ r.deleted \in BOOLEAN /\ r.id \in Ids
  BY DEF TypeOK, PageRow
<1>2. splits[r.id].writtenBy \in Versions
  BY <1>1 DEF TypeOK, Split
<1>3. QED
  BY <1>1, <1>2 DEF CopyOf, Copy

\* The initial states satisfy the invariant.
LEMMA InitInv == Init => FeedInv
<1> SUFFICES ASSUME Init PROVE FeedInv
  OBVIOUS
<1> USE DEF Init
<1>1. 0 \in Versions /\ 0 \in Times /\ 1 \in Times
  BY Constants, BoundsArePositive DEF Versions, Times
<1>2. TypeOK
  <2>1. rows \in [Ids -> Row] /\ splits \in [Ids -> Split] /\ replica \in [Ids -> Copy]
    BY <1>1 DEF Row, Split, Copy
  <2>2. NoTxn \in Txn
    BY <1>1 DEF NoTxn, Txn
  <2>3. page \subseteq PageRow /\ Cardinality(page) <= Limit
    BY FS_EmptySet, Constants
  <2>4. QED
    BY <1>1, <2>1, <2>2, <2>3 DEF TypeOK
<1>3. ClockInv /\ TableInv
  BY DEF ClockInv, TableInv, Exists
<1>4. TxnInv /\ PageInv /\ CoverInv
  BY DEF TxnInv, PageInv, CoverInv
<1>5. OnlyOverlappedChangesAreMissed
  BY DEF OnlyOverlappedChangesAreMissed, Missed
<1>6. QED
  BY <1>2, <1>3, <1>4, <1>5 DEF FeedInv

-----------------------------------------------------------------------------
(***************************************************************************)
(* Every action preserves the invariant.                                   *)
(***************************************************************************)

LEMMA TickKeeps == FeedInv /\ Tick => FeedInv'
<1> SUFFICES ASSUME FeedInv, Tick PROVE FeedInv'
  OBVIOUS
<1> USE DEF FeedInv, feed, device
<1>1. now' = now + 1 /\ now' \in Times /\ now \in Nat
  BY StateNumbers, Constants DEF Tick, Times
<1>2. UNCHANGED <<rows, splits, txn, page, serving, cursor, replica>>
  BY DEF Tick
<1>3. TypeOK'
  BY <1>1, <1>2 DEF TypeOK
<1>4. ClockInv'
  BY <1>1, <1>2, StateNumbers DEF ClockInv
<1>5. TableInv'
  BY <1>2 DEF TableInv, Exists
<1>6. TxnInv'
  <2> SUFFICES ASSUME NEW w \in Writers, txn[w] # NoTxn
               PROVE  txn[w].began <= now'
    BY <1>2 DEF TxnInv, FitToCommit, StillExpected
  <2>1. txn[w].began <= now
    BY DEF TxnInv, FitToCommit
  <2>2. QED
    BY <2>1, <1>1, StateNumbers
<1>7. PageInv'
  <2> SUFFICES ASSUME NEW r \in page PROVE r.updatedAt < now'
    BY <1>2 DEF PageInv, RowOf
  <2>1. r.updatedAt < now /\ r \in PageRow
    BY DEF PageInv, TypeOK
  <2>2. QED
    BY <2>1, <1>1, PageRowNumbers
<1>8. CoverInv'
  BY <1>2 DEF CoverInv, RowOf, After, NextCursor
<1>9. OnlyOverlappedChangesAreMissed'
  BY <1>2 DEF OnlyOverlappedChangesAreMissed, Missed, After
<1>10. QED
  BY <1>3, <1>4, <1>5, <1>6, <1>7, <1>8, <1>9

LEMMA BeginKeeps == ASSUME NEW w \in Writers PROVE FeedInv /\ Begin(w) => FeedInv'
<1> SUFFICES ASSUME FeedInv, Begin(w) PROVE FeedInv'
  OBVIOUS
<1> USE DEF FeedInv, feed, device
<1>1. PICK i \in Ids, a \in Amounts, op \in {"create", "update", "resplit", "delete"} :
        /\ op = "create" <=> ~Exists(i)
        /\ op # "create" => ~rows[i].deleted
        /\ rows[i].version < MaxVersion
        /\ txn' = [txn EXCEPT ![w] =
                     [op |-> op, id |-> i, amount |-> a,
                      expected |-> rows[i].version, began |-> now,
                      overlapped |-> FALSE]]
  BY DEF Begin
<1>2. UNCHANGED <<rows, splits, now, page, serving, cursor, replica>>
  BY DEF Begin
<1> DEFINE t == [op |-> op, id |-> i, amount |-> a, expected |-> rows[i].version,
                 began |-> now, overlapped |-> FALSE]
<1>3. t \in Txn
  <2>1. rows[i].version \in Versions /\ now \in Times
    BY DEF TypeOK, Row
  <2>2. QED
    BY <2>1, <1>1 DEF Txn
<1>4. txn \in [Writers -> Txn] /\ txn' = [txn EXCEPT ![w] = t]
  BY <1>1 DEF TypeOK
<1>5. TypeOK'
  BY <1>2, <1>3, <1>4 DEF TypeOK
<1>6. ClockInv' /\ TableInv'
  BY <1>2 DEF ClockInv, TableInv, Exists
<1>7. TxnInv'
  <2> SUFFICES ASSUME NEW v \in Writers, txn'[v] # NoTxn
               PROVE  FitToCommit(v)'
    BY DEF TxnInv
  <2>1. CASE v # w
    <3>1. txn'[v] = txn[v]
      BY <2>1, <1>4
    <3>2. QED
      BY <3>1, <1>2 DEF TxnInv, FitToCommit, StillExpected
  <2>2. CASE v = w
    <3>1. txn'[v] = t
      BY <2>2, <1>4
    <3>2. t.op # "none" /\ t.id = i /\ t.expected = rows[i].version /\ t.began = now
            /\ t.overlapped = FALSE
      BY <1>1
    <3>3. now <= now /\ rows[i].version <= rows[i].version
            /\ cursor.time < now /\ rows[i].updatedAt < now
      BY StateNumbers DEF ClockInv
    <3>4. ~rows[i].deleted
      BY <1>1 DEF TableInv
    <3>5. \A r \in page : r.updatedAt < now
      BY DEF PageInv
    <3>6. QED
      BY <3>1, <3>2, <3>3, <3>4, <3>5, <1>1, <1>2 DEF FitToCommit
  <2>3. QED
    BY <2>1, <2>2
<1>8. PageInv'
  BY <1>2 DEF PageInv, RowOf
<1>9. CoverInv'
  BY <1>2 DEF CoverInv, RowOf, After, NextCursor
<1>10. OnlyOverlappedChangesAreMissed'
  BY <1>2 DEF OnlyOverlappedChangesAreMissed, Missed, After
<1>11. QED
  BY <1>5, <1>6, <1>7, <1>8, <1>9, <1>10

LEMMA CommitKeeps == ASSUME NEW w \in Writers PROVE FeedInv /\ Commit(w) => FeedInv'
<1> SUFFICES ASSUME FeedInv, Commit(w) PROVE FeedInv'
  OBVIOUS
<1> USE DEF FeedInv, feed, device
<1> DEFINE t == txn[w]
           i == t.id
           new == Written(t)
<1>1. /\ t # NoTxn /\ rows[i].version = t.expected
      /\ rows' = [rows EXCEPT ![i] = new]
      /\ splits' = IF t.op = "delete" THEN splits
                   ELSE [splits EXCEPT ![i] = [total |-> t.amount,
                                               writtenBy |-> t.expected + 1]]
      /\ txn' = [txn EXCEPT ![w] = NoTxn]
      /\ now < MaxClock /\ now' = now + 1
      /\ UNCHANGED <<page, serving, cursor, replica>>
  BY DEF Commit, StillExpected
<1>2. /\ i \in Ids /\ t.expected < MaxVersion /\ t.began <= now
      /\ rows[i].updatedAt < t.began /\ ~rows[i].deleted
      /\ ~t.overlapped => /\ cursor.time < t.began
                          /\ \A r \in page : r.updatedAt < t.began
  BY <1>1 DEF TxnInv, FitToCommit, StillExpected
<1>3. /\ new \in Row
      /\ [total |-> t.amount, writtenBy |-> t.expected + 1] \in Split
  BY <1>2, WrittenType
<1>4. /\ new.version = t.expected + 1 /\ new.updatedAt = t.began
      /\ new.overlapped = t.overlapped
  BY DEF Written
<1>5. rows \in [Ids -> Row] /\ splits \in [Ids -> Split] /\ txn \in [Writers -> Txn]
        /\ page \subseteq PageRow
  BY DEF TypeOK
<1>6. /\ rows'[i] = new
      /\ \A j \in Ids \ {i} : rows'[j] = rows[j] /\ splits'[j] = splits[j]
      /\ splits'[i].writtenBy = splits[i].writtenBy
           \/ splits'[i].writtenBy = t.expected + 1
  BY <1>1, <1>2, <1>5
<1>7. /\ txn'[w] = NoTxn
      /\ \A v \in Writers \ {w} : txn'[v] = txn[v]
  BY <1>1, <1>5
<1>8. now' \in Times /\ now' = now + 1 /\ now \in Nat
  BY <1>1, StateNumbers, Constants DEF Times
<1>9. NoTxn \in Txn
  BY Constants DEF NoTxn, Txn, Versions, Times
<1>10. TypeOK'
  BY <1>1, <1>3, <1>5, <1>8, <1>9 DEF TypeOK
<1>11. ClockInv'
  <2>1. cursor.time < now'
    BY <1>8, StateNumbers DEF ClockInv
  <2>2. rows'[i].updatedAt < now'
    BY <1>2, <1>4, <1>6, <1>8, StateNumbers
  <2>3. \A j \in Ids \ {i} : rows'[j].updatedAt < now'
    BY <1>6, <1>8, StateNumbers DEF ClockInv
  <2>4. QED
    BY <2>1, <2>2, <2>3, <1>1 DEF ClockInv
<1>12. rows[i].version \in Nat /\ rows'[i].version = rows[i].version + 1
  BY <1>1, <1>2, <1>4, <1>6, StateNumbers
<1>13. TableInv'
  <2> SUFFICES ASSUME NEW j \in Ids
               PROVE  /\ rows'[j].deleted => rows'[j].version > 0
                      /\ splits'[j].writtenBy <= rows'[j].version
                      /\ replica[j].version <= rows'[j].version
                      /\ replica[j].sharesOf <= rows'[j].version
                      /\ replica[j].deleted => rows'[j].deleted
    BY <1>1 DEF TableInv, Exists
  <2>1. CASE j # i
    BY <2>1, <1>6 DEF TableInv, Exists
  <2>2. CASE j = i
    <3>1. splits'[i].writtenBy <= rows'[i].version
      BY <1>1, <1>2, <1>6, <1>12, StateNumbers DEF TableInv
    <3>2. replica[i].version <= rows'[i].version /\ replica[i].sharesOf <= rows'[i].version
      BY <1>2, <1>12, StateNumbers DEF TableInv
    <3>3. ~replica[i].deleted
      BY <1>2 DEF TableInv
    <3>4. QED
      BY <2>2, <3>1, <3>2, <3>3, <1>12
  <2>3. QED
    BY <2>1, <2>2
<1>14. TxnInv'
  <2> SUFFICES ASSUME NEW v \in Writers, txn'[v] # NoTxn
               PROVE  FitToCommit(v)'
    BY DEF TxnInv
  <2>1. v # w /\ txn'[v] = txn[v]
    BY <1>7
  <2>2. FitToCommit(v)
    BY <2>1 DEF TxnInv
  <2>3. txn[v].began <= now'
    BY <2>2, <1>8, StateNumbers DEF FitToCommit
  <2>4. ASSUME rows'[txn[v].id].version = txn[v].expected
        PROVE  /\ rows'[txn[v].id].updatedAt < txn[v].began
               /\ ~rows'[txn[v].id].deleted
    <3>1. CASE txn[v].id # i
      BY <3>1, <2>2, <2>4, <1>6 DEF FitToCommit, StillExpected
    <3>2. CASE txn[v].id = i
      <4>1. txn[v].expected <= rows[i].version
        BY <3>2, <2>2 DEF FitToCommit
      <4>2. QED
        BY <4>1, <3>2, <2>4, <1>12
    <3>3. QED
      BY <3>1, <3>2
  <2>5. txn[v].expected <= rows'[txn[v].id].version
    <3>1. CASE txn[v].id # i
      BY <3>1, <2>2, <1>6 DEF FitToCommit
    <3>2. CASE txn[v].id = i
      BY <3>2, <2>2, <1>12, StateNumbers DEF FitToCommit
    <3>3. QED
      BY <3>1, <3>2
  <2>6. QED
    BY <2>1, <2>2, <2>3, <2>4, <2>5, <1>1 DEF FitToCommit, StillExpected

<1>15. PageInv'
  <2> SUFFICES ASSUME NEW r \in page
               PROVE  /\ r.updatedAt < now'
                      /\ r.version <= rows'[r.id].version
                      /\ r.version = rows'[r.id].version => r = RowOf(r.id)'
                      /\ r.version >= replica[r.id].version
                      /\ r.deleted => rows'[r.id].deleted
                      /\ replica[r.id].deleted => r.deleted
    BY <1>1 DEF PageInv
  <2>1. r \in PageRow /\ r.id \in Ids /\ r.version \in Nat /\ r.updatedAt \in Nat
    BY <1>5, PageRowNumbers
  <2>2. /\ r.updatedAt < now /\ r.version <= rows[r.id].version
        /\ r.version = rows[r.id].version => r = RowOf(r.id)
        /\ r.version >= replica[r.id].version
        /\ r.deleted => rows[r.id].deleted
        /\ replica[r.id].deleted => r.deleted
    BY DEF PageInv
  <2>3. r.updatedAt < now'
    BY <2>1, <2>2, <1>8
  <2>4. CASE r.id # i
    BY <2>1, <2>2, <2>3, <2>4, <1>6 DEF RowOf
  <2>5. CASE r.id = i
    <3>1. r.version < rows'[i].version
      BY <2>1, <2>2, <2>5, <1>12
    <3>2. ~r.deleted
      BY <2>2, <2>5, <1>2
    <3>3. QED
      BY <2>1, <2>2, <2>3, <2>5, <3>1, <3>2, <1>12
  <2>6. QED
    BY <2>4, <2>5
<1>16. CoverInv'
  <2> SUFFICES ASSUME serving, NEW j \in Ids,
                      rows'[j].version > replica[j].version
               PROVE  \/ rows'[j].overlapped
                      \/ RowOf(j)' \in page
                      \/ \A r \in page : After(rows'[j].updatedAt, j, NextCursor(r))
    BY <1>1 DEF CoverInv, After, NextCursor
  <2>1. CASE j # i
    BY <2>1, <1>6 DEF CoverInv, RowOf
  <2>2. CASE j = i /\ ~t.overlapped
    BY <2>2, <1>2, <1>4, <1>6 DEF After, NextCursor
  <2>3. CASE j = i /\ t.overlapped
    BY <2>3, <1>4, <1>6
  <2>4. QED
    BY <2>1, <2>2, <2>3
<1>17. OnlyOverlappedChangesAreMissed'
  <2> SUFFICES ASSUME NEW j \in Ids, Missed(j)'
               PROVE  rows'[j].overlapped
    BY DEF OnlyOverlappedChangesAreMissed
  <2>1. CASE j # i
    BY <2>1, <1>1, <1>6 DEF OnlyOverlappedChangesAreMissed, Missed, After
  <2>2. CASE j = i /\ ~t.overlapped
    <3>1. cursor.time < rows'[i].updatedAt
      BY <2>2, <1>2, <1>4, <1>6
    <3>2. QED
      BY <3>1, <2>2, <1>1 DEF Missed, After
  <2>3. CASE j = i /\ t.overlapped
    BY <2>3, <1>4, <1>6
  <2>4. QED
    BY <2>1, <2>2, <2>3
<1>18. QED
  BY <1>10, <1>11, <1>13, <1>14, <1>15, <1>16, <1>17

LEMMA RollbackKeeps == ASSUME NEW w \in Writers PROVE FeedInv /\ Rollback(w) => FeedInv'
<1> SUFFICES ASSUME FeedInv, Rollback(w) PROVE FeedInv'
  OBVIOUS
<1> USE DEF FeedInv, feed, device
<1>1. txn' = [txn EXCEPT ![w] = NoTxn]
        /\ UNCHANGED <<rows, splits, now, page, serving, cursor, replica>>
  BY DEF Rollback
<1>2. txn \in [Writers -> Txn] /\ NoTxn \in Txn
  BY Constants DEF TypeOK, NoTxn, Txn, Versions, Times
<1>3. TypeOK'
  BY <1>1, <1>2 DEF TypeOK
<1>4. ClockInv' /\ TableInv'
  BY <1>1 DEF ClockInv, TableInv, Exists
<1>5. TxnInv'
  <2> SUFFICES ASSUME NEW v \in Writers, txn'[v] # NoTxn
               PROVE  FitToCommit(v)'
    BY DEF TxnInv
  <2>1. txn'[v] = txn[v]
    BY <1>1, <1>2
  <2>2. QED
    BY <2>1, <1>1 DEF TxnInv, FitToCommit, StillExpected
<1>6. PageInv'
  BY <1>1 DEF PageInv, RowOf
<1>7. CoverInv'
  BY <1>1 DEF CoverInv, RowOf, After, NextCursor
<1>8. OnlyOverlappedChangesAreMissed'
  BY <1>1 DEF OnlyOverlappedChangesAreMissed, Missed, After
<1>9. QED
  BY <1>3, <1>4, <1>5, <1>6, <1>7, <1>8

LEMMA ReadRowsKeeps == FeedInv /\ ReadRows => FeedInv'
<1> SUFFICES ASSUME FeedInv, ReadRows PROVE FeedInv'
  OBVIOUS
<1> USE DEF FeedInv, feed, device
<1>1. /\ ~serving /\ serving' = TRUE
      /\ page' = {r \in Later : OnPage(r)} /\ page' # {}
      /\ txn' = [w \in Writers |-> IF txn[w] = NoTxn THEN NoTxn
                                   ELSE [txn[w] EXCEPT !.overlapped = TRUE]]
      /\ UNCHANGED <<rows, splits, now, cursor, replica>>
  BY DEF ReadRows
<1>2. \A r \in page' : /\ r \in Later /\ r \in PageRow /\ r.id \in Ids /\ r = RowOf(r.id)
                       /\ OnPage(r)
  BY <1>1, LaterType, RowOfType DEF Later
<1>3. \A w \in Writers : txn'[w] # NoTxn =>
        /\ txn[w] # NoTxn
        /\ txn'[w] = [txn[w] EXCEPT !.overlapped = TRUE]
  BY <1>1
<1>4. TypeOK'
  <2>1. page' \subseteq PageRow /\ Cardinality(page') <= Limit
    BY <1>1, <1>2, PageSize
  <2>2. ASSUME NEW w \in Writers PROVE txn'[w] \in Txn
    <3>1. txn[w] \in Txn
      BY DEF TypeOK
    <3>2. [txn[w] EXCEPT !.overlapped = TRUE] \in Txn
      BY <3>1 DEF Txn
    <3>3. NoTxn \in Txn
      BY Constants DEF NoTxn, Txn, Versions, Times
    <3>4. QED
      BY <1>1, <3>2, <3>3
  <2>3. txn' \in [Writers -> Txn]
    BY <1>1, <2>2
  <2>4. QED
    BY <1>1, <2>1, <2>3 DEF TypeOK
<1>5. ClockInv' /\ TableInv'
  BY <1>1 DEF ClockInv, TableInv, Exists
<1>6. TxnInv'
  <2> SUFFICES ASSUME NEW w \in Writers, txn'[w] # NoTxn
               PROVE  FitToCommit(w)'
    BY DEF TxnInv
  <2>1. txn[w] # NoTxn /\ txn'[w] = [txn[w] EXCEPT !.overlapped = TRUE] /\ txn[w] \in Txn
    BY <1>3 DEF TypeOK
  <2>2. /\ txn'[w].op = txn[w].op /\ txn'[w].id = txn[w].id
        /\ txn'[w].expected = txn[w].expected /\ txn'[w].began = txn[w].began
        /\ txn'[w].overlapped
    BY <2>1 DEF Txn
  <2>3. FitToCommit(w)
    BY <2>1 DEF TxnInv
  <2>4. QED
    BY <2>2, <2>3, <1>1 DEF FitToCommit, StillExpected
<1>7. PageInv'
  <2>1. ASSUME NEW r \in page'
        PROVE  /\ r.updatedAt < now
               /\ r.version <= rows[r.id].version
               /\ r.version >= replica[r.id].version
               /\ r.deleted => rows[r.id].deleted
               /\ replica[r.id].deleted => r.deleted
    <3>1. r.id \in Ids /\ r = RowOf(r.id)
      BY <1>2
    <3>2. /\ r.version = rows[r.id].version /\ r.updatedAt = rows[r.id].updatedAt
          /\ r.deleted = rows[r.id].deleted
      BY <3>1, RowOfType
    <3>3. QED
      BY <3>1, <3>2, StateNumbers DEF ClockInv, TableInv
  <2>2. \A r \in page' : r = RowOf(r.id)'
    BY <1>1, <1>2 DEF RowOf
  <2>3. \A r, s \in page' : r.id = s.id => r = s
    BY <1>2
  <2>4. QED
    BY <1>1, <2>1, <2>2, <2>3 DEF PageInv
<1>8. CoverInv'
  <2> SUFFICES ASSUME NEW i \in Ids, rows[i].version > replica[i].version,
                      ~rows[i].overlapped, RowOf(i) \notin page'
               PROVE  \A r \in page' : After(rows[i].updatedAt, i, NextCursor(r))
    BY <1>1 DEF CoverInv, RowOf, After, NextCursor
  <2>1. After(rows[i].updatedAt, i, cursor)
    BY DEF OnlyOverlappedChangesAreMissed, Missed
  <2>2. Exists(i)
    BY StateNumbers DEF Exists
  <2>3. RowOf(i) \in Later /\ ~OnPage(RowOf(i))
    BY <2>1, <2>2, <1>1 DEF Later
  <2> SUFFICES ASSUME NEW r \in page'
               PROVE  After(rows[i].updatedAt, i, NextCursor(r))
    OBVIOUS
  <2>4. r \in Later /\ OnPage(r) /\ r # RowOf(i)
    BY <1>2
  <2>5. ~InFeedOrder(RowOf(i), r)
    <3> SUFFICES ASSUME InFeedOrder(RowOf(i), r) PROVE FALSE
      OBVIOUS
    <3>1. Cardinality(Ahead(RowOf(i))) < Cardinality(Ahead(r))
      BY <2>3, <2>4, FewerAhead
    <3>2. QED
      BY <3>1, <2>3, <2>4, AheadFinite, Constants DEF OnPage
  <2>6. InFeedOrder(r, RowOf(i))
    BY <2>3, <2>4, <2>5, FeedOrderTotal
  <2>7. QED
    BY <2>6, RowOfType DEF InFeedOrder, After, NextCursor
<1>9. OnlyOverlappedChangesAreMissed'
  BY <1>1 DEF OnlyOverlappedChangesAreMissed, Missed, After
<1>10. QED
  BY <1>4, <1>5, <1>6, <1>7, <1>8, <1>9

LEMMA DropKeeps == FeedInv /\ Drop => FeedInv'
<1> SUFFICES ASSUME FeedInv, Drop PROVE FeedInv'
  OBVIOUS
<1> USE DEF FeedInv, device
<1>1. serving' = FALSE /\ page' = {}
        /\ UNCHANGED <<rows, splits, now, txn, cursor, replica>>
  BY DEF Drop
<1>2. TypeOK'
  <2>1. page' \subseteq PageRow /\ Cardinality(page') <= Limit
    BY <1>1, FS_EmptySet, Constants
  <2>2. serving' \in BOOLEAN
    BY <1>1
  <2>3. QED
    BY <1>1, <2>1, <2>2 DEF TypeOK
<1>3. ClockInv' /\ TableInv'
  BY <1>1 DEF ClockInv, TableInv, Exists
<1>4. TxnInv'
  BY <1>1 DEF TxnInv, FitToCommit, StillExpected
<1>5. PageInv' /\ CoverInv'
  BY <1>1 DEF PageInv, CoverInv
<1>6. OnlyOverlappedChangesAreMissed'
  BY <1>1 DEF OnlyOverlappedChangesAreMissed, Missed, After
<1>7. QED
  BY <1>2, <1>3, <1>4, <1>5, <1>6

LEMMA DeliverKeeps == FeedInv /\ Deliver => FeedInv'
<1> SUFFICES ASSUME FeedInv, Deliver PROVE FeedInv'
  OBVIOUS
<1> USE DEF FeedInv
<1> DEFINE OfPage(i) == \E r \in page : r.id = i
           It(i) == CHOOSE r \in page : r.id = i
<1>1. /\ serving /\ serving' = FALSE /\ page' = {}
      /\ replica' = [i \in Ids |-> IF OfPage(i) THEN CopyOf(It(i)) ELSE replica[i]]
      /\ UNCHANGED <<rows, splits, now, txn>>
  BY DEF Deliver
<1>2. PICK last \in page : cursor' = NextCursor(last)
  BY DEF Deliver
<1>3. last \in PageRow /\ last.updatedAt < now
  BY DEF TypeOK, PageInv
<1>4. /\ cursor'.time = last.updatedAt /\ cursor'.id = last.id
      /\ cursor' \in [time : Times, id : Ids \cup {0}]
  BY <1>2, <1>3, PageRowNumbers DEF NextCursor
<1>5. ASSUME NEW i \in Ids
      PROVE  /\ OfPage(i) => /\ It(i) \in page /\ It(i).id = i
                             /\ replica'[i] = CopyOf(It(i))
             /\ ~OfPage(i) => replica'[i] = replica[i]
  BY <1>1
<1>6. \A r \in page :
        /\ r \in PageRow /\ r.id \in Ids
        /\ r.version <= rows[r.id].version
        /\ r.version = rows[r.id].version => r = RowOf(r.id)
        /\ r.version >= replica[r.id].version
        /\ r.deleted => rows[r.id].deleted
        /\ CopyOf(r) \in Copy
        /\ CopyOf(r).version = r.version /\ CopyOf(r).deleted = r.deleted
        /\ CopyOf(r).sharesOf <= rows[r.id].version
  <2> SUFFICES ASSUME NEW r \in page
               PROVE  CopyOf(r).sharesOf <= rows[r.id].version
    BY CopyOfType, PageRowNumbers DEF PageInv, TypeOK
  <2>1. r.version <= rows[r.id].version /\ r.id \in Ids
    BY PageRowNumbers DEF PageInv, TypeOK
  <2>2. QED
    BY <2>1, CopyOfType DEF TableInv
<1>7. TypeOK'
  <2>1. page' \subseteq PageRow /\ Cardinality(page') <= Limit /\ serving' \in BOOLEAN
    <3>1. page' = {} /\ serving' = FALSE
      BY <1>1
    <3>2. page' \subseteq PageRow /\ Cardinality(page') <= Limit
      BY <3>1, FS_EmptySet, Constants
    <3>3. QED
      BY <3>1, <3>2
  <2>2. replica \in [Ids -> Copy]
    BY DEF TypeOK
  <2>3. \A i \in Ids : replica'[i] \in Copy
    BY <1>5, <1>6, <2>2
  <2>4. replica' \in [Ids -> Copy]
    BY <1>1, <2>3
  <2>5. QED
    BY <1>1, <1>4, <2>1, <2>4 DEF TypeOK
<1>8. ClockInv'
  BY <1>1, <1>3, <1>4 DEF ClockInv
<1>9. TableInv'
  <2> SUFFICES ASSUME NEW i \in Ids
               PROVE  /\ replica'[i].version <= rows[i].version
                      /\ replica'[i].sharesOf <= rows[i].version
                      /\ replica'[i].deleted => rows[i].deleted
    BY <1>1 DEF TableInv, Exists
  <2>1. CASE OfPage(i)
    BY <2>1, <1>5, <1>6
  <2>2. CASE ~OfPage(i)
    BY <2>2, <1>5 DEF TableInv
  <2>3. QED
    BY <2>1, <2>2
<1>10. TxnInv'
  <2> SUFFICES ASSUME NEW w \in Writers, txn[w] # NoTxn
               PROVE  FitToCommit(w)'
    BY <1>1 DEF TxnInv
  <2>1. FitToCommit(w)
    BY DEF TxnInv
  <2>2. QED
    BY <2>1, <1>1, <1>4 DEF FitToCommit, StillExpected
<1>11. PageInv' /\ CoverInv'
  BY <1>1 DEF PageInv, CoverInv
<1>12. OnlyOverlappedChangesAreMissed'
  <2> SUFFICES ASSUME NEW i \in Ids, rows[i].version > replica'[i].version,
                      ~rows[i].overlapped
               PROVE  After(rows[i].updatedAt, i, NextCursor(last))
    BY <1>1, <1>2 DEF OnlyOverlappedChangesAreMissed, Missed, After
  <2>1. rows[i].version > replica[i].version
    <3>1. CASE OfPage(i)
      <4>1. replica'[i].version >= replica[i].version
        BY <3>1, <1>5, <1>6
      <4>2. replica'[i].version \in Nat
        BY <3>1, <1>5, <1>6, PageRowNumbers
      <4>3. QED
        BY <4>1, <4>2, StateNumbers
    <3>2. CASE ~OfPage(i)
      BY <3>2, <1>5
    <3>3. QED
      BY <3>1, <3>2
  <2>2. RowOf(i) \notin page
    <3> SUFFICES ASSUME RowOf(i) \in page PROVE FALSE
      OBVIOUS
    <3>1. OfPage(i) /\ It(i) = RowOf(i)
      BY <1>5, RowOfType DEF PageInv
    <3>2. replica'[i].version = rows[i].version
      BY <3>1, <1>5, <1>6, RowOfType
    <3>3. QED
      BY <3>2, StateNumbers
  <2>3. QED
    BY <2>1, <2>2, <1>1 DEF CoverInv
<1>13. QED
  BY <1>7, <1>8, <1>9, <1>10, <1>11, <1>12

LEMMA StutterKeeps == FeedInv /\ UNCHANGED vars => FeedInv'
<1> SUFFICES ASSUME FeedInv, UNCHANGED vars PROVE FeedInv'
  OBVIOUS
<1>1. UNCHANGED <<rows, splits, now, txn, page, serving, cursor, replica>>
  BY DEF vars
<1>2. TypeOK'
  BY <1>1 DEF FeedInv, TypeOK
<1>3. ClockInv' /\ TableInv' /\ TxnInv'
  BY <1>1 DEF FeedInv, ClockInv, TableInv, TxnInv, FitToCommit, StillExpected, Exists
<1>4. PageInv' /\ CoverInv'
  BY <1>1 DEF FeedInv, PageInv, CoverInv, RowOf, After, NextCursor
<1>5. OnlyOverlappedChangesAreMissed'
  BY <1>1 DEF FeedInv, OnlyOverlappedChangesAreMissed, Missed, After
<1>6. QED
  BY <1>2, <1>3, <1>4, <1>5 DEF FeedInv

LEMMA StepKeeps == FeedInv /\ [Next]_vars => FeedInv'
  BY TickKeeps, BeginKeeps, CommitKeeps, RollbackKeeps, ReadRowsKeeps,
     DeliverKeeps, DropKeeps, StutterKeeps DEF Next

-----------------------------------------------------------------------------
(***************************************************************************)
(* The theorems.                                                           *)
(***************************************************************************)

\* The invariant holds of the feed (listChanges and the device that polls it).
THEOREM FeedInvariant == Spec => []FeedInv
<1>1. Init => FeedInv
  BY InitInv
<1>2. FeedInv /\ [Next]_vars => FeedInv'
  BY StepKeeps
<1>3. QED
  BY <1>1, <1>2, PTL DEF Spec

\* Type correctness, and with it the page limit: take(limit + 1) and
\* slice(0, limit) never serve more than limit rows.
THEOREM TypeCorrect == Spec => []TypeOK
<1>1. FeedInv => TypeOK
  BY DEF FeedInv
<1>2. QED
  BY <1>1, FeedInvariant, PTL

\* With any number of expenses and writers and any page limit, the cursor of
\* listChanges passes over a committed change only if the transaction of that
\* change was open while a page was read.
THEOREM NothingElseIsMissed == Spec => []OnlyOverlappedChangesAreMissed
<1>1. FeedInv => OnlyOverlappedChangesAreMissed
  BY DEF FeedInv
<1>2. QED
  BY <1>1, FeedInvariant, PTL

\* A row that mapRecord paired with the shares of a later version is followed
\* by that version, or that version's transaction overlapped a page.
THEOREM MixedCopiesAreFollowed == Spec => []MixedCopiesHeal
<1>1. ASSUME FeedInv PROVE MixedCopiesHeal
  <2> SUFFICES ASSUME NEW i \in Ids,
                      replica[i].sharesOf > replica[i].version,
                      ~After(rows[i].updatedAt, i, cursor)
               PROVE  rows[i].overlapped
    BY DEF MixedCopiesHeal
  <2>1. rows[i].version > replica[i].version
    BY <1>1, StateNumbers DEF FeedInv, TableInv
  <2>2. QED
    BY <1>1, <2>1 DEF FeedInv, OnlyOverlappedChangesAreMissed, Missed
<1>2. QED
  BY <1>1, FeedInvariant, PTL

\* A device for which listChanges has no row left holds the current version
\* of every expense, but for those whose transaction overlapped a page read.
CaughtUp == Later = {} => \A i \in Ids : \/ replica[i].version = rows[i].version
                                         \/ rows[i].overlapped

THEOREM NothingLeftIsCaughtUp == Spec => []CaughtUp
<1>1. ASSUME FeedInv PROVE CaughtUp
  <2> SUFFICES ASSUME Later = {}, NEW i \in Ids, replica[i].version # rows[i].version
               PROVE  rows[i].overlapped
    BY DEF CaughtUp
  <2>1. rows[i].version > replica[i].version /\ Exists(i)
    BY <1>1, StateNumbers DEF FeedInv, TableInv, Exists
  <2>2. ~After(rows[i].updatedAt, i, cursor)
    BY <2>1 DEF Later
  <2>3. QED
    BY <1>1, <2>1, <2>2 DEF FeedInv, OnlyOverlappedChangesAreMissed, Missed
<1>2. QED
  BY <1>1, FeedInvariant, PTL

\* updated_at of a row only grows: the version check puts its transactions in
\* the order in which they began.
THEOREM RowClockMonotonic == Spec => RowClockNeverGoesBack
<1>1. ASSUME FeedInv, [Next]_vars
      PROVE  [\A i \in Ids : rows'[i].updatedAt >= rows[i].updatedAt]_vars
  <2> SUFFICES \A i \in Ids : rows'[i].updatedAt >= rows[i].updatedAt
    OBVIOUS
  <2>1. CASE rows' = rows
    BY <2>1, <1>1, StateNumbers DEF FeedInv
  <2>2. ASSUME NEW w \in Writers, Commit(w)
        PROVE  \A i \in Ids : rows'[i].updatedAt >= rows[i].updatedAt
    <3>1. /\ txn[w] # NoTxn /\ StillExpected(w)
          /\ rows' = [rows EXCEPT ![txn[w].id] = Written(txn[w])]
      BY <2>2 DEF Commit
    <3>2. /\ rows[txn[w].id].updatedAt < txn[w].began
          /\ rows \in [Ids -> Row]
      BY <1>1, <3>1 DEF FeedInv, TxnInv, FitToCommit, TypeOK
    <3>3. Written(txn[w]).updatedAt = txn[w].began
      BY DEF Written
    <3>4. \A i \in Ids : \/ rows'[i] = rows[i]
                         \/ i = txn[w].id /\ rows'[i].updatedAt = txn[w].began
      BY <3>1, <3>2, <3>3
    <3>5. QED
      BY <1>1, <3>2, <3>4, StateNumbers DEF FeedInv
  <2>3. QED
    BY <1>1, <2>1, <2>2
       DEF Next, vars, Tick, Begin, Rollback, ReadRows, Deliver, Drop
<1>2. QED
  BY <1>1, FeedInvariant, PTL DEF Spec, RowClockNeverGoesBack

\* Applying pages as they come never takes the device back to an older version
\* or from a tombstone to the live expense.
THEOREM ReplicaMonotonic == Spec => ReplicaNeverGoesBack
<1> DEFINE Forward == \A i \in Ids : /\ replica'[i].version >= replica[i].version
                                     /\ replica[i].deleted => replica'[i].deleted
<1>1. ASSUME FeedInv, [Next]_vars
      PROVE  [Forward]_vars
  <2> SUFFICES Forward
    OBVIOUS
  <2>1. CASE replica' = replica
    BY <2>1, <1>1, StateNumbers DEF FeedInv
  <2>2. CASE Deliver
    <3> SUFFICES ASSUME NEW i \in Ids
                 PROVE  /\ replica'[i].version >= replica[i].version
                        /\ replica[i].deleted => replica'[i].deleted
      OBVIOUS
    <3> DEFINE It == CHOOSE r \in page : r.id = i
    <3>1. replica'[i] = IF \E r \in page : r.id = i THEN CopyOf(It) ELSE replica[i]
      BY <2>2 DEF Deliver
    <3>2. CASE \E r \in page : r.id = i
      <4>1. It \in page /\ It.id = i
        BY <3>2
      <4>2. It.version >= replica[i].version /\ (replica[i].deleted => It.deleted)
        BY <1>1, <4>1 DEF FeedInv, PageInv
      <4>3. QED
        BY <1>1, <3>1, <3>2, <4>1, <4>2, CopyOfType DEF FeedInv
    <3>3. CASE ~\E r \in page : r.id = i
      BY <1>1, <3>1, <3>3, StateNumbers DEF FeedInv
    <3>4. QED
      BY <3>2, <3>3
  <2>3. QED
    BY <1>1, <2>1, <2>2
       DEF Next, vars, device, Tick, Begin, Commit, Rollback, ReadRows, Drop
<1>2. QED
  BY <1>1, FeedInvariant, PTL DEF Spec, ReplicaNeverGoesBack
=============================================================================
