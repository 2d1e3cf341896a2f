-------------------------- MODULE ExpenseSyncFeed --------------------------
(***************************************************************************)
(* The incremental expense feed of one space: listChanges of               *)
(* apps/api/src/services/expense-sync.service.ts, polled with a cursor by  *)
(* a device, while transactions of the expense service change the table.   *)
(*                                                                         *)
(* updated_at is CURRENT_TIMESTAMP, in PostgreSQL the time the transaction *)
(* began, while its rows appear when it commits; and a page takes its rows *)
(* and their shares in two queries.  Both gaps are in the model.           *)
(***************************************************************************)
EXTENDS Naturals, FiniteSets

CONSTANTS
  Ids,         \* expense ids of the space, in the order of the uuid column
  Amounts,     \* amounts in cents
  Writers,     \* transactions that may be open at one time
  Limit,       \* the page limit, 1 to 500 in the controller
  MaxVersion,  \* bound: versions of one expense
  MaxClock     \* bound: clock readings

ASSUME IdsAreOrdered == Ids \subseteq Nat \ {0} /\ IsFiniteSet(Ids)
ASSUME AmountsAreCents == Amounts \subseteq Nat \ {0}
ASSUME LimitIsPositive == Limit \in 1 .. 500
ASSUME BoundsArePositive == MaxVersion \in Nat \ {0} /\ MaxClock \in Nat \ {0}

VARIABLES
  rows,      \* table expenses; version 0: no row
  splits,    \* table expense_splits: their total and the version that wrote them
  now,       \* the database clock
  txn,       \* txn[w]: the open transaction of w
  page,      \* the rows of the page being served
  serving,   \* a page has its rows and not yet its shares
  cursor,    \* the device's durable cursor; at time 0: none
  replica    \* what the device holds of each expense; version 0: nothing

vars == <<rows, splits, now, txn, page, serving, cursor, replica>>
device == <<cursor, replica>>
feed == <<page, serving>>

Versions == 0 .. MaxVersion
Times    == 0 .. MaxClock

Row == [version : Versions, updatedAt : Times, deleted : BOOLEAN,
        amount : Amounts \cup {0},
        overlapped : BOOLEAN]  \* a page was read while its transaction was open
Split == [total : Amounts \cup {0}, writtenBy : Versions]
Txn == [op : {"none", "create", "update", "resplit", "delete"}, id : Ids \cup {0},
        amount : Amounts \cup {0}, expected : Versions, began : Times,
        overlapped : BOOLEAN]
PageRow == [id : Ids, version : Versions, updatedAt : Times, deleted : BOOLEAN,
            amount : Amounts \cup {0}]
Copy == [version : Versions, deleted : BOOLEAN, sharesOf : Versions]

NoTxn  == [op |-> "none", id |-> 0, amount |-> 0, expected |-> 0, began |-> 0,
           overlapped |-> FALSE]

TypeOK ==
  /\ rows \in [Ids -> Row]
  /\ splits \in [Ids -> Split]
  /\ now \in Times
  /\ txn \in [Writers -> Txn]
  /\ page \subseteq PageRow /\ Cardinality(page) <= Limit
  /\ serving \in BOOLEAN
  /\ cursor \in [time : Times, id : Ids \cup {0}]
  /\ replica \in [Ids -> Copy]

Init ==
  /\ rows = [i \in Ids |-> [version |-> 0, updatedAt |-> 0, deleted |-> FALSE,
                            amount |-> 0, overlapped |-> FALSE]]
  /\ splits = [i \in Ids |-> [total |-> 0, writtenBy |-> 0]]
  /\ now = 1
  /\ txn = [w \in Writers |-> NoTxn]
  /\ page = {}
  /\ serving = FALSE
  /\ cursor = [time |-> 0, id |-> 0]
  /\ replica = [i \in Ids |-> [version |-> 0, deleted |-> FALSE, sharesOf |-> 0]]

-----------------------------------------------------------------------------
(* The expense service, as the table sees it.                              *)

Exists(i) == rows[i].version > 0

Tick ==
  /\ now < MaxClock
  /\ now' = now + 1
  /\ UNCHANGED <<rows, splits, txn, feed, device>>

\* A create, an update with or without new shares, or a deletion, of the
\* version the service has just read, begins its transaction.
Begin(w) ==
  /\ txn[w] = NoTxn
  /\ \E i \in Ids, a \in Amounts, op \in {"create", "update", "resplit", "delete"} :
       /\ op = "create" <=> ~Exists(i)
       /\ op # "create" => ~rows[i].deleted
       /\ op \in {"resplit", "delete"} => a = rows[i].amount
       /\ op = "update" => a # rows[i].amount
       /\ rows[i].version < MaxVersion
       /\ txn' = [txn EXCEPT ![w] =
                    [op |-> op, id |-> i, amount |-> a,
                     expected |-> rows[i].version, began |-> now,
                     overlapped |-> FALSE]]
  /\ UNCHANGED <<rows, splits, now, feed, device>>

\* Mutant: the version is not compared.
StillExpectedUnchecked(w) == TRUE

\* The primary key for a create, WHERE version = :expectedVersion otherwise.
StillExpected(w) == rows[txn[w].id].version = txn[w].expected

Written(t) == [version |-> t.expected + 1, updatedAt |-> t.began,
               deleted |-> t.op = "delete", amount |-> t.amount,
               overlapped |-> t.overlapped]

\* The clock moves on while a transaction commits.
Commit(w) ==
  LET t == txn[w] IN
  /\ t # NoTxn
  /\ StillExpected(w)
  /\ now < MaxClock
  /\ rows' = [rows EXCEPT ![t.id] = Written(t)]
  /\ splits' = IF t.op = "delete" THEN splits
               ELSE [splits EXCEPT ![t.id] = [total |-> t.amount,
                                              writtenBy |-> t.expected + 1]]
  /\ txn' = [txn EXCEPT ![w] = NoTxn]
  /\ now' = now + 1
  /\ UNCHANGED <<feed, device>>

\* A version conflict, a failed statement, or a lost connection.
Rollback(w) ==
  /\ txn[w] # NoTxn
  /\ txn' = [txn EXCEPT ![w] = NoTxn]
  /\ UNCHANGED <<rows, splits, now, feed, device>>

-----------------------------------------------------------------------------
(* listChanges                                                             *)

\* Mutant: the cursor is a time only.
AfterTime(time, id, c) == time > c.time

\* updated_at > c OR (updated_at = c AND id > c.id)
After(time, id, c) == time > c.time \/ (time = c.time /\ id > c.id)

RowOf(i) == [id |-> i, version |-> rows[i].version, updatedAt |-> rows[i].updatedAt,
             deleted |-> rows[i].deleted, amount |-> rows[i].amount]

Later ==
  {RowOf(i) : i \in {j \in Ids : Exists(j) /\ After(rows[j].updatedAt, j, cursor)}}

\* ORDER BY updated_at, id
InFeedOrder(r, s) ==
  \/ r.updatedAt < s.updatedAt
  \/ r.updatedAt = s.updatedAt /\ r.id < s.id

Ahead(r) == {s \in Later : InFeedOrder(s, r)}

\* Mutant: the row fetched to learn whether there are more is served too.
OnPageUnsliced(r) == Cardinality(Ahead(r)) <= Limit

OnPage(r) == Cardinality(Ahead(r)) < Limit

\* The first query: limit + 1 rows in feed order, of which limit are served.
ReadRows ==
  /\ ~serving
  /\ page' = {r \in Later : OnPage(r)}
  /\ page' # {}
  /\ serving' = TRUE
  /\ txn' = [w \in Writers |-> IF txn[w] = NoTxn THEN NoTxn
                               ELSE [txn[w] EXCEPT !.overlapped = TRUE]]
  /\ UNCHANGED <<rows, splits, now, device>>

\* fromExpenseSyncRecord throws when shares do not total the amount.
Mappable(r) == r.deleted \/ splits[r.id].total = r.amount

\* Mutant: the cursor is the time the page is answered.
NextCursorNow(last) == [time |-> now, id |-> last.id]

NextCursor(last) == [time |-> last.updatedAt, id |-> last.id]

CopyOf(r) == [version |-> r.version, deleted |-> r.deleted,
              sharesOf |-> IF r.deleted THEN r.version ELSE splits[r.id].writtenBy]

\* The second query reads the shares; the device applies the whole page and
\* its cursor, durably and at once.
Deliver ==
  /\ serving
  /\ \A r \in page : Mappable(r)
  /\ replica' = [i \in Ids |-> IF \E r \in page : r.id = i
                               THEN CopyOf(CHOOSE r \in page : r.id = i)
                               ELSE replica[i]]
  /\ \E last \in page :
       /\ \A r \in page \ {last} : InFeedOrder(r, last)
       /\ cursor' = NextCursor(last)
  /\ serving' = FALSE /\ page' = {}
  /\ UNCHANGED <<rows, splits, now, txn>>

\* The response is lost, the device stops before its batch is durable, or a
\* record of the batch cannot be mapped: the device keeps its cursor.
Drop ==
  /\ serving
  /\ serving' = FALSE /\ page' = {}
  /\ UNCHANGED <<rows, splits, now, txn, device>>

Next ==
  \/ Tick
  \/ \E w \in Writers : Begin(w) \/ Commit(w) \/ Rollback(w)
  \/ ReadRows \/ Deliver \/ Drop

Spec == Init /\ [][Next]_vars
-----------------------------------------------------------------------------
(* Properties                                                              *)

\* A committed change the device has not got and that no later page brings.
Missed(i) ==
  /\ rows[i].version > replica[i].version
  /\ ~After(rows[i].updatedAt, i, cursor)

\* Paging loses nothing by itself: whatever the page limit, equal timestamps,
\* dropped pages and changes between pages, a change is missed only if its
\* transaction was open while some page was read.
OnlyOverlappedChangesAreMissed == \A i \in Ids : Missed(i) => rows[i].overlapped

\* A page may pair a row with the shares of a later version.  The device then
\* has that later version still ahead of its cursor, unless the transaction
\* that wrote it overlapped the page.
MixedCopiesHeal ==
  \A i \in Ids :
    replica[i].sharesOf > replica[i].version =>
      \/ After(rows[i].updatedAt, i, cursor)
      \/ rows[i].overlapped

\* Applying every page as it comes never takes the device back to an older
\* version of an expense, or from a tombstone back to the live expense.
ReplicaNeverGoesBack ==
  [][\A i \in Ids : /\ replica'[i].version >= replica[i].version
                    /\ replica[i].deleted => replica'[i].deleted]_vars

\* updated_at of one row never goes backwards, although the time is taken
\* when the transaction begins: the version check orders its transactions.
RowClockNeverGoesBack ==
  [][\A i \in Ids : rows'[i].updatedAt >= rows[i].updatedAt]_vars

\* "Deletes SHALL produce versioned tombstones available to incremental sync"
\* (openspec/specs/api-platform/spec.md): a tombstone the device has not got
\* is in the pages after its cursor.
TombstonesAvailable == \A i \in Ids : rows[i].deleted => ~Missed(i)
=============================================================================
