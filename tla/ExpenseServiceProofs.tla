------------------------ MODULE ExpenseServiceProofs ------------------------
(***************************************************************************)
(* Proofs about ExpenseService, for every set of users, spaces, expenses,  *)
(* requests and calls: its invariants, what a step may never do, and that  *)
(* the service implements VersionedLedger.                                 *)
(***************************************************************************)
EXTENDS ExpenseService, TLAPS

-----------------------------------------------------------------------------
(* The kinds of calls.                                                     *)

LEMMA CallKinds ==
  ASSUME NEW c \in Calls
  PROVE  /\ c.op \in {"create", "update", "delete"}
         /\ c.op = "create" => c \in CreateCalls
         /\ c.op = "update" => c \in UpdateCalls
         /\ c.op = "delete" => c \in DeleteCalls
         /\ c.op # "create" => c.id \in Ids /\ c.expected \in Nat
BY CallsAreCalls DEF CreateCalls, UpdateCalls, DeleteCalls

LEMMA MergeType ==
  ASSUME NEW p \in Patches, NEW f \in Fields
  PROVE  Merge(p, f) \in Fields
BY DEF Patches, Fields, Merge, Chosen

LEMMA RowUpdates ==
  ASSUME NEW r \in Rows, NEW f \in Fields
  PROVE  /\ [r EXCEPT !.fields = f, !.version = r.version + 1] \in Rows
         /\ [r EXCEPT !.deleted = TRUE, !.version = r.version + 1] \in Rows
<1>1. r.version + 1 \in Nat \ {0}
  BY DEF Rows
<1> DEFINE v == r.version + 1
<1> HIDE DEF v
<1>2. v \in Nat \ {0}
  BY <1>1 DEF v
<1>3. [r EXCEPT !.fields = f, !.version = v] \in Rows
  BY <1>2 DEF Rows
<1>4. [r EXCEPT !.deleted = TRUE, !.version = v] \in Rows
  BY <1>2 DEF Rows
<1> QED
  BY <1>3, <1>4 DEF v

\* The variables of the expense service itself.
serviceVars == <<expenses, splits, pc, context, applied, reply>>

LEMMA NextCases ==
  ASSUME [Next]_vars
  PROVE  \/ UNCHANGED serviceVars
         \/ \E q \in Requests : Receive(q) \/ Handle(q) \/ Crash(q)
BY DEF Next, ChangeCategories, vars, serviceVars, context

LEMMA ReplyTypes ==
  /\ \A s \in Statuses : Told(s) \in Replies
  /\ \A i \in Ids : \A v \in Nat : Ok(i, v) \in Replies
BY DEF Told, Ok, Replies, Statuses

-----------------------------------------------------------------------------
(* Type correctness.  What a handler relies on at each await is what its   *)
(* earlier steps established: Phases makes TypeOK inductive.               *)

Phases ==
  \A q \in Requests :
    /\ pc[q] # "idle" => call[q] \in Calls
    /\ pc[q] = "byId" => call[q].op = "create" /\ call[q].id # NoId
    /\ pc[q] = "idle" => failure[q] = "none"
    /\ pc[q] \in {"byMutation", "replay", "save"} => call[q].op = "create"
    /\ pc[q] = "replay" => target[q] \in Ids /\ seen[q] \in Rows
    /\ pc[q] \in {"read", "readSplits"} => call[q].op # "create"
    /\ Changing(q) /\ pc[q] # "read" =>
         /\ target[q] = call[q].id
         /\ seen[q] \in Rows
         /\ seen[q].version = call[q].expected

TypeInv == TypeOK /\ Phases

\* What a request has validated before it writes.
Validated ==
  \A q \in Requests : pc[q] \in {"save", "commit"} =>
    /\ call[q].op = "create" => Consistent(call[q].fields, call[q].shares)
    /\ call[q].op = "update" => Consistent(NewFields(q), NewShares(q))

LedgerInv == /\ SplitsConsistent
             /\ SnapshotsCurrent
             /\ Validated
             /\ BalanceTriggersSilent

LEMMA TypeInit == Init => TypeInv
<1> SUFFICES ASSUME Init PROVE TypeInv
  OBVIOUS
<1>1. NoShares \in Shares
  <2>1. NoShares \in [{} -> 0 .. MaxCents]
    BY DEF NoShares
  <2> QED
    BY <2>1 DEF Shares
<1>2. NoReply \in Replies
  BY ReplyTypes DEF NoReply, Statuses
<1> QED
  BY <1>1, <1>2 DEF Init, TypeInv, TypeOK, Phases, PCs, Failures, Changing

LEMMA ReceiveType ==
  ASSUME TypeInv, NEW q \in Requests, Receive(q)
  PROVE  TypeInv'
<1> USE DEF TypeInv
<1> PICK c \in Calls :
      /\ call' = [call EXCEPT ![q] = c]
      /\ IF Role[c.user][c.space] = "none" THEN Answer(q, Told("notFound"))
         ELSE Goto(q, IF c.op # "create" THEN "read"
                      ELSE IF c.id # NoId THEN "byId"
                      ELSE IF c.mutation # NoMutation THEN "byMutation"
                      ELSE "validate")
  BY DEF Receive
<1>1. UNCHANGED <<tables, target, seen, seenShares, failure, applied>>
  BY DEF Receive
<1>2. TypeOK'
  BY <1>1, ReplyTypes DEF TypeOK, PCs, Goto, Answer, Statuses, tables
<1>3. Phases'
  BY <1>1, CallKinds DEF TypeOK, Phases, Goto, Answer, Changing, tables
<1> QED
  BY <1>2, <1>3

LEMMA CreateLookupType ==
  ASSUME TypeInv, NEW q \in Requests, FindById(q) \/ FindByMutation(q)
  PROVE  TypeInv'
<1> USE DEF TypeInv
<1>1. CASE FindById(q)
  <2>1. call[q] \in CreateCalls /\ call[q].id \in Ids
    BY <1>1, CallKinds DEF FindById, At, Phases, CreateCalls
  <2>2. Visible(call[q].id, call[q].space) => expenses[call[q].id] \in Rows
    BY <2>1 DEF Visible, TypeOK
  <2>3. TypeOK'
    BY <1>1, <2>1, <2>2, ReplyTypes
    DEF TypeOK, FindById, Found, NotFoundByAny, Goto, Answer, PCs, Statuses, tables
  <2>4. Phases'
    BY <1>1, <2>1, <2>2
    DEF TypeOK, Phases, FindById, At, Found, NotFoundByAny, Goto, Answer, Changing, tables
  <2> QED
    BY <2>3, <2>4
<1>2. CASE FindByMutation(q)
  <2>1. call[q].op = "create"
    BY <1>2 DEF FindByMutation, At
  <2>2. \A i \in WithMutation(q) : i \in Ids /\ expenses[i] \in Rows
    BY DEF WithMutation, Visible, TypeOK
  <2>3. TypeOK'
    BY <1>2, <2>2, ReplyTypes
    DEF TypeOK, FindByMutation, Found, NotFoundByAny, Goto, Answer, PCs, Statuses, tables
  <2>4. Phases'
    BY <1>2, <2>1, <2>2
    DEF TypeOK, Phases, FindByMutation, At, Found, NotFoundByAny, Goto, Answer, Changing, tables
  <2> QED
    BY <2>3, <2>4
<1> QED
  BY <1>1, <1>2

LEMMA CreateAnswerType ==
  ASSUME TypeInv, NEW q \in Requests, ResolveReplay(q) \/ ValidateCreate(q)
  PROVE  TypeInv'
<1> USE DEF TypeInv
<1>1. CASE ResolveReplay(q)
  <2>1. target[q] \in Ids /\ seen[q].version \in Nat
    BY <1>1 DEF ResolveReplay, At, Phases, Rows
  <2>2. TypeOK'
    BY <1>1, <2>1, ReplyTypes DEF TypeOK, ResolveReplay, Answer, PCs, Statuses, tables, context
  <2>3. Phases'
    BY <1>1 DEF TypeOK, Phases, ResolveReplay, At, Answer, Changing, tables, context
  <2> QED
    BY <2>2, <2>3
<1>2. CASE ValidateCreate(q)
  <2>1. TypeOK'
    BY <1>2, ReplyTypes
    DEF TypeOK, ValidateCreate, Goto, Answer, PCs, Statuses, tables, context
  <2>2. Phases'
    BY <1>2 DEF TypeOK, Phases, ValidateCreate, At, Goto, Answer, Changing, tables, context
  <2> QED
    BY <2>1, <2>2
<1> QED
  BY <1>1, <1>2

LEMMA InsertedRowType ==
  ASSUME NEW c \in CreateCalls
  PROVE  InsertedRow(c) \in Rows /\ c.shares \in Shares
BY DEF InsertedRow, CreateCalls, Rows

LEMMA FindForSaveType ==
  ASSUME TypeInv, NEW q \in Requests, FindForSave(q)
  PROVE  TypeInv'
<1> USE DEF TypeInv
<1>1. call[q] \in CreateCalls
  BY CallKinds DEF FindForSave, At, Phases
<1>2. seen'[q] \in Rows \cup {Absent}
  BY <1>1 DEF FindForSave, TypeOK, CreateCalls
<1>3. TypeOK'
  BY <1>2 DEF TypeOK, FindForSave, Goto, PCs, tables
<1>4. Phases'
  BY DEF TypeOK, Phases, FindForSave, At, Goto, Changing, tables
<1> QED
  BY <1>3, <1>4

-----------------------------------------------------------------------------
(* A create inserts or fails.  If its save met a row, the shares of that   *)
(* row and those of the create would stay side by side and total more than *)
(* either amount, which the balance triggers do not let through.           *)

Inserts(q, i) ==
  /\ expenses[i] = Absent
  /\ call[q].mutation # NoMutation =>
       \A j \in Ids : expenses[j] # Absent =>
         ~(expenses[j].space = call[q].space /\ expenses[j].mutation = call[q].mutation)
  /\ expenses' = [expenses EXCEPT ![i] = InsertedRow(call[q])]
  /\ splits' = [splits EXCEPT ![i] = call[q].shares]
  /\ applied' = [applied EXCEPT ![q] = 1]
  /\ InSpace(call[q].fields.category, call[q].space)
  /\ UNCHANGED categories

LEMMA SaveNeedsNoRow ==
  ASSUME TypeInv, LedgerInv, NEW q \in Requests, At(q, "create", "commit"),
         NEW i \in Ids, BalancesAfterSave(q, i)
  PROVE  expenses[i] = Absent
<1> SUFFICES ASSUME expenses[i] # Absent PROVE FALSE
  OBVIOUS
<1> DEFINE c == call[q]
           row == expenses[i]
           fields == [k \in DOMAIN c.fields |->
                        SavedColumn(c.fields[k], seen[q].fields[k], row.fields[k])]
<1>1. c \in CreateCalls /\ c.fields \in Fields
  BY CallKinds DEF At, TypeInv, Phases, CreateCalls
<1>2. row \in Rows /\ row.fields \in Fields
  BY DEF TypeInv, TypeOK, Rows
<1>3. ShareTotal(c.shares) = c.fields.amount
  BY DEF At, LedgerInv, Validated, Consistent, Balanced
<1>4. ShareTotal(splits[i]) = row.fields.amount
  BY DEF LedgerInv, SplitsConsistent, Consistent, Balanced
<1>5. c.fields.amount \in Nat \ {0} /\ row.fields.amount \in Nat \ {0}
  BY <1>1, <1>2, MaxCentsIsPositive DEF Fields, Cents
<1>6. "amount" \in DOMAIN c.fields
  BY <1>1 DEF Fields
<1>7. fields["amount"] \in {c.fields.amount, row.fields.amount}
  BY <1>6 DEF SavedColumn
<1>8. SavedRow(q, i).fields = fields
  BY DEF SavedRow, OverwrittenRow
<1>9. ShareTotal(splits[i]) + ShareTotal(c.shares) = fields["amount"]
  BY <1>8 DEF BalancesAfterSave
<1> HIDE DEF fields
<1> QED
  BY <1>3, <1>4, <1>5, <1>7, <1>9

LEMMA SaveInserts ==
  ASSUME TypeInv, LedgerInv, NEW q \in Requests, At(q, "create", "commit"),
         NEW i \in SaveIds(q), Violation(q, i) = "none", SaveExpense(q, i)
  PROVE  /\ i \in Ids
         /\ Inserts(q, i)
         /\ SavedRow(q, i).version = 1
<1>1. call[q] \in CreateCalls
  BY CallKinds DEF At, TypeInv, Phases
<1>2. i \in Ids
  BY <1>1 DEF SaveIds, CreateCalls
<1>3. ~MutationTaken(q, i) /\ BalancesAfterSave(q, i)
  BY DEF Violation
<1>4. expenses[i] = Absent
  BY <1>2, <1>3, SaveNeedsNoRow
<1>5. SavedRow(q, i) = InsertedRow(call[q]) /\ SavedShares(q, i) = call[q].shares
  BY <1>4 DEF SavedRow, SavedShares
<1>6. /\ SavedRow(q, i).version = 1
      /\ SavedRow(q, i).mutation = call[q].mutation
      /\ SavedRow(q, i).space = call[q].space
  BY <1>5 DEF InsertedRow
<1>7. call[q].mutation # NoMutation =>
        \A j \in Ids : expenses[j] # Absent =>
          ~(expenses[j].space = call[q].space /\ expenses[j].mutation = call[q].mutation)
  BY <1>3, <1>4, <1>6 DEF MutationTaken
<1>8. InSpace(call[q].fields.category, call[q].space)
  <2>1. ~CategoryElsewhere(SavedRow(q, i))
    BY DEF Violation
  <2> QED
    BY <1>5, <2>1 DEF CategoryElsewhere, InsertedRow
<1> QED
  BY <1>2, <1>4, <1>5, <1>6, <1>7, <1>8 DEF SaveExpense, Inserts

LEMMA CreateCommits ==
  ASSUME TypeInv, LedgerInv, NEW q \in Requests, CommitCreate(q)
  PROVE  /\ call[q] \in CreateCalls /\ SaveIds(q) \subseteq Ids
         /\ \/ \E i \in SaveIds(q) :
                 /\ Inserts(q, i)
                 /\ \/ Answer(q, Ok(i, 1)) /\ UNCHANGED failure
                    \/ Catch(q, "other")
            \/ /\ UNCHANGED <<tables, applied>>
               /\ \E why \in {"other", "unique", "unbalanced"} : Catch(q, why)
<1>1. At(q, "create", "commit")
  BY DEF CommitCreate
<1>2. call[q] \in CreateCalls
  BY <1>1, CallKinds DEF At, TypeInv, Phases
<1>3. SaveIds(q) \subseteq Ids
  BY <1>2 DEF SaveIds, CreateCalls
<1>4. ASSUME NEW i \in SaveIds(q), Violation(q, i) # "none", Catch(q, Violation(q, i))
      PROVE  \E why \in {"other", "unique", "unbalanced"} : Catch(q, why)
  BY <1>4 DEF Violation
<1>5. ASSUME NEW i \in SaveIds(q), Violation(q, i) = "none", SaveExpense(q, i),
             \/ Answer(q, Ok(i, SavedRow(q, i).version)) /\ UNCHANGED failure
             \/ Catch(q, "other")
      PROVE  /\ Inserts(q, i)
             /\ \/ Answer(q, Ok(i, 1)) /\ UNCHANGED failure
                \/ Catch(q, "other")
  BY <1>1, <1>5, SaveInserts
<1> QED
  BY <1>2, <1>3, <1>4, <1>5 DEF CommitCreate

LEMMA CommitCreateType ==
  ASSUME TypeInv, LedgerInv, NEW q \in Requests, CommitCreate(q)
  PROVE  TypeInv'
<1> USE DEF TypeInv
<1>1. call[q] \in CreateCalls
  BY CreateCommits
<1>2. SaveIds(q) \subseteq Ids
  BY CreateCommits
<1>3. UNCHANGED <<call, target, seen, seenShares>>
  BY DEF CommitCreate
<1>4. /\ expenses' \in [Ids -> Rows \cup {Absent}]
      /\ splits' \in [Ids -> Shares]
      /\ categories' = categories
      /\ applied' \in [Requests -> Nat]
  <2>1. CASE UNCHANGED <<tables, applied>>
    BY <2>1 DEF tables, TypeOK
  <2>2. CASE \E i \in SaveIds(q) : Inserts(q, i)
    BY <1>1, <1>2, <2>2, InsertedRowType DEF Inserts, TypeOK
  <2> QED
    BY <2>1, <2>2, CreateCommits
<1>5. \/ \E i \in SaveIds(q) : Answer(q, Ok(i, 1)) /\ UNCHANGED failure
      \/ \E why \in {"other", "unique", "unbalanced"} : Catch(q, why)
  BY CreateCommits
<1>6. /\ pc' \in [Requests -> PCs]
      /\ reply' \in [Requests -> Replies]
      /\ failure' \in [Requests -> Failures]
  BY <1>2, <1>5, ReplyTypes DEF TypeOK, Answer, Catch, Goto, PCs, Failures, Statuses
<1>7. TypeOK'
  BY <1>3, <1>4, <1>6 DEF TypeOK
<1>8. pc' \in {[pc EXCEPT ![q] = l] : l \in {"byId", "byMutation", "done"}}
  BY <1>5 DEF Answer, Catch, Goto
<1>9. pc'[q] = "byId" => call[q].id # NoId
  BY <1>5 DEF Answer, Catch, Goto, TypeOK
<1>10. \A r \in Requests \ {q} : failure'[r] = failure[r]
  BY <1>5 DEF Answer, Catch, TypeOK
<1>11. Phases'
  BY <1>3, <1>8, <1>9, <1>10 DEF TypeOK, Phases, CommitCreate, At, Changing
<1> QED
  BY <1>7, <1>11

LEMMA ReadType ==
  ASSUME TypeInv, NEW q \in Requests, ReadExpense(q) \/ ReadSplits(q)
  PROVE  TypeInv'
<1> USE DEF TypeInv
<1>1. CASE ReadExpense(q)
  <2>1. call[q] \in Calls /\ call[q].op # "create" /\ call[q].id \in Ids
    BY <1>1, CallKinds DEF ReadExpense, Phases
  <2>2. Visible(call[q].id, call[q].space) => expenses[call[q].id] \in Rows
    BY <2>1 DEF Visible, TypeOK
  <2>3. TypeOK'
    BY <1>1, <2>1, <2>2, ReplyTypes
    DEF TypeOK, ReadExpense, Goto, Answer, PCs, Statuses, tables
  <2>4. Phases'
    BY <1>1, <2>1, <2>2
    DEF TypeOK, Phases, ReadExpense, Goto, Answer, Changing, tables
  <2> QED
    BY <2>3, <2>4
<1>2. CASE ReadSplits(q)
  <2>1. call[q] \in Calls /\ call[q].op # "create" /\ target[q] \in Ids
    BY <1>2, CallKinds DEF ReadSplits, Phases, Changing
  <2>2. TypeOK'
    BY <1>2, <2>1 DEF TypeOK, ReadSplits, Goto, PCs, tables
  <2>3. Phases'
    BY <1>2, <2>1 DEF TypeOK, Phases, ReadSplits, Goto, Changing, tables
  <2> QED
    BY <2>2, <2>3
<1> QED
  BY <1>1, <1>2

LEMMA ValidateUpdateType ==
  ASSUME TypeInv, NEW q \in Requests, ValidateUpdate(q)
  PROVE  TypeInv'
<1> USE DEF TypeInv
<1>1. TypeOK'
  BY ReplyTypes DEF TypeOK, ValidateUpdate, Goto, Answer, PCs, Statuses, tables, context
<1>2. Phases'
  BY DEF TypeOK, Phases, ValidateUpdate, At, Goto, Answer, Changing, tables, context
<1> QED
  BY <1>1, <1>2

LEMMA ValidatedTypes ==
  ASSUME TypeInv, NEW q \in Requests, At(q, "update", "commit")
  PROVE  /\ call[q] \in UpdateCalls
         /\ target[q] \in Ids /\ target[q] = call[q].id
         /\ seen[q] \in Rows
         /\ NewFields(q) \in Fields
         /\ NewShares(q) \in Shares
         /\ UpdatedShares(q) \in Shares
         /\ expenses[target[q]] # Absent =>
              /\ UpdatedRow(q) \in Rows
              /\ UpdatedRow(q).version = expenses[target[q]].version + 1
<1> USE DEF TypeInv
<1>1. call[q] \in UpdateCalls
  BY CallKinds DEF At, Phases
<1>2. target[q] = call[q].id /\ target[q] \in Ids /\ seen[q] \in Rows
  BY <1>1 DEF At, Phases, Changing, UpdateCalls
<1>3. NewFields(q) \in Fields
  BY <1>1, <1>2, MergeType DEF NewFields, UpdateCalls, Rows
<1>4. NewShares(q) \in Shares /\ UpdatedShares(q) \in Shares
  BY <1>1, <1>2 DEF NewShares, UpdatedShares, Chosen, UpdateCalls, TypeOK
<1>5. ASSUME expenses[target[q]] # Absent
      PROVE  UpdatedRow(q) \in Rows /\ UpdatedRow(q).version = expenses[target[q]].version + 1
  <2>1. expenses[target[q]] \in Rows
    BY <1>2, <1>5 DEF TypeOK
  <2> QED
    BY <1>3, <2>1, RowUpdates DEF UpdatedRow, Rows
<1> QED
  BY <1>1, <1>2, <1>3, <1>4, <1>5

LEMMA CommitUpdateType ==
  ASSUME TypeInv, NEW q \in Requests, CommitUpdate(q)
  PROVE  TypeInv'
<1> USE DEF TypeInv
<1>1. At(q, "update", "commit")
  BY DEF CommitUpdate
<1>2. MatchesExpected(q) => /\ UpdatedRow(q) \in Rows
                            /\ UpdatedRow(q).version \in Nat
  BY <1>1, ValidatedTypes DEF MatchesExpected, Visible, Rows
<1>3. target[q] \in Ids /\ UpdatedShares(q) \in Shares
  BY <1>1, ValidatedTypes
<1>4. UNCHANGED <<call, target, seen, seenShares, categories>>
  BY DEF CommitUpdate, tables
<1>5. /\ expenses' \in [Ids -> Rows \cup {Absent}]
      /\ splits' \in [Ids -> Shares]
      /\ applied' \in [Requests -> Nat]
  BY <1>2, <1>3 DEF CommitUpdate, TypeOK, tables
<1>6. /\ pc' \in [Requests -> PCs]
      /\ pc' = [pc EXCEPT ![q] = "done"]
      /\ reply' \in [Requests -> Replies]
      /\ failure' \in [Requests -> Failures]
  BY <1>2, <1>3, ReplyTypes DEF CommitUpdate, Answer, TypeOK, PCs, Failures, Statuses
<1>7. TypeOK'
  BY <1>4, <1>5, <1>6 DEF TypeOK
<1>8. \A r \in Requests \ {q} : failure'[r] = failure[r]
  BY DEF CommitUpdate, TypeOK
<1>9. Phases'
  BY <1>1, <1>4, <1>6, <1>8 DEF TypeOK, Phases, At, Changing
<1> QED
  BY <1>7, <1>9

LEMMA CommitDeleteType ==
  ASSUME TypeInv, NEW q \in Requests, CommitDelete(q)
  PROVE  TypeInv'
<1> USE DEF TypeInv
<1>1. call[q] \in DeleteCalls /\ target[q] = call[q].id /\ target[q] \in Ids
  BY CallKinds DEF CommitDelete, At, Phases, Changing, DeleteCalls
<1>2. MatchesExpected(q) => /\ Tombstone(expenses[target[q]]) \in Rows
                            /\ Tombstone(expenses[target[q]]).version \in Nat
  <2> SUFFICES ASSUME MatchesExpected(q)
               PROVE  /\ Tombstone(expenses[target[q]]) \in Rows
                      /\ Tombstone(expenses[target[q]]).version \in Nat
    OBVIOUS
  <2>1. expenses[target[q]] \in Rows
    BY <1>1 DEF MatchesExpected, Visible, TypeOK
  <2> QED
    BY <2>1, RowUpdates DEF Tombstone, Rows
<1>3. UNCHANGED <<context, splits, categories>>
  BY DEF CommitDelete, tables
<1>4. /\ expenses' \in [Ids -> Rows \cup {Absent}]
      /\ applied' \in [Requests -> Nat]
  BY <1>1, <1>2 DEF CommitDelete, TypeOK, tables
<1>5. /\ pc' \in [Requests -> PCs]
      /\ pc' = [pc EXCEPT ![q] = "done"]
      /\ reply' \in [Requests -> Replies]
  BY <1>1, <1>2, ReplyTypes DEF CommitDelete, Answer, TypeOK, PCs, Statuses
<1>6. TypeOK'
  BY <1>3, <1>4, <1>5 DEF TypeOK, context
<1>7. Phases'
  BY <1>3, <1>5 DEF TypeOK, Phases, CommitDelete, At, Changing, context
<1> QED
  BY <1>6, <1>7

LEMMA CrashType ==
  ASSUME TypeInv, NEW q \in Requests, Crash(q)
  PROVE  TypeInv'
<1> USE DEF TypeInv
<1>1. TypeOK'
  BY ReplyTypes DEF TypeOK, Crash, Answer, PCs, Statuses, tables, context
<1>2. Phases'
  BY DEF TypeOK, Phases, Crash, Answer, Changing, tables, context
<1> QED
  BY <1>1, <1>2

LEMMA TypeStep == TypeInv /\ LedgerInv /\ [Next]_vars => TypeInv'
<1> SUFFICES ASSUME TypeInv, LedgerInv, [Next]_vars PROVE TypeInv'
  OBVIOUS
<1>1. CASE UNCHANGED vars \/ ChangeCategories
  <2>1. UNCHANGED <<expenses, splits, pc, context, applied, reply>>
    BY <1>1 DEF vars, ChangeCategories, context
  <2>2. categories' \in CategoryTables
    BY <1>1 DEF vars, ChangeCategories, TypeInv, TypeOK
  <2> QED
    BY <2>1, <2>2 DEF TypeInv, TypeOK, Phases, Changing, context
<1>2. ASSUME NEW q \in Requests, Receive(q) \/ Handle(q) \/ Crash(q)
      PROVE  TypeInv'
  BY <1>2, ReceiveType, CreateLookupType, CreateAnswerType, FindForSaveType,
     CommitCreateType, ReadType, ValidateUpdateType, CommitUpdateType,
     CommitDeleteType, CrashType
  DEF Handle
<1> QED
  BY <1>1, <1>2 DEF Next

-----------------------------------------------------------------------------
(* Consistency of expenses and shares.  SnapshotsCurrent is what makes it  *)
(* inductive: a request that commits on the version it read holds the      *)
(* current row and the current shares, so what it validated is what the    *)
(* transaction stores.                                                     *)

LEMMA LedgerInit == Init => LedgerInv
BY DEF Init, LedgerInv, SplitsConsistent, SnapshotsCurrent, Changing, Validated,
       BalanceTriggersSilent

\* Steps after which no request stands at a commit or holds a row it did not
\* hold before, and which leave the tables alone.
LEMMA QuietSteps ==
  ASSUME TypeInv, TypeInv', LedgerInv, NEW q \in Requests,
         UNCHANGED <<tables, failure>>,
         \A r \in Requests \ {q} :
           /\ pc'[r] = pc[r] /\ call'[r] = call[r] /\ target'[r] = target[r]
           /\ seen'[r] = seen[r] /\ seenShares'[r] = seenShares[r],
         pc'[q] \notin {"save", "commit"},
         ~Changing(q)',
         failure[q] = "none" \/ (pc[q] # "idle" /\ call'[q] = call[q])
  PROVE  LedgerInv'
<1> USE DEF LedgerInv, tables
<1>1. SplitsConsistent' /\ BalanceTriggersSilent'
  BY DEF SplitsConsistent, BalanceTriggersSilent
<1>2. SnapshotsCurrent'
  BY DEF SnapshotsCurrent, Changing
<1>3. Validated'
  BY DEF Validated, NewFields, NewShares
<1> QED
  BY <1>1, <1>2, <1>3

LEMMA QuietActions ==
  ASSUME TypeInv, TypeInv', LedgerInv, NEW q \in Requests,
         \/ Receive(q) \/ FindById(q) \/ FindByMutation(q)
         \/ ResolveReplay(q) \/ Crash(q)
  PROVE  LedgerInv'
<1>1. UNCHANGED <<tables, failure>>
  BY DEF Receive, FindById, FindByMutation, ResolveReplay, Crash, context
<1>2. \A r \in Requests \ {q} :
        /\ pc'[r] = pc[r] /\ call'[r] = call[r] /\ target'[r] = target[r]
        /\ seen'[r] = seen[r] /\ seenShares'[r] = seenShares[r]
  BY DEF Receive, FindById, FindByMutation, ResolveReplay, Crash, context,
         Found, NotFoundByAny, Goto, Answer, TypeInv, TypeOK
<1>3. pc'[q] \notin {"save", "commit"} /\ ~Changing(q)'
  BY DEF Receive, FindById, FindByMutation, ResolveReplay, Crash, context, At,
         Found, NotFoundByAny, Goto, Answer, TypeInv, TypeOK, Changing
<1>4. failure[q] = "none" \/ (pc[q] # "idle" /\ call'[q] = call[q])
  BY DEF Receive, FindById, FindByMutation, ResolveReplay, Crash, At, context,
         TypeInv, Phases
<1> QED
  BY <1>1, <1>2, <1>3, <1>4, QuietSteps

LEMMA ValidateActions ==
  ASSUME TypeInv, TypeInv', LedgerInv, NEW q \in Requests,
         ValidateCreate(q) \/ ValidateUpdate(q)
  PROVE  LedgerInv'
<1>1. /\ UNCHANGED <<expenses, splits, call, target, seen, seenShares, failure>>
      /\ pc' \in {[pc EXCEPT ![q] = l] : l \in {"save", "commit", "done"}}
      /\ pc[q] = "validate"
  BY DEF ValidateCreate, ValidateUpdate, At, Goto, Answer, tables, context
<1>2. SplitsConsistent' /\ BalanceTriggersSilent'
  BY <1>1 DEF LedgerInv, SplitsConsistent, BalanceTriggersSilent, TypeInv, TypeOK
<1>3. SnapshotsCurrent'
  BY <1>1 DEF LedgerInv, SnapshotsCurrent, Changing, TypeInv, TypeOK
<1>4. Validated'
  <2> SUFFICES ASSUME NEW r \in Requests, pc'[r] \in {"save", "commit"}
               PROVE  /\ call[r].op = "create" => Consistent(call[r].fields, call[r].shares)
                      /\ call[r].op = "update" => Consistent(NewFields(r), NewShares(r))
    BY <1>1 DEF Validated, NewFields, NewShares
  <2>1. CASE r = q
    BY <2>1 DEF ValidateCreate, ValidateUpdate, At, Goto, Answer, TypeInv, TypeOK
  <2>2. CASE r # q
    BY <1>1, <2>2 DEF LedgerInv, Validated, TypeInv, TypeOK
  <2> QED
    BY <2>1, <2>2
<1> QED
  BY <1>2, <1>3, <1>4 DEF LedgerInv

LEMMA FindForSaveInv ==
  ASSUME TypeInv, TypeInv', LedgerInv, NEW q \in Requests, FindForSave(q)
  PROVE  LedgerInv'
<1>1. /\ UNCHANGED <<expenses, splits, call, target, seenShares, failure>>
      /\ \A r \in Requests \ {q} : pc'[r] = pc[r] /\ seen'[r] = seen[r]
      /\ pc[q] = "save" /\ pc'[q] = "commit" /\ call[q].op = "create"
  BY DEF FindForSave, At, Goto, tables, TypeInv, TypeOK
<1>2. SplitsConsistent' /\ BalanceTriggersSilent'
  BY <1>1 DEF LedgerInv, SplitsConsistent, BalanceTriggersSilent
<1>3. SnapshotsCurrent'
  BY <1>1 DEF LedgerInv, SnapshotsCurrent, Changing
<1>4. Validated'
  BY <1>1 DEF LedgerInv, Validated, NewFields, NewShares
<1> QED
  BY <1>2, <1>3, <1>4 DEF LedgerInv

LEMMA ReadExpenseInv ==
  ASSUME TypeInv, TypeInv', LedgerInv, NEW q \in Requests, ReadExpense(q)
  PROVE  LedgerInv'
<1>1. /\ UNCHANGED <<expenses, splits, call, seenShares, failure>>
      /\ \A r \in Requests \ {q} :
           pc'[r] = pc[r] /\ target'[r] = target[r] /\ seen'[r] = seen[r]
      /\ pc[q] = "read"
  BY DEF ReadExpense, Goto, Answer, tables, TypeInv, TypeOK
<1>2. \/ pc'[q] = "done"
      \/ /\ expenses[call[q].id] # Absent
         /\ target'[q] = call[q].id /\ seen'[q] = expenses[call[q].id]
         /\ pc'[q] = IF call[q].op = "update" THEN "readSplits" ELSE "commit"
         /\ call[q].op # "create"
  BY <1>1 DEF ReadExpense, Visible, Goto, Answer, TypeInv, TypeOK, Phases
<1>3. SplitsConsistent' /\ BalanceTriggersSilent'
  BY <1>1 DEF LedgerInv, SplitsConsistent, BalanceTriggersSilent
<1>4. SnapshotsCurrent'
  <2> SUFFICES ASSUME NEW r \in Requests, Changing(r)'
               PROVE  /\ expenses[target'[r]] # Absent
                      /\ seen'[r].version <= expenses[target'[r]].version
                      /\ seen'[r].version = expenses[target'[r]].version =>
                           /\ seen'[r] = expenses[target'[r]]
                           /\ pc'[r] # "readSplits" /\ call[r].op = "update" =>
                                seenShares[r] = splits[target'[r]]
    BY <1>1 DEF SnapshotsCurrent
  <2>1. CASE r = q
    <3>1. seen'[q] \in Rows
      BY <2>1 DEF TypeInv, Phases, Changing
    <3>2. seen'[q].version \in Nat
      BY <3>1 DEF Rows
    <3> QED
      BY <1>2, <2>1, <3>2 DEF Changing
  <2>2. CASE r # q
    BY <1>1, <2>2 DEF LedgerInv, SnapshotsCurrent, Changing
  <2> QED
    BY <2>1, <2>2
<1>5. Validated'
  BY <1>1, <1>2 DEF LedgerInv, Validated, NewFields, NewShares
<1> QED
  BY <1>3, <1>4, <1>5 DEF LedgerInv

LEMMA ReadSplitsInv ==
  ASSUME TypeInv, TypeInv', LedgerInv, NEW q \in Requests, ReadSplits(q)
  PROVE  LedgerInv'
<1>1. /\ UNCHANGED <<expenses, splits, call, target, seen, failure>>
      /\ \A r \in Requests \ {q} : pc'[r] = pc[r] /\ seenShares'[r] = seenShares[r]
      /\ pc[q] = "readSplits" /\ pc'[q] = "validate"
      /\ seenShares'[q] = splits[target[q]]
  BY DEF ReadSplits, Goto, tables, TypeInv, TypeOK
<1>2. SplitsConsistent' /\ BalanceTriggersSilent'
  BY <1>1 DEF LedgerInv, SplitsConsistent, BalanceTriggersSilent
<1>3. SnapshotsCurrent'
  BY <1>1 DEF LedgerInv, SnapshotsCurrent, Changing
<1>4. Validated'
  BY <1>1 DEF LedgerInv, Validated, NewFields, NewShares
<1> QED
  BY <1>2, <1>3, <1>4 DEF LedgerInv

\* A transaction that stores consistent data under the next version.
LEMMA StoreInv ==
  ASSUME TypeInv, TypeInv', LedgerInv,
         NEW q \in Requests, NEW i \in Ids, NEW row \in Rows, NEW shares \in Shares,
         expenses' = [expenses EXCEPT ![i] = row],
         splits' = [splits EXCEPT ![i] = shares],
         Consistent(row.fields, shares),
         expenses[i] # Absent => row.version = expenses[i].version + 1,
         UNCHANGED <<call, target, seen, seenShares>>,
         \A r \in Requests \ {q} : pc'[r] = pc[r] /\ failure'[r] = failure[r],
         pc'[q] \in {"done", "byId", "byMutation"},
         call[q].op = "update" => failure'[q] # "unbalanced",
         pc[q] # "idle"
  PROVE  LedgerInv'
<1>1. SplitsConsistent'
  BY AbsentIsNoRow DEF LedgerInv, SplitsConsistent, TypeInv, TypeOK
<1>2. BalanceTriggersSilent'
  BY DEF LedgerInv, BalanceTriggersSilent
<1>3. SnapshotsCurrent'
  <2> SUFFICES ASSUME NEW r \in Requests, Changing(r)'
               PROVE  /\ expenses'[target[r]] # Absent
                      /\ seen[r].version <= expenses'[target[r]].version
                      /\ seen[r].version = expenses'[target[r]].version =>
                           /\ seen[r] = expenses'[target[r]]
                           /\ pc'[r] # "readSplits" /\ call[r].op = "update" =>
                                seenShares[r] = splits'[target[r]]
    BY DEF SnapshotsCurrent
  <2>1. r # q
    BY DEF Changing
  <2>2. /\ Changing(r) /\ pc'[r] = pc[r]
        /\ seen[r] \in Rows
        /\ target[r] \in Ids
    BY <2>1, CallKinds DEF Changing, TypeInv, Phases
  <2>3. /\ expenses[target[r]] # Absent
        /\ seen[r].version <= expenses[target[r]].version
        /\ seen[r].version = expenses[target[r]].version =>
             /\ seen[r] = expenses[target[r]]
             /\ pc[r] # "readSplits" /\ call[r].op = "update" =>
                  seenShares[r] = splits[target[r]]
    BY <2>2 DEF LedgerInv, SnapshotsCurrent
  <2>4. CASE target[r] # i
    BY <2>2, <2>3, <2>4 DEF TypeInv, TypeOK
  <2>5. CASE target[r] = i
    <3>1. seen[r].version \in Nat /\ expenses[i].version \in Nat
      BY <2>2, <2>3, <2>5 DEF Rows, TypeInv, TypeOK
    <3>2. expenses'[i] = row /\ row.version = expenses[i].version + 1
      BY <2>3, <2>5 DEF TypeInv, TypeOK
    <3>3. seen[r].version < row.version
      BY <2>3, <2>5, <3>1, <3>2
    <3> QED
      BY <2>5, <3>1, <3>2, <3>3, AbsentIsNoRow
  <2> QED
    BY <2>4, <2>5
<1>4. Validated'
  BY DEF LedgerInv, Validated, NewFields, NewShares
<1> QED
  BY <1>1, <1>2, <1>3, <1>4 DEF LedgerInv

\* A transaction that fails, or whose request is answered without one.
LEMMA RollbackInv ==
  ASSUME TypeInv, TypeInv', LedgerInv, NEW q \in Requests,
         UNCHANGED <<expenses, splits, call, target, seen, seenShares>>,
         \A r \in Requests \ {q} : pc'[r] = pc[r] /\ failure'[r] = failure[r],
         pc'[q] \in {"done", "byId", "byMutation"},
         call[q].op = "update" => failure'[q] # "unbalanced",
         pc[q] # "idle"
  PROVE  LedgerInv'
<1>1. SplitsConsistent'
  BY DEF LedgerInv, SplitsConsistent
<1>2. BalanceTriggersSilent'
  BY DEF LedgerInv, BalanceTriggersSilent
<1>3. SnapshotsCurrent'
  BY DEF LedgerInv, SnapshotsCurrent, Changing
<1>4. Validated'
  BY DEF LedgerInv, Validated, NewFields, NewShares
<1> QED
  BY <1>1, <1>2, <1>3, <1>4 DEF LedgerInv

LEMMA CommitCreateInv ==
  ASSUME TypeInv, TypeInv', LedgerInv, NEW q \in Requests, CommitCreate(q)
  PROVE  LedgerInv'
<1>1. /\ At(q, "create", "commit")
      /\ UNCHANGED <<call, target, seen, seenShares>>
  BY DEF CommitCreate
<1>2. call[q] \in CreateCalls /\ Consistent(call[q].fields, call[q].shares)
  BY <1>1, CallKinds DEF At, TypeInv, Phases, LedgerInv, Validated
<1>4. /\ \A r \in Requests \ {q} : pc'[r] = pc[r] /\ failure'[r] = failure[r]
      /\ pc'[q] \in {"done", "byId", "byMutation"}
      /\ call[q].op = "update" => failure'[q] # "unbalanced"
      /\ pc[q] # "idle"
  BY <1>1, CreateCommits DEF At, Catch, Answer, Goto, TypeInv, TypeOK
<1>5. CASE UNCHANGED <<tables, applied>>
  BY <1>1, <1>4, <1>5, RollbackInv DEF tables
<1>6. CASE \E i \in SaveIds(q) : Inserts(q, i)
  <2> PICK i \in SaveIds(q) : Inserts(q, i)
    BY <1>6
  <2>1. i \in Ids
    BY <1>2 DEF SaveIds, CreateCalls
  <2>2. InsertedRow(call[q]) \in Rows /\ call[q].shares \in Shares
    BY <1>2, InsertedRowType
  <2>3. /\ expenses[i] = Absent
        /\ expenses' = [expenses EXCEPT ![i] = InsertedRow(call[q])]
        /\ splits' = [splits EXCEPT ![i] = call[q].shares]
    BY DEF Inserts
  <2>4. Consistent(InsertedRow(call[q]).fields, call[q].shares)
    BY <1>2 DEF InsertedRow
  <2> QED
    BY <1>1, <1>4, <2>1, <2>2, <2>3, <2>4, StoreInv
<1> QED
  BY <1>5, <1>6, CreateCommits

\* The transaction of an update stores what its request validated.
LEMMA UpdateStoresValidated ==
  ASSUME TypeInv, LedgerInv, NEW q \in Requests,
         At(q, "update", "commit"), MatchesExpected(q)
  PROVE  /\ expenses[target[q]] = seen[q]
         /\ UpdatedRow(q).fields = NewFields(q)
         /\ UpdatedShares(q) = NewShares(q)
         /\ Consistent(UpdatedRow(q).fields, UpdatedShares(q))
         /\ BalanceTrigger(q)
<1>1. Changing(q) /\ pc[q] = "commit" /\ call[q].op = "update"
  BY DEF At, Changing
<1>2. seen[q].version = call[q].expected
  BY <1>1 DEF TypeInv, Phases
<1>3. expenses[target[q]] = seen[q] /\ seenShares[q] = splits[target[q]]
  BY <1>1, <1>2 DEF LedgerInv, SnapshotsCurrent, MatchesExpected
<1>4. UpdatedShares(q) = NewShares(q)
  BY <1>3 DEF UpdatedShares, NewShares
<1>5. UpdatedRow(q).fields = NewFields(q)
  <2>1. seen[q] \in Rows
    BY <1>1 DEF TypeInv, Phases
  <2> QED
    BY <1>3, <2>1 DEF UpdatedRow, Rows
<1>6. Consistent(NewFields(q), NewShares(q))
  BY <1>1 DEF LedgerInv, Validated
<1> QED
  BY <1>3, <1>4, <1>5, <1>6 DEF BalanceTrigger, Consistent

LEMMA CommitUpdateInv ==
  ASSUME TypeInv, TypeInv', LedgerInv, NEW q \in Requests, CommitUpdate(q)
  PROVE  LedgerInv'
<1>1. /\ At(q, "update", "commit")
      /\ UNCHANGED <<call, target, seen, seenShares>>
  BY DEF CommitUpdate
<1>2. MatchesExpected(q) => BalanceTrigger(q)
  BY <1>1, UpdateStoresValidated
<1>3. /\ \A r \in Requests \ {q} : pc'[r] = pc[r] /\ failure'[r] = failure[r]
      /\ pc'[q] \in {"done", "byId", "byMutation"}
      /\ call[q].op = "update" => failure'[q] # "unbalanced"
      /\ pc[q] # "idle"
  BY <1>1, <1>2 DEF CommitUpdate, At, Answer, TypeInv, TypeOK, LedgerInv, BalanceTriggersSilent
<1>4. CASE UNCHANGED <<tables, applied>>
  BY <1>1, <1>3, <1>4, RollbackInv DEF tables
<1>5. CASE /\ MatchesExpected(q)
           /\ expenses' = [expenses EXCEPT ![target[q]] = UpdatedRow(q)]
           /\ splits' = [splits EXCEPT ![target[q]] = UpdatedShares(q)]
  <2>1. Consistent(UpdatedRow(q).fields, UpdatedShares(q))
    BY <1>1, <1>5, UpdateStoresValidated
  <2>2. /\ target[q] \in Ids
        /\ UpdatedRow(q) \in Rows /\ UpdatedShares(q) \in Shares
        /\ UpdatedRow(q).version = expenses[target[q]].version + 1
    BY <1>1, <1>5, ValidatedTypes DEF MatchesExpected, Visible
  <2> QED
    BY <1>1, <1>3, <1>5, <2>1, <2>2, StoreInv
<1> QED
  BY <1>4, <1>5 DEF CommitUpdate

LEMMA CommitDeleteInv ==
  ASSUME TypeInv, TypeInv', LedgerInv, NEW q \in Requests, CommitDelete(q)
  PROVE  LedgerInv'
<1>1. /\ UNCHANGED <<context, splits>>
      /\ pc' = [pc EXCEPT ![q] = "done"]
  BY DEF CommitDelete, Answer, tables
<1>2. /\ \A r \in Requests \ {q} : pc'[r] = pc[r] /\ failure'[r] = failure[r]
      /\ pc'[q] \in {"done", "byId", "byMutation"}
      /\ call[q].op = "update" => failure'[q] # "unbalanced"
      /\ pc[q] # "idle"
  BY <1>1 DEF context, CommitDelete, At, TypeInv, TypeOK
<1>3. CASE UNCHANGED <<tables, applied>>
  BY <1>1, <1>2, <1>3, RollbackInv DEF tables, context
<1>4. CASE /\ MatchesExpected(q)
           /\ expenses' = [expenses EXCEPT ![target[q]] = Tombstone(expenses[target[q]])]
  <2> DEFINE row == expenses[target[q]]
  <2>1. target[q] \in Ids
    BY CallKinds DEF CommitDelete, At, TypeInv, Phases, Changing
  <2>2. row \in Rows
    BY <1>4, <2>1 DEF MatchesExpected, Visible, TypeInv, TypeOK
  <2>3. /\ Tombstone(row) \in Rows
        /\ Tombstone(row).version = row.version + 1
        /\ Tombstone(row).fields = row.fields
    BY <2>2, RowUpdates DEF Tombstone, Rows
  <2>4. Consistent(row.fields, splits[target[q]])
    BY <1>4, <2>1 DEF LedgerInv, SplitsConsistent, MatchesExpected, Visible
  <2>5. /\ splits' = [splits EXCEPT ![target[q]] = splits[target[q]]]
        /\ splits[target[q]] \in Shares
    BY <1>1, <2>1 DEF TypeInv, TypeOK
  <2> QED
    BY <1>1, <1>2, <1>4, <2>1, <2>3, <2>4, <2>5, StoreInv DEF context
<1> QED
  BY <1>3, <1>4 DEF CommitDelete

LEMMA LedgerStep == TypeInv /\ TypeInv' /\ LedgerInv /\ [Next]_vars => LedgerInv'
<1> SUFFICES ASSUME TypeInv, TypeInv', LedgerInv, [Next]_vars PROVE LedgerInv'
  OBVIOUS
<1>1. CASE UNCHANGED serviceVars
  BY <1>1 DEF LedgerInv, SplitsConsistent, SnapshotsCurrent, Changing, Validated,
              NewFields, NewShares, BalanceTriggersSilent, serviceVars, context
<1>2. ASSUME NEW q \in Requests, Receive(q) \/ Handle(q) \/ Crash(q)
      PROVE  LedgerInv'
  BY <1>2, QuietActions, ValidateActions, FindForSaveInv, ReadExpenseInv, ReadSplitsInv,
     CommitCreateInv, CommitUpdateInv, CommitDeleteInv
  DEF Handle
<1> QED
  BY <1>1, <1>2, NextCases

LEMMA InvariantsHold == Spec => [](TypeInv /\ LedgerInv)
<1>1. Init => TypeInv /\ LedgerInv
  BY TypeInit, LedgerInit
<1>2. TypeInv /\ LedgerInv /\ [Next]_vars => (TypeInv /\ LedgerInv)'
  BY TypeStep, LedgerStep
<1> QED
  BY <1>1, <1>2, PTL DEF Spec

\* Every table, request and answer keeps its type, in every system.
THEOREM TypeCorrect == Spec => []TypeOK
BY InvariantsHold, PTL DEF TypeInv

\* The stored shares of every expense obey the allocation rules of its amount
\* and split type, for every interleaving of any number of requests.
THEOREM StoredSharesConsistent == Spec => []SplitsConsistent
BY InvariantsHold, PTL DEF LedgerInv

\* While the version a request has read is still the stored one, the row and
\* the shares it has read are the stored ones, although two queries read them.
THEOREM ReadsCurrent == Spec => []SnapshotsCurrent
BY InvariantsHold, PTL DEF LedgerInv

\* No transaction of an update is aborted by the deferred balance triggers.
THEOREM TriggersSilent == Spec => []BalanceTriggersSilent
BY InvariantsHold, PTL DEF LedgerInv

-----------------------------------------------------------------------------
(* What a step may do to the tables, and that no request undoes another.   *)

Stores(q, row, shares) ==
  /\ MatchesExpected(q)
  /\ expenses' = [expenses EXCEPT ![target[q]] = row]
  /\ splits' = [splits EXCEPT ![target[q]] = shares]
  /\ applied' = [applied EXCEPT ![q] = row.version]

LEMMA TableSteps ==
  ASSUME TypeInv, LedgerInv, NEW q \in Requests, Receive(q) \/ Handle(q) \/ Crash(q)
  PROVE  \/ UNCHANGED <<expenses, splits, applied>>
         \/ /\ At(q, "create", "commit")
            /\ \E i \in SaveIds(q) : Inserts(q, i)
         \/ /\ At(q, "update", "commit")
            /\ Stores(q, UpdatedRow(q), UpdatedShares(q))
            /\ ~CategoryElsewhere(UpdatedRow(q))
         \/ /\ At(q, "delete", "commit")
            /\ Stores(q, Tombstone(expenses[target[q]]), splits[target[q]])
<1>1. CASE \/ Receive(q) \/ FindById(q) \/ FindByMutation(q) \/ ResolveReplay(q)
           \/ ValidateCreate(q) \/ FindForSave(q) \/ ReadExpense(q) \/ ReadSplits(q)
           \/ ValidateUpdate(q) \/ Crash(q)
  BY <1>1 DEF Receive, FindById, FindByMutation, ResolveReplay, ValidateCreate, FindForSave,
              ReadExpense, ReadSplits, ValidateUpdate, Crash, tables
<1>2. CASE CommitCreate(q)
  BY <1>2, CreateCommits DEF CommitCreate, tables
<1>3. CASE CommitUpdate(q)
  BY <1>3 DEF CommitUpdate, Stores, tables
<1>4. CASE CommitDelete(q)
  <2>1. splits = [splits EXCEPT ![target[q]] = splits[target[q]]]
    BY DEF TypeInv, TypeOK
  <2> QED
    BY <1>4, <2>1 DEF CommitDelete, Stores, tables
<1> QED
  BY <1>1, <1>2, <1>3, <1>4 DEF Handle

\* A transaction that changes a row finds it live, at the version its request
\* named, and stores the next one.
LEMMA StoredRows ==
  ASSUME TypeInv, NEW q \in Requests, NEW row, NEW shares, Stores(q, row, shares),
         \/ At(q, "update", "commit") /\ row = UpdatedRow(q)
         \/ At(q, "delete", "commit") /\ row = Tombstone(expenses[target[q]])
  PROVE  LET old == expenses[call[q].id] IN
         /\ call[q].id \in Ids /\ target[q] = call[q].id
         /\ call[q].op # "create"
         /\ old \in Rows /\ row \in Rows
         /\ ~old.deleted
         /\ old.space = call[q].space
         /\ old.version = call[q].expected
         /\ row.version = call[q].expected + 1
         /\ row.space = old.space /\ row.mutation = old.mutation
<1>1. call[q].id \in Ids /\ target[q] = call[q].id /\ call[q].op # "create"
  BY CallKinds DEF At, TypeInv, Phases, Changing
<1>2. /\ expenses[call[q].id] \in Rows
      /\ ~expenses[call[q].id].deleted
      /\ expenses[call[q].id].space = call[q].space
      /\ expenses[call[q].id].version = call[q].expected
  BY <1>1 DEF Stores, MatchesExpected, Visible, TypeInv, TypeOK
<1>3. CASE At(q, "update", "commit") /\ row = UpdatedRow(q)
  <2>1. row \in Rows /\ row.version = call[q].expected + 1
    BY <1>1, <1>2, <1>3, ValidatedTypes, AbsentIsNoRow
  <2>2. row.space = expenses[call[q].id].space /\ row.mutation = expenses[call[q].id].mutation
    BY <1>1, <1>2, <1>3 DEF UpdatedRow, Rows
  <2> QED
    BY <1>1, <1>2, <2>1, <2>2
<1>4. CASE At(q, "delete", "commit") /\ row = Tombstone(expenses[target[q]])
  <2>0. expenses[target[q]] \in Rows
    BY <1>1, <1>2
  <2>1. row \in Rows
    BY <1>4, <2>0, RowUpdates DEF Tombstone, Rows
  <2>2. /\ row.version = call[q].expected + 1
        /\ row.space = expenses[call[q].id].space
        /\ row.mutation = expenses[call[q].id].mutation
    BY <1>1, <1>2, <1>4 DEF Tombstone, Rows
  <2> QED
    BY <1>1, <1>2, <2>1, <2>2
<1> QED
  BY <1>3, <1>4

\* A tombstone is final: no request, however old the row it has read, changes
\* a deleted expense or its shares.
THEOREM DeletedStaysDeleted == Spec => TombstonesFinal
<1> DEFINE Kept == \A i \in Ids : expenses[i] # Absent /\ expenses[i].deleted =>
                     UNCHANGED <<expenses[i], splits[i]>>
<1>1. TypeInv /\ LedgerInv /\ [Next]_vars => [Kept]_vars
  <2> SUFFICES ASSUME TypeInv, LedgerInv, NEW q \in Requests,
                      Receive(q) \/ Handle(q) \/ Crash(q)
               PROVE  Kept
    BY NextCases DEF serviceVars
  <2> SUFFICES ASSUME NEW i \in Ids, expenses[i] # Absent, expenses[i].deleted
               PROVE  expenses'[i] = expenses[i] /\ splits'[i] = splits[i]
    OBVIOUS
  <2>1. CASE UNCHANGED <<expenses, splits, applied>>
    BY <2>1
  <2>2. CASE \E j \in SaveIds(q) : Inserts(q, j)
    BY <2>2 DEF Inserts, TypeInv, TypeOK
  <2>3. CASE /\ At(q, "update", "commit")
             /\ Stores(q, UpdatedRow(q), UpdatedShares(q))
    <3>1. target[q] # i
      BY <2>3, StoredRows
    <3> QED
      BY <2>3, <3>1 DEF Stores, TypeInv, TypeOK
  <2>4. CASE /\ At(q, "delete", "commit")
             /\ Stores(q, Tombstone(expenses[target[q]]), splits[target[q]])
    <3>1. target[q] # i
      BY <2>4, StoredRows
    <3> QED
      BY <2>4, <3>1 DEF Stores, TypeInv, TypeOK
  <2> QED
    BY <2>1, <2>2, <2>3, <2>4, TableSteps
<1> QED
  BY <1>1, InvariantsHold, PTL DEF Spec, TombstonesFinal

\* A create never changes a row that is there, not even one its lookups do not
\* see: a tombstone, or an expense of another space.
THEOREM CreatesOnlyInsert == Spec => CreatesNeverOverwrite
<1> DEFINE OnlyAdds ==
      \A q \in Requests : \A i \in Ids :
        /\ call[q] # NoCall /\ call[q].op = "create"
        /\ applied'[q] # applied[q]
        /\ expenses'[i] # expenses[i]
        => expenses[i] = Absent
<1>1. TypeInv /\ LedgerInv /\ [Next]_vars => [OnlyAdds]_vars
  <2> SUFFICES ASSUME TypeInv, LedgerInv, NEW q \in Requests,
                      Receive(q) \/ Handle(q) \/ Crash(q)
               PROVE  OnlyAdds
    BY NextCases DEF serviceVars
  <2>1. \/ UNCHANGED <<expenses, splits, applied>>
        \/ call[q].op # "create" /\ \E v : applied' = [applied EXCEPT ![q] = v]
        \/ \E i \in SaveIds(q) : Inserts(q, i)
    BY TableSteps DEF Stores, At
  <2> QED
    BY <2>1 DEF Inserts, TypeInv, TypeOK
<1> QED
  BY <1>1, InvariantsHold, PTL DEF Spec, CreatesNeverOverwrite

LEMMA CategoriesStep ==
  ASSUME TypeInv, LedgerInv, CategoriesOfTheirSpace, NEW q \in Requests,
         Receive(q) \/ Handle(q) \/ Crash(q)
  PROVE  CategoriesOfTheirSpace'
<1> DEFINE Fits(row) == InSpace(row.fields.category, row.space)
<1>1. categories' = categories
  <2>1. CASE \/ Receive(q) \/ FindById(q) \/ FindByMutation(q) \/ ResolveReplay(q)
             \/ ValidateCreate(q) \/ FindForSave(q) \/ ReadExpense(q) \/ ReadSplits(q)
             \/ ValidateUpdate(q) \/ CommitUpdate(q) \/ CommitDelete(q) \/ Crash(q)
    BY <2>1 DEF Receive, FindById, FindByMutation, ResolveReplay, ValidateCreate, FindForSave,
                ReadExpense, ReadSplits, ValidateUpdate, CommitUpdate, CommitDelete, Crash, tables
  <2>2. CASE CommitCreate(q)
    BY <2>2, CreateCommits DEF Inserts, tables
  <2> QED
    BY <2>1, <2>2 DEF Handle
<1>2. ASSUME NEW i \in Ids, expenses'[i] # Absent
      PROVE  Fits(expenses'[i])
  <2>1. CASE expenses'[i] = expenses[i]
    BY <1>2, <2>1 DEF CategoriesOfTheirSpace
  <2>2. CASE expenses'[i] # expenses[i] /\ \E j \in SaveIds(q) : Inserts(q, j)
    <3>1. /\ expenses'[i] = InsertedRow(call[q])
          /\ InSpace(call[q].fields.category, call[q].space)
      BY <2>2 DEF Inserts, TypeInv, TypeOK
    <3> QED
      BY <3>1 DEF InsertedRow
  <2>3. CASE /\ expenses'[i] # expenses[i]
             /\ Stores(q, UpdatedRow(q), UpdatedShares(q))
             /\ ~CategoryElsewhere(UpdatedRow(q))
    <3>1. expenses'[i] = UpdatedRow(q)
      BY <2>3 DEF Stores, TypeInv, TypeOK
    <3> QED
      BY <2>3, <3>1 DEF CategoryElsewhere
  <2>4. CASE /\ expenses'[i] # expenses[i]
             /\ At(q, "delete", "commit")
             /\ Stores(q, Tombstone(expenses[target[q]]), splits[target[q]])
    <3>1. i = target[q] /\ expenses'[i] = Tombstone(expenses[i])
      BY <2>4 DEF Stores, TypeInv, TypeOK
    <3>2. expenses[i] \in Rows /\ Fits(expenses[i])
      BY <2>4, <3>1, AbsentIsNoRow
      DEF Stores, MatchesExpected, Visible, CategoriesOfTheirSpace, TypeInv, TypeOK
    <3>3. /\ Tombstone(expenses[i]).fields = expenses[i].fields
          /\ Tombstone(expenses[i]).space = expenses[i].space
      BY <3>2 DEF Tombstone, Rows
    <3> QED
      BY <3>1, <3>2, <3>3
  <2> QED
    BY <2>1, <2>2, <2>3, <2>4, TableSteps
<1> QED
  BY <1>1, <1>2 DEF CategoriesOfTheirSpace, InSpace

\* No step takes an expense's category out of its space.
LEMMA CategoriesKept ==
  TypeInv /\ LedgerInv /\ CategoriesOfTheirSpace /\ [Next]_vars => CategoriesOfTheirSpace'
<1> SUFFICES ASSUME TypeInv, LedgerInv, CategoriesOfTheirSpace, [Next]_vars
             PROVE  CategoriesOfTheirSpace'
  OBVIOUS
<1>1. CASE UNCHANGED vars
  BY <1>1 DEF CategoriesOfTheirSpace, InSpace, vars
<1>2. CASE ChangeCategories
  BY <1>2 DEF ChangeCategories, CategoriesOfTheirSpace, InSpace
<1> QED
  BY <1>1, <1>2, CategoriesStep DEF Next

\* The category of every expense is one of its own space, however the table of
\* categories changes between the steps of a request.
THEOREM CategoriesKeepSpace == Spec => []CategoriesOfTheirSpace
<1>1. Init => CategoriesOfTheirSpace
  BY DEF Init, CategoriesOfTheirSpace
<1> QED
  BY <1>1, CategoriesKept, InvariantsHold, PTL DEF Spec

\* What a request has been granted: an update or a delete that was applied has
\* made the successor of the version it named, and the row has not gone back.
Grants ==
  \A q \in Requests :
    /\ pc[q] = "idle" => applied[q] = 0
    /\ call[q].op # "create" /\ applied[q] # 0 =>
         /\ pc[q] = "done"
         /\ call[q].id \in Ids
         /\ applied[q] = call[q].expected + 1
         /\ expenses[call[q].id] # Absent
         /\ applied[q] <= expenses[call[q].id].version

GrantInv == Grants /\ NoLostUpdate

LEMMA CallsKept ==
  ASSUME TypeInv, NEW q \in Requests, Receive(q) \/ Handle(q) \/ Crash(q)
  PROVE  /\ \A r \in Requests \ {q} : call'[r] = call[r] /\ pc'[r] = pc[r]
         /\ pc[q] = "idle" => UNCHANGED <<expenses, splits, applied>>
         /\ pc[q] # "idle" => call'[q] = call[q]
         /\ pc[q] # "done" /\ pc'[q] # "idle"
         /\ pc[q] = "commit" /\ call[q].op # "create" => pc'[q] = "done"
<1>1. CASE Receive(q)
  BY <1>1 DEF Receive, Goto, Answer, tables, TypeInv, TypeOK
<1>2. CASE \/ FindById(q) \/ FindByMutation(q) \/ ResolveReplay(q)
           \/ ValidateCreate(q) \/ FindForSave(q) \/ ReadExpense(q) \/ ReadSplits(q)
           \/ ValidateUpdate(q) \/ Crash(q)
  BY <1>2 DEF FindById, FindByMutation, ResolveReplay, ValidateCreate, FindForSave,
              ReadExpense, ReadSplits, ValidateUpdate, Crash, At, Found,
              NotFoundByAny, Goto, Answer, tables, context, TypeInv, TypeOK
<1>3. CASE CommitCreate(q)
  BY <1>3 DEF CommitCreate, At, Catch, Goto, Answer, TypeInv, TypeOK
<1>4. CASE CommitUpdate(q) \/ CommitDelete(q)
  BY <1>4 DEF CommitUpdate, CommitDelete, At, Answer, context, TypeInv, TypeOK
<1> QED
  BY <1>1, <1>2, <1>3, <1>4 DEF Handle

LEMMA GrantStep ==
  ASSUME TypeInv, TypeInv', LedgerInv, GrantInv, NEW q \in Requests,
         Receive(q) \/ Handle(q) \/ Crash(q)
  PROVE  GrantInv'
<1>1. CASE UNCHANGED <<expenses, splits, applied>>
  <2>1. Grants'
    BY <1>1, CallsKept DEF GrantInv, Grants
  <2>2. \A r \in Requests : applied[r] # 0 => call'[r] = call[r]
    BY CallsKept DEF GrantInv, Grants
  <2>3. NoLostUpdate'
    BY <1>1, <2>2 DEF GrantInv, NoLostUpdate
  <2> QED
    BY <2>1, <2>3 DEF GrantInv
<1>2. CASE At(q, "create", "commit") /\ \E i \in SaveIds(q) : Inserts(q, i)
  <2> PICK i \in SaveIds(q) : Inserts(q, i)
    BY <1>2
  <2>1. call'[q] = call[q] /\ call[q].op = "create"
    BY <1>2, CallsKept DEF At
  <2>2. /\ expenses[i] = Absent
        /\ \A j \in Ids : expenses[j] # Absent => expenses'[j] = expenses[j]
        /\ \A r \in Requests \ {q} : applied'[r] = applied[r]
    BY DEF Inserts, TypeInv, TypeOK
  <2>3. Grants'
    BY <2>1, <2>2, CallsKept DEF GrantInv, Grants
  <2>4. NoLostUpdate'
    BY <2>1, <2>2, CallsKept DEF GrantInv, NoLostUpdate
  <2> QED
    BY <2>3, <2>4 DEF GrantInv
<1>3. ASSUME NEW row, NEW shares, Stores(q, row, shares),
             \/ At(q, "update", "commit") /\ row = UpdatedRow(q)
             \/ At(q, "delete", "commit") /\ row = Tombstone(expenses[target[q]])
      PROVE  GrantInv'
  <2> DEFINE i == call[q].id
  <2>1. /\ i \in Ids /\ call[q].op # "create" /\ pc[q] = "commit"
        /\ expenses[i] \in Rows /\ row \in Rows
        /\ expenses[i].version = call[q].expected
        /\ row.version = call[q].expected + 1
        /\ expenses' = [expenses EXCEPT ![i] = row]
        /\ applied' = [applied EXCEPT ![q] = row.version]
    BY <1>3, StoredRows DEF Stores, At
  <2>2. expenses[i].version \in Nat \ {0} /\ row.version \in Nat \ {0}
    BY <2>1 DEF Rows
  <2>3. /\ call' = call
        /\ \A r \in Requests \ {q} : applied'[r] = applied[r] /\ pc'[r] = pc[r]
        /\ applied'[q] = row.version
        /\ expenses'[i] = row /\ row # Absent
        /\ \A j \in Ids \ {i} : expenses'[j] = expenses[j]
    BY <2>1, CallsKept, AbsentIsNoRow DEF TypeInv, TypeOK
  <2>4. pc'[q] = "done"
    BY <2>1, CallsKept
  <2>5. \A r \in Requests : applied[r] \in Nat
    BY DEF TypeInv, TypeOK
  <2>6. \A r \in Requests \ {q} :
          applied[r] # 0 /\ call[r].op # "create" /\ call[r].id = i =>
            applied[r] <= call[q].expected /\ applied[r] = call[r].expected + 1
    BY <2>1 DEF GrantInv, Grants
  <2>7. Grants'
    BY <2>1, <2>2, <2>3, <2>4, <2>5, <2>6 DEF GrantInv, Grants
  <2>8. NoLostUpdate'
    BY <2>1, <2>2, <2>3, <2>5, <2>6 DEF GrantInv, NoLostUpdate
  <2> QED
    BY <2>7, <2>8 DEF GrantInv
<1> QED
  BY <1>1, <1>2, <1>3, TableSteps

LEMMA GrantsHold == Spec => []GrantInv
<1>1. Init => GrantInv
  BY DEF Init, GrantInv, Grants, NoLostUpdate
<1>2. TypeInv /\ TypeInv' /\ LedgerInv /\ GrantInv /\ [Next]_vars => GrantInv'
  <2> SUFFICES ASSUME TypeInv, TypeInv', LedgerInv, GrantInv, [Next]_vars PROVE GrantInv'
    OBVIOUS
  <2>1. CASE UNCHANGED serviceVars
    BY <2>1 DEF GrantInv, Grants, NoLostUpdate, serviceVars, context
  <2> QED
    BY <2>1, GrantStep, NextCases
<1> QED
  BY <1>1, <1>2, InvariantsHold, PTL DEF Spec

\* No lost update: two requests that changed one expense named different
\* versions of it and produced different versions.
THEOREM UpdatesNotLost == Spec => []NoLostUpdate
BY GrantsHold, PTL DEF GrantInv

-----------------------------------------------------------------------------
(* Where rows and answers come from.                                       *)

\* Row i was created, in its space, under the identifiers q's create carries.
CreatedAs(q, i) ==
  /\ expenses[i] # Absent
  /\ expenses[i].space = call[q].space
  /\ call[q].mutation \in {NoMutation, expenses[i].mutation}

UniqueMutations ==
  \A i, j \in Ids :
    /\ expenses[i] # Absent /\ expenses[j] # Absent
    /\ expenses[i].space = expenses[j].space
    /\ expenses[i].mutation = expenses[j].mutation
    /\ expenses[i].mutation # NoMutation
    => i = j

Origins ==
  \A q \in Requests :
    /\ pc[q] = "idle" => applied[q] = 0 /\ reply[q].status = "none"
    /\ pc[q] = "replay" =>
         /\ expenses[target[q]] # Absent
         /\ expenses[target[q]].space = call[q].space
         /\ expenses[target[q]].mutation = seen[q].mutation
    /\ call[q].op = "create" =>
         /\ applied[q] # 0 => \E i \in Ids : CreatedAs(q, i)
         /\ reply[q].status = "ok" => /\ reply[q].id \in Ids
                                      /\ CreatedAs(q, reply[q].id)

OriginInv == UniqueMutations /\ Origins

\* No step takes a row away or changes where it comes from.
LEMMA RowsKeepOrigin ==
  ASSUME TypeInv, LedgerInv, NEW q \in Requests, Receive(q) \/ Handle(q) \/ Crash(q),
         NEW i \in Ids, expenses[i] # Absent
  PROVE  /\ expenses'[i] # Absent
         /\ expenses'[i].space = expenses[i].space
         /\ expenses'[i].mutation = expenses[i].mutation
<1>1. CASE UNCHANGED <<expenses, splits, applied>>
  BY <1>1
<1>2. CASE \E j \in SaveIds(q) : Inserts(q, j)
  BY <1>2 DEF Inserts, TypeInv, TypeOK
<1>3. ASSUME NEW row, NEW shares, Stores(q, row, shares),
             \/ At(q, "update", "commit") /\ row = UpdatedRow(q)
             \/ At(q, "delete", "commit") /\ row = Tombstone(expenses[target[q]])
      PROVE  /\ expenses'[i] # Absent
             /\ expenses'[i].space = expenses[i].space
             /\ expenses'[i].mutation = expenses[i].mutation
  <2>1. /\ expenses' = [expenses EXCEPT ![call[q].id] = row]
        /\ row # Absent
        /\ row.space = expenses[call[q].id].space
        /\ row.mutation = expenses[call[q].id].mutation
    BY <1>3, StoredRows, AbsentIsNoRow DEF Stores
  <2> QED
    BY <2>1 DEF TypeInv, TypeOK
<1> QED
  BY <1>1, <1>2, <1>3, TableSteps

\* A step that changes a row makes its version greater.
LEMMA VersionsGrow ==
  ASSUME TypeInv, LedgerInv, NEW q \in Requests, Receive(q) \/ Handle(q) \/ Crash(q),
         NEW i \in Ids, expenses[i] # Absent
  PROVE  /\ expenses'[i] = expenses[i] \/ expenses'[i].version > expenses[i].version
         /\ expenses'[i].version >= expenses[i].version
<1>0. expenses[i].version \in Nat
  BY DEF TypeInv, TypeOK, Rows
<1>1. CASE UNCHANGED <<expenses, splits, applied>>
  BY <1>0, <1>1
<1>2. CASE \E j \in SaveIds(q) : Inserts(q, j)
  BY <1>0, <1>2 DEF Inserts, TypeInv, TypeOK
<1>3. ASSUME NEW row, NEW shares, Stores(q, row, shares),
             \/ At(q, "update", "commit") /\ row = UpdatedRow(q)
             \/ At(q, "delete", "commit") /\ row = Tombstone(expenses[target[q]])
      PROVE  /\ expenses'[i] = expenses[i] \/ expenses'[i].version > expenses[i].version
             /\ expenses'[i].version >= expenses[i].version
  <2>1. /\ expenses' = [expenses EXCEPT ![call[q].id] = row]
        /\ row.version = expenses[call[q].id].version + 1
    BY <1>3, StoredRows DEF Stores
  <2> QED
    BY <1>0, <2>1 DEF TypeInv, TypeOK
<1> QED
  BY <1>1, <1>2, <1>3, TableSteps

\* How a request comes to answer success.
Succeeds(q) ==
  \/ ResolveReplay(q) /\ MatchesCreate(call[q], target[q], seen[q], splits[target[q]])
                      /\ reply'[q] = Ok(target[q], seen[q].version)
  \/ /\ At(q, "create", "commit")
     /\ \E i \in SaveIds(q) : Inserts(q, i) /\ reply'[q] = Ok(i, 1)
  \/ /\ pc[q] = "commit" /\ call[q].op # "create"
     /\ Visible(target[q], call[q].space)
     /\ \E v \in Nat : reply'[q] = Ok(target[q], v)

LEMMA AnswerSteps ==
  ASSUME TypeInv, LedgerInv, NEW q \in Requests, Receive(q) \/ Handle(q) \/ Crash(q)
  PROVE  /\ \A r \in Requests \ {q} : reply'[r] = reply[r]
         /\ \/ reply'[q] = reply[q]
            \/ reply'[q].status # "ok" /\ reply'[q].id = NoId
            \/ Succeeds(q)
<1> DEFINE Goal == /\ \A r \in Requests \ {q} : reply'[r] = reply[r]
                   /\ \/ reply'[q] = reply[q]
                      \/ reply'[q].status # "ok" /\ reply'[q].id = NoId
                      \/ Succeeds(q)
<1>1. ASSUME NEW s \in Statuses \ {"ok"}, Answer(q, Told(s))
      PROVE  Goal
  BY <1>1 DEF Answer, Told, TypeInv, TypeOK
<1>2. ASSUME NEW l \in PCs, Goto(q, l)
      PROVE  Goal
  BY <1>2 DEF Goto
<1>3. CASE Receive(q)
  BY <1>1, <1>2, <1>3 DEF Receive, Statuses, PCs
<1>4. CASE FindById(q) \/ FindByMutation(q)
  BY <1>1, <1>2, <1>4 DEF FindById, FindByMutation, Found, NotFoundByAny, Statuses, PCs
<1>5. CASE ResolveReplay(q)
  <2>1. CASE Answer(q, Told("conflict"))
    BY <1>1, <2>1 DEF Statuses
  <2>2. CASE /\ MatchesCreate(call[q], target[q], seen[q], splits[target[q]])
             /\ Answer(q, Ok(target[q], seen[q].version))
    BY <1>5, <2>2 DEF Succeeds, Answer, TypeInv, TypeOK
  <2> QED
    BY <1>5, <2>1, <2>2 DEF ResolveReplay
<1>6. CASE ValidateCreate(q) \/ FindForSave(q) \/ ValidateUpdate(q) \/ Crash(q)
  BY <1>1, <1>2, <1>6 DEF ValidateCreate, FindForSave, ValidateUpdate, Crash, Statuses, PCs
<1>7. CASE CommitCreate(q)
  <2>1. \/ \E i \in SaveIds(q) : Inserts(q, i) /\ Answer(q, Ok(i, 1))
        \/ Goto(q, "byId") \/ Goto(q, "byMutation") \/ Answer(q, Told("error"))
    BY <1>7, CreateCommits DEF Catch
  <2>2. CASE \E i \in SaveIds(q) : Inserts(q, i) /\ Answer(q, Ok(i, 1))
    BY <1>7, <2>2 DEF CommitCreate, Succeeds, Answer, TypeInv, TypeOK
  <2> QED
    BY <1>1, <1>2, <2>1, <2>2 DEF Statuses, PCs
<1>8. CASE ReadExpense(q) \/ ReadSplits(q)
  BY <1>1, <1>2, <1>8 DEF ReadExpense, ReadSplits, Statuses, PCs
<1>9. CASE CommitUpdate(q)
  <2>1. At(q, "update", "commit")
    BY <1>9 DEF CommitUpdate
  <2>2. \/ MatchesExpected(q) /\ Answer(q, Ok(target[q], UpdatedRow(q).version))
        \/ Answer(q, Told("error")) \/ Answer(q, Told("conflict"))
    BY <1>9 DEF CommitUpdate
  <2>3. CASE MatchesExpected(q) /\ Answer(q, Ok(target[q], UpdatedRow(q).version))
    <3>1. UpdatedRow(q).version \in Nat
      BY <2>1, <2>3, ValidatedTypes DEF MatchesExpected, Visible, Rows
    <3> QED
      BY <2>1, <2>3, <3>1 DEF Succeeds, At, MatchesExpected, Answer, TypeInv, TypeOK
  <2> QED
    BY <1>1, <2>2, <2>3 DEF Statuses
<1>10. CASE CommitDelete(q)
  <2> DEFINE row == Tombstone(expenses[target[q]])
  <2>1. At(q, "delete", "commit")
    BY <1>10 DEF CommitDelete
  <2>2. \/ /\ MatchesExpected(q)
           /\ applied' = [applied EXCEPT ![q] = row.version]
           /\ Answer(q, Ok(target[q], row.version))
        \/ Answer(q, Told("error")) \/ Answer(q, Told("conflict"))
    BY <1>10 DEF CommitDelete
  <2>3. CASE /\ MatchesExpected(q)
             /\ applied' = [applied EXCEPT ![q] = row.version]
             /\ Answer(q, Ok(target[q], row.version))
    <3>1. row.version \in Nat
      BY <1>10, <2>3, CommitDeleteType DEF TypeInv, TypeOK
    <3> QED
      BY <2>1, <2>3, <3>1 DEF Succeeds, At, MatchesExpected, Answer, TypeInv, TypeOK
  <2> QED
    BY <1>1, <2>2, <2>3 DEF Statuses
<1> QED
  BY <1>3, <1>4, <1>5, <1>6, <1>7, <1>8, <1>9, <1>10 DEF Handle

LEMMA ReplaySteps ==
  ASSUME TypeInv, NEW q \in Requests, Receive(q) \/ Handle(q) \/ Crash(q)
  PROVE  /\ \A r \in Requests \ {q} : target'[r] = target[r] /\ seen'[r] = seen[r]
         /\ pc'[q] = "replay" =>
              /\ expenses' = expenses /\ call' = call
              /\ expenses[target'[q]] # Absent
              /\ expenses[target'[q]].space = call[q].space
              /\ seen'[q] = expenses[target'[q]]
              /\ \/ target'[q] = call[q].id
                 \/ expenses[target'[q]].mutation = call[q].mutation
<1>1. CASE FindById(q) \/ FindByMutation(q)
  BY <1>1 DEF FindById, FindByMutation, WithMutation, Visible, Found, NotFoundByAny,
              Goto, Answer, tables, TypeInv, TypeOK
<1>2. CASE ReadExpense(q) \/ FindForSave(q)
  BY <1>2 DEF ReadExpense, FindForSave, Goto, Answer, TypeInv, TypeOK
<1>3. CASE \/ Receive(q) \/ ResolveReplay(q) \/ ValidateCreate(q) \/ ReadSplits(q)
           \/ ValidateUpdate(q) \/ Crash(q)
  BY <1>3 DEF Receive, ResolveReplay, ValidateCreate, ReadSplits, ValidateUpdate, Crash,
              Goto, Answer, context, TypeInv, TypeOK
<1>4. CASE CommitCreate(q)
  BY <1>4 DEF CommitCreate, Catch, Goto, Answer, TypeInv, TypeOK
<1>5. CASE CommitUpdate(q) \/ CommitDelete(q)
  BY <1>5 DEF CommitUpdate, CommitDelete, Answer, context, TypeInv, TypeOK
<1> QED
  BY <1>1, <1>2, <1>3, <1>4, <1>5 DEF Handle

LEMMA UniqueMutationsStep ==
  ASSUME TypeInv, TypeInv', LedgerInv, UniqueMutations, NEW q \in Requests,
         Receive(q) \/ Handle(q) \/ Crash(q)
  PROVE  UniqueMutations'
<1>1. CASE \A i \in Ids : expenses'[i] # Absent => expenses[i] # Absent
  BY <1>1, RowsKeepOrigin DEF UniqueMutations
<1>2. CASE At(q, "create", "commit") /\ \E i \in SaveIds(q) : Inserts(q, i)
  <2> PICK i \in SaveIds(q) : Inserts(q, i)
    BY <1>2
  <2>1. /\ \A j \in Ids \ {i} : expenses'[j] = expenses[j]
        /\ i \in Ids => expenses'[i] = InsertedRow(call[q])
        /\ call[q].mutation # NoMutation =>
             \A j \in Ids : expenses[j] # Absent =>
               ~(expenses[j].space = call[q].space /\ expenses[j].mutation = call[q].mutation)
    BY DEF Inserts, TypeInv, TypeOK
  <2>2. /\ InsertedRow(call[q]).space = call[q].space
        /\ InsertedRow(call[q]).mutation = call[q].mutation
    BY DEF InsertedRow
  <2> QED
    BY <2>1, <2>2 DEF UniqueMutations
<1>3. CASE expenses' = expenses
  BY <1>1, <1>3
<1>4. ASSUME NEW row, NEW shares, Stores(q, row, shares),
             \/ At(q, "update", "commit") /\ row = UpdatedRow(q)
             \/ At(q, "delete", "commit") /\ row = Tombstone(expenses[target[q]])
      PROVE  \A i \in Ids : expenses'[i] # Absent => expenses[i] # Absent
  <2>1. expenses' = [expenses EXCEPT ![call[q].id] = row] /\ expenses[call[q].id] # Absent
    BY <1>4, StoredRows, AbsentIsNoRow DEF Stores
  <2> QED
    BY <2>1 DEF TypeInv, TypeOK
<1> QED
  BY <1>1, <1>2, <1>3, <1>4, TableSteps

LEMMA OriginsStep ==
  ASSUME TypeInv, TypeInv', LedgerInv, OriginInv, NEW q \in Requests,
         Receive(q) \/ Handle(q) \/ Crash(q)
  PROVE  Origins'
<1>1. \A r \in Requests \ {q} : /\ pc'[r] = pc[r] /\ call'[r] = call[r]
                                /\ target'[r] = target[r] /\ seen'[r] = seen[r]
                                /\ reply'[r] = reply[r] /\ applied'[r] = applied[r]
  <2>1. \A r \in Requests \ {q} : applied'[r] = applied[r]
    BY TableSteps DEF Stores, Inserts, TypeInv, TypeOK
  <2> QED
    BY <2>1, CallsKept, ReplaySteps, AnswerSteps
<1>2. \A i \in Ids : expenses[i] # Absent =>
        /\ expenses'[i] # Absent
        /\ expenses'[i].space = expenses[i].space
        /\ expenses'[i].mutation = expenses[i].mutation
  BY RowsKeepOrigin
<1>3. \A r \in Requests, i \in Ids :
        call'[r] = call[r] /\ CreatedAs(r, i) => CreatedAs(r, i)'
  BY <1>2 DEF CreatedAs
<1>4. ASSUME NEW r \in Requests, r # q
      PROVE  /\ pc'[r] = "idle" => applied'[r] = 0 /\ reply'[r].status = "none"
             /\ pc'[r] = "replay" =>
                  /\ expenses'[target'[r]] # Absent
                  /\ expenses'[target'[r]].space = call'[r].space
                  /\ expenses'[target'[r]].mutation = seen'[r].mutation
             /\ call'[r].op = "create" =>
                  /\ applied'[r] # 0 => \E i \in Ids : CreatedAs(r, i)'
                  /\ reply'[r].status = "ok" => /\ reply'[r].id \in Ids
                                                /\ CreatedAs(r, reply[r].id)'
  <2>1. pc[r] = "replay" => target[r] \in Ids
    BY DEF TypeInv, Phases
  <2> QED
    BY <1>1, <1>2, <1>3, <1>4, <2>1 DEF OriginInv, Origins, CreatedAs
<1>5. pc'[q] # "idle"
  BY CallsKept
<1>6. pc'[q] = "replay" =>
        /\ expenses'[target'[q]] # Absent
        /\ expenses'[target'[q]].space = call'[q].space
        /\ expenses'[target'[q]].mutation = seen'[q].mutation
  BY ReplaySteps
<1>7. ASSUME At(q, "create", "commit"), NEW i \in SaveIds(q), Inserts(q, i)
      PROVE  i \in Ids /\ CreatedAs(q, i)' /\ call'[q] = call[q]
  <2>1. call[q] \in CreateCalls /\ call'[q] = call[q]
    BY <1>7, CallKinds, CallsKept DEF At, TypeInv, Phases
  <2>2. i \in Ids
    BY <1>7, <2>1 DEF SaveIds, CreateCalls
  <2>3. expenses'[i] = InsertedRow(call[q]) /\ InsertedRow(call[q]) \in Rows
    BY <1>7, <2>1, <2>2, InsertedRowType DEF Inserts, TypeInv, TypeOK
  <2>4. CreatedAs(q, i)'
    <3>1. expenses'[i] # Absent
      BY <2>3, AbsentIsNoRow
    <3>2. /\ expenses'[i].space = call[q].space
          /\ expenses'[i].mutation = call[q].mutation
      BY <2>3 DEF InsertedRow
    <3> QED
      BY <2>1, <3>1, <3>2 DEF CreatedAs
  <2> QED
    BY <2>1, <2>2, <2>4
<1>8. ASSUME call'[q].op = "create", applied'[q] # 0
      PROVE  \E i \in Ids : CreatedAs(q, i)'
  <2>1. CASE UNCHANGED <<expenses, splits, applied>>
    <3>1. pc[q] # "idle" /\ call'[q] = call[q]
      BY <1>8, <2>1, CallsKept DEF OriginInv, Origins
    <3> QED
      BY <1>3, <1>8, <2>1, <3>1 DEF OriginInv, Origins
  <2>2. CASE At(q, "create", "commit") /\ \E i \in SaveIds(q) : Inserts(q, i)
    BY <1>7, <2>2
  <2>3. call[q].op # "create" /\ pc[q] # "idle" => FALSE
    BY <1>8, CallsKept
  <2> QED
    BY <2>1, <2>2, <2>3, TableSteps DEF At
<1>9. ASSUME call'[q].op = "create", reply'[q].status = "ok"
      PROVE  reply'[q].id \in Ids /\ (CreatedAs(q, reply[q].id))'
  <2>1. CASE reply'[q] = reply[q]
    <3>1. pc[q] # "idle" /\ call'[q] = call[q]
      BY <1>9, <2>1, CallsKept DEF OriginInv, Origins
    <3>2. reply[q].id \in Ids /\ CreatedAs(q, reply[q].id)
      BY <1>9, <2>1, <3>1 DEF OriginInv, Origins
    <3>3. \A i \in Ids : CreatedAs(q, i) => CreatedAs(q, i)'
      BY <1>3, <3>1
    <3> QED
      BY <2>1, <3>2, <3>3 DEF CreatedAs
  <2>2. CASE /\ ResolveReplay(q)
             /\ MatchesCreate(call[q], target[q], seen[q], splits[target[q]])
             /\ reply'[q] = Ok(target[q], seen[q].version)
    <3>1. /\ pc[q] = "replay" /\ target[q] \in Ids
          /\ UNCHANGED <<expenses, call>>
      BY <2>2 DEF ResolveReplay, At, tables, context, TypeInv, Phases
    <3>2. CreatedAs(q, target[q])
      BY <2>2, <3>1 DEF OriginInv, Origins, CreatedAs, MatchesCreate
    <3>3. reply'[q].id = target[q]
      BY <2>2 DEF Ok
    <3> QED
      BY <3>1, <3>2, <3>3 DEF CreatedAs
  <2>3. CASE /\ At(q, "create", "commit")
             /\ \E i \in SaveIds(q) : Inserts(q, i) /\ reply'[q] = Ok(i, 1)
    <3> PICK i \in SaveIds(q) : Inserts(q, i) /\ reply'[q] = Ok(i, 1)
      BY <2>3
    <3>1. i \in Ids /\ CreatedAs(q, i)'
      BY <1>7, <2>3
    <3>2. reply'[q].id = i
      BY DEF Ok
    <3> QED
      BY <3>1, <3>2 DEF CreatedAs
  <2>4. call[q].op # "create" /\ pc[q] = "commit" => FALSE
    BY <1>9, CallsKept
  <2> QED
    BY <1>9, <2>1, <2>2, <2>3, <2>4, AnswerSteps DEF Succeeds
<1> QED
  BY <1>4, <1>5, <1>6, <1>8, <1>9 DEF Origins

LEMMA OriginInvStep ==
  TypeInv /\ TypeInv' /\ LedgerInv /\ OriginInv /\ [Next]_vars => OriginInv'
<1> SUFFICES ASSUME TypeInv, TypeInv', LedgerInv, OriginInv, [Next]_vars PROVE OriginInv'
  OBVIOUS
<1>1. CASE UNCHANGED serviceVars
  BY <1>1 DEF OriginInv, UniqueMutations, Origins, CreatedAs, serviceVars, context
<1> QED
  BY <1>1, NextCases, UniqueMutationsStep, OriginsStep DEF OriginInv

\* At most one of the creates that carry one mutation id has inserted a row.
OneInsert ==
  \A p, q \in Requests :
    p # q /\ SameMutation(p, q) => applied[p] = 0 \/ applied[q] = 0

LEMMA OneInsertStep ==
  ASSUME TypeInv, TypeInv', LedgerInv, OriginInv, OneInsert, [Next]_vars
  PROVE  OneInsert'
<1>1. CASE UNCHANGED serviceVars
  BY <1>1 DEF OneInsert, SameMutation, serviceVars, context
<1>2. ASSUME NEW q \in Requests, Receive(q) \/ Handle(q) \/ Crash(q)
      PROVE  OneInsert'
  <2>1. \A r \in Requests : applied[r] # 0 => call'[r] = call[r]
    BY <1>2, CallsKept DEF OriginInv, Origins
  <2>2. CASE UNCHANGED <<expenses, splits, applied>>
    BY <2>1, <2>2 DEF OneInsert, SameMutation
  <2>3. CASE At(q, "create", "commit") /\ \E i \in SaveIds(q) : Inserts(q, i)
    <3> PICK i \in SaveIds(q) : Inserts(q, i)
      BY <2>3
    <3>1. /\ call' = call
          /\ \A r \in Requests \ {q} : applied'[r] = applied[r]
      BY <1>2, <2>3, CallsKept DEF Inserts, At, CommitCreate, TypeInv, TypeOK
    <3>2. ASSUME NEW p \in Requests, p # q, SameMutation(p, q)
          PROVE  applied[p] = 0
      <4>1. \A j \in Ids : ~CreatedAs(p, j)
        BY <3>2 DEF CreatedAs, SameMutation, Inserts
      <4> QED
        BY <3>2, <4>1 DEF OriginInv, Origins, SameMutation
    <3>3. \A p \in Requests : SameMutation(p, q) <=> SameMutation(q, p)
      BY DEF SameMutation
    <3> QED
      BY <3>1, <3>2, <3>3 DEF OneInsert, SameMutation
  <2>4. CASE call[q].op # "create" /\ pc[q] = "commit"
             /\ \E v : applied' = [applied EXCEPT ![q] = v]
    <3>1. \A r \in Requests \ {q} : applied'[r] = applied[r] /\ call'[r] = call[r]
      BY <1>2, <2>4, CallsKept DEF TypeInv, TypeOK
    <3>2. call'[q].op # "create"
      BY <1>2, <2>4, CallsKept
    <3> QED
      BY <3>1, <3>2 DEF OneInsert, SameMutation
  <2> QED
    BY <1>2, <2>2, <2>3, <2>4, TableSteps DEF At, Stores
<1> QED
  BY <1>1, <1>2, NextCases

(* What a create that is made again may meet.                              *)

\* Row i is the expense of create call c, as it is stored now.
Holds(i, c) ==
  /\ expenses[i] # Absent
  /\ expenses[i].space = c.space
  /\ expenses[i].mutation = c.mutation

\* ... as the create has stored it.
AsMade(i, c) ==
  /\ c.id \in {NoId, i}
  /\ expenses[i] = InsertedRow(c)
  /\ splits[i] = c.shares

\* No transaction of this create call can insert a row any more.
Barred(q) ==
  \E i \in Ids : expenses[i] # Absent /\ (i = call[q].id \/ Holds(i, call[q]))

\* The row ResolveReplay compares is the one its request should find, and a copy
\* that has grown old shows it in the stored version.
ReplayRow(q) ==
  LET row == expenses[target[q]] IN
  /\ row # Absent
  /\ target[q] = call[q].id \/ Holds(target[q], call[q])
  /\ seen[q].version <= row.version
  /\ seen[q].version = row.version => seen[q] = row

\* The facts CreateIsIdempotent rests on.
Retained ==
  \A q \in Requests : call[q].op = "create" /\ call[q].mutation # NoMutation =>
    /\ applied[q] # 0 => Superseded(q) \/ \E i \in Ids : AsMade(i, call[q])
    /\ failure[q] = "unique" \/ reply[q].status = "conflict" => Barred(q)
    /\ pc[q] = "replay" => ReplayRow(q)

RetriesHonoured ==
  \A p, q \in Requests :
    /\ p # q /\ SameMutation(p, q) /\ call[p] = call[q]
    /\ applied[p] # 0 /\ reply[q].status = "conflict"
    => Superseded(q)

RetryInv == Retained /\ RetriesHonoured

\* A row stays as its create has stored it, or gets a higher version.
LEMMA MadeRows ==
  ASSUME TypeInv, LedgerInv, NEW q \in Requests, Receive(q) \/ Handle(q) \/ Crash(q),
         NEW c \in CreateCalls, NEW i \in Ids, AsMade(i, c)
  PROVE  AsMade(i, c)' \/ (Holds(i, c)' /\ expenses'[i].version > 1)
<1>0. /\ expenses[i] # Absent /\ expenses[i].version = 1
      /\ Holds(i, c)
  <2>1. InsertedRow(c) # Absent
    BY InsertedRowType, AbsentIsNoRow
  <2> QED
    BY <2>1 DEF AsMade, InsertedRow, Holds
<1>1. CASE UNCHANGED <<expenses, splits, applied>>
  BY <1>1 DEF AsMade
<1>2. CASE \E j \in SaveIds(q) : Inserts(q, j)
  <2> PICK j \in SaveIds(q) : Inserts(q, j)
    BY <1>2
  <2>1. j # i
    BY <1>0 DEF Inserts
  <2>2. expenses'[i] = expenses[i] /\ splits'[i] = splits[i]
    BY <2>1 DEF Inserts, TypeInv, TypeOK
  <2> QED
    BY <2>2 DEF AsMade
<1>3. ASSUME NEW row, NEW shares, Stores(q, row, shares),
             \/ At(q, "update", "commit") /\ row = UpdatedRow(q)
             \/ At(q, "delete", "commit") /\ row = Tombstone(expenses[target[q]])
      PROVE  AsMade(i, c)' \/ (Holds(i, c)' /\ expenses'[i].version > 1)
  <2>1. /\ expenses' = [expenses EXCEPT ![call[q].id] = row]
        /\ splits' = [splits EXCEPT ![call[q].id] = shares]
        /\ row.version = expenses[call[q].id].version + 1
    BY <1>3, StoredRows DEF Stores
  <2>2. CASE i = call[q].id
    <3>1. expenses'[i].version = 2
      BY <1>0, <2>1, <2>2 DEF TypeInv, TypeOK
    <3> QED
      BY <1>0, <3>1, RowsKeepOrigin DEF Holds
  <2>3. CASE i # call[q].id
    <3>1. expenses'[i] = expenses[i] /\ splits'[i] = splits[i]
      BY <2>1, <2>3 DEF TypeInv, TypeOK
    <3> QED
      BY <3>1 DEF AsMade
  <2> QED
    BY <2>2, <2>3
<1> QED
  BY <1>1, <1>2, <1>3, TableSteps

\* Rows only come and grow: what bars or supersedes a create goes on doing so.
LEMMA RowsStay ==
  ASSUME TypeInv, TypeInv', LedgerInv, NEW q \in Requests,
         Receive(q) \/ Handle(q) \/ Crash(q), NEW r \in Requests, call'[r] = call[r]
  PROVE  /\ Barred(r) => Barred(r)'
         /\ Superseded(r) => Superseded(r)'
         /\ \A i \in Ids : Holds(i, call[r]) => Holds(i, call[r])'
<1>1. \A i \in Ids : expenses[i] # Absent =>
        /\ expenses'[i] # Absent
        /\ expenses'[i].space = expenses[i].space
        /\ expenses'[i].mutation = expenses[i].mutation
        /\ expenses[i].version \in Nat /\ expenses'[i].version \in Nat
        /\ expenses'[i].version >= expenses[i].version
  <2>1. \A i \in Ids : expenses[i] # Absent =>
          /\ expenses'[i] # Absent
          /\ expenses'[i].space = expenses[i].space
          /\ expenses'[i].mutation = expenses[i].mutation
    BY RowsKeepOrigin
  <2>2. \A i \in Ids : expenses[i] # Absent => expenses'[i].version >= expenses[i].version
    BY VersionsGrow
  <2> QED
    BY <2>1, <2>2 DEF TypeInv, TypeOK, Rows
<1>2. \A i \in Ids : Holds(i, call[r]) => Holds(i, call[r])'
  BY <1>1 DEF Holds
<1>3. Barred(r) => Barred(r)'
  BY <1>1, <1>2 DEF Barred
<1>4. Superseded(r) => Superseded(r)'
  BY <1>1 DEF Superseded
<1> QED
  BY <1>2, <1>3, <1>4

\* What a create's transaction runs into, when it is a unique index, stays there.
LEMMA UniqueViolations ==
  ASSUME TypeInv, NEW q \in Requests, At(q, "create", "commit"),
         call[q].mutation # NoMutation, NEW i \in SaveIds(q), Violation(q, i) = "unique"
  PROVE  Barred(q)
<1>1. call[q] \in CreateCalls
  BY CallKinds DEF At, TypeInv, Phases
<1>2. i \in Ids
  BY <1>1 DEF SaveIds, CreateCalls
<1>3. CASE expenses[i] # Absent
  <2>1. i = call[q].id
    BY <1>3 DEF SaveIds
  <2> QED
    BY <1>2, <1>3, <2>1 DEF Barred
<1>4. CASE expenses[i] = Absent
  <2>1. MutationTaken(q, i)
    BY <1>4 DEF Violation, KeyTaken, ParticipantTaken
  <2>2. SavedRow(q, i).space = call[q].space /\ SavedRow(q, i).mutation = call[q].mutation
    BY <1>4 DEF SavedRow, InsertedRow
  <2> QED
    BY <2>1, <2>2 DEF MutationTaken, Barred, Holds
<1> QED
  BY <1>3, <1>4

LEMMA FailureSteps ==
  ASSUME TypeInv, NEW q \in Requests, Receive(q) \/ Handle(q) \/ Crash(q)
  PROVE  /\ \A r \in Requests \ {q} : failure'[r] = failure[r]
         /\ failure'[q] = "unique" /\ failure[q] # "unique" =>
              \/ call[q].op # "create" /\ pc[q] # "idle"
              \/ call[q].mutation # NoMutation => Barred(q)
<1>1. CASE \/ Receive(q) \/ FindById(q) \/ FindByMutation(q) \/ ResolveReplay(q)
           \/ ValidateCreate(q) \/ FindForSave(q) \/ ReadExpense(q) \/ ReadSplits(q)
           \/ ValidateUpdate(q) \/ CommitDelete(q) \/ Crash(q)
  BY <1>1 DEF Receive, FindById, FindByMutation, ResolveReplay, ValidateCreate, FindForSave,
              ReadExpense, ReadSplits, ValidateUpdate, CommitDelete, Crash, context
<1>2. CASE CommitUpdate(q)
  BY <1>2 DEF CommitUpdate, At, TypeInv, TypeOK
<1>3. CASE CommitCreate(q)
  <2>1. At(q, "create", "commit")
    BY <1>3 DEF CommitCreate
  <2>2. \/ UNCHANGED failure
        \/ Catch(q, "other")
        \/ \E i \in SaveIds(q) : Catch(q, Violation(q, i))
    BY <1>3 DEF CommitCreate
  <2>3. ASSUME NEW why, Catch(q, why)
        PROVE  failure' = [failure EXCEPT ![q] = why]
    BY <2>3 DEF Catch
  <2> QED
    BY <2>1, <2>2, <2>3, UniqueViolations DEF TypeInv, TypeOK
<1> QED
  BY <1>1, <1>2, <1>3 DEF Handle

\* How a create that carries a mutation id comes to be refused as a conflict.
Refuses(q) ==
  \/ pc[q] = "byMutation" /\ failure[q] = "unique" /\ WithMutation(q) = {}
  \/ pc[q] = "replay" /\ ~MatchesCreate(call[q], target[q], seen[q], splits[target[q]])

LEMMA RefusalSteps ==
  ASSUME TypeInv, NEW q \in Requests, Receive(q) \/ Handle(q) \/ Crash(q),
         pc[q] # "idle", call[q].op = "create", call[q].mutation # NoMutation,
         reply'[q].status = "conflict", reply[q].status # "conflict"
  PROVE  Refuses(q) /\ UNCHANGED <<expenses, splits, applied, call>>
<1>1. ASSUME NEW s \in Statuses \ {"conflict"}, Answer(q, Told(s))
      PROVE  FALSE
  BY <1>1 DEF Answer, Told, TypeInv, TypeOK
<1>2. ASSUME NEW l, Goto(q, l)
      PROVE  FALSE
  BY <1>2 DEF Goto
<1>3. ASSUME NEW i, NEW v, Answer(q, Ok(i, v))
      PROVE  FALSE
  BY <1>3 DEF Answer, Ok, TypeInv, TypeOK
<1>4. CASE FindById(q)
  BY <1>2, <1>4 DEF FindById, Found
<1>5. CASE FindByMutation(q)
  <2>1. WithMutation(q) = {} /\ NotFoundByAny(q)
    BY <1>2, <1>5 DEF FindByMutation, Found
  <2>2. failure[q] = "unique"
    BY <1>1, <1>2, <2>1 DEF NotFoundByAny, Statuses
  <2> QED
    BY <1>5, <2>1, <2>2 DEF FindByMutation, At, Refuses, tables
<1>6. CASE ResolveReplay(q)
  BY <1>3, <1>6 DEF ResolveReplay, At, Refuses, tables, context
<1>7. CASE ValidateCreate(q) \/ FindForSave(q) \/ Crash(q)
  BY <1>1, <1>2, <1>7 DEF ValidateCreate, FindForSave, Crash, Statuses
<1>8. CASE CommitCreate(q)
  BY <1>1, <1>2, <1>3, <1>8 DEF CommitCreate, Catch, Statuses
<1>9. CASE \/ Receive(q) \/ ReadExpense(q) \/ ReadSplits(q) \/ ValidateUpdate(q)
           \/ CommitUpdate(q) \/ CommitDelete(q)
  BY <1>9 DEF Receive, ReadExpense, ReadSplits, ValidateUpdate, CommitUpdate, CommitDelete,
              At, TypeInv, Phases
<1> QED
  BY <1>4, <1>5, <1>6, <1>7, <1>8, <1>9 DEF Handle

\* A refused create finds the row of the same call, if it has one, superseded.
LEMMA RefusedOnceSuperseded ==
  ASSUME TypeInv, OriginInv, Retained, NEW p \in Requests, NEW q \in Requests,
         SameMutation(p, q), call[p] = call[q], applied[p] # 0, Refuses(q)
  PROVE  Superseded(q)
<1> SUFFICES ASSUME NEW i \in Ids, AsMade(i, call[q])
             PROVE  Superseded(q)
  BY DEF Retained, Superseded, SameMutation
<1> DEFINE c == call[q]
<1>1. /\ c \in CreateCalls /\ c.mutation # NoMutation
      /\ expenses[i] # Absent /\ Holds(i, c)
      /\ Visible(i, c.space)
  <2>1. c \in CreateCalls
    BY CallKinds DEF SameMutation, TypeInv, TypeOK
  <2>2. InsertedRow(c) # Absent
    BY <2>1, InsertedRowType, AbsentIsNoRow
  <2> QED
    BY <2>1, <2>2 DEF AsMade, Holds, Visible, InsertedRow, SameMutation
<1>2. CASE pc[q] = "byMutation" /\ WithMutation(q) = {}
  BY <1>1, <1>2 DEF WithMutation, Holds
<1>3. CASE /\ pc[q] = "replay"
           /\ ~MatchesCreate(c, target[q], seen[q], splits[target[q]])
  <2>1. ReplayRow(q) /\ target[q] \in Ids
    BY <1>1, <1>3 DEF Retained, SameMutation, TypeInv, Phases
  <2>2. target[q] = i
    <3>1. CASE target[q] = c.id
      BY <2>1, <3>1, SentinelsAreFresh DEF AsMade
    <3>2. CASE Holds(target[q], c)
      BY <1>1, <2>1, <3>2 DEF OriginInv, UniqueMutations, Holds
    <3> QED
      BY <2>1, <3>1, <3>2 DEF ReplayRow
  <2>3. seen[q].version = expenses[i].version
    <3>1. seen[q].version \in Nat \ {0}
      BY <1>3 DEF TypeInv, Phases, Rows
    <3>2. expenses[i].version = 1
      BY DEF AsMade, InsertedRow
    <3>3. seen[q].version <= 1
      BY <2>1, <2>2, <3>2 DEF ReplayRow
    <3> QED
      BY <3>1, <3>2, <3>3
  <2>4. seen[q] = InsertedRow(c)
    BY <2>1, <2>2, <2>3 DEF ReplayRow, AsMade
  <2>5. MatchesCreate(c, target[q], seen[q], splits[target[q]])
    BY <2>2, <2>4 DEF MatchesCreate, InsertedRow, AsMade
  <2> QED
    BY <1>3, <2>5
<1> QED
  BY <1>2, <1>3 DEF Refuses

LEMMA RetainedStep ==
  ASSUME TypeInv, TypeInv', LedgerInv, OriginInv, Retained, NEW q \in Requests,
         Receive(q) \/ Handle(q) \/ Crash(q)
  PROVE  Retained'
<1> SUFFICES ASSUME NEW r \in Requests, call'[r].op = "create",
                    call'[r].mutation # NoMutation
             PROVE  /\ applied'[r] # 0 =>
                         Superseded(r)' \/ \E i \in Ids : AsMade(i, call[r])'
                    /\ failure'[r] = "unique" \/ reply'[r].status = "conflict" => Barred(r)'
                    /\ pc'[r] = "replay" => ReplayRow(r)'
  BY DEF Retained
<1>1. CASE r = q /\ pc[q] = "idle"
  <2>1. Receive(q)
    BY <1>1 DEF Handle, FindById, FindByMutation, ResolveReplay, ValidateCreate, FindForSave,
           CommitCreate, ReadExpense, ReadSplits, ValidateUpdate, CommitUpdate, CommitDelete,
           Crash, At
  <2>2. applied[q] = 0 /\ failure[q] = "none" /\ reply[q].status = "none"
    BY <1>1 DEF OriginInv, Origins, TypeInv, Phases
  <2> QED
    BY <1>1, <2>1, <2>2 DEF Receive, Goto, Answer, Told, TypeInv, TypeOK
<1>2. CASE r # q /\ pc[r] = "idle"
  <2>1. applied[r] = 0 /\ failure[r] = "none" /\ reply[r].status = "none"
    BY <1>2 DEF OriginInv, Origins, TypeInv, Phases
  <2>2. applied'[r] = applied[r]
    BY <1>2, TableSteps DEF Inserts, Stores, TypeInv, TypeOK
  <2> QED
    BY <1>2, <2>1, <2>2, CallsKept, FailureSteps, AnswerSteps
<1>3. CASE pc[r] # "idle"
  <2>1. call'[r] = call[r]
    BY <1>3, CallsKept
  <2>2. r = q => pc[q] # "idle"
    BY <1>3
  <2>3. call[r] \in CreateCalls
    BY <1>3, <2>1, CallKinds DEF TypeInv, Phases
  <2>4. applied'[r] # 0 => Superseded(r)' \/ \E i \in Ids : AsMade(i, call[r])'
    <3>1. CASE applied[r] # 0
      <4>1. CASE Superseded(r)
        BY <2>1, <4>1, RowsStay
      <4>2. ASSUME NEW i \in Ids, AsMade(i, call[r])
            PROVE  Superseded(r)' \/ \E j \in Ids : AsMade(j, call[r])'
        <5>1. CASE AsMade(i, call[r])'
          BY <5>1
        <5>2. CASE Holds(i, call[r])' /\ expenses'[i].version > 1
          BY <5>2 DEF Holds, Superseded
        <5> QED
          BY <2>1, <2>3, <4>2, <5>1, <5>2, MadeRows DEF AsMade, Holds
      <4> QED
        BY <2>1, <3>1, <4>1, <4>2 DEF Retained
    <3>2. CASE applied[r] = 0 /\ applied'[r] # 0
      <4>1. r = q /\ At(q, "create", "commit") /\ \E i \in SaveIds(q) : Inserts(q, i)
        BY <2>1, <3>2, TableSteps DEF Inserts, Stores, At, TypeInv, TypeOK
      <4> PICK i \in SaveIds(q) : Inserts(q, i)
        BY <4>1
      <4>2. i \in Ids /\ call[q].id \in {NoId, i}
        BY <2>3, <4>1 DEF SaveIds, CreateCalls
      <4>3. expenses'[i] = InsertedRow(call[q]) /\ splits'[i] = call[q].shares
        BY <4>2 DEF Inserts, TypeInv, TypeOK
      <4> QED
        BY <2>1, <4>1, <4>2, <4>3 DEF AsMade, InsertedRow
    <3> QED
      BY <3>1, <3>2
  <2>5. failure'[r] = "unique" => Barred(r)'
    <3>1. failure'[r] = "unique" => Barred(r)
      BY <2>1, <2>2, FailureSteps DEF Retained
    <3> QED
      BY <2>1, <3>1, RowsStay
  <2>6. reply'[r].status = "conflict" => Barred(r)'
    <3>1. CASE reply[r].status = "conflict"
      BY <2>1, <3>1, RowsStay DEF Retained
    <3>2. CASE reply[r].status # "conflict" /\ reply'[r].status = "conflict"
      <4>1. r = q /\ Refuses(q)
        BY <2>1, <2>2, <3>2, AnswerSteps, RefusalSteps
      <4>2. Barred(q)
        <5>1. CASE failure[q] = "unique"
          BY <2>1, <4>1, <5>1 DEF Retained
        <5>2. CASE pc[q] = "replay"
          <6>1. ReplayRow(q) /\ target[q] \in Ids
            BY <2>1, <4>1, <5>2 DEF Retained, TypeInv, Phases
          <6> QED
            BY <6>1 DEF ReplayRow, Barred
        <5> QED
          BY <4>1, <5>1, <5>2 DEF Refuses
      <4> QED
        BY <2>1, <4>1, <4>2, RowsStay
    <3> QED
      BY <3>1, <3>2
  <2>7. pc'[r] = "replay" => ReplayRow(r)'
    <3>1. CASE r # q
      <4>1. /\ pc'[r] = pc[r] /\ target'[r] = target[r] /\ seen'[r] = seen[r]
        BY <3>1, CallsKept, ReplaySteps
      <4> SUFFICES ASSUME pc[r] = "replay"
                   PROVE  ReplayRow(r)'
        BY <4>1
      <4> DEFINE i == target[r]
      <4>2. ReplayRow(r) /\ i \in Ids /\ seen[r] \in Rows
        BY <2>1 DEF Retained, TypeInv, Phases
      <4>3. /\ expenses'[i] # Absent
            /\ i = call[r].id \/ Holds(i, call[r])'
        BY <2>1, <4>1, <4>2, RowsStay, RowsKeepOrigin DEF ReplayRow
      <4>4. expenses'[i] = expenses[i] \/ expenses'[i].version > expenses[i].version
        BY <4>2, VersionsGrow DEF ReplayRow
      <4>5. /\ expenses[i].version \in Nat /\ expenses'[i].version \in Nat
            /\ seen[r].version \in Nat
            /\ expenses'[i].version >= expenses[i].version
            /\ seen[r].version <= expenses[i].version
        BY <4>2, <4>3, <4>4 DEF ReplayRow, TypeInv, TypeOK, Rows
      <4>6. seen[r].version = expenses'[i].version => seen[r] = expenses'[i]
        BY <4>2, <4>5, <4>4 DEF ReplayRow
      <4> QED
        BY <2>1, <4>1, <4>3, <4>5, <4>6 DEF ReplayRow, Holds
    <3>2. CASE r = q
      <4> SUFFICES ASSUME pc'[q] = "replay"
                   PROVE  ReplayRow(q)'
        BY <3>2
      <4>1. /\ expenses' = expenses /\ call' = call
            /\ expenses[target'[q]] # Absent
            /\ seen'[q] = expenses[target'[q]]
            /\ target'[q] = call[q].id \/ Holds(target'[q], call[q])
        BY ReplaySteps DEF Holds
      <4>2. seen'[q].version \in Nat
        BY <3>2 DEF TypeInv, Phases, Rows
      <4> QED
        BY <4>1, <4>2 DEF ReplayRow, Holds
    <3> QED
      BY <3>1, <3>2
  <2> QED
    BY <2>4, <2>5, <2>6, <2>7
<1> QED
  BY <1>1, <1>2, <1>3

LEMMA RetriesStep ==
  ASSUME TypeInv, TypeInv', LedgerInv, OriginInv, RetryInv, NEW s \in Requests,
         Receive(s) \/ Handle(s) \/ Crash(s)
  PROVE  RetriesHonoured'
<1> SUFFICES ASSUME NEW p \in Requests, NEW q \in Requests, p # q, SameMutation(p, q)',
                    call'[p] = call'[q], applied'[p] # 0, reply'[q].status = "conflict"
             PROVE  Superseded(q)'
  BY DEF RetriesHonoured
<1>1. call'[p] = call[p] /\ (s = p => pc[p] # "idle")
  BY CallsKept DEF OriginInv, Origins
<1>2. call'[q] = call[q] /\ (s = q => pc[q] # "idle")
  <2>1. CASE s = q /\ pc[q] = "idle"
    <3>1. Receive(q) /\ reply[q].status = "none"
      BY <2>1 DEF OriginInv, Origins, Handle, FindById, FindByMutation, ResolveReplay,
           ValidateCreate, FindForSave, CommitCreate, ReadExpense, ReadSplits, ValidateUpdate,
           CommitUpdate, CommitDelete, Crash, At
    <3> QED
      BY <3>1 DEF Receive, Goto, Answer, Told, TypeInv, TypeOK
  <2> QED
    BY <2>1, CallsKept
<1>3. SameMutation(p, q) /\ call[p] = call[q]
  BY <1>1, <1>2 DEF SameMutation
<1>4. CASE applied[p] # 0 /\ reply[q].status = "conflict"
  BY <1>2, <1>3, <1>4, RowsStay DEF RetryInv, RetriesHonoured
<1>5. CASE applied[p] = 0 /\ reply[q].status = "conflict"
  <2>1. Barred(q) /\ call[q] \in CreateCalls
    BY <1>3, <1>5, CallKinds DEF RetryInv, Retained, SameMutation, TypeInv, TypeOK
  <2>2. s = p /\ At(p, "create", "commit") /\ \E i \in SaveIds(p) : Inserts(p, i)
    BY <1>3, <1>5, TableSteps DEF Inserts, Stores, At, SameMutation, TypeInv, TypeOK
  <2> PICK i \in SaveIds(p) : Inserts(p, i)
    BY <2>2
  <2>3. PICK j \in Ids : expenses[j] # Absent /\ (j = call[q].id \/ Holds(j, call[q]))
    BY <2>1 DEF Barred
  <2>4. j # call[q].id
    BY <1>3, <2>3, SentinelsAreFresh DEF Inserts, SaveIds
  <2>5. ~Holds(j, call[q])
    BY <1>3, <2>3 DEF Inserts, Holds, SameMutation
  <2> QED
    BY <2>3, <2>4, <2>5
<1>6. CASE reply[q].status # "conflict"
  <2>1. s = q
    BY <1>6, AnswerSteps
  <2>2. Refuses(q) /\ UNCHANGED <<expenses, splits, applied, call>>
    BY <1>2, <1>3, <1>6, <2>1, RefusalSteps DEF SameMutation
  <2>3. Superseded(q)
    BY <1>3, <2>2, RefusedOnceSuperseded DEF RetryInv
  <2> QED
    BY <1>2, <2>3, RowsStay
<1> QED
  BY <1>4, <1>5, <1>6

\* Creates that carry one client mutation id insert at most one expense, those that
\* are acknowledged are acknowledged with one and the same, and one that took effect
\* is refused, when it is made again, only once its expense has been changed.
THEOREM CreatesIdempotent == Spec => []CreateIsIdempotent
<1>1. Init => OriginInv /\ OneInsert /\ RetryInv
  BY DEF Init, OriginInv, UniqueMutations, Origins, OneInsert, RetryInv, Retained,
         RetriesHonoured, NoReply, Told
<1>2. TypeInv /\ TypeInv' /\ LedgerInv /\ OriginInv /\ RetryInv /\ [Next]_vars => RetryInv'
  <2> SUFFICES ASSUME TypeInv, TypeInv', LedgerInv, OriginInv, RetryInv, [Next]_vars
               PROVE  RetryInv'
    OBVIOUS
  <2>1. CASE UNCHANGED serviceVars
    BY <2>1 DEF RetryInv, Retained, RetriesHonoured, SameMutation, Superseded, AsMade,
                Holds, Barred, ReplayRow, serviceVars, context
  <2> QED
    BY <2>1, NextCases, RetainedStep, RetriesStep DEF RetryInv
<1>3. TypeInv /\ TypeInv' /\ LedgerInv /\ OriginInv /\ OneInsert /\ [Next]_vars =>
        (OriginInv /\ OneInsert)'
  BY OriginInvStep, OneInsertStep
<1>4. OriginInv /\ OneInsert /\ RetryInv => CreateIsIdempotent
  BY DEF OriginInv, OneInsert, RetryInv, RetriesHonoured, UniqueMutations, Origins, CreatedAs,
         SameMutation, CreateIsIdempotent
<1> QED
  BY <1>1, <1>2, <1>3, <1>4, InvariantsHold, PTL DEF Spec

LEMMA OriginsHold == Spec => []OriginInv
<1>1. Init => OriginInv
  BY DEF Init, OriginInv, UniqueMutations, Origins, NoReply, Told
<1> QED
  BY <1>1, OriginInvStep, InvariantsHold, PTL DEF Spec

\* A request changes, and is answered with, expenses of the space it was
\* authorised for only, whatever identifiers it names.
THEOREM RequestsKeepToTheirSpace == Spec => SpacesIsolated
<1> DEFINE Isolated ==
      \A q \in Requests : \A i \in Ids :
        /\ applied'[q] # applied[q] /\ expenses'[i] # expenses[i] =>
             expenses'[i].space = call[q].space
        /\ reply'[q] # reply[q] /\ reply'[q].id = i =>
             expenses'[i].space = call[q].space
<1>1. TypeInv /\ LedgerInv /\ OriginInv /\ [Next]_vars => [Isolated]_vars
  <2> SUFFICES ASSUME TypeInv, LedgerInv, OriginInv, NEW q \in Requests,
                      Receive(q) \/ Handle(q) \/ Crash(q)
               PROVE  Isolated
    BY NextCases DEF serviceVars
  <2>1. \A r \in Requests \ {q} : applied'[r] = applied[r] /\ reply'[r] = reply[r]
    BY TableSteps, AnswerSteps DEF Stores, Inserts, TypeInv, TypeOK
  <2>2. ASSUME NEW i \in Ids, applied'[q] # applied[q], expenses'[i] # expenses[i]
        PROVE  expenses'[i].space = call[q].space
    <3>1. CASE \E j \in SaveIds(q) : Inserts(q, j)
      BY <2>2, <3>1 DEF Inserts, InsertedRow, TypeInv, TypeOK
    <3>2. ASSUME NEW row, NEW shares, Stores(q, row, shares),
                 \/ At(q, "update", "commit") /\ row = UpdatedRow(q)
                 \/ At(q, "delete", "commit") /\ row = Tombstone(expenses[target[q]])
          PROVE  expenses'[i].space = call[q].space
      <4>1. row.space = call[q].space /\ expenses' = [expenses EXCEPT ![call[q].id] = row]
        BY <3>2, StoredRows DEF Stores
      <4> QED
        BY <2>2, <4>1 DEF TypeInv, TypeOK
    <3> QED
      BY <2>2, <3>1, <3>2, TableSteps
  <2>3. ASSUME NEW i \in Ids, reply'[q] # reply[q], reply'[q].id = i
        PROVE  expenses'[i].space = call[q].space
    <3>1. Succeeds(q)
      BY <2>3, AnswerSteps, SentinelsAreFresh
    <3>2. CASE ResolveReplay(q) /\ reply'[q] = Ok(target[q], seen[q].version)
      <4>1. i = target[q] /\ expenses' = expenses /\ pc[q] = "replay"
        BY <2>3, <3>2 DEF Ok, ResolveReplay, At, tables
      <4> QED
        BY <4>1 DEF OriginInv, Origins
    <3>3. CASE \E j \in SaveIds(q) : Inserts(q, j) /\ reply'[q] = Ok(j, 1)
      BY <2>3, <3>3 DEF Ok, Inserts, InsertedRow, TypeInv, TypeOK
    <3>4. CASE /\ pc[q] = "commit" /\ call[q].op # "create"
               /\ Visible(target[q], call[q].space)
               /\ \E v \in Nat : reply'[q] = Ok(target[q], v)
      <4>1. i = call[q].id /\ target[q] = i
        BY <2>3, <3>4 DEF Ok, TypeInv, Phases, Changing
      <4>2. expenses[i].space = call[q].space /\ expenses[i] # Absent
        BY <3>4, <4>1 DEF Visible
      <4> QED
        BY <4>1, <4>2, RowsKeepOrigin
    <3> QED
      BY <3>1, <3>2, <3>3, <3>4 DEF Succeeds
  <2> QED
    BY <2>1, <2>2, <2>3
<1> QED
  BY <1>1, InvariantsHold, OriginsHold, PTL DEF Spec, SpacesIsolated

-----------------------------------------------------------------------------
(***************************************************************************)
(* ExpenseService implements VersionedLedger: each commit is the step in   *)
(* which a call takes effect, each answer without an effect of its own is  *)
(* a reply, and every other step of a handler changes nothing a client or  *)
(* a reader of the ledger can see.                                         *)
(***************************************************************************)

(* A request that is not done has not been answered, and has had an effect *)
(* only if it is a create whose transaction committed unacknowledged.      *)

Unanswered ==
  \A q \in Requests :
    /\ pc[q] # "done" => reply[q] = NoReply
    /\ pc[q] = "idle" => call[q] = NoCall
    /\ failure[q] # "none" => pc[q] \in {"byId", "byMutation", "replay", "done"}
    /\ applied[q] # 0 => failure[q] # "none" \/ pc[q] = "done"
    /\ pc[q] = "replay" => seen[q].version \in 1 .. expenses[target[q]].version

LEMMA UnansweredInit == Init => Unanswered
BY DEF Init, Unanswered

LEMMA UnansweredStep ==
  ASSUME TypeInv, TypeInv', LedgerInv, OriginInv, Unanswered, NEW q \in Requests,
         Receive(q) \/ Handle(q) \/ Crash(q)
  PROVE  Unanswered'
<1>1. /\ \A r \in Requests \ {q} :
           /\ pc'[r] = pc[r] /\ call'[r] = call[r] /\ reply'[r] = reply[r]
           /\ target'[r] = target[r] /\ seen'[r] = seen[r]
           /\ applied'[r] = applied[r]
      /\ pc'[q] # "idle"
  <2>1. \A r \in Requests \ {q} : applied'[r] = applied[r]
    BY TableSteps DEF Stores, Inserts, TypeInv, TypeOK
  <2> QED
    BY <2>1, CallsKept, ReplaySteps, AnswerSteps
<1>2. \A r \in Requests \ {q} : failure'[r] = failure[r]
  BY DEF Handle, Receive, FindById, FindByMutation, ResolveReplay, ValidateCreate, FindForSave,
         CommitCreate, Catch, ReadExpense, ReadSplits, ValidateUpdate, CommitUpdate,
         CommitDelete, Crash, context, TypeInv, TypeOK
<1>3. ASSUME NEW r \in Requests, pc'[r] = "replay"
      PROVE  seen'[r].version \in 1 .. expenses'[target'[r]].version
  <2>1. target'[r] \in Ids /\ seen'[r] \in Rows
    BY <1>3 DEF TypeInv, Phases
  <2>2. CASE r = q
    <3>1. seen'[q] = expenses'[target'[q]]
      BY <1>3, <2>2, ReplaySteps
    <3> QED
      BY <2>1, <2>2, <3>1 DEF Rows
  <2>3. CASE r # q
    <3>1. /\ pc[r] = "replay" /\ target'[r] = target[r] /\ seen'[r] = seen[r]
          /\ seen[r].version \in 1 .. expenses[target[r]].version
          /\ expenses[target[r]] # Absent
      BY <1>1, <1>3, <2>3 DEF Unanswered, OriginInv, Origins
    <3>2. /\ expenses'[target[r]].version >= expenses[target[r]].version
          /\ expenses'[target[r]] # Absent
      BY <2>1, <3>1, VersionsGrow, RowsKeepOrigin
    <3>3. expenses'[target[r]].version \in Nat /\ expenses[target[r]].version \in Nat
      BY <2>1, <3>1, <3>2 DEF TypeInv, TypeOK, Rows
    <3> QED
      BY <3>1, <3>2, <3>3
  <2> QED
    BY <2>2, <2>3
<1>4. /\ pc'[q] # "done" => reply'[q] = NoReply
      /\ failure'[q] # "none" => pc'[q] \in {"byId", "byMutation", "replay", "done"}
      /\ applied'[q] # 0 => failure'[q] # "none" \/ pc'[q] = "done"
  <2>1. CASE \/ Receive(q) \/ FindById(q) \/ FindByMutation(q) \/ ResolveReplay(q)
             \/ ValidateCreate(q) \/ FindForSave(q) \/ ReadExpense(q) \/ ReadSplits(q)
             \/ ValidateUpdate(q) \/ Crash(q)
    BY <2>1 DEF Receive, FindById, FindByMutation, ResolveReplay, ValidateCreate,
         FindForSave, ReadExpense, ReadSplits, ValidateUpdate, Crash, At, Found, NotFoundByAny,
         Goto, Answer, tables, context, TypeInv, TypeOK, Unanswered
  <2>2. CASE CommitCreate(q)
    BY <2>2, CreateCommits DEF CommitCreate, Inserts, At, Catch, Goto, Answer,
         tables, TypeInv, TypeOK, Unanswered
  <2>3. CASE CommitUpdate(q) \/ CommitDelete(q)
    BY <2>3 DEF CommitUpdate, CommitDelete, At, Answer, context, TypeInv, TypeOK, Unanswered
  <2> QED
    BY <2>1, <2>2, <2>3 DEF Handle
<1> QED
  BY <1>1, <1>2, <1>3, <1>4 DEF Unanswered

LEMMA UnansweredHolds == Spec => []Unanswered
<1>1. TypeInv /\ TypeInv' /\ LedgerInv /\ OriginInv /\ Unanswered /\ [Next]_vars
      => Unanswered'
  <2> SUFFICES ASSUME TypeInv, TypeInv', LedgerInv, OriginInv, Unanswered, [Next]_vars
               PROVE  Unanswered'
    OBVIOUS
  <2>1. CASE UNCHANGED serviceVars
    BY <2>1 DEF Unanswered, serviceVars, context
  <2> QED
    BY <2>1, UnansweredStep, NextCases
<1> QED
  BY <1>1, UnansweredInit, InvariantsHold, OriginsHold, PTL DEF Spec

-----------------------------------------------------------------------------
(* The refinement mapping.                                                 *)

MapInv == TypeInv /\ LedgerInv /\ OriginInv /\ Unanswered

LEMMA SameAnswers ==
  /\ Ledger!Pending = NoReply
  /\ \A s : Ledger!Told(s) = Told(s)
  /\ \A i, v : Ledger!Ok(i, v) = Ok(i, v)
BY DEF Ledger!Pending, Ledger!Told, Ledger!Ok, NoReply, Told, Ok

LEMMA ViewOfRow ==
  ASSUME TypeInv, NEW i \in Ids
  PROVE  /\ LedgerView[i] = Absent <=> expenses[i] = Absent
         /\ expenses[i] # Absent => LedgerView[i] = Aggregate(expenses[i], splits[i])
<1>1. CASE expenses[i] = Absent
  BY <1>1 DEF LedgerView
<1>2. CASE expenses[i] # Absent
  <2>1. expenses[i] \in Rows /\ splits[i] \in Shares
    BY <1>2 DEF TypeInv, TypeOK
  <2>2. Aggregate(expenses[i], splits[i]) \in Aggregates
    BY <2>1 DEF Aggregate, Aggregates, Rows
  <2> QED
    BY <1>2, <2>2, AbsentIsNoRow DEF LedgerView
<1> QED
  BY <1>1, <1>2

LEMMA ViewUnchanged ==
  UNCHANGED <<expenses, splits>> => UNCHANGED LedgerView
BY DEF LedgerView, Aggregate

LEMMA ViewOfStore ==
  ASSUME TypeInv, NEW i \in Ids, NEW row \in Rows, NEW shares,
         expenses' = [expenses EXCEPT ![i] = row],
         splits' = [splits EXCEPT ![i] = shares]
  PROVE  LedgerView' = [LedgerView EXCEPT ![i] = Aggregate(row, shares)]
<1>1. \A j \in Ids : expenses'[j] = IF j = i THEN row ELSE expenses[j]
  BY DEF TypeInv, TypeOK
<1>2. \A j \in Ids : splits'[j] = IF j = i THEN shares ELSE splits[j]
  BY DEF TypeInv, TypeOK
<1>3. row # Absent
  BY AbsentIsNoRow
<1> DEFINE view(r, sh) == IF r = Absent THEN Absent ELSE Aggregate(r, sh)
<1>4. /\ LedgerView = [j \in Ids |-> view(expenses[j], splits[j])]
      /\ LedgerView' = [j \in Ids |-> view(expenses'[j], splits'[j])]
  BY DEF LedgerView
<1>5. view(row, shares) = Aggregate(row, shares)
  BY <1>3
<1> HIDE DEF view
<1>6. \A j \in Ids : LedgerView'[j] = IF j = i THEN Aggregate(row, shares) ELSE LedgerView[j]
  BY <1>1, <1>2, <1>4, <1>5
<1> QED
  BY <1>4, <1>6

\* A step that answers q without touching the tables is a reply.
LEMMA ReplyMaps ==
  ASSUME MapInv, NEW q \in Requests, pc[q] # "idle", pc[q] # "done",
         UNCHANGED <<expenses, splits, call, applied>>,
         NEW s \in {"conflict", "notFound", "forbidden", "invalid", "error", "lost"},
         Answer(q, Told(s)),
         s \in {"conflict", "notFound", "forbidden", "invalid"} =>
           call[q].op = "create" \/ applied[q] = 0
  PROVE  Ledger!Reply(q)
<1>1. UNCHANGED LedgerView
  BY ViewUnchanged
<1>2. call[q] # NoCall /\ reply[q] = Ledger!Pending
  BY SameAnswers, CallsAreCalls DEF MapInv, TypeInv, Phases, Unanswered
<1>3. reply' = [reply EXCEPT ![q] = Ledger!Told(s)]
  BY SameAnswers DEF Answer
<1>4. Ledger!Refuse(q) \/ Ledger!Fail(q)
  BY <1>3 DEF Ledger!Refuse, Ledger!Fail, Ledger!Refusals
<1> QED
  BY <1>1, <1>2, <1>4 DEF Ledger!Reply

\* A step that answers nobody and touches no table is not seen.
LEMMA QuietMaps ==
  ASSUME NEW q \in Requests, NEW l,
         UNCHANGED <<expenses, splits, call, applied>>, Goto(q, l)
  PROVE  UNCHANGED Ledger!ledgerVars
BY ViewUnchanged DEF Goto, Ledger!ledgerVars

LEMMA ReceiveMaps ==
  ASSUME MapInv, NEW q \in Requests, Receive(q)
  PROVE  Ledger!Ask(q)
<1>1. call[q] = NoCall /\ UNCHANGED <<LedgerView, applied>>
  BY ViewUnchanged DEF MapInv, Unanswered, Receive, tables
<1>2. \E c \in Calls : call' = [call EXCEPT ![q] = c]
  BY DEF Receive
<1>3. \/ UNCHANGED reply
      \/ reply' = [reply EXCEPT ![q] = Ledger!Told("notFound")]
  BY SameAnswers DEF Receive, Goto, Answer
<1> QED
  BY <1>1, <1>2, <1>3 DEF Ledger!Ask, Ledger!Refusals

\* The steps that answer without an effect, or do not answer.
LEMMA TablelessMaps ==
  ASSUME MapInv, NEW q \in Requests,
         \/ FindById(q) \/ FindByMutation(q) \/ ValidateCreate(q) \/ FindForSave(q)
         \/ ReadExpense(q) \/ ReadSplits(q) \/ ValidateUpdate(q) \/ Crash(q)
  PROVE  Ledger!Reply(q) \/ UNCHANGED Ledger!ledgerVars
<1>1. /\ UNCHANGED <<expenses, splits, call, applied>>
      /\ pc[q] # "idle" /\ pc[q] # "done"
  BY DEF FindById, FindByMutation, ValidateCreate, FindForSave, ReadExpense, ReadSplits,
         ValidateUpdate, Crash, At, tables, context
<1>2. call[q].op # "create" => applied[q] = 0
  BY <1>1 DEF MapInv, Unanswered, TypeInv, Phases
<1>3. \/ \E l \in PCs : Goto(q, l)
      \/ \E s \in {"conflict", "notFound", "forbidden", "invalid", "error", "lost"} :
           Answer(q, Told(s))
  BY DEF FindById, FindByMutation, ValidateCreate, FindForSave, ReadExpense, ReadSplits,
         ValidateUpdate, Crash, Found, NotFoundByAny, PCs
<1> QED
  BY <1>1, <1>2, <1>3, ReplyMaps, QuietMaps

LEMMA ResolveReplayMaps ==
  ASSUME MapInv, NEW q \in Requests, ResolveReplay(q)
  PROVE  Ledger!Reply(q)
<1>1. /\ UNCHANGED <<expenses, splits, call, applied>>
      /\ pc[q] = "replay" /\ call[q].op = "create"
  BY DEF ResolveReplay, At, tables, context
<1>2. CASE Answer(q, Told("conflict"))
  BY <1>1, <1>2, ReplyMaps
<1>3. CASE /\ MatchesCreate(call[q], target[q], seen[q], splits[target[q]])
           /\ Answer(q, Ok(target[q], seen[q].version))
  <2> DEFINE i == target[q]
  <2>1. /\ i \in Ids /\ expenses[i] # Absent
        /\ expenses[i].space = call[q].space
        /\ expenses[i].mutation = seen[q].mutation
        /\ seen[q].version \in 1 .. expenses[i].version
    BY <1>1 DEF MapInv, TypeInv, Phases, OriginInv, Origins, Unanswered
  <2>2. /\ LedgerView[i] # Absent
        /\ LedgerView[i].space = expenses[i].space
        /\ LedgerView[i].mutation = expenses[i].mutation
        /\ LedgerView[i].version = expenses[i].version
    <3>1. LedgerView[i] # Absent /\ LedgerView[i] = Aggregate(expenses[i], splits[i])
      BY <2>1, ViewOfRow DEF MapInv
    <3> QED
      BY <3>1 DEF Aggregate
  <2>3. Ledger!HoldsCreated(q, i)
    BY <1>3, <2>1, <2>2 DEF Ledger!HoldsCreated, MatchesCreate
  <2>4. reply' = [reply EXCEPT ![q] = Ledger!Ok(i, seen[q].version)]
    BY <1>3, SameAnswers DEF Answer
  <2>5. Ledger!Acknowledge(q)
    BY <1>1, <2>1, <2>2, <2>3, <2>4 DEF Ledger!Acknowledge
  <2>6. call[q] # NoCall /\ reply[q] = Ledger!Pending /\ UNCHANGED LedgerView
    BY <1>1, SameAnswers, CallsAreCalls, ViewUnchanged
    DEF MapInv, TypeInv, Phases, Unanswered
  <2> QED
    BY <1>1, <2>5, <2>6 DEF Ledger!Reply
<1> QED
  BY <1>2, <1>3 DEF ResolveReplay

\* What a commit may do to its client: answer success, report a failure, or,
\* for a create, look its expense up again.
LEMMA CommitCanTakeEffect ==
  ASSUME MapInv, NEW q \in Requests, NEW op, At(q, op, "commit")
  PROVE  Ledger!CanTakeEffect(q, op) /\ applied[q] = 0
BY SameAnswers, CallsAreCalls
DEF MapInv, TypeInv, Phases, Unanswered, At, Ledger!CanTakeEffect

LEMMA AnsweredWithMaps ==
  ASSUME NEW q \in Requests, NEW i, NEW v, TypeInv, reply[q] = NoReply,
         \/ Answer(q, Ok(i, v)) \/ Answer(q, Told("error")) \/ UNCHANGED reply
  PROVE  Ledger!AnsweredWith(q, i, v)
<1>1. reply = [reply EXCEPT ![q] = NoReply]
  BY DEF TypeInv, TypeOK
<1> QED
  BY <1>1, SameAnswers DEF Answer, Ledger!AnsweredWith

LEMMA CommitCreateMaps ==
  ASSUME MapInv, NEW q \in Requests, CommitCreate(q)
  PROVE  Ledger!TakeCreate(q) \/ Ledger!Reply(q) \/ UNCHANGED Ledger!ledgerVars
<1>1. /\ At(q, "create", "commit") /\ pc[q] = "commit" /\ call[q].op = "create"
      /\ UNCHANGED call
      /\ call[q] \in CreateCalls
      /\ Consistent(call[q].fields, call[q].shares)
      /\ reply[q] = NoReply
  BY CallKinds DEF CommitCreate, At, MapInv, TypeInv, Phases, LedgerInv, Validated, Unanswered
<1>2. CASE UNCHANGED <<tables, applied>>
  <2>1. \/ \E l \in PCs : Goto(q, l)
        \/ Answer(q, Told("error"))
        \/ \E i \in SaveIds(q) : Inserts(q, i)
    BY CreateCommits DEF MapInv, Catch, PCs
  <2>2. ~\E i \in SaveIds(q) : Inserts(q, i)
    BY <1>1, <1>2, CommitCanTakeEffect DEF Inserts, MapInv, TypeInv, TypeOK
  <2> QED
    BY <1>1, <1>2, <2>1, <2>2, ReplyMaps, QuietMaps DEF tables
<1>3. CASE \E i \in SaveIds(q) :
             /\ Inserts(q, i)
             /\ Answer(q, Ok(i, 1)) \/ Catch(q, "other")
  <2> PICK i \in SaveIds(q) : /\ Inserts(q, i)
                              /\ Answer(q, Ok(i, 1)) \/ Catch(q, "other")
    BY <1>3
  <2>1. /\ i \in Ids /\ call[q].id \in {NoId, i}
        /\ expenses[i] = Absent
    BY <1>1 DEF SaveIds, CreateCalls, Inserts
  <2>2. LedgerView[i] = Absent
    BY <2>1, ViewOfRow DEF MapInv
  <2>3. ASSUME call[q].mutation # NoMutation, NEW j \in Ids, LedgerView[j] # Absent
        PROVE  <<LedgerView[j].space, LedgerView[j].mutation>>
                 # <<call[q].space, call[q].mutation>>
    <3>1. expenses[j] # Absent /\ LedgerView[j] = Aggregate(expenses[j], splits[j])
      BY <2>3, ViewOfRow DEF MapInv
    <3>2. ~(expenses[j].space = call[q].space /\ expenses[j].mutation = call[q].mutation)
      BY <2>3, <3>1 DEF Inserts
    <3> QED
      BY <3>1, <3>2 DEF Aggregate
  <2>4. LedgerView' = [LedgerView EXCEPT ![i] = Aggregate(InsertedRow(call[q]), call[q].shares)]
    BY <1>1, <2>1, InsertedRowType, ViewOfStore DEF Inserts, MapInv
  <2>5. Aggregate(InsertedRow(call[q]), call[q].shares) =
          [space |-> call[q].space, mutation |-> call[q].mutation,
           creator |-> call[q].user, version |-> 1, deleted |-> FALSE,
           fields |-> call[q].fields, shares |-> call[q].shares]
    BY DEF Aggregate, InsertedRow
  <2>6. applied' = [applied EXCEPT ![q] = 1]
    BY DEF Inserts
  <2>7. Ledger!AnsweredWith(q, i, 1)
    <3>1. Answer(q, Ok(i, 1)) \/ Answer(q, Told("error")) \/ UNCHANGED reply
      BY DEF Catch, Goto
    <3> QED
      BY <1>1, <3>1, AnsweredWithMaps DEF MapInv
  <2> QED
    BY <1>1, <2>1, <2>2, <2>3, <2>4, <2>5, <2>6, <2>7, CommitCanTakeEffect
    DEF Ledger!TakeCreate
<1> QED
  BY <1>2, <1>3, CreateCommits DEF MapInv

\* An aggregate is its row and its shares, and nothing else.
LEMMA AggregateFields ==
  ASSUME NEW r \in Rows, NEW sh \in Shares
  PROVE  /\ Aggregate(r, sh) \in Aggregates
         /\ Aggregate(r, sh).space = r.space
         /\ Aggregate(r, sh).mutation = r.mutation
         /\ Aggregate(r, sh).creator = r.creator
         /\ Aggregate(r, sh).version = r.version
         /\ Aggregate(r, sh).deleted = r.deleted
         /\ Aggregate(r, sh).fields = r.fields
         /\ Aggregate(r, sh).shares = sh
BY DEF Aggregate, Aggregates, Rows

LEMMA AggregatesEqual ==
  ASSUME NEW a \in Aggregates, NEW b \in Aggregates,
         a.space = b.space, a.mutation = b.mutation, a.creator = b.creator,
         a.version = b.version, a.deleted = b.deleted, a.fields = b.fields,
         a.shares = b.shares
  PROVE  a = b
BY DEF Aggregates

LEMMA CurrentMaps ==
  ASSUME MapInv, NEW q \in Requests, NEW row, NEW shares, Stores(q, row, shares),
         \/ At(q, "update", "commit") /\ row = UpdatedRow(q)
         \/ At(q, "delete", "commit") /\ row = Tombstone(expenses[target[q]])
  PROVE  /\ Ledger!Current(q)
         /\ LedgerView[call[q].id] = Aggregate(expenses[call[q].id], splits[call[q].id])
         /\ LedgerView' = [LedgerView EXCEPT ![call[q].id] = Aggregate(row, shares)]
<1>1. /\ call[q].id \in Ids /\ target[q] = call[q].id
      /\ expenses[call[q].id] \in Rows /\ row \in Rows
      /\ ~expenses[call[q].id].deleted
      /\ expenses[call[q].id].space = call[q].space
      /\ expenses[call[q].id].version = call[q].expected
  BY StoredRows DEF MapInv
<1>2. /\ LedgerView[call[q].id] # Absent
      /\ LedgerView[call[q].id] = Aggregate(expenses[call[q].id], splits[call[q].id])
  BY <1>1, ViewOfRow, AbsentIsNoRow DEF MapInv
<1>3. Ledger!Current(q)
  BY <1>1, <1>2 DEF Ledger!Current, Aggregate
<1>4. LedgerView' = [LedgerView EXCEPT ![call[q].id] = Aggregate(row, shares)]
  BY <1>1, ViewOfStore DEF Stores, MapInv
<1> QED
  BY <1>2, <1>3, <1>4

LEMMA CommitUpdateMaps ==
  ASSUME MapInv, NEW q \in Requests, CommitUpdate(q)
  PROVE  Ledger!TakeUpdate(q) \/ Ledger!Reply(q)
<1>1. /\ At(q, "update", "commit") /\ pc[q] = "commit"
      /\ UNCHANGED call
      /\ reply[q] = NoReply /\ applied[q] = 0
  BY CommitCanTakeEffect DEF CommitUpdate, At, MapInv, Unanswered
<1>2. CASE UNCHANGED <<tables, applied>> /\ \E s \in {"conflict", "error"} : Answer(q, Told(s))
  BY <1>1, <1>2, ReplyMaps DEF tables
<1>3. CASE /\ Stores(q, UpdatedRow(q), UpdatedShares(q))
           /\ \/ Answer(q, Ok(target[q], UpdatedRow(q).version))
              \/ Answer(q, Told("error"))
  <2> DEFINE c == call[q]
             row == UpdatedRow(q)
             shares == UpdatedShares(q)
             old == expenses[c.id]
             view == LedgerView[c.id]
             new == [view EXCEPT !.fields = Merge(c.patch, view.fields),
                                 !.shares = IF c.shares = Keep THEN view.shares
                                            ELSE c.shares,
                                 !.version = c.expected + 1]
  <2>1. /\ target[q] = c.id /\ c.id \in Ids /\ old \in Rows /\ row \in Rows
        /\ row.version = c.expected + 1
    BY <1>1, <1>3, StoredRows DEF MapInv
  <2>2. /\ Ledger!Current(q)
        /\ view = Aggregate(old, splits[c.id])
        /\ LedgerView' = [LedgerView EXCEPT ![c.id] = Aggregate(row, shares)]
    BY <1>1, <1>3, CurrentMaps
  <2>3. /\ row.fields = Merge(c.patch, old.fields)
        /\ Consistent(row.fields, shares)
    BY <1>1, <1>3, <2>1, UpdateStoresValidated DEF Stores, MapInv, NewFields
  <2>4. shares = IF c.shares = Keep THEN splits[c.id] ELSE c.shares
    BY <2>1 DEF UpdatedShares, Chosen
  <2>5. /\ row.space = old.space /\ row.mutation = old.mutation
        /\ row.creator = old.creator /\ row.deleted = old.deleted
    BY <2>1 DEF UpdatedRow, Rows
  <2>6. /\ shares \in Shares /\ splits[c.id] \in Shares
        /\ row.fields \in Fields /\ row.version \in Nat \ {0}
    <3>1. shares \in Shares /\ splits[c.id] \in Shares
      BY <1>1, <2>1, ValidatedTypes DEF MapInv, TypeInv, TypeOK
    <3>2. row.fields \in Fields /\ row.version \in Nat \ {0}
      BY <2>1 DEF Rows
    <3> QED
      BY <3>1, <3>2
  <2>7. new = Aggregate(row, shares)
    <3> HIDE DEF row, shares, old, c
    <3>1. /\ view \in Aggregates
          /\ view.space = old.space /\ view.mutation = old.mutation
          /\ view.creator = old.creator /\ view.deleted = old.deleted
          /\ view.fields = old.fields /\ view.shares = splits[c.id]
      BY <2>1, <2>2, <2>6, AggregateFields
    <3> HIDE DEF view
    <3>2. /\ new.space = view.space /\ new.mutation = view.mutation
          /\ new.creator = view.creator /\ new.deleted = view.deleted
          /\ new.fields = row.fields /\ new.shares = shares
          /\ new.version = row.version
          /\ new \in Aggregates
      BY <2>1, <2>3, <2>4, <2>6, <3>1 DEF Aggregates
    <3> HIDE DEF new
    <3>3. new.deleted = Aggregate(row, shares).deleted
      BY <2>1, <2>5, <2>6, <3>1, <3>2, AggregateFields
    <3> QED
      BY <2>1, <2>5, <2>6, <3>1, <3>2, <3>3, AggregateFields, AggregatesEqual
  <2>8. /\ new.version = c.expected + 1
        /\ Consistent(new.fields, new.shares)
        /\ LedgerView' = [LedgerView EXCEPT ![c.id] = new]
    <3> HIDE DEF new, row, shares, view, c
    <3> QED
      BY <2>1, <2>2, <2>3, <2>6, <2>7, AggregateFields
  <2>9. applied' = [applied EXCEPT ![q] = new.version]
    <3> HIDE DEF new
    <3> QED
      BY <1>3, <2>1, <2>8 DEF Stores
  <2>10. Ledger!AnsweredWith(q, c.id, new.version)
    <3> HIDE DEF new
    <3> QED
      BY <1>1, <1>3, <2>1, <2>8, AnsweredWithMaps DEF MapInv
  <2>11. Ledger!CanTakeEffect(q, "update")
    BY <1>1, CommitCanTakeEffect
  <2> QED
    BY <1>1, <2>2, <2>8, <2>9, <2>10, <2>11, Zenon DEF Ledger!TakeUpdate
<1> QED
  BY <1>2, <1>3 DEF CommitUpdate, Stores, tables

LEMMA CommitDeleteMaps ==
  ASSUME MapInv, NEW q \in Requests, CommitDelete(q)
  PROVE  Ledger!TakeDelete(q) \/ Ledger!Reply(q)
<1>1. /\ At(q, "delete", "commit") /\ pc[q] = "commit"
      /\ UNCHANGED call
      /\ reply[q] = NoReply /\ applied[q] = 0
  BY CommitCanTakeEffect DEF CommitDelete, At, MapInv, Unanswered, context
<1>2. CASE UNCHANGED <<tables, applied>> /\ \E s \in {"conflict", "error"} : Answer(q, Told(s))
  BY <1>1, <1>2, ReplyMaps DEF tables
<1>3. CASE /\ Stores(q, Tombstone(expenses[target[q]]), splits[target[q]])
           /\ \/ Answer(q, Ok(target[q], Tombstone(expenses[target[q]]).version))
              \/ Answer(q, Told("error"))
  <2> DEFINE c == call[q]
             old == expenses[c.id]
             row == Tombstone(expenses[target[q]])
             shares == splits[target[q]]
             view == LedgerView[c.id]
             new == Ledger!TombstoneOf(view, c.expected + 1)
  <2>1. /\ target[q] = c.id /\ c.id \in Ids /\ old \in Rows /\ row \in Rows
        /\ row.version = c.expected + 1
    BY <1>1, <1>3, StoredRows DEF MapInv
  <2>2. /\ Ledger!Current(q)
        /\ view = Aggregate(old, splits[c.id])
        /\ LedgerView' = [LedgerView EXCEPT ![c.id] = Aggregate(row, shares)]
    BY <1>1, <1>3, CurrentMaps
  <2>3. /\ row.space = old.space /\ row.mutation = old.mutation
        /\ row.creator = old.creator /\ row.fields = old.fields
        /\ row.deleted = TRUE
    BY <2>1 DEF Tombstone, Rows
  <2>4. /\ shares \in Shares /\ shares = splits[c.id]
        /\ row.version \in Nat \ {0}
    BY <2>1 DEF Rows, MapInv, TypeInv, TypeOK
  <2>5. new = Aggregate(row, shares)
    <3> HIDE DEF row, shares, old, c
    <3>1. /\ view \in Aggregates
          /\ view.space = old.space /\ view.mutation = old.mutation
          /\ view.creator = old.creator /\ view.fields = old.fields
          /\ view.shares = splits[c.id]
      BY <2>1, <2>2, <2>4, AggregateFields
    <3> HIDE DEF view
    <3>2. /\ new.space = view.space /\ new.mutation = view.mutation
          /\ new.creator = view.creator /\ new.fields = view.fields
          /\ new.shares = view.shares /\ new.version = row.version
          /\ new.deleted = TRUE
          /\ new \in Aggregates
      BY <2>1, <2>4, <3>1 DEF Aggregates, Ledger!TombstoneOf
    <3> HIDE DEF new
    <3>3. new.deleted = Aggregate(row, shares).deleted
      BY <2>1, <2>3, <2>4, <3>2, AggregateFields
    <3> QED
      BY <2>1, <2>3, <2>4, <3>1, <3>2, <3>3, AggregateFields, AggregatesEqual
  <2>6. LedgerView' = [LedgerView EXCEPT ![c.id] = new]
    <3> HIDE DEF new, row, shares, view, c
    <3> QED
      BY <2>2, <2>5
  <2>7. applied' = [applied EXCEPT ![q] = c.expected + 1]
    BY <1>3, <2>1 DEF Stores
  <2>8. Ledger!AnsweredWith(q, c.id, c.expected + 1)
    BY <1>1, <1>3, <2>1, AnsweredWithMaps DEF MapInv
  <2>9. Ledger!CanTakeEffect(q, "delete")
    BY <1>1, CommitCanTakeEffect
  <2> QED
    BY <1>1, <2>2, <2>6, <2>7, <2>8, <2>9, Zenon DEF Ledger!TakeDelete
<1>4. splits = [splits EXCEPT ![target[q]] = splits[target[q]]]
  BY DEF MapInv, TypeInv, TypeOK
<1> QED
  BY <1>2, <1>3, <1>4 DEF CommitDelete, Stores, tables

-----------------------------------------------------------------------------
\* Every step of the service is a step of the ledger, or changes nothing the
\* ledger's clients can see.
LEMMA StepMaps ==
  ASSUME MapInv, [Next]_vars
  PROVE  [Ledger!LedgerNext]_(Ledger!ledgerVars)
<1>1. CASE UNCHANGED serviceVars
  BY <1>1, ViewUnchanged DEF serviceVars, context, Ledger!ledgerVars
<1>2. ASSUME NEW q \in Requests, Receive(q) \/ Handle(q) \/ Crash(q)
      PROVE  [Ledger!LedgerNext]_(Ledger!ledgerVars)
  <2>1. CASE Receive(q)
    BY <2>1, ReceiveMaps DEF Ledger!LedgerNext
  <2>2. CASE CommitCreate(q)
    BY <2>2, CommitCreateMaps DEF Ledger!LedgerNext
  <2>3. CASE CommitUpdate(q)
    BY <2>3, CommitUpdateMaps DEF Ledger!LedgerNext
  <2>4. CASE CommitDelete(q)
    BY <2>4, CommitDeleteMaps DEF Ledger!LedgerNext
  <2>5. CASE ResolveReplay(q)
    BY <2>5, ResolveReplayMaps DEF Ledger!LedgerNext
  <2> QED
    BY <1>2, <2>1, <2>2, <2>3, <2>4, <2>5, TablelessMaps DEF Handle, Ledger!LedgerNext
<1> QED
  BY <1>1, <1>2, NextCases

LEMMA InitMaps == Init => Ledger!LedgerInit
BY SameAnswers DEF Init, Ledger!LedgerInit, LedgerView

\* The service implements the abstract ledger: whatever the interleaving of
\* the awaits of its requests, every create, update and delete that takes
\* effect does so in one step, once, on the version its caller named, and is
\* answered no more than once.
THEOREM ServiceImplementsLedger == Spec => ImplementsLedger
<1>1. MapInv /\ [Next]_vars => [Ledger!LedgerNext]_(Ledger!ledgerVars)
  BY StepMaps
<1>2. Spec => []MapInv
  BY InvariantsHold, OriginsHold, UnansweredHolds, PTL DEF MapInv
<1> QED
  BY <1>1, <1>2, InitMaps, PTL DEF Spec, ImplementsLedger, Ledger!LedgerSpec
=============================================================================
