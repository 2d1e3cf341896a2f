--------------------------- MODULE ExpenseService ---------------------------
(***************************************************************************)
(* The write path of the expense API: createExpenseForUser,                *)
(* updateExpenseForUser and deleteExpenseForUser of                        *)
(* apps/api/src/services/expense.service.ts, run by concurrent requests    *)
(* against the tables expenses and expense_splits.  Every await of the     *)
(* handlers is a point where other requests run; what a handler read       *)
(* before it is kept in the request's own variables.  A database           *)
(* transaction is one step (its rows are locked by its first statement),   *)
(* whose acknowledgement may be lost after it has committed.               *)
(***************************************************************************)
EXTENDS ExpenseRecords

CONSTANTS
  Requests,   \* the requests the server ever handles
  Calls,      \* the calls clients make; two requests with one call: a retry
  NoCall,
  Role,       \* Role[u][s]: the active membership of user u in space s
  CategoryTables  \* the states the table categories goes through

ASSUME CallsAreCalls ==
  /\ Calls \subseteq CreateCalls \cup UpdateCalls \cup DeleteCalls
  /\ NoCall \notin Calls

ASSUME RoleIsMembership ==
  Role \in [Users -> [Spaces -> {"owner", "member", "none"}]]

ASSUME CategoryTablesAreTables ==
  CategoryTables \subseteq
    [Categories -> [space : Spaces, live : BOOLEAN] \cup {Absent}]

VARIABLES
  expenses,        \* table expenses: Ids -> Rows or Absent
  splits,          \* table expense_splits: Ids -> Shares
  categories,      \* table categories, as the expense service sees it
  pc,              \* pc[q]: the await request q stands at
  call,            \* call[q]: its payload
  target,          \* target[q]: the expense it has found
  seen,            \* seen[q]: the row it read, as it read it, or Absent
  seenShares,      \* seenShares[q]: the split rows it read
  failure,         \* failure[q]: why its transaction failed
  applied,         \* applied[q]: the version it committed, 0 for none
  reply            \* reply[q]: what its client was answered

tables  == <<expenses, splits, categories>>
context == <<call, target, seen, seenShares, failure>>
vars    == <<expenses, splits, categories, pc, call, target, seen,
             seenShares, failure, applied, reply>>

PCs == {"idle", "byId", "byMutation", "replay", "read", "readSplits",
        "validate", "save", "commit", "done"}
Failures == {"none", "unique", "unbalanced", "other"}
Statuses == {"none", "ok", "conflict", "notFound", "forbidden", "invalid",
             "error", "lost"}
Replies  == [status : Statuses, id : Ids \cup {NoId}, version : Nat]

Told(s)  == [status |-> s, id |-> NoId, version |-> 0]
Ok(i, v) == [status |-> "ok", id |-> i, version |-> v]
NoReply  == Told("none")

TypeOK ==
  /\ expenses \in [Ids -> Rows \cup {Absent}]
  /\ splits \in [Ids -> Shares]
  /\ categories \in CategoryTables
  /\ pc \in [Requests -> PCs]
  /\ call \in [Requests -> Calls \cup {NoCall}]
  /\ target \in [Requests -> Ids \cup {NoId}]
  /\ seen \in [Requests -> Rows \cup {Absent}]
  /\ seenShares \in [Requests -> Shares]
  /\ failure \in [Requests -> Failures]
  /\ applied \in [Requests -> Nat]
  /\ reply \in [Requests -> Replies]

Init ==
  /\ expenses = [i \in Ids |-> Absent]
  /\ splits = [i \in Ids |-> NoShares]
  /\ categories \in CategoryTables
  /\ pc = [q \in Requests |-> "idle"]
  /\ call = [q \in Requests |-> NoCall]
  /\ target = [q \in Requests |-> NoId]
  /\ seen = [q \in Requests |-> Absent]
  /\ seenShares = [q \in Requests |-> NoShares]
  /\ failure = [q \in Requests |-> "none"]
  /\ applied = [q \in Requests |-> 0]
  /\ reply = [q \in Requests |-> NoReply]

-----------------------------------------------------------------------------
(* Steps shared by the handlers.                                           *)

At(q, op, label) == pc[q] = label /\ call[q].op = op

Goto(q, label) == pc' = [pc EXCEPT ![q] = label] /\ UNCHANGED reply

Answer(q, a) ==
  /\ pc' = [pc EXCEPT ![q] = "done"]
  /\ reply' = [reply EXCEPT ![q] = a]

\* Mutant: the space is left out of the lookups.
VisibleInAnySpace(i, space) == expenses[i] # Absent /\ ~expenses[i].deleted

\* The rows a space's queries return once the tombstones are left out.
Visible(i, space) ==
  /\ expenses[i] # Absent
  /\ expenses[i].space = space
  /\ ~expenses[i].deleted

\* What FK_expenses_category_couple asks of the pair (category_id, couple_id).
InSpace(c, space) ==
  c # NoCategory => categories[c] # Absent /\ categories[c].space = space

CategoryLive(c, space) ==
  c \in Categories => InSpace(c, space) /\ categories[c].live

\* resolveSpaceForUser: a caller that is no active member does not find the space.
Receive(q) ==
  /\ pc[q] = "idle"
  /\ \E c \in Calls :
       /\ call' = [call EXCEPT ![q] = c]
       /\ IF Role[c.user][c.space] = "none" THEN Answer(q, Told("notFound"))
          ELSE Goto(q, IF c.op # "create" THEN "read"
                       ELSE IF c.id # NoId THEN "byId"
                       ELSE IF c.mutation # NoMutation THEN "byMutation"
                       ELSE "validate")
  /\ UNCHANGED <<tables, target, seen, seenShares, failure, applied>>

-----------------------------------------------------------------------------
(* createExpenseForUser                                                    *)

\* Mutant: the catch clause goes on to a second transaction.
NotFoundByAnyRetries(q) == Goto(q, "validate")

\* Both lookups, before the transaction and in its catch clause, end the same
\* way: the create goes on, or its failure is reported.
NotFoundByAny(q) ==
  CASE failure[q] = "none"   -> Goto(q, "validate")
    [] failure[q] = "unique" -> Answer(q, Told("conflict"))
    [] OTHER                 -> Answer(q, Told("error"))

Found(q, i) ==
  /\ target' = [target EXCEPT ![q] = i]
  /\ seen' = [seen EXCEPT ![q] = expenses[i]]
  /\ Goto(q, "replay")

FindById(q) ==
  /\ At(q, "create", "byId")
  /\ IF Visible(call[q].id, call[q].space) THEN Found(q, call[q].id)
     ELSE /\ IF call[q].mutation # NoMutation THEN Goto(q, "byMutation")
             ELSE NotFoundByAny(q)
          /\ UNCHANGED <<target, seen>>
  /\ UNCHANGED <<tables, call, seenShares, failure, applied>>

WithMutation(q) ==
  {i \in Ids : Visible(i, call[q].space) /\ expenses[i].mutation = call[q].mutation}

FindByMutation(q) ==
  /\ At(q, "create", "byMutation")
  /\ \/ \E i \in WithMutation(q) : Found(q, i)
     \/ /\ WithMutation(q) = {}
        /\ NotFoundByAny(q)
        /\ UNCHANGED <<target, seen>>
  /\ UNCHANGED <<tables, call, seenShares, failure, applied>>

\* matchesCreatePayload on the row read and the split rows read after it.
MatchesCreate(c, i, row, shares) ==
  /\ c.id \in {NoId, i}
  /\ c.mutation \in {NoMutation, row.mutation}
  /\ c.fields = row.fields
  /\ c.shares = shares

ResolveReplay(q) ==
  /\ At(q, "create", "replay")
  /\ Answer(q, IF MatchesCreate(call[q], target[q], seen[q], splits[target[q]])
               THEN Ok(target[q], seen[q].version) ELSE Told("conflict"))
  /\ UNCHANGED <<tables, context, applied>>

\* The currency, group, payer and participant checks read tables this module
\* does not hold: any of them may refuse.
ValidateCreate(q) ==
  /\ At(q, "create", "validate")
  /\ \/ /\ CategoryLive(call[q].fields.category, call[q].space)
        /\ Consistent(call[q].fields, call[q].shares)
        /\ Goto(q, "save")
     \/ Answer(q, Told("invalid"))
  /\ UNCHANGED <<tables, context, applied>>

\* TypeORM's save of an entity with an id first looks the row up, whatever its
\* space and deleted or not: it will INSERT if there is none, UPDATE if there is.
FindForSave(q) ==
  /\ At(q, "create", "save")
  /\ seen' = [seen EXCEPT ![q] = IF call[q].id = NoId THEN Absent
                                 ELSE expenses[call[q].id]]
  /\ Goto(q, "commit")
  /\ UNCHANGED <<tables, call, target, seenShares, failure, applied>>

InsertedRow(c) ==
  [space |-> c.space, mutation |-> c.mutation, creator |-> c.user,
   version |-> 1, deleted |-> FALSE, fields |-> c.fields]

\* The UPDATE sets the columns that are defined and differ from the row read.
SavedColumn(new, read, stored) ==
  IF new \in {NoCategory, NoMutation, read} THEN stored ELSE new

OverwrittenRow(c, read, row) ==
  [space    |-> SavedColumn(c.space, read.space, row.space),
   mutation |-> SavedColumn(c.mutation, read.mutation, row.mutation),
   creator  |-> SavedColumn(c.user, read.creator, row.creator),
   version  |-> row.version + 1,
   deleted  |-> row.deleted,
   fields   |-> [k \in DOMAIN c.fields |->
                   SavedColumn(c.fields[k], read.fields[k], row.fields[k])]]

SavedRow(q, i) ==
  IF expenses[i] = Absent THEN InsertedRow(call[q])
  ELSE OverwrittenRow(call[q], seen[q], expenses[i])

\* The split rows are inserted beside those the expense already has.
SavedShares(q, i) ==
  IF expenses[i] = Absent THEN call[q].shares
  ELSE [p \in DOMAIN splits[i] \cup DOMAIN call[q].shares |->
          IF p \in DOMAIN splits[i] THEN splits[i][p] ELSE call[q].shares[p]]

\* The INSERT meets a row that was committed after the lookup.
KeyTaken(q, i) == seen[q] = Absent /\ expenses[i] # Absent

\* Mutant: there is no unique index.
MutationUnchecked(q, i) == FALSE

\* UQ_expenses_couple_client_mutation_id
MutationTaken(q, i) ==
  /\ SavedRow(q, i).mutation # NoMutation
  /\ \E j \in Ids \ {i} : /\ expenses[j] # Absent
                          /\ expenses[j].space = SavedRow(q, i).space
                          /\ expenses[j].mutation = SavedRow(q, i).mutation

\* FK_expense_splits_expense_couple: split rows keep their expense in its space.
SplitsLeftBehind(q, i) ==
  /\ expenses[i] # Absent
  /\ DOMAIN splits[i] # {}
  /\ SavedRow(q, i).space # expenses[i].space

\* Mutant: expenses reference a category by its id only.
CategoryUnchecked(row) == FALSE

\* FK_expenses_category_couple
CategoryElsewhere(row) == ~InSpace(row.fields.category, row.space)

\* UQ_expense_splits_expense_participant
ParticipantTaken(q, i) ==
  expenses[i] # Absent /\ DOMAIN splits[i] \cap DOMAIN call[q].shares # {}

\* Mutant: there are no deferred triggers.
BalancesUnchecked(q, i) == TRUE

\* The two deferred constraint triggers, at commit.
BalancesAfterSave(q, i) ==
  (IF expenses[i] = Absent THEN 0 ELSE ShareTotal(splits[i]))
    + ShareTotal(call[q].shares) = SavedRow(q, i).fields.amount

\* The first constraint the transaction violates.
Violation(q, i) ==
  CASE KeyTaken(q, i) \/ MutationTaken(q, i) -> "unique"
    [] SplitsLeftBehind(q, i)                -> "other"
    [] CategoryElsewhere(SavedRow(q, i))     -> "other"
    [] ParticipantTaken(q, i)                -> "unique"
    [] ~BalancesAfterSave(q, i)              -> "unbalanced"
    [] OTHER                                 -> "none"

SaveExpense(q, i) ==
  /\ expenses' = [expenses EXCEPT ![i] = SavedRow(q, i)]
  /\ splits' = [splits EXCEPT ![i] = SavedShares(q, i)]
  /\ applied' = [applied EXCEPT ![q] = SavedRow(q, i).version]
  /\ UNCHANGED categories

\* The ids the save may use: the caller's, or a fresh one of the database.
SaveIds(q) == IF call[q].id # NoId THEN {call[q].id}
              ELSE {i \in Ids : expenses[i] = Absent}

\* The catch clause of the create transaction starts the lookups again.
Catch(q, why) ==
  /\ failure' = [failure EXCEPT ![q] = why]
  /\ IF call[q].id # NoId THEN Goto(q, "byId")
     ELSE IF call[q].mutation # NoMutation THEN Goto(q, "byMutation")
     ELSE Answer(q, Told("error"))

CommitCreate(q) ==
  /\ At(q, "create", "commit")
  /\ \/ \E i \in SaveIds(q) :
          \/ /\ Violation(q, i) = "none"
             /\ SaveExpense(q, i)
             /\ \/ Answer(q, Ok(i, SavedRow(q, i).version)) /\ UNCHANGED failure
                \/ Catch(q, "other")       \* committed, not acknowledged
          \/ /\ Violation(q, i) # "none"
             /\ Catch(q, Violation(q, i))
             /\ UNCHANGED <<tables, applied>>
     \/ /\ Catch(q, "other")               \* rolled back
        /\ UNCHANGED <<tables, applied>>
  /\ UNCHANGED <<call, target, seen, seenShares>>

-----------------------------------------------------------------------------
(* updateExpenseForUser and deleteExpenseForUser                           *)

MayMutate(c, row) == row.creator = c.user \/ Role[c.user][c.space] = "owner"

\* Row lookup, version check and permission check of both handlers.
ReadExpense(q) ==
  LET c == call[q] IN
  /\ pc[q] = "read"
  /\ IF ~Visible(c.id, c.space) THEN
       Answer(q, Told("notFound")) /\ UNCHANGED <<target, seen>>
     ELSE IF expenses[c.id].version # c.expected THEN
       Answer(q, Told("conflict")) /\ UNCHANGED <<target, seen>>
     ELSE IF ~MayMutate(c, expenses[c.id]) THEN
       Answer(q, Told("forbidden")) /\ UNCHANGED <<target, seen>>
     ELSE
       /\ target' = [target EXCEPT ![q] = c.id]
       /\ seen' = [seen EXCEPT ![q] = expenses[c.id]]
       /\ Goto(q, IF c.op = "update" THEN "readSplits" ELSE "commit")
  /\ UNCHANGED <<tables, call, seenShares, failure, applied>>

ReadSplits(q) ==
  /\ pc[q] = "readSplits"
  /\ seenShares' = [seenShares EXCEPT ![q] = splits[target[q]]]
  /\ Goto(q, "validate")
  /\ UNCHANGED <<tables, call, target, seen, failure, applied>>

NewFields(q) == Merge(call[q].patch, seen[q].fields)
NewShares(q) == Chosen(call[q].shares, seenShares[q])

\* Beside the checks of other tables, the split rows come back in no defined
\* order, and the equal-split check goes by their order: it may refuse too.
ValidateUpdate(q) ==
  /\ At(q, "update", "validate")
  /\ \/ /\ CategoryLive(call[q].patch.category, call[q].space)
        /\ Consistent(NewFields(q), NewShares(q))
        /\ Goto(q, "commit")
     \/ Answer(q, Told("invalid"))
  /\ UNCHANGED <<tables, context, applied>>

\* Mutant: the version is missing from the WHERE clause.
MatchesAnyVersion(q) == Visible(target[q], call[q].space)

\* The WHERE clause of the UPDATE statements.
MatchesExpected(q) ==
  /\ Visible(target[q], call[q].space)
  /\ expenses[target[q]].version = call[q].expected

UpdatedRow(q) ==
  [expenses[target[q]] EXCEPT !.fields = NewFields(q), !.version = @ + 1]

UpdatedShares(q) == Chosen(call[q].shares, splits[target[q]])

\* The two deferred constraint triggers, at commit.
BalanceTrigger(q) ==
  \/ /\ UpdatedRow(q).fields.amount = expenses[target[q]].fields.amount
     /\ call[q].shares = Keep
  \/ Balanced(UpdatedRow(q).fields.amount, UpdatedShares(q))

CommitUpdate(q) ==
  /\ At(q, "update", "commit")
  /\ \/ /\ MatchesExpected(q)
        /\ ~CategoryElsewhere(UpdatedRow(q))
        /\ BalanceTrigger(q)
        /\ expenses' = [expenses EXCEPT ![target[q]] = UpdatedRow(q)]
        /\ splits' = [splits EXCEPT ![target[q]] = UpdatedShares(q)]
        /\ applied' = [applied EXCEPT ![q] = UpdatedRow(q).version]
        /\ \/ Answer(q, Ok(target[q], UpdatedRow(q).version))
           \/ Answer(q, Told("error"))    \* committed, not acknowledged
        /\ UNCHANGED <<categories, failure>>
     \/ /\ \/ /\ ~MatchesExpected(q)
              /\ Answer(q, Told("conflict"))
              /\ UNCHANGED failure
           \/ /\ MatchesExpected(q)
              /\ ~CategoryElsewhere(UpdatedRow(q))
              /\ ~BalanceTrigger(q)
              /\ failure' = [failure EXCEPT ![q] = "unbalanced"]
              /\ Answer(q, Told("error"))
           \/ Answer(q, Told("error")) /\ UNCHANGED failure  \* rolled back
        /\ UNCHANGED <<tables, applied>>
  /\ UNCHANGED <<call, target, seen, seenShares>>

\* Mutant: a deletion leaves the version alone.
TombstoneSameVersion(row) == [row EXCEPT !.deleted = TRUE]

Tombstone(row) == [row EXCEPT !.deleted = TRUE, !.version = @ + 1]

CommitDelete(q) ==
  /\ At(q, "delete", "commit")
  /\ \/ /\ MatchesExpected(q)
        /\ LET row == Tombstone(expenses[target[q]]) IN
             /\ expenses' = [expenses EXCEPT ![target[q]] = row]
             /\ applied' = [applied EXCEPT ![q] = row.version]
             /\ \/ Answer(q, Ok(target[q], row.version))
                \/ Answer(q, Told("error"))
        /\ UNCHANGED <<splits, categories>>
     \/ /\ \/ ~MatchesExpected(q) /\ Answer(q, Told("conflict"))
           \/ Answer(q, Told("error"))
        /\ UNCHANGED <<tables, applied>>
  /\ UNCHANGED context

-----------------------------------------------------------------------------
\* The process dies, or the client's connection does, between two awaits.
Crash(q) ==
  /\ pc[q] \notin {"idle", "done"}
  /\ Answer(q, Told("lost"))
  /\ UNCHANGED <<tables, context, applied>>

\* What the server does once it has the request.
Handle(q) ==
  \/ FindById(q) \/ FindByMutation(q) \/ ResolveReplay(q)
  \/ ValidateCreate(q) \/ FindForSave(q) \/ CommitCreate(q)
  \/ ReadExpense(q) \/ ReadSplits(q) \/ ValidateUpdate(q)
  \/ CommitUpdate(q) \/ CommitDelete(q)

\* The category service changes its table; the foreign key keeps a category
\* that an expense names, deleted or not, in the space of that expense.
ChangeCategories ==
  /\ UNCHANGED <<expenses, splits, pc, context, applied, reply>>
  /\ categories' \in CategoryTables
  /\ \A i \in Ids : expenses[i] # Absent =>
       InSpace(expenses[i].fields.category, expenses[i].space)'

Next ==
  \/ \E q \in Requests : Receive(q) \/ Handle(q) \/ Crash(q)
  \/ ChangeCategories

Spec == Init /\ [][Next]_vars

\* The event loop runs the continuation of every await that has settled.
Fairness == \A q \in Requests : WF_vars(Handle(q))

-----------------------------------------------------------------------------
(* Properties                                                              *)

\* The stored shares of every expense, tombstones included, obey the
\* allocation rules of its amount and split type, although an update that
\* leaves the shares out checks the new amount and type against split rows it
\* read earlier (ensureSplitsConsistency on existingSplits).
SplitsConsistent ==
  \A i \in Ids : expenses[i] # Absent => Consistent(expenses[i].fields, splits[i])

\* Requests that have read the row they are to change.
Changing(q) == /\ pc[q] \in {"readSplits", "validate", "commit"}
               /\ call[q].op # "create"

\* Row and split rows are read by two queries, so a request may hold an old
\* row with newer shares.  As long as the stored version is still the one it
\* read, it holds neither a stale row nor stale shares.
SnapshotsCurrent ==
  \A q \in Requests : Changing(q) =>
    LET row == expenses[target[q]] IN
    /\ row # Absent
    /\ seen[q].version <= row.version
    /\ seen[q].version = row.version =>
         /\ seen[q] = row
         /\ pc[q] # "readSplits" /\ call[q].op = "update" =>
              seenShares[q] = splits[target[q]]

\* The deferred balance triggers of the database never abort the transaction of
\* an update: what its request validated is what it stores.
BalanceTriggersSilent ==
  \A q \in Requests :
    pc[q] # "idle" /\ call[q].op = "update" => failure[q] # "unbalanced"

\* No lost update: of two requests that changed one expense, each named a
\* version the other did not name and produced one the other did not produce,
\* however their reads and their transactions interleaved.
NoLostUpdate ==
  \A p, q \in Requests :
    /\ p # q
    /\ applied[p] # 0 /\ applied[q] # 0
    /\ call[p].op # "create" /\ call[q].op # "create"
    /\ call[p].id = call[q].id
    => /\ call[p].expected # call[q].expected
       /\ applied[p] # applied[q]

SameMutation(p, q) ==
  /\ call[p] # NoCall /\ call[q] # NoCall
  /\ call[p].op = "create" /\ call[q].op = "create"
  /\ call[p].space = call[q].space
  /\ call[p].mutation = call[q].mutation
  /\ call[p].mutation # NoMutation

\* The expense that holds the mutation id of q's create has been changed since.
Superseded(q) ==
  \E i \in Ids : /\ expenses[i] # Absent
                 /\ expenses[i].space = call[q].space
                 /\ expenses[i].mutation = call[q].mutation
                 /\ expenses[i].version > 1

\* Creates that carry one client mutation id, whether retried, concurrent, or
\* committed without acknowledgement, insert one expense, and those that are
\* acknowledged are acknowledged with that expense.  A create that took effect is
\* refused as a conflict, when it is made again, only if the expense has been edited
\* or deleted since: the code compares with the row as it is (resolveCreateReplay).
CreateIsIdempotent ==
  \A p, q \in Requests :
    /\ p # q
    /\ SameMutation(p, q)
    => /\ applied[p] = 0 \/ applied[q] = 0
       /\ reply[p].status = "ok" /\ reply[q].status = "ok" =>
            reply[p].id = reply[q].id
       /\ call[p] = call[q] /\ applied[p] # 0 /\ reply[q].status = "conflict" =>
            Superseded(q)

\* 'GIVEN a create with the same space and mutation identifier was accepted WHEN it
\* is submitted again THEN the API returns the existing logical record'
\* (api-platform/spec.md): it is never refused as a conflict.
RetriesReturnRecord ==
  \A p, q \in Requests :
    p # q /\ SameMutation(p, q) /\ call[p] = call[q] /\ reply[p].status = "ok" =>
      reply[q].status # "conflict"

\* A create only ever adds an expense.  Its lookups do not see a tombstone or
\* another space's expense with the id it names, and the save would then update
\* that row: a constraint of the database always undoes it.
CreatesNeverOverwrite ==
  [][\A q \in Requests : \A i \in Ids :
       /\ call[q] # NoCall /\ call[q].op = "create"
       /\ applied'[q] # applied[q]
       /\ expenses'[i] # expenses[i]
       => expenses[i] = Absent]_vars

\* A tombstone is final: no request, however long it has held a row it read
\* while the expense was live, changes a deleted expense or its shares.
TombstonesFinal ==
  [][\A i \in Ids : expenses[i] # Absent /\ expenses[i].deleted =>
       UNCHANGED <<expenses[i], splits[i]>>]_vars

\* A request only ever changes, and is only ever answered with, expenses of
\* the space it was authorised for, even when it names another space's id.
SpacesIsolated ==
  [][\A q \in Requests : \A i \in Ids :
       /\ applied'[q] # applied[q] /\ expenses'[i] # expenses[i] =>
            expenses'[i].space = call[q].space
       /\ reply'[q] # reply[q] /\ reply'[q].id = i =>
            expenses'[i].space = call[q].space]_vars

\* The category of an expense, deleted or not, is one of its own space,
\* although it was validated in an earlier step than the one that stores it.
CategoriesOfTheirSpace ==
  \A i \in Ids : expenses[i] # Absent =>
    InSpace(expenses[i].fields.category, expenses[i].space)

\* Every request the server takes is answered, unless it dies: no order of
\* lookups, failed transactions and second lookups goes round for ever.
EveryRequestAnswered ==
  \A q \in Requests : pc[q] # "idle" ~> pc[q] = "done"

\* The stored aggregates.
LedgerView == [i \in Ids |-> IF expenses[i] = Absent THEN Absent
                             ELSE Aggregate(expenses[i], splits[i])]

Ledger == INSTANCE VersionedLedger WITH
  Lawful <- Consistent, Revised <- Merge,
  ledger <- LedgerView, asked <- call, effect <- applied, answer <- reply

\* Each request takes effect at its commit, atomically and once, on the very
\* version it named: the service implements the abstract ledger.
ImplementsLedger == Ledger!LedgerSpec
=============================================================================
