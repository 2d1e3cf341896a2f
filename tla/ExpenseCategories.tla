------------------------- MODULE ExpenseCategories -------------------------
(***************************************************************************)
(* The expense service and the category service on one database.  Each     *)
(* sees of the other only its table: the expense service checks that a     *)
(* category is live and relies on the foreign key, the category service    *)
(* counts the live expenses of a category before it deletes it.            *)
(***************************************************************************)
EXTENDS Naturals, FiniteSets

CONSTANTS
  Spaces, Users, Participants, Details, MaxCents, Mutations, NoMutation,
  NoCategory, ExpenseIds, Requests, Calls, Role,
  Names, Looks, ClientIds, SeedIds, DefaultName, DefaultLook,
  CategoryRequests, CallsOnCategories,
  NoId, Keep, Absent, NoCall

VARIABLES
  expenses, splits, pc, call, target, seen, seenShares, failure, applied, reply,
  catalog, catPc, catCall, catEntity, catFound, catReply,
  raced     \* history: categories an expense was stored with while they were
            \* being deleted, or after they had been

expenseVars  == <<expenses, splits, pc, call, target, seen, seenShares, failure,
                  applied, reply>>
categoryVars == <<catalog, catPc, catCall, catEntity, catFound, catReply>>
vars         == <<expenseVars, categoryVars, raced>>

Categories == ClientIds \cup SeedIds

\* What the expense service sees of the catalog.
CategoryView ==
  [c \in Categories |->
     IF catalog[c] = Absent THEN Absent
     ELSE [space |-> catalog[c].space, live |-> ~catalog[c].deleted]]

\* What the category service sees of the expenses.
Live(i) == expenses[i] # Absent /\ ~expenses[i].deleted

Uses ==
  {[category |-> expenses[i].fields.category, space |-> expenses[i].space,
    live |-> ~expenses[i].deleted] :
     i \in {j \in ExpenseIds : /\ expenses[j] # Absent
                               /\ expenses[j].fields.category # NoCategory}}

E == INSTANCE ExpenseService WITH
  Ids <- ExpenseIds,
  categories <- CategoryView,
  CategoryTables <- [Categories -> [space : Spaces, live : BOOLEAN] \cup {Absent}]

C == INSTANCE CategoryService WITH
  uses <- Uses, Requests <- CategoryRequests, Calls <- CallsOnCategories,
  pc <- catPc, call <- catCall, entity <- catEntity, found <- catFound,
  reply <- catReply

ASSUME CategoryDataAssumption == C!CategoryData

ASSUME AbsentIsNoCategory == Absent \notin [space : Spaces, live : BOOLEAN]

ASSUME ExpenseDataAssumption ==
  /\ E!MaxCentsIsPositive /\ E!SentinelsAreFresh /\ E!KeepIsNoData /\ E!AbsentIsNoRow
  /\ E!CallsAreCalls /\ E!RoleIsMembership /\ E!CategoryTablesAreTables

Init ==
  /\ catalog = [c \in Categories |-> Absent]
  /\ E!Init
  /\ C!Init
  /\ raced = {}

\* A deletion of the category has counted its expenses.
Deleting(c) ==
  \E r \in CategoryRequests : /\ catPc[r] \in {"find", "write"}
                              /\ catCall[r].op = "delete"
                              /\ catCall[r].id = c

\* Rows that are stored in this step with a category that is going or gone.
StoredLate ==
  {expenses'[i].fields.category : i \in {j \in ExpenseIds :
     /\ expenses'[j] # expenses[j]
     /\ \E c \in Categories : /\ c = expenses'[j].fields.category
                              /\ catalog[c].deleted \/ Deleting(c)}}

ExpenseStep ==
  /\ UNCHANGED categoryVars
  /\ \E q \in Requests : E!Receive(q) \/ E!Handle(q) \/ E!Crash(q)
  /\ raced' = raced \cup StoredLate

CategoryStep ==
  /\ UNCHANGED <<expenseVars, raced>>
  /\ \E r \in CategoryRequests : C!Step(r)

Next == ExpenseStep \/ CategoryStep

Spec == Init /\ [][Next]_vars

-----------------------------------------------------------------------------
(* Properties                                                              *)

\* No two active categories of a space have one name (CategoryService), with
\* the expense service beside it.
ActiveNamesUnique == C!ActiveNamesUnique

\* Whatever the category service does to its table is what the expense service
\* assumes of it: no category of an expense, live or deleted, leaves its space,
\* not even by a create that overwrites it.
ExpenseSideHolds == E!Spec

\* Whatever the expense service does to its rows is what the category service
\* assumes of them: they name categories of their own space, although the
\* category may have moved since it was validated.
CategorySideHolds == C!Spec

Dangling(i) ==
  /\ Live(i)
  /\ expenses[i].fields.category # NoCategory
  /\ catalog[expenses[i].fields.category].deleted

\* A live expense is left with a deleted category only where the two services
\* raced: the expense was stored after the deletion had counted.
DanglingOnlyByRace ==
  \A i \in ExpenseIds : Dangling(i) => expenses[i].fields.category \in raced
=============================================================================
