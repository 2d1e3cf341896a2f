------------------------ MODULE MCExpenseCategories ------------------------
(***************************************************************************)
(* Small instances of ExpenseCategories: one expense, two categories that  *)
(* clients create, and the default categories of two spaces.               *)
(***************************************************************************)
EXTENDS ExpenseCategories, TLC

CONSTANTS alice, home, trip, e1, food, bills, red, blue, c1, c2, c3, c4, p1, plain

AliceOwns == [u \in {alice} |-> [s \in {home, trip} |-> "owner"]]

Fld(a, t, c, d) == [amount |-> a, splitType |-> t, category |-> c, details |-> d]

Symmetric == Permutations(Requests) \cup Permutations(CategoryRequests)
               \cup Permutations(SeedIds)

\* An expense is made with the category or without, is given it, is deleted.
ExpenseScenario == {
  [op |-> "create", user |-> alice, space |-> home, id |-> e1, mutation |-> NoMutation,
   fields |-> Fld(1, "custom", c, plain), shares |-> p1 :> 1] : c \in {c1, NoCategory}}
  \cup {
  [op |-> "update", user |-> alice, space |-> home, id |-> e1, expected |-> 1,
   patch |-> Fld(Keep, Keep, c1, Keep), shares |-> Keep],
  [op |-> "delete", user |-> alice, space |-> home, id |-> e1, expected |-> 1]}

New(s, i, n, l) == [op |-> "create", space |-> s, id |-> i, name |-> n, look |-> l]
Edit(i, n, l) == [op |-> "update", space |-> home, id |-> i, name |-> n, look |-> l]
Drop(i) == [op |-> "delete", space |-> home, id |-> i]

\* One id for a category of each space, and its deletion.
CategoryScenario == {New(home, c1, bills, red), New(trip, c1, bills, red), Drop(c1)}

\* Two categories that are created, renamed onto one another and deleted, with
\* updates that may bring a deleted one back.
RenameScenario == {
  New(home, c1, bills, red), New(home, c2, bills, blue), New(home, NoId, bills, red),
  Edit(c1, food, Keep), Edit(c1, Keep, blue), Drop(c1)}
    \cup {Edit(c, bills, Keep) : c \in SeedIds} \cup {Drop(c) : c \in SeedIds}

EveryCall == CategoryScenario \cup RenameScenario

\* A behaviour is one of both services, with two requests each, or one of the
\* category service alone, with three.
OneScenario ==
  LET called == {r \in CategoryRequests : catCall[r] # NoCall}
      made   == {catCall[r] : r \in called}
  IN  \/ Cardinality(called) <= 2 /\ made \subseteq CategoryScenario
      \/ (\A q \in Requests : pc[q] = "idle") /\ made \subseteq RenameScenario

ScenarioSpec == Init /\ [][Next /\ OneScenario']_vars
=============================================================================
