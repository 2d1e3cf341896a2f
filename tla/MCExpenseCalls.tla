--------------------------- MODULE MCExpenseCalls ---------------------------
(***************************************************************************)
(* The inputs of the small instances of ExpenseService: who is a member of  *)
(* which space, the states of the table categories, and scenarios of calls. *)
(***************************************************************************)
EXTENDS ExpenseRecords, TLC

CONSTANTS alice, bob, carol, home, trip, e1, e2, m1, m2, food, plain, edited, p1, p2

MCUsers == {alice, bob, carol}
MCSpaces == {home, trip}

\* alice owns both spaces; bob is a member of home, carol of trip.
MCRole == [u \in MCUsers |-> [s \in MCSpaces |->
            IF u = alice THEN "owner"
            ELSE IF <<u, s>> \in {<<bob, home>>, <<carol, trip>>} THEN "member"
            ELSE "none"]]

\* The table categories: food is live at home, unless a run has it come and go.
Food(s, l) == food :> [space |-> s, live |-> l]
FoodStays == {Food(home, TRUE)}
FoodComesAndGoes == {Food(home, TRUE), Food(home, FALSE)}
FoodMoves == {Food(home, TRUE), Food(trip, TRUE)}

Fld(a, t, c, d) == [amount |-> a, splitType |-> t, category |-> c, details |-> d]
Create(u, s, i, m, f, sh) ==
  [op |-> "create", user |-> u, space |-> s, id |-> i, mutation |-> m,
   fields |-> f, shares |-> sh]
Update(u, s, i, v, f, sh) ==
  [op |-> "update", user |-> u, space |-> s, id |-> i, expected |-> v,
   patch |-> f, shares |-> sh]
Delete(u, s, i, v) ==
  [op |-> "delete", user |-> u, space |-> s, id |-> i, expected |-> v]

Pair(x, y) == (p1 :> x) @@ (p2 :> y)
Alone(x) == p1 :> x

Dinner == Create(bob, home, e1, m1, Fld(3, "custom", food, plain), Pair(2, 1))

\* Edits of one expense that conflict with one another: other shares of the same
\* amount, another split type on the shares there are, another amount with its
\* shares, a cleared category, a deletion; by its creator and by the owner.
EditCalls == {
  Dinner,
  Update(bob,   home, e1, 1, Fld(Keep, Keep, Keep, Keep), Pair(3, 0)),
  Update(alice, home, e1, 1, Fld(Keep, "equal", Keep, Keep), Keep),
  Update(bob,   home, e1, 1, Fld(1, Keep, Keep, Keep), Alone(1)),
  Update(alice, home, e1, 2, Fld(Keep, "equal", NoCategory, edited), Keep),
  Delete(alice, home, e1, 1),
  Delete(alice, home, e1, 2)}

\* Creates that share identifiers with one another, with or without the same
\* payload, and one that carries none; and a way to change what they made.
CreateScenario == {
  Dinner,
  Create(bob, home, e1, m1, Fld(3, "custom", food, edited), Pair(2, 1)),
  Create(bob, home, NoId, m1, Fld(3, "custom", food, plain), Pair(2, 1)),
  Create(alice, home, e2, m2, Fld(2, "equal", NoCategory, plain), Pair(1, 1)),
  Create(bob, home, NoId, NoMutation, Fld(3, "equal", NoCategory, plain), Pair(2, 1)),
  Create(bob, home, e2, m1, Fld(2, "equal", NoCategory, plain), Pair(2, 0)),
  Update(alice, home, e1, 1, Fld(Keep, Keep, Keep, edited), Keep)}

\* Edits and creates together.
AllCalls == EditCalls \cup CreateScenario

\* Two spaces: ids and mutation ids of one are named in the other, and bob
\* is no member of trip.
SpaceScenario == {
  Dinner,
  Create(carol, trip, e1, m1, Fld(3, "custom", food, plain), Pair(2, 1)),
  Create(bob, trip, e2, m2, Fld(3, "custom", food, plain), Pair(2, 1)),
  Update(alice, trip, e1, 1, Fld(Keep, Keep, Keep, edited), Keep),
  Update(bob, home, e1, 1, Fld(Keep, Keep, Keep, edited), Keep),
  Delete(carol, trip, e1, 1)}

\* Creates that name the id of an expense their lookups do not see: deleted, in
\* another space, or committed after they looked; with its participants or
\* with others.
OverwriteScenario == {
  Create(bob, home, e1, m1, Fld(3, "custom", food, plain), Alone(3)),
  Create(bob, home, e1, m2, Fld(2, "custom", NoCategory, plain), p2 :> 2),
  Create(alice, home, e1, m2, Fld(2, "custom", food, plain), Pair(1, 1)),
  Update(bob, home, e1, 1, Fld(Keep, Keep, Keep, edited), Keep),
  Delete(bob, home, e1, 1)}

\* Both.
TwoSpaces == SpaceScenario \cup OverwriteScenario

\* A create, an edit or a deletion of what it made, and the create again, one
\* after the other.
RetryCalls == {
  Dinner,
  Update(alice, home, e1, 1, Fld(Keep, Keep, Keep, edited), Keep),
  Delete(alice, home, e1, 1)}
=============================================================================
