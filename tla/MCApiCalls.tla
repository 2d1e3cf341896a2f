----------------------------- MODULE MCApiCalls -----------------------------
(***************************************************************************)
(* Small instances of SpaceMembership and of ExpenseService whose calls    *)
(* are to be answered.  The two share nothing here: a behaviour is one of  *)
(* the spaces or one of the expenses, and the other part stays as it began. *)
(***************************************************************************)
EXTENDS MCSpaceMembership

CONSTANTS
  alice, carol, home, trip, e1, e2, m1, m2, food, plain, edited, p1, p2, r1, r2,
  NoId, NoMutation, NoCategory, Keep

VARIABLES
  part,
  expenses, splits, categories, handler, payload, target, row, seenShares, failure,
  applied, answer

expenseVars == <<expenses, splits, categories, handler, payload, target, row, seenShares,
                 failure, applied, answer>>

\* Edits and creates of two requests, with a category that comes and goes.
Inputs == INSTANCE MCExpenseCalls WITH
  Users <- {alice, bob, carol}, Spaces <- {home, trip}, Participants <- {p1, p2},
  Categories <- {food}, Details <- {plain, edited}, Ids <- {e1, e2},
  Mutations <- {m1, m2}, MaxCents <- 3

E == INSTANCE ExpenseService WITH
  Users <- {alice, bob, carol}, Spaces <- {home, trip}, Participants <- {p1, p2},
  Categories <- {food}, Details <- {plain, edited}, Ids <- {e1, e2},
  Mutations <- {m1, m2}, MaxCents <- 3, Requests <- {r1, r2},
  Calls <- Inputs!AllCalls, Role <- Inputs!MCRole,
  CategoryTables <- Inputs!FoodComesAndGoes,
  pc <- handler, call <- payload, seen <- row, reply <- answer

CallsInit ==
  /\ part \in {"spaces", "expenses"}
  /\ SpaceInit /\ E!Init
  /\ part = "spaces" => categories \in Inputs!FoodStays

CallsNext ==
  \/ /\ part = "spaces"
     /\ SpaceNext /\ AddressesInTheWay'
     /\ UNCHANGED <<part, expenseVars>>
  \/ part = "expenses" /\ E!Next /\ UNCHANGED <<part, vars>>

\* SpaceFairness and the Fairness of ExpenseService, each for the behaviours of its part.
CallsSpec ==
  /\ CallsInit /\ [][CallsNext]_<<part, vars, expenseVars>>
  /\ \A q \in Requests : WF_vars(part = "spaces" /\ Handle(q))
  /\ \A r \in {r1, r2} : WF_expenseVars(part = "expenses" /\ E!Handle(r))

\* Every call on expenses that the server takes is answered, unless it dies.
EveryRequestAnswered == E!EveryRequestAnswered
=============================================================================
