-------------------------- MODULE MCExpenseService --------------------------
(***************************************************************************)
(* Small instances of ExpenseService.  One scenario of calls per behaviour: *)
(* its requests each make any call of that scenario.                       *)
(***************************************************************************)
EXTENDS ExpenseService, MCExpenseCalls

RequestSymmetry == Permutations(Requests)

\* A behaviour keeps to the edits and creates, with a category that stays, or to
\* the two spaces, with one that moves.
EveryCall == AllCalls \cup TwoSpaces
OneScenario ==
  LET made == {call[q] : q \in Requests} \ {NoCall}
  IN  (made \subseteq AllCalls /\ categories \in FoodStays) \/ made \subseteq TwoSpaces

ScenarioSpec == Init /\ [][Next /\ OneScenario']_vars

\* One request after the other.
OneAtATime == Cardinality({q \in Requests : pc[q] \notin {"idle", "done"}}) <= 1

SequentialSpec == Init /\ [][Next /\ OneAtATime']_vars
=============================================================================
