SPECIFICATION ScenarioSpec
CONSTANTS
  alice = alice
  home = home
  trip = trip
  e1 = e1
  food = food
  bills = bills
  red = red
  blue = blue
  plain = plain
  c1 = c1
  c2 = c2
  c3 = c3
  c4 = c4
  p1 = p1
  NoId = NoId
  NoMutation = NoMutation
  NoCategory = NoCategory
  Keep = Keep
  Absent = Absent
  NoCall = NoCall
  Users = {alice}
  Spaces = {home, trip}
  Role <- AliceOwns
  Participants = {p1}
  Details = {plain}
  MaxCents = 1
  Mutations = {}
  ExpenseIds = {e1}
  Calls <- ExpenseScenario
  Names = {food, bills}
  Looks = {red, blue}
  DefaultName = food
  DefaultLook = red
  ClientIds = {c1, c2}
  SeedIds = {c3, c4}
  Requests = {q1, q2}
  CategoryRequests = {r1, r2, r3}
  CallsOnCategories <- EveryCall
SYMMETRY Symmetric
INVARIANTS
  DanglingOnlyByRace
  ActiveNamesUnique
PROPERTIES
  ExpenseSideHolds
  CategorySideHolds
CHECK_DEADLOCK FALSE
