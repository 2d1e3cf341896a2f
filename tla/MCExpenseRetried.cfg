SPECIFICATION SequentialSpec
CONSTANTS
  alice = alice
  bob = bob
  carol = carol
  home = home
  trip = trip
  e1 = e1
  e2 = e2
  m1 = m1
  m2 = m2
  food = food
  plain = plain
  edited = edited
  p1 = p1
  p2 = p2
  NoId = NoId
  NoMutation = NoMutation
  NoCategory = NoCategory
  Keep = Keep
  Absent = Absent
  NoCall = NoCall
  Users <- MCUsers
  Spaces <- MCSpaces
  Role <- MCRole
  CategoryTables <- FoodStays
  Participants = {p1, p2}
  Categories = {food}
  Details = {plain, edited}
  MaxCents = 3
  Mutations = {m1, m2}
  Ids = {e1, e2}
  Requests = {q1, q2, q3}
  Calls <- RetryCalls
INVARIANTS
  RetriesReturnRecord
CHECK_DEADLOCK FALSE
