SPECIFICATION CallsSpec
CONSTANTS
  ann = ann
  bob = bob
  s1 = s1
  NoSpace = NoSpace
  Absent = Absent
  NoCall = NoCall
  Users = {ann, bob}
  SpaceIds = {s1, s2}
  Requests = {q1, q2, q3}
  Calls <- AllCalls
  alice = alice
  carol = carol
  home = home
  trip = trip
  e1 = e1
  e2 = e2
  m1 = m1
  m2 = m2
  food = food
  plain = plain
  edited = edited
  p1 = p1
  p2 = p2
  r1 = r1
  r2 = r2
  NoId = NoId
  NoMutation = NoMutation
  NoCategory = NoCategory
  Keep = Keep
INVARIANTS
  PersonalSpacesPrivate
  ResolvedSpaceOpens
  SharedSpacesStaffed
PROPERTIES
  LoneCallSucceeds
  EveryRequestAnswered
CHECK_DEADLOCK FALSE
