SPECIFICATION SpaceSpec
CONSTANTS
  ann = ann
  bob = bob
  s1 = s1
  NoSpace = NoSpace
  Absent = Absent
  NoCall = NoCall
  Users = {ann, bob}
  SpaceIds = {s1, s2}
  Requests = {q1, q2}
  Calls <- AddAgain
PROPERTIES
  AddedMembersUsable
CHECK_DEADLOCK FALSE
