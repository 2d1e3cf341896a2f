SPECIFICATION GroupSpec
CONSTANTS
  ann = ann
  bob = bob
  home = home
  away = away
  p1 = p1
  p2 = p2
  c1 = c1
  g1 = g1
  annMail = annMail
  bobMail = bobMail
  mail = mail
  plain = plain
  fancy = fancy
  NoId = NoId
  NoUser = NoUser
  NoEmail = NoEmail
  NoCall = NoCall
  Keep = Keep
  Absent = Absent
  Users = {ann, bob}
  Spaces = {home}
  ClientIds = {c1}
  SeedIds = {p1, p2}
  GroupIds = {g1}
  Emails = {annMail, bobMail, mail}
  Looks = {plain, fancy}
  UserEmail <- Email
  UserLook = plain
  Stored <- Founded
  Requests = {q1, q2}
  Calls <- GroupWork
SYMMETRY RequestSymmetry
INVARIANTS
  DeletedGroupsStay
CHECK_DEADLOCK FALSE
