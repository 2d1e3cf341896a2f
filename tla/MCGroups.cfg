SPECIFICATION ScenarioSpec
CONSTANTS
  ann = ann
  bob = bob
  home = home
  away = away
  p1 = p1
  p2 = p2
  c1 = c1
  g1 = g1
  annMail = annMail
  bobMail = bobMail
  mail = mail
  plain = plain
  fancy = fancy
  NoId = NoId
  NoUser = NoUser
  NoEmail = NoEmail
  NoCall = NoCall
  Keep = Keep
  Absent = Absent
  Users = {ann, bob}
  Spaces = {home, away}
  ClientIds = {c1}
  SeedIds = {p1, p2, p3, p4, p5}
  GroupIds = {g1, g2}
  Emails = {annMail, bobMail, mail}
  Looks = {plain, fancy}
  UserEmail <- Email
  UserLook = plain
  Stored <- Begun
  Requests = {q1, q2, q3}
  Calls <- EveryCall
SYMMETRY RequestSymmetry
INVARIANTS
  MembersOfTheirSpace
  ActiveEmailsUnique
  GroupsKeepOwner
  DepartedOnlyByRace
PROPERTIES
  UndisturbedUpdateSyncs
CHECK_DEADLOCK FALSE
