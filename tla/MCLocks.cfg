SPECIFICATION LocksSpec
CONSTANTS
  gone = gone
  left = left
  Living = {p1, p2}
  Fresh = {f2, f3}
  NoFile = NoFile
  Nobody = Nobody
  ReclaimFirst = FALSE
  Process <- MCProcess
  File <- MCFile
  NoCommand = NoCommand
  NoSession = NoSession
  NoLock = NoLock
  Command = {c1, c2}
  Session = {s1, s2}
INVARIANTS
  MutualExclusion
  ActiveSessionKeepsLock
  TransitionOwnsChange
PROPERTIES
  ImplementsExclusiveLock
  LoneRequestSucceeds
  EndedOnce
  LoneTransitionOperates
CHECK_DEADLOCK FALSE
