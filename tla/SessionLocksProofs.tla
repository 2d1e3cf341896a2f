-------------------------- MODULE SessionLocksProofs --------------------------
(***************************************************************************)
(* Proofs about SessionLocks, for every set of commands and of sessions.   *)
(***************************************************************************)
EXTENDS SessionLocks, TLAPS

-----------------------------------------------------------------------------
(* The inductive invariant *)

\* A command that does not run is gone.
RunningInv == \A c \in Command : c \in running \/ step[c] = "gone"

\* Where a command is concerned with a session.
WithSession == Releasing \cup {"write session", "remove session", "read session", "end session"}
SubjectInv == \A c \in Command : step[c] \in WithSession => subject[c] \in Session

\* A session about to be written has the lock, no file, and no other command.
StartInv ==
  \A c \in Command : step[c] = "write session" =>
    /\ record[subject[c]] = "absent"
    /\ changeLock = [by |-> c, session |-> subject[c]]
    /\ \A d \in Command \ {c} : subject[d] # subject[c]

\* A lock is released for a session that is not active, under a claim; and under
\* that claim it is not published for another one.
ReleaseInv ==
  \A c \in Command :
    /\ step[c] \in Releasing => record[subject[c]] # "active"
    /\ step[c] \in Releasing \ {"claim"} => c \in claim
    /\ step[c] \in {"compare", "unlink"} => changeLock = NoLock \/ LockOf(subject[c])

\* A transition between its publication and its release.
TransitionInv ==
  \A c \in Command : step[c] \in {"check sessions", "operate"} =>
    changeLock = [by |-> c, session |-> NoSession]

\* The end of a session has its operation lock; nothing else is called an end.
EndingSteps == {"read session", "end session"}
OperationInv ==
  \A c \in Command :
    /\ step[c] \in EndingSteps => purpose[c] = "end"
    /\ step[c] \in EndingSteps \cup Releasing /\ purpose[c] = "end" => operation[subject[c]] = c
    /\ purpose[c] = "end" => step[c] \in EndingSteps \cup Releasing \cup {"idle", "gone"}
    /\ step[c] = "end session" => record[subject[c]] \notin Ended

SessionInv ==
  /\ SessionTypeOK /\ ActiveSessionKeepsLock
  /\ RunningInv /\ SubjectInv /\ StartInv /\ ReleaseInv /\ TransitionInv /\ OperationInv

StepOf(c) == Enter(c) \/ EndSession(c) \/ SessionStep(c) \/ Exit(c)

-----------------------------------------------------------------------------
(* What a step of one command leaves alone *)

\* A step of one command moves no other.
LEMMA OtherCommands ==
  ASSUME SessionTypeOK, NEW c \in Command, StepOf(c), NEW d \in Command \ {c}
  PROVE  /\ step'[d] = step[d] /\ purpose'[d] = purpose[d] /\ subject'[d] = subject[d]
         /\ d \in running' <=> d \in running
         /\ d \in claim' <=> d \in claim
<1> USE DEF SessionTypeOK, Go
<1>1. CASE Enter(c)
  BY <1>1 DEF Enter
<1>2. CASE Leave(c)
  BY <1>2 DEF Leave
<1>3. CASE ReadLock(c)
  BY <1>3 DEF ReadLock, IsLockOfSession
<1>4. CASE ReclaimDead(c)
  BY <1>4 DEF ReclaimDead, MayBeReclaimed
<1>5. CASE PublishTransition(c)
  BY <1>5 DEF PublishTransition, Unclaimed
<1>6. CASE PublishSession(c)
  BY <1>6 DEF PublishSession, Unclaimed
<1>7. CASE CheckSessions(c)
  BY <1>7 DEF CheckSessions
<1>8. CASE Operate(c)
  BY <1>8 DEF Operate
<1>9. CASE Unlock(c)
  BY <1>9 DEF Unlock
<1>10. CASE WriteSession(c)
  BY <1>10 DEF WriteSession
<1>11. CASE RemoveSession(c)
  BY <1>11 DEF RemoveSession
<1>12. CASE EndSession(c)
  BY <1>12 DEF EndSession, OperationFree
<1>13. CASE ReadSession(c)
  BY <1>13 DEF ReadSession, LeaveOperation
<1>14. CASE WriteEnd(c)
  BY <1>14 DEF WriteEnd
<1>15. CASE ClaimLock(c)
  BY <1>15 DEF ClaimLock, MakeClaim
<1>16. CASE ReadOwner(c)
  BY <1>16 DEF ReadOwner
<1>17. CASE Unlink(c)
  BY <1>17 DEF Unlink
<1>18. CASE UnclaimLock(c)
  BY <1>18 DEF UnclaimLock, DropClaim, LeaveOperation
<1>19. CASE Exit(c)
  BY <1>19 DEF Exit
<1> QED
  BY <1>1, <1>2, <1>3, <1>4, <1>5, <1>6, <1>7, <1>8, <1>9, <1>10, <1>11, <1>12, <1>13, <1>14, <1>15, <1>16, <1>17, <1>18, <1>19 DEF StepOf, SessionStep, Transition, Ending, ReleaseLock

\* What has a session as its subject after a step.
LEMMA SubjectAfter ==
  ASSUME SessionTypeOK, NEW c \in Command, StepOf(c)
  PROVE  \/ subject'[c] = subject[c]
         \/ subject'[c] = NoSession
         \/ subject'[c] \in Session /\ record[subject'[c]] # "absent"
         \/ /\ step'[c] = "write session"
            /\ \A d \in Command : subject[d] # subject'[c]
<1> USE DEF SessionTypeOK, Go
<1>1. CASE Enter(c)
  BY <1>1 DEF Enter
<1>2. CASE Leave(c)
  BY <1>2 DEF Leave
<1>3. CASE ReadLock(c)
  BY <1>3 DEF ReadLock, IsLockOfSession, ChangeLocks, Ended
<1>4. CASE ReclaimDead(c)
  BY <1>4 DEF ReclaimDead, MayBeReclaimed
<1>5. CASE PublishTransition(c)
  BY <1>5 DEF PublishTransition, Unclaimed
<1>6. CASE PublishSession(c)
  BY <1>6 DEF PublishSession, Unclaimed
<1>7. CASE CheckSessions(c)
  BY <1>7 DEF CheckSessions
<1>8. CASE Operate(c)
  BY <1>8 DEF Operate
<1>9. CASE Unlock(c)
  BY <1>9 DEF Unlock
<1>10. CASE WriteSession(c)
  BY <1>10 DEF WriteSession
<1>11. CASE RemoveSession(c)
  BY <1>11 DEF RemoveSession
<1>12. CASE EndSession(c)
  BY <1>12 DEF EndSession, OperationFree
<1>13. CASE ReadSession(c)
  BY <1>13 DEF ReadSession, LeaveOperation
<1>14. CASE WriteEnd(c)
  BY <1>14 DEF WriteEnd
<1>15. CASE ClaimLock(c)
  BY <1>15 DEF ClaimLock, MakeClaim
<1>16. CASE ReadOwner(c)
  BY <1>16 DEF ReadOwner
<1>17. CASE Unlink(c)
  BY <1>17 DEF Unlink
<1>18. CASE UnclaimLock(c)
  BY <1>18 DEF UnclaimLock, DropClaim, LeaveOperation
<1>19. CASE Exit(c)
  BY <1>19 DEF Exit
<1> QED
  BY <1>1, <1>2, <1>3, <1>4, <1>5, <1>6, <1>7, <1>8, <1>9, <1>10, <1>11, <1>12, <1>13, <1>14, <1>15, <1>16, <1>17, <1>18, <1>19 DEF StepOf, SessionStep, Transition, Ending, ReleaseLock

\* Only the session a command is concerned with changes its state.
LEMMA RecordAfter ==
  ASSUME SessionTypeOK, NEW c \in Command, StepOf(c)
  PROVE  \/ record' = record
         \/ /\ step[c] \in {"write session", "remove session", "end session"}
            /\ \A s \in Session \ {subject[c]} : record'[s] = record[s]
<1> USE DEF SessionTypeOK, Go
<1>1. CASE Enter(c)
  BY <1>1 DEF Enter
<1>2. CASE Leave(c)
  BY <1>2 DEF Leave
<1>3. CASE ReadLock(c)
  BY <1>3 DEF ReadLock, IsLockOfSession
<1>4. CASE ReclaimDead(c)
  BY <1>4 DEF ReclaimDead, MayBeReclaimed
<1>5. CASE PublishTransition(c)
  BY <1>5 DEF PublishTransition, Unclaimed
<1>6. CASE PublishSession(c)
  BY <1>6 DEF PublishSession, Unclaimed
<1>7. CASE CheckSessions(c)
  BY <1>7 DEF CheckSessions
<1>8. CASE Operate(c)
  BY <1>8 DEF Operate
<1>9. CASE Unlock(c)
  BY <1>9 DEF Unlock
<1>10. CASE WriteSession(c)
  BY <1>10 DEF WriteSession
<1>11. CASE RemoveSession(c)
  BY <1>11 DEF RemoveSession
<1>12. CASE EndSession(c)
  BY <1>12 DEF EndSession, OperationFree
<1>13. CASE ReadSession(c)
  BY <1>13 DEF ReadSession, LeaveOperation
<1>14. CASE WriteEnd(c)
  BY <1>14 DEF WriteEnd
<1>15. CASE ClaimLock(c)
  BY <1>15 DEF ClaimLock, MakeClaim
<1>16. CASE ReadOwner(c)
  BY <1>16 DEF ReadOwner
<1>17. CASE Unlink(c)
  BY <1>17 DEF Unlink
<1>18. CASE UnclaimLock(c)
  BY <1>18 DEF UnclaimLock, DropClaim, LeaveOperation
<1>19. CASE Exit(c)
  BY <1>19 DEF Exit
<1> QED
  BY <1>1, <1>2, <1>3, <1>4, <1>5, <1>6, <1>7, <1>8, <1>9, <1>10, <1>11, <1>12, <1>13, <1>14, <1>15, <1>16, <1>17, <1>18, <1>19 DEF StepOf, SessionStep, Transition, Ending, ReleaseLock

\* The lock of a running command stays, unless it is released for its session.
LEMMA LockKept ==
  ASSUME SessionInv, NEW c \in Command, StepOf(c), NEW d \in Command \ {c},
         NEW s \in Session \cup {NoSession}, changeLock = [by |-> d, session |-> s],
         d \in running, subject[c] # s \/ step[c] # "unlink"
  PROVE  changeLock' = changeLock
<1>1. changeLock # NoLock /\ changeLock.by = d /\ changeLock.session = s
  BY NoLockAssumption
<1>2. CASE ReclaimDead(c)
  BY <1>1, <1>2 DEF ReclaimDead
<1>3. CASE PublishTransition(c) \/ PublishSession(c)
  BY <1>1, <1>3 DEF PublishTransition, PublishSession
<1>4. CASE Unlock(c)
  <2>1. changeLock # [by |-> c, session |-> NoSession]
    BY <1>1
  <2> QED
    BY <1>4, <2>1 DEF Unlock
<1>5. CASE Unlink(c)
  BY <1>1, <1>5 DEF Unlink, SessionInv, ReleaseInv, LockOf
<1> QED
  BY <1>2, <1>3, <1>4, <1>5 DEF StepOf, SessionStep, Transition, Ending, ReleaseLock,
     Enter, Leave, ReadLock, CheckSessions, Operate, WriteSession, RemoveSession,
     EndSession, ReadSession, WriteEnd, ClaimLock, ReadOwner, UnclaimLock, Exit

\* A command keeps the operation lock it has.
LEMMA OperationKept ==
  ASSUME SessionInv, NEW c \in Command, StepOf(c), NEW d \in Command \ {c},
         NEW s \in Session, operation[s] = d
  PROVE  operation'[s] = d
<1> USE DEF SessionInv, SessionTypeOK
<1>1. CASE EndSession(c)
  BY <1>1, NoCommandAssumption DEF EndSession, OperationFree
<1>2. CASE ReadSession(c)
  <2>1. operation[subject[c]] = c
    BY <1>2 DEF ReadSession, OperationInv, EndingSteps
  <2> QED
    BY <1>2, <2>1 DEF ReadSession, LeaveOperation
<1>3. CASE UnclaimLock(c)
  <2>1. purpose[c] = "end" => operation[subject[c]] = c
    BY <1>3 DEF UnclaimLock, OperationInv, EndingSteps, Releasing
  <2> QED
    BY <1>3, <2>1 DEF UnclaimLock, LeaveOperation
<1>4. CASE Exit(c)
  BY <1>4 DEF Exit
<1> QED
  BY <1>1, <1>2, <1>3, <1>4 DEF StepOf, SessionStep, Transition, Ending, ReleaseLock,
     Enter, Leave, ReadLock, ReclaimDead, PublishTransition, PublishSession, CheckSessions,
     Operate, Unlock, WriteSession, RemoveSession, WriteEnd, ClaimLock, ReadOwner, Unlink

-----------------------------------------------------------------------------
(* Each part of the invariant is kept *)

\* Types.
LEMMA TypeStep ==
  ASSUME SessionInv, NEW c \in Command, StepOf(c)
  PROVE  SessionTypeOK'
<1> USE DEF SessionInv, SessionTypeOK, Go
<1>1. CASE Enter(c)
  <2>1. PICK k \in Kinds : purpose' = [purpose EXCEPT ![c] = k]
    BY <1>1 DEF Enter, Kinds
  <2>2. "read lock" \in Steps /\ step[c] \notin Releasing
    BY <1>1 DEF Enter, Steps, Releasing
  <2> QED
    BY <1>1, <2>1, <2>2 DEF Enter
<1>2. CASE Leave(c)
  BY <1>2 DEF Leave, Releasing, Steps, Kinds, Ended, ChangeLocks
<1>3. CASE ReadLock(c)
  <2>1. PICK x \in {"claim", "reclaim dead"} : Go(c, x)
    BY <1>3 DEF ReadLock
  <2>2. x \in Steps /\ step[c] \notin Releasing
    BY <1>3 DEF ReadLock, Steps, Releasing
  <2>3. subject' \in [Command -> Session \cup {NoSession}]
    BY <1>3 DEF ReadLock, IsLockOfSession, ChangeLocks
  <2> QED
    BY <1>3, <2>1, <2>2, <2>3 DEF ReadLock
<1>4. CASE ReclaimDead(c)
  BY <1>4 DEF ReclaimDead, MayBeReclaimed, Releasing, Steps, Kinds, Ended, ChangeLocks
<1>5. CASE PublishTransition(c)
  <2>1. PICK x \in {"check sessions", "leave"} : Go(c, x)
    BY <1>5 DEF PublishTransition
  <2>2. x \in Steps /\ step[c] \notin Releasing
    BY <1>5 DEF PublishTransition, Steps, Releasing
  <2>3. [by |-> c, session |-> NoSession] \in ChangeLocks
    BY DEF ChangeLocks
  <2>4. changeLock' \in ChangeLocks \cup {NoLock}
    BY <1>5, <2>3 DEF PublishTransition
  <2> QED
    BY <1>5, <2>1, <2>2, <2>4 DEF PublishTransition
<1>6. CASE PublishSession(c)
  <2>1. PICK x \in {"write session", "leave"} : Go(c, x)
    BY <1>6 DEF PublishSession
  <2>2. x \in Steps /\ step[c] \notin Releasing
    BY <1>6 DEF PublishSession, Steps, Releasing
  <2>3. \A s \in Session : [by |-> c, session |-> s] \in ChangeLocks
    BY DEF ChangeLocks
  <2>4. /\ changeLock' \in ChangeLocks \cup {NoLock}
        /\ subject' \in [Command -> Session \cup {NoSession}]
    BY <1>6, <2>3 DEF PublishSession
  <2> QED
    BY <1>6, <2>1, <2>2, <2>4 DEF PublishSession
<1>7. CASE CheckSessions(c)
  BY <1>7 DEF CheckSessions, Releasing, Steps, Kinds, Ended, ChangeLocks
<1>8. CASE Operate(c)
  BY <1>8 DEF Operate, Releasing, Steps, Kinds, Ended, ChangeLocks
<1>9. CASE Unlock(c)
  BY <1>9 DEF Unlock, Releasing, Steps, Kinds, Ended, ChangeLocks
<1>10. CASE WriteSession(c)
  BY <1>10 DEF WriteSession, Releasing, Steps, Kinds, Ended, ChangeLocks
<1>11. CASE RemoveSession(c)
  BY <1>11 DEF RemoveSession, Releasing, Steps, Kinds, Ended, ChangeLocks
<1>12. CASE EndSession(c)
  <2>1. "end" \in Kinds /\ "read session" \in Steps /\ step[c] \notin Releasing
    BY <1>12 DEF EndSession, Kinds, Steps, Releasing
  <2>2. /\ operation' \in [Session -> Command \cup {NoCommand}]
        /\ subject' \in [Command -> Session \cup {NoSession}]
    BY <1>12 DEF EndSession
  <2> QED
    BY <1>12, <2>1, <2>2 DEF EndSession
<1>13. CASE ReadSession(c)
  BY <1>13 DEF ReadSession, LeaveOperation, Releasing, Steps, Kinds, Ended, ChangeLocks
<1>14. CASE WriteEnd(c)
  BY <1>14 DEF WriteEnd, Releasing, Steps, Kinds, Ended, ChangeLocks
<1>15. CASE ClaimLock(c)
  BY <1>15 DEF ClaimLock, MakeClaim, Releasing, Steps, Kinds, Ended, ChangeLocks
<1>16. CASE ReadOwner(c)
  BY <1>16 DEF ReadOwner, Releasing, Steps, Kinds, Ended, ChangeLocks
<1>17. CASE Unlink(c)
  BY <1>17 DEF Unlink, Releasing, Steps, Kinds, Ended, ChangeLocks
<1>18. CASE UnclaimLock(c)
  BY <1>18 DEF UnclaimLock, DropClaim, LeaveOperation, Releasing, Steps, Kinds, Ended, ChangeLocks
<1>19. CASE Exit(c)
  BY <1>19 DEF Exit, Releasing, Steps, Kinds, Ended, ChangeLocks
<1> QED
  BY <1>1, <1>2, <1>3, <1>4, <1>5, <1>6, <1>7, <1>8, <1>9, <1>10, <1>11, <1>12, <1>13, <1>14, <1>15, <1>16, <1>17, <1>18, <1>19 DEF StepOf, SessionStep, Transition, Ending, ReleaseLock

\* The lock of an active session.
LEMMA ActiveStep ==
  ASSUME SessionInv, NEW c \in Command, StepOf(c)
  PROVE  ActiveSessionKeepsLock'
<1> USE DEF SessionInv, SessionTypeOK, ActiveSessionKeepsLock, LockOf, Go
<1>1. CASE Enter(c)
  BY <1>1 DEF Enter
<1>2. CASE Leave(c)
  BY <1>2 DEF Leave
<1>3. CASE ReadLock(c)
  BY <1>3 DEF ReadLock, IsLockOfSession
<1>4. CASE ReclaimDead(c)
  <2>1. ASSUME changeLock # NoLock, MayBeReclaimed(changeLock.session)
        PROVE  \A s \in Session : record[s] # "active"
    BY <2>1, NoSessionAssumption DEF MayBeReclaimed, Ended
  <2> QED
    BY <1>4, <2>1 DEF ReclaimDead
<1>5. CASE PublishTransition(c)
  BY <1>5 DEF PublishTransition, Unclaimed
<1>6. CASE PublishSession(c)
  BY <1>6 DEF PublishSession, Unclaimed
<1>7. CASE CheckSessions(c)
  BY <1>7 DEF CheckSessions
<1>8. CASE Operate(c)
  BY <1>8 DEF Operate
<1>9. CASE Unlock(c)
  BY <1>9, NoSessionAssumption DEF Unlock
<1>10. CASE WriteSession(c)
  <2>1. changeLock = [by |-> c, session |-> subject[c]] /\ subject[c] \in Session
    BY <1>10 DEF WriteSession, StartInv, SubjectInv, WithSession
  <2>2. LockOf(subject[c])
    BY <2>1, NoLockAssumption
  <2>3. \A s \in Session \ {subject[c]} : record'[s] = record[s]
    BY <1>10 DEF WriteSession
  <2> QED
    BY <1>10, <2>2, <2>3 DEF WriteSession
<1>11. CASE RemoveSession(c)
  BY <1>11 DEF RemoveSession, SubjectInv, WithSession
<1>12. CASE EndSession(c)
  BY <1>12 DEF EndSession, OperationFree
<1>13. CASE ReadSession(c)
  BY <1>13 DEF ReadSession, LeaveOperation
<1>14. CASE WriteEnd(c)
  BY <1>14 DEF WriteEnd, Ended, SubjectInv, WithSession
<1>15. CASE ClaimLock(c)
  BY <1>15 DEF ClaimLock, MakeClaim
<1>16. CASE ReadOwner(c)
  BY <1>16 DEF ReadOwner
<1>17. CASE Unlink(c)
  BY <1>17 DEF Unlink, ReleaseInv, Releasing
<1>18. CASE UnclaimLock(c)
  BY <1>18 DEF UnclaimLock, DropClaim, LeaveOperation
<1>19. CASE Exit(c)
  BY <1>19 DEF Exit
<1> QED
  BY <1>1, <1>2, <1>3, <1>4, <1>5, <1>6, <1>7, <1>8, <1>9, <1>10, <1>11, <1>12, <1>13, <1>14, <1>15, <1>16, <1>17, <1>18, <1>19 DEF StepOf, SessionStep, Transition, Ending, ReleaseLock

\* Commands that do not run.
LEMMA RunningStep ==
  ASSUME SessionInv, NEW c \in Command, StepOf(c)
  PROVE  RunningInv'
<1> USE DEF SessionInv, SessionTypeOK, RunningInv, Go
<1>1. CASE Enter(c)
  BY <1>1 DEF Enter
<1>2. CASE Leave(c)
  BY <1>2 DEF Leave
<1>3. CASE ReadLock(c)
  BY <1>3 DEF ReadLock, IsLockOfSession
<1>4. CASE ReclaimDead(c)
  BY <1>4 DEF ReclaimDead, MayBeReclaimed
<1>5. CASE PublishTransition(c)
  BY <1>5 DEF PublishTransition, Unclaimed
<1>6. CASE PublishSession(c)
  BY <1>6 DEF PublishSession, Unclaimed
<1>7. CASE CheckSessions(c)
  BY <1>7 DEF CheckSessions
<1>8. CASE Operate(c)
  BY <1>8 DEF Operate
<1>9. CASE Unlock(c)
  BY <1>9 DEF Unlock
<1>10. CASE WriteSession(c)
  BY <1>10 DEF WriteSession
<1>11. CASE RemoveSession(c)
  BY <1>11 DEF RemoveSession
<1>12. CASE EndSession(c)
  BY <1>12 DEF EndSession, OperationFree
<1>13. CASE ReadSession(c)
  BY <1>13 DEF ReadSession, LeaveOperation
<1>14. CASE WriteEnd(c)
  BY <1>14 DEF WriteEnd
<1>15. CASE ClaimLock(c)
  BY <1>15 DEF ClaimLock, MakeClaim
<1>16. CASE ReadOwner(c)
  BY <1>16 DEF ReadOwner
<1>17. CASE Unlink(c)
  BY <1>17 DEF Unlink
<1>18. CASE UnclaimLock(c)
  BY <1>18 DEF UnclaimLock, DropClaim, LeaveOperation
<1>19. CASE Exit(c)
  BY <1>19 DEF Exit
<1> QED
  BY <1>1, <1>2, <1>3, <1>4, <1>5, <1>6, <1>7, <1>8, <1>9, <1>10, <1>11, <1>12, <1>13, <1>14, <1>15, <1>16, <1>17, <1>18, <1>19 DEF StepOf, SessionStep, Transition, Ending, ReleaseLock

\* Sessions that commands are concerned with.
LEMMA SubjectStep ==
  ASSUME SessionInv, NEW c \in Command, StepOf(c)
  PROVE  SubjectInv'
<1> USE DEF SessionInv, SessionTypeOK, SubjectInv, WithSession, Releasing, Go
<1>1. CASE Enter(c)
  BY <1>1 DEF Enter
<1>2. CASE Leave(c)
  BY <1>2 DEF Leave
<1>3. CASE ReadLock(c)
  BY <1>3 DEF ReadLock, IsLockOfSession, ChangeLocks
<1>4. CASE ReclaimDead(c)
  BY <1>4 DEF ReclaimDead, MayBeReclaimed
<1>5. CASE PublishTransition(c)
  BY <1>5 DEF PublishTransition, Unclaimed
<1>6. CASE PublishSession(c)
  BY <1>6 DEF PublishSession, Unclaimed
<1>7. CASE CheckSessions(c)
  BY <1>7 DEF CheckSessions
<1>8. CASE Operate(c)
  BY <1>8 DEF Operate
<1>9. CASE Unlock(c)
  BY <1>9 DEF Unlock
<1>10. CASE WriteSession(c)
  BY <1>10 DEF WriteSession
<1>11. CASE RemoveSession(c)
  BY <1>11 DEF RemoveSession
<1>12. CASE EndSession(c)
  BY <1>12 DEF EndSession, OperationFree
<1>13. CASE ReadSession(c)
  BY <1>13 DEF ReadSession, LeaveOperation
<1>14. CASE WriteEnd(c)
  <2>1. subject[c] \in Session /\ subject' = subject
    BY <1>14 DEF WriteEnd
  <2>2. \A d \in Command \ {c} : step'[d] = step[d]
    BY <1>14 DEF WriteEnd
  <2> QED
    BY <2>1, <2>2
<1>15. CASE ClaimLock(c)
  BY <1>15 DEF ClaimLock, MakeClaim
<1>16. CASE ReadOwner(c)
  BY <1>16 DEF ReadOwner
<1>17. CASE Unlink(c)
  BY <1>17 DEF Unlink
<1>18. CASE UnclaimLock(c)
  BY <1>18 DEF UnclaimLock, DropClaim, LeaveOperation
<1>19. CASE Exit(c)
  BY <1>19 DEF Exit
<1> QED
  BY <1>1, <1>2, <1>3, <1>4, <1>5, <1>6, <1>7, <1>8, <1>9, <1>10, <1>11, <1>12, <1>13, <1>14, <1>15, <1>16, <1>17, <1>18, <1>19 DEF StepOf, SessionStep, Transition, Ending, ReleaseLock

\* A session about to be written.
LEMMA StartStep ==
  ASSUME SessionInv, NEW c \in Command, StepOf(c)
  PROVE  StartInv'
<1> USE DEF SessionInv
<1>1. ASSUME NEW d \in Command \ {c}, step'[d] = "write session"
      PROVE  /\ record'[subject'[d]] = "absent"
             /\ changeLock' = [by |-> d, session |-> subject'[d]]
             /\ \A e \in Command \ {d} : subject'[e] # subject'[d]
  <2>1. step[d] = "write session" /\ subject'[d] = subject[d]
    BY <1>1, OtherCommands
  <2>2. /\ record[subject[d]] = "absent"
        /\ changeLock = [by |-> d, session |-> subject[d]]
        /\ \A e \in Command \ {d} : subject[e] # subject[d]
        /\ subject[d] \in Session
    BY <2>1 DEF StartInv, SubjectInv, WithSession
  <2>3. changeLock' = changeLock
    BY <2>1, <2>2, LockKept DEF RunningInv
  <2>4. record'[subject[d]] = "absent"
    BY <2>2, RecordAfter
  <2>5. subject'[c] # subject[d]
    BY <2>2, SubjectAfter, NoSessionAssumption
  <2>6. \A e \in Command \ {d} : subject'[e] # subject[d]
    BY <2>2, <2>5, OtherCommands
  <2> QED
    BY <2>1, <2>2, <2>3, <2>4, <2>6
<1>2. ASSUME step'[c] = "write session"
      PROVE  /\ record'[subject'[c]] = "absent"
             /\ changeLock' = [by |-> c, session |-> subject'[c]]
             /\ \A e \in Command \ {c} : subject'[e] # subject'[c]
  <2>1. PublishSession(c)
    <3> USE DEF SessionTypeOK, Go
    <3>1. CASE Enter(c)
      BY <3>1, <1>2 DEF Enter
    <3>2. CASE Leave(c)
      BY <3>2, <1>2 DEF Leave
    <3>3. CASE ReadLock(c)
      BY <3>3, <1>2 DEF ReadLock, IsLockOfSession
    <3>4. CASE ReclaimDead(c)
      BY <3>4, <1>2 DEF ReclaimDead, MayBeReclaimed
    <3>5. CASE PublishTransition(c)
      BY <3>5, <1>2 DEF PublishTransition, Unclaimed
    <3>6. CASE PublishSession(c)
      BY <3>6
    <3>7. CASE CheckSessions(c)
      BY <3>7, <1>2 DEF CheckSessions
    <3>8. CASE Operate(c)
      BY <3>8, <1>2 DEF Operate
    <3>9. CASE Unlock(c)
      BY <3>9, <1>2 DEF Unlock
    <3>10. CASE WriteSession(c)
      BY <3>10, <1>2 DEF WriteSession
    <3>11. CASE RemoveSession(c)
      BY <3>11, <1>2 DEF RemoveSession
    <3>12. CASE EndSession(c)
      BY <3>12, <1>2 DEF EndSession, OperationFree
    <3>13. CASE ReadSession(c)
      BY <3>13, <1>2 DEF ReadSession, LeaveOperation
    <3>14. CASE WriteEnd(c)
      BY <3>14, <1>2 DEF WriteEnd
    <3>15. CASE ClaimLock(c)
      BY <3>15, <1>2 DEF ClaimLock, MakeClaim
    <3>16. CASE ReadOwner(c)
      BY <3>16, <1>2 DEF ReadOwner
    <3>17. CASE Unlink(c)
      BY <3>17, <1>2 DEF Unlink
    <3>18. CASE UnclaimLock(c)
      BY <3>18, <1>2 DEF UnclaimLock, DropClaim, LeaveOperation
    <3>19. CASE Exit(c)
      BY <3>19, <1>2 DEF Exit
    <3> QED
      BY <3>1, <3>2, <3>3, <3>4, <3>5, <3>6, <3>7, <3>8, <3>9, <3>10, <3>11, <3>12, <3>13, <3>14, <3>15, <3>16, <3>17, <3>18, <3>19 DEF StepOf, SessionStep, Transition, Ending, ReleaseLock
  <2>2. PICK s \in Session : /\ record[s] = "absent"
                             /\ \A d \in Command : subject[d] # s
                             /\ changeLock' = [by |-> c, session |-> s]
                             /\ subject' = [subject EXCEPT ![c] = s]
                             /\ record' = record
    BY <1>2, <2>1 DEF PublishSession, Go, SessionTypeOK
  <2> QED
    BY <2>2 DEF SessionTypeOK
<1> QED
  BY <1>1, <1>2 DEF StartInv

\* The release of a lock.
LEMMA ReleaseStep ==
  ASSUME SessionInv, NEW c \in Command, StepOf(c)
  PROVE  ReleaseInv'
<1> USE DEF SessionInv, SessionTypeOK, ReleaseInv, Releasing, LockOf, Go
<1>1. CASE Enter(c)
  BY <1>1 DEF Enter
<1>2. CASE Leave(c)
  BY <1>2 DEF Leave
<1>3. CASE ReadLock(c)
  BY <1>3 DEF ReadLock, IsLockOfSession, Ended
<1>4. CASE ReclaimDead(c)
  BY <1>4 DEF ReclaimDead, MayBeReclaimed
<1>5. CASE PublishTransition(c)
  BY <1>5 DEF PublishTransition, Unclaimed
<1>6. CASE PublishSession(c)
  BY <1>6 DEF PublishSession, Unclaimed
<1>7. CASE CheckSessions(c)
  BY <1>7 DEF CheckSessions
<1>8. CASE Operate(c)
  BY <1>8 DEF Operate
<1>9. CASE Unlock(c)
  BY <1>9 DEF Unlock
<1>10. CASE WriteSession(c)
  <2>1. \A d \in Command \ {c} : step'[d] = step[d] /\ subject[d] # subject[c]
    BY <1>10 DEF WriteSession, StartInv
  <2>2. /\ UNCHANGED <<changeLock, claim, subject>> /\ step'[c] \notin Releasing
        /\ \A s \in Session \ {subject[c]} : record'[s] = record[s]
    BY <1>10 DEF WriteSession
  <2>3. \A d \in Command \ {c} : step[d] \in Releasing => subject[d] \in Session
    BY DEF SubjectInv, WithSession
  <2> QED
    BY <2>1, <2>2, <2>3
<1>11. CASE RemoveSession(c)
  BY <1>11 DEF RemoveSession, SubjectInv, WithSession
<1>12. CASE EndSession(c)
  BY <1>12 DEF EndSession, OperationFree
<1>13. CASE ReadSession(c)
  BY <1>13 DEF ReadSession, LeaveOperation
<1>14. CASE WriteEnd(c)
  BY <1>14 DEF WriteEnd, Ended, SubjectInv, WithSession
<1>15. CASE ClaimLock(c)
  BY <1>15 DEF ClaimLock, MakeClaim
<1>16. CASE ReadOwner(c)
  BY <1>16 DEF ReadOwner
<1>17. CASE Unlink(c)
  BY <1>17 DEF Unlink
<1>18. CASE UnclaimLock(c)
  BY <1>18 DEF UnclaimLock, DropClaim, LeaveOperation
<1>19. CASE Exit(c)
  BY <1>19 DEF Exit
<1> QED
  BY <1>1, <1>2, <1>3, <1>4, <1>5, <1>6, <1>7, <1>8, <1>9, <1>10, <1>11, <1>12, <1>13, <1>14, <1>15, <1>16, <1>17, <1>18, <1>19 DEF StepOf, SessionStep, Transition, Ending, ReleaseLock

\* A transition and its lock.
LEMMA TransitionStep ==
  ASSUME SessionInv, NEW c \in Command, StepOf(c)
  PROVE  TransitionInv'
<1> USE DEF SessionInv
<1>1. ASSUME NEW d \in Command \ {c}, step'[d] \in {"check sessions", "operate"}
      PROVE  changeLock' = [by |-> d, session |-> NoSession]
  <2>1. step[d] \in {"check sessions", "operate"}
    BY <1>1, OtherCommands
  <2>2. changeLock = [by |-> d, session |-> NoSession] /\ d \in running
    BY <2>1 DEF TransitionInv, RunningInv
  <2>3. step[c] = "unlink" => subject[c] # NoSession
    BY NoSessionAssumption DEF SubjectInv, WithSession, Releasing
  <2> QED
    BY <2>2, <2>3, LockKept
<1>2. ASSUME step'[c] \in {"check sessions", "operate"}
      PROVE  changeLock' = [by |-> c, session |-> NoSession]
  <2> USE DEF SessionTypeOK, Go
  <2>1. CASE Enter(c)
    BY <2>1, <1>2 DEF Enter
  <2>2. CASE Leave(c)
    BY <2>2, <1>2 DEF Leave
  <2>3. CASE ReadLock(c)
    BY <2>3, <1>2 DEF ReadLock, IsLockOfSession
  <2>4. CASE ReclaimDead(c)
    BY <2>4, <1>2 DEF ReclaimDead, MayBeReclaimed
  <2>5. CASE PublishTransition(c)
    BY <2>5, <1>2 DEF PublishTransition, Unclaimed
  <2>6. CASE PublishSession(c)
    BY <2>6, <1>2 DEF PublishSession, Unclaimed
  <2>7. CASE CheckSessions(c)
    BY <2>7, <1>2 DEF CheckSessions, TransitionInv
  <2>8. CASE Operate(c)
    BY <2>8, <1>2 DEF Operate
  <2>9. CASE Unlock(c)
    BY <2>9, <1>2 DEF Unlock
  <2>10. CASE WriteSession(c)
    BY <2>10, <1>2 DEF WriteSession
  <2>11. CASE RemoveSession(c)
    BY <2>11, <1>2 DEF RemoveSession
  <2>12. CASE EndSession(c)
    BY <2>12, <1>2 DEF EndSession, OperationFree
  <2>13. CASE ReadSession(c)
    BY <2>13, <1>2 DEF ReadSession, LeaveOperation
  <2>14. CASE WriteEnd(c)
    BY <2>14, <1>2 DEF WriteEnd
  <2>15. CASE ClaimLock(c)
    BY <2>15, <1>2 DEF ClaimLock, MakeClaim
  <2>16. CASE ReadOwner(c)
    BY <2>16, <1>2 DEF ReadOwner
  <2>17. CASE Unlink(c)
    BY <2>17, <1>2 DEF Unlink
  <2>18. CASE UnclaimLock(c)
    BY <2>18, <1>2 DEF UnclaimLock, DropClaim, LeaveOperation
  <2>19. CASE Exit(c)
    BY <2>19, <1>2 DEF Exit
  <2> QED
    BY <2>1, <2>2, <2>3, <2>4, <2>5, <2>6, <2>7, <2>8, <2>9, <2>10, <2>11, <2>12, <2>13, <2>14, <2>15, <2>16, <2>17, <2>18, <2>19 DEF StepOf, SessionStep, Transition, Ending, ReleaseLock
<1> QED
  BY <1>1, <1>2 DEF TransitionInv

\* The end of a session.
LEMMA OperationStep ==
  ASSUME SessionInv, NEW c \in Command, StepOf(c)
  PROVE  OperationInv'
<1> USE DEF SessionInv
<1>1. ASSUME NEW d \in Command \ {c}
      PROVE  /\ step'[d] \in EndingSteps => purpose'[d] = "end"
             /\ step'[d] \in EndingSteps \cup Releasing /\ purpose'[d] = "end"
                  => operation'[subject'[d]] = d
             /\ purpose'[d] = "end" => step'[d] \in EndingSteps \cup Releasing \cup {"idle", "gone"}
             /\ step'[d] = "end session" => record'[subject'[d]] \notin Ended
  <2>1. step'[d] = step[d] /\ purpose'[d] = purpose[d] /\ subject'[d] = subject[d]
    BY OtherCommands
  <2>2. step[d] \in EndingSteps \cup Releasing => subject[d] \in Session
    BY DEF SubjectInv, WithSession, EndingSteps
  <2>3. step[d] \in EndingSteps \cup Releasing /\ purpose[d] = "end" => operation'[subject[d]] = d
    BY <2>2, OperationKept DEF OperationInv
  <2>4. ASSUME step[d] = "end session" PROVE record'[subject[d]] \notin Ended
    <3>1. record[subject[d]] \notin Ended /\ subject[d] \in Session /\ operation[subject[d]] = d
      BY <2>2, <2>4 DEF OperationInv, EndingSteps
    <3>2. CASE WriteEnd(c)
      <4>1. operation[subject[c]] = c
        BY <3>2 DEF WriteEnd, OperationInv, EndingSteps
      <4> QED
        BY <3>1, <3>2, <4>1 DEF WriteEnd, SessionTypeOK
    <3>3. CASE WriteSession(c) \/ RemoveSession(c)
      BY <3>1, <3>3 DEF WriteSession, RemoveSession, SessionTypeOK, Ended
    <3> QED
      BY <3>1, <3>2, <3>3 DEF StepOf, SessionStep, Transition, Ending, ReleaseLock,
         Enter, Leave, ReadLock, ReclaimDead, PublishTransition, PublishSession,
         CheckSessions, Operate, Unlock, EndSession, ReadSession, ClaimLock, ReadOwner,
         Unlink, UnclaimLock, Exit
  <2> QED
    BY <2>1, <2>3, <2>4 DEF OperationInv
<1>2. /\ step'[c] \in EndingSteps => purpose'[c] = "end"
      /\ step'[c] \in EndingSteps \cup Releasing /\ purpose'[c] = "end"
           => operation'[subject'[c]] = c
      /\ purpose'[c] = "end" => step'[c] \in EndingSteps \cup Releasing \cup {"idle", "gone"}
      /\ step'[c] = "end session" => record'[subject'[c]] \notin Ended
  <2> USE DEF SessionTypeOK, Go
  <2>1. CASE Enter(c)
    <3>1. step'[c] = "read lock" /\ purpose'[c] # "end"
      BY <2>1 DEF Enter
    <3> QED
      BY <3>1 DEF EndingSteps
  <2>2. CASE Leave(c)
    BY <2>2 DEF Leave, OperationInv, EndingSteps, Releasing
  <2>3. CASE ReadLock(c)
    <3>1. purpose[c] # "end"
      BY <2>3 DEF ReadLock, OperationInv, EndingSteps, Releasing
    <3>2. step'[c] \notin EndingSteps /\ purpose'[c] # "end"
      BY <2>3, <3>1 DEF ReadLock, IsLockOfSession, EndingSteps
    <3> QED
      BY <3>2 DEF EndingSteps
  <2>4. CASE ReclaimDead(c)
    BY <2>4 DEF ReclaimDead, MayBeReclaimed, OperationInv, EndingSteps, Releasing
  <2>5. CASE PublishTransition(c)
    <3>1. purpose[c] # "end"
      BY <2>5 DEF PublishTransition, OperationInv, EndingSteps, Releasing
    <3>2. step'[c] \notin EndingSteps /\ purpose'[c] # "end"
      BY <2>5, <3>1 DEF PublishTransition, Unclaimed, EndingSteps
    <3> QED
      BY <3>2 DEF EndingSteps
  <2>6. CASE PublishSession(c)
    <3>1. purpose[c] # "end"
      BY <2>6 DEF PublishSession, OperationInv, EndingSteps, Releasing
    <3>2. step'[c] \notin EndingSteps /\ purpose'[c] # "end"
      BY <2>6, <3>1 DEF PublishSession, Unclaimed, EndingSteps
    <3> QED
      BY <3>2 DEF EndingSteps
  <2>7. CASE CheckSessions(c)
    BY <2>7 DEF CheckSessions, OperationInv, EndingSteps, Releasing
  <2>8. CASE Operate(c)
    BY <2>8 DEF Operate, OperationInv, EndingSteps, Releasing
  <2>9. CASE Unlock(c)
    <3>1. purpose[c] # "end"
      BY <2>9 DEF Unlock, OperationInv, EndingSteps, Releasing
    <3>2. step'[c] \notin EndingSteps /\ purpose'[c] # "end"
      BY <2>9, <3>1 DEF Unlock, EndingSteps
    <3> QED
      BY <3>2 DEF EndingSteps
  <2>10. CASE WriteSession(c)
    <3>1. purpose[c] # "end"
      BY <2>10 DEF WriteSession, OperationInv, EndingSteps, Releasing
    <3>2. step'[c] \notin EndingSteps /\ purpose'[c] # "end"
      BY <2>10, <3>1 DEF WriteSession, EndingSteps
    <3> QED
      BY <3>2 DEF EndingSteps
  <2>11. CASE RemoveSession(c)
    BY <2>11 DEF RemoveSession, OperationInv, EndingSteps, Releasing
  <2>12. CASE EndSession(c)
    <3>1. PICK s \in Session : /\ operation' = [operation EXCEPT ![s] = c]
                               /\ subject' = [subject EXCEPT ![c] = s]
      BY <2>12 DEF EndSession
    <3>2. operation'[s] = c /\ subject'[c] = s
      BY <3>1
    <3>3. step'[c] = "read session" /\ purpose'[c] = "end"
      BY <2>12 DEF EndSession
    <3> QED
      BY <3>2, <3>3 DEF EndingSteps, Releasing
  <2>13. CASE ReadSession(c)
    BY <2>13 DEF ReadSession, LeaveOperation, OperationInv, EndingSteps, Releasing, Ended
  <2>14. CASE WriteEnd(c)
    BY <2>14 DEF WriteEnd, OperationInv, EndingSteps, Releasing, SubjectInv, WithSession
  <2>15. CASE ClaimLock(c)
    BY <2>15 DEF ClaimLock, MakeClaim, OperationInv, EndingSteps, Releasing
  <2>16. CASE ReadOwner(c)
    <3>1. /\ UNCHANGED <<purpose, operation, subject>>
          /\ step[c] \in Releasing /\ step'[c] \in Releasing \ EndingSteps
      BY <2>16 DEF ReadOwner, EndingSteps, Releasing
    <3> QED
      BY <3>1 DEF OperationInv, EndingSteps
  <2>17. CASE Unlink(c)
    BY <2>17 DEF Unlink, OperationInv, EndingSteps, Releasing
  <2>18. CASE UnclaimLock(c)
    <3>1. CASE purpose[c] = "end"
      <4>1. step'[c] = "idle"
        BY <2>18, <3>1 DEF UnclaimLock, LeaveOperation
      <4> QED
        BY <4>1 DEF EndingSteps, Releasing
    <3>2. CASE purpose[c] # "end"
      <4>1. purpose'[c] # "end" /\ step'[c] \notin EndingSteps
        BY <2>18, <3>2 DEF UnclaimLock, EndingSteps
      <4> QED
        BY <4>1 DEF EndingSteps
    <3> QED
      BY <3>1, <3>2
  <2>19. CASE Exit(c)
    BY <2>19 DEF Exit, OperationInv, EndingSteps, Releasing
  <2> QED
    BY <2>1, <2>2, <2>3, <2>4, <2>5, <2>6, <2>7, <2>8, <2>9, <2>10, <2>11, <2>12, <2>13, <2>14, <2>15, <2>16, <2>17, <2>18, <2>19 DEF StepOf, SessionStep, Transition, Ending, ReleaseLock
<1> QED
  BY <1>1, <1>2 DEF OperationInv

-----------------------------------------------------------------------------
(* Theorems *)

\* The invariant holds: types, the lock of each active session, and where each
\* command stands with its session, its claim and its operation lock.
THEOREM SessionInvariant == SessionSpec => []SessionInv
<1>1. SessionInit => SessionInv
  <2> SUFFICES ASSUME SessionInit PROVE SessionInv
    OBVIOUS
  <2>1. SessionTypeOK
    BY DEF SessionInit, SessionTypeOK, Kinds, Steps
  <2> QED
    BY <2>1 DEF SessionInit, SessionInv, ActiveSessionKeepsLock, RunningInv, SubjectInv,
       StartInv, ReleaseInv, TransitionInv, OperationInv, WithSession, Releasing, EndingSteps
<1>2. SessionInv /\ [SessionNext]_sessionVars => SessionInv'
  <2> SUFFICES ASSUME SessionInv, [SessionNext]_sessionVars PROVE SessionInv'
    OBVIOUS
  <2>1. CASE SessionNext
    <3>1. PICK c \in Command : StepOf(c)
      BY <2>1 DEF SessionNext, StepOf
    <3> QED
      BY <3>1, TypeStep, ActiveStep, RunningStep, SubjectStep, StartStep, ReleaseStep,
         TransitionStep, OperationStep DEF SessionInv
  <2>2. CASE UNCHANGED sessionVars
    BY <2>2 DEF SessionInv, sessionVars, SessionTypeOK, ActiveSessionKeepsLock, LockOf,
       RunningInv, SubjectInv, StartInv, ReleaseInv, TransitionInv, OperationInv
  <2> QED
    BY <2>1, <2>2
<1> QED
  BY <1>1, <1>2, PTL DEF SessionSpec

\* Every variable keeps its type, and a claim is had only while releasing.
THEOREM SessionTypeCorrect == SessionSpec => []SessionTypeOK
BY SessionInvariant, PTL DEF SessionInv

\* The lock of a change stays with its active session, for any number of commands
\* that start, end, reclaim, release or die.
THEOREM ActiveSessionsKeepLocks == SessionSpec => []ActiveSessionKeepsLock
BY SessionInvariant, PTL DEF SessionInv

\* A transition operates with the lock of its change, without an active session and
\* without another transition.
THEOREM TransitionsOwnChanges == SessionSpec => []TransitionOwnsChange
<1>1. SessionInv => TransitionOwnsChange
  <2> SUFFICES ASSUME SessionInv, NEW c \in Command, step[c] = "operate"
               PROVE  /\ changeLock = [by |-> c, session |-> NoSession]
                      /\ \A s \in Session : record[s] # "active"
                      /\ \A d \in Command : step[d] = "operate" => d = c
    BY DEF TransitionOwnsChange
  <2>1. changeLock = [by |-> c, session |-> NoSession]
    BY DEF SessionInv, TransitionInv
  <2>2. \A s \in Session : record[s] # "active"
    BY <2>1, NoSessionAssumption DEF SessionInv, ActiveSessionKeepsLock, LockOf
  <2>3. \A d \in Command : step[d] = "operate" => d = c
    BY <2>1 DEF SessionInv, TransitionInv
  <2> QED
    BY <2>1, <2>2, <2>3
<1> QED
  BY <1>1, SessionInvariant, PTL

\* A session that has ended keeps its end, or is removed by its failed start.
THEOREM SessionsEndOnce == SessionSpec => EndedOnce
<1>1. SessionInv /\ [SessionNext]_sessionVars
      => [\A s \in Session : record[s] \in Ended => record'[s] \in {record[s], "absent"}]_sessionVars
  <2> SUFFICES ASSUME SessionInv, SessionNext, NEW s \in Session, record[s] \in Ended
               PROVE  record'[s] \in {record[s], "absent"}
    OBVIOUS
  <2>1. PICK c \in Command : StepOf(c)
    BY DEF SessionNext, StepOf
  <2>2. CASE WriteSession(c)
    <3>1. record[subject[c]] = "absent"
      BY <2>2 DEF WriteSession, SessionInv, StartInv
    <3> QED
      BY <2>2, <3>1 DEF WriteSession, SessionInv, SessionTypeOK, Ended
  <2>3. CASE RemoveSession(c)
    BY <2>3 DEF RemoveSession, SessionInv, SessionTypeOK
  <2>4. CASE WriteEnd(c)
    <3>1. record[subject[c]] \notin Ended
      BY <2>4 DEF WriteEnd, SessionInv, OperationInv
    <3> QED
      BY <2>4, <3>1 DEF WriteEnd, SessionInv, SessionTypeOK
  <2> QED
    BY <2>1, <2>2, <2>3, <2>4 DEF StepOf, SessionStep, Transition, Ending, ReleaseLock,
       Enter, Leave, ReadLock, ReclaimDead, PublishTransition, PublishSession,
       CheckSessions, Operate, Unlock, EndSession, ReadSession, ClaimLock, ReadOwner,
       Unlink, UnclaimLock, Exit
<1> QED
  BY <1>1, SessionInvariant, PTL DEF SessionSpec, EndedOnce

=============================================================================
