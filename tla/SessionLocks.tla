----------------------------- MODULE SessionLocks -----------------------------
(***************************************************************************)
(* Who may work on a change: planning-lock.ts, session.ts and the session  *)
(* store.  A change has one lock file.  A transition (plan, archive,       *)
(* investigation, human resolution, open-task) holds it while its command  *)
(* runs; a session holds it from its start until it is aborted or          *)
(* committed, over many commands.  Starts and transitions run under the    *)
(* repository lock; the end of a session runs under the operation lock of  *)
(* that session only.                                                      *)
(*                                                                         *)
(* The repository lock and the operation locks are exclusive locks that a  *)
(* dead process loses, as PreparedLock shows of lock files; for the same   *)
(* reason the publication and the reclaim of the change lock are one step. *)
(* The release of a session's lock is not: it runs under a claim only.     *)
(***************************************************************************)
EXTENDS Naturals

CONSTANTS Command, Session, NoCommand, NoSession, NoLock

ASSUME NoCommandAssumption == NoCommand \notin Command
ASSUME NoSessionAssumption == NoSession \notin Session
ASSUME NoLockAssumption == NoLock \notin [by : Command, session : Session \cup {NoSession}]

VARIABLES
  changeLock, \* what the lock file says: its writer, and the session or none
  record,     \* the state in each session's file
  repository, \* the command that has the repository lock
  operation,  \* the command that has the operation lock of a session
  claim,      \* the commands that have a claim on the change lock
  running,    \* the commands that run
  step,       \* where a command stands
  purpose,    \* what it was called for
  subject     \* the session it starts or ends, or whose lock it removes

sessionVars == <<changeLock, record, repository, operation, claim, running, step,
                 purpose, subject>>

ChangeLocks == [by : Command, session : Session \cup {NoSession}]
Ended == {"aborted", "committed"}
Kinds == {"transition", "open-task", "start", "failed start", "end"}
Steps == {"idle", "read lock", "reclaim dead", "publish", "check sessions", "operate",
          "unlock", "write session", "remove session", "leave",
          "read session", "end session",
          "claim", "read owner", "compare", "unlink", "unclaim", "gone"}
Releasing == {"claim", "read owner", "compare", "unlink", "unclaim"}

SessionTypeOK ==
  /\ changeLock \in ChangeLocks \cup {NoLock}
  /\ record \in [Session -> {"absent", "active"} \cup Ended]
  /\ repository \in Command \cup {NoCommand}
  /\ operation \in [Session -> Command \cup {NoCommand}]
  /\ claim \subseteq Command
  /\ running \subseteq Command
  /\ step \in [Command -> Steps]
  /\ purpose \in [Command -> Kinds]
  /\ subject \in [Command -> Session \cup {NoSession}]
  /\ \A c \in Command : c \in claim => step[c] \in Releasing

SessionInit ==
  /\ changeLock = NoLock
  /\ record = [s \in Session |-> "absent"]
  /\ repository = NoCommand
  /\ operation = [s \in Session |-> NoCommand]
  /\ claim = {}
  /\ running = Command
  /\ step = [c \in Command |-> "idle"]
  /\ purpose = [c \in Command |-> "transition"]
  /\ subject = [c \in Command |-> NoSession]

-----------------------------------------------------------------------------
Go(c, place) == step' = [step EXCEPT ![c] = place]

LockOf(s) == changeLock # NoLock /\ changeLock.session = s
IsLockOfSession == changeLock # NoLock /\ changeLock.session # NoSession

\* withRepositoryLifecycleOperation: a transition or the start of a session.
\* An occupied repository lock refuses the command.
Enter(c) ==
  /\ step[c] = "idle" /\ c \in running
  /\ repository = NoCommand
  /\ repository' = c
  /\ \E k \in {"transition", "open-task", "start"} : purpose' = [purpose EXCEPT ![c] = k]
  /\ Go(c, "read lock")
  /\ UNCHANGED <<changeLock, record, operation, claim, running, subject>>

Leave(c) ==
  /\ step[c] = "leave"
  /\ repository' = NoCommand
  /\ subject' = [subject EXCEPT ![c] = NoSession]
  /\ Go(c, "idle")
  /\ UNCHANGED <<changeLock, record, operation, claim, running, purpose>>

\* reclaimTerminalSessionLock: the lock of a session that has ended is released.
ReadLock(c) ==
  /\ step[c] = "read lock"
  /\ IF IsLockOfSession /\ record[changeLock.session] \in Ended
     THEN /\ subject' = [subject EXCEPT ![c] = changeLock.session]
          /\ Go(c, "claim")
     ELSE Go(c, "reclaim dead") /\ UNCHANGED subject
  /\ UNCHANGED <<changeLock, record, repository, operation, claim, running, purpose>>

\* sessionLockMayBeReclaimed.  Mutants: the session's file is not looked at, and
\* a session without a file is left alone.
MayBeReclaimedAlways(s) == TRUE
MayBeReclaimedEnded(s) == s = NoSession \/ record[s] \in Ended
MayBeReclaimed(s) == s = NoSession \/ record[s] \in {"absent"} \cup Ended

\* reclaimDeadTransitionLock: the lock of a command that died.
ReclaimDead(c) ==
  /\ step[c] = "reclaim dead"
  /\ IF /\ changeLock # NoLock
        /\ changeLock.by \notin running
        /\ MayBeReclaimed(changeLock.session)
        /\ claim = {}
     THEN changeLock' = NoLock
     ELSE UNCHANGED changeLock
  /\ Go(c, "publish")
  /\ UNCHANGED <<record, repository, operation, claim, running, purpose, subject>>

\* A lock or a live claim in the way refuses the publication.
Unclaimed == claim = {}

\* publishPreparedExclusiveLock for a transition, and for a new session.
PublishTransition(c) ==
  /\ step[c] = "publish" /\ purpose[c] # "start"
  /\ IF changeLock = NoLock /\ Unclaimed
     THEN changeLock' = [by |-> c, session |-> NoSession] /\ Go(c, "check sessions")
     ELSE Go(c, "leave") /\ UNCHANGED changeLock
  /\ UNCHANGED <<record, repository, operation, claim, running, purpose, subject>>

PublishSession(c) ==
  /\ step[c] = "publish" /\ purpose[c] = "start"
  /\ \/ /\ changeLock = NoLock /\ Unclaimed
        /\ \E s \in Session :
             /\ record[s] = "absent"
             /\ \A d \in Command : subject[d] # s
             /\ changeLock' = [by |-> c, session |-> s]
             /\ subject' = [subject EXCEPT ![c] = s]
        /\ Go(c, "write session")
     \/ /\ ~(changeLock = NoLock /\ Unclaimed)
        /\ Go(c, "leave")
        /\ UNCHANGED <<changeLock, subject>>
  /\ UNCHANGED <<record, repository, operation, claim, running, purpose>>

\* assertNoActiveSessionsForChange, the operation, and the release of the lock.
CheckSessions(c) ==
  /\ step[c] = "check sessions"
  /\ Go(c, IF \E s \in Session : record[s] = "active" THEN "unlock" ELSE "operate")
  /\ UNCHANGED <<changeLock, record, repository, operation, claim, running, purpose, subject>>

Operate(c) ==
  /\ step[c] = "operate"
  /\ Go(c, "unlock")
  /\ UNCHANGED <<changeLock, record, repository, operation, claim, running, purpose, subject>>

\* open-task goes on to start its session under the same repository lock.
Unlock(c) ==
  /\ step[c] = "unlock"
  /\ changeLock' = IF changeLock = [by |-> c, session |-> NoSession] THEN NoLock
                   ELSE changeLock
  /\ \/ /\ purpose[c] = "open-task" /\ changeLock' = NoLock
        /\ purpose' = [purpose EXCEPT ![c] = "start"]
        /\ Go(c, "publish")
     \/ Go(c, "leave") /\ UNCHANGED purpose
  /\ UNCHANGED <<record, repository, operation, claim, running, subject>>

\* persistSessionStart: the file after the lock; when it cannot be written, the
\* file is removed and then the lock.
WriteSession(c) ==
  /\ step[c] = "write session"
  /\ \/ record' = [record EXCEPT ![subject[c]] = "active"] /\ Go(c, "leave")
     \/ record' = [record EXCEPT ![subject[c]] = "active"] /\ Go(c, "remove session")
     \/ UNCHANGED record /\ Go(c, "remove session")
  /\ UNCHANGED <<changeLock, repository, operation, claim, running, purpose, subject>>

RemoveSession(c) ==
  /\ step[c] = "remove session"
  /\ record' = [record EXCEPT ![subject[c]] = "absent"]
  /\ purpose' = [purpose EXCEPT ![c] = "failed start"]
  /\ Go(c, "claim")
  /\ UNCHANGED <<changeLock, repository, operation, claim, running, subject>>

-----------------------------------------------------------------------------
(* The end of a session: abortSessionUnlocked, finalizeCommittedSession *)

\* withSessionOperation.  Mutant: another command may have the operation.
OperationShared(s) == TRUE
OperationFree(s) == operation[s] = NoCommand

EndSession(c) ==
  /\ step[c] = "idle" /\ c \in running
  /\ \E s \in Session :
       /\ record[s] # "absent"
       /\ OperationFree(s)
       /\ operation' = [operation EXCEPT ![s] = c]
       /\ subject' = [subject EXCEPT ![c] = s]
  /\ purpose' = [purpose EXCEPT ![c] = "end"]
  /\ Go(c, "read session")
  /\ UNCHANGED <<changeLock, record, repository, claim, running>>

LeaveOperation(c) ==
  /\ operation' = [operation EXCEPT ![subject[c]] = NoCommand]
  /\ subject' = [subject EXCEPT ![c] = NoSession]
  /\ Go(c, "idle")

\* A session that is not active is refused.
ReadSession(c) ==
  /\ step[c] = "read session"
  /\ \/ /\ record[subject[c]] = "active"
        /\ Go(c, "end session")
        /\ UNCHANGED <<operation, subject>>
     \/ /\ record[subject[c]] # "active"
        /\ LeaveOperation(c)
  /\ UNCHANGED <<changeLock, record, repository, claim, running, purpose>>

WriteEnd(c) ==
  /\ step[c] = "end session"
  /\ \E state \in Ended : record' = [record EXCEPT ![subject[c]] = state]
  /\ Go(c, "claim")
  /\ UNCHANGED <<changeLock, repository, operation, claim, running, purpose, subject>>

-----------------------------------------------------------------------------
(* releaseOwnedLock, under withPreparedLockCleanupClaim *)

\* Mutant: the lock is released without a claim.
ClaimNot(c) == UNCHANGED claim
MakeClaim(c) == claim' = claim \cup {c}

ClaimLock(c) ==
  /\ step[c] = "claim"
  /\ MakeClaim(c)
  /\ Go(c, "read owner")
  /\ UNCHANGED <<changeLock, record, repository, operation, running, purpose, subject>>

\* Whether the lock is the session's, and then whether the file is still the one
\* that was read: the lock of a session is published once.
ReadOwner(c) ==
  /\ \/ step[c] = "read owner" /\ Go(c, IF LockOf(subject[c]) THEN "compare" ELSE "unclaim")
     \/ step[c] = "compare" /\ Go(c, IF LockOf(subject[c]) THEN "unlink" ELSE "unclaim")
  /\ UNCHANGED <<changeLock, record, repository, operation, claim, running, purpose, subject>>

Unlink(c) ==
  /\ step[c] = "unlink"
  /\ changeLock' = NoLock
  /\ Go(c, "unclaim")
  /\ UNCHANGED <<record, repository, operation, claim, running, purpose, subject>>

DropClaim(c) == claim' = claim \ {c}

\* A transition or a start goes on to publish; a failed start, to leave.
UnclaimLock(c) ==
  /\ step[c] = "unclaim"
  /\ DropClaim(c)
  /\ IF purpose[c] = "end" THEN LeaveOperation(c)
     ELSE /\ Go(c, IF purpose[c] = "failed start" THEN "leave" ELSE "publish")
          /\ subject' = [subject EXCEPT ![c] = NoSession]
          /\ UNCHANGED operation
  /\ UNCHANGED <<changeLock, record, repository, running, purpose>>

-----------------------------------------------------------------------------
\* A command exits or dies: what it had locked exclusively is free again, its
\* claim counts no more; the change lock and the files stay.
Exit(c) ==
  /\ c \in running
  /\ running' = running \ {c}
  /\ claim' = claim \ {c}
  /\ repository' = IF repository = c THEN NoCommand ELSE repository
  /\ operation' = [s \in Session |-> IF operation[s] = c THEN NoCommand ELSE operation[s]]
  /\ subject' = [subject EXCEPT ![c] = NoSession]
  /\ Go(c, "gone")
  /\ UNCHANGED <<changeLock, record, purpose>>

Transition(c) ==
  Leave(c) \/ ReadLock(c) \/ ReclaimDead(c) \/ PublishTransition(c) \/ PublishSession(c)
  \/ CheckSessions(c) \/ Operate(c) \/ Unlock(c) \/ WriteSession(c) \/ RemoveSession(c)
Ending(c) == ReadSession(c) \/ WriteEnd(c)
ReleaseLock(c) == ClaimLock(c) \/ ReadOwner(c) \/ Unlink(c) \/ UnclaimLock(c)

SessionStep(c) == Transition(c) \/ Ending(c) \/ ReleaseLock(c)
SessionNext == \E c \in Command : Enter(c) \/ EndSession(c) \/ SessionStep(c) \/ Exit(c)

SessionSpec == SessionInit /\ [][SessionNext]_sessionVars

\* A command that has begun goes on until it is done.
SessionFairness == \A c \in Command : WF_sessionVars(SessionStep(c))

-----------------------------------------------------------------------------
(* Properties *)

\* The lock of a change stays with its active session, whoever starts, ends,
\* reclaims, releases or dies meanwhile.  So a change has one active session at
\* most, and assertOwnedLock never fails for it.
ActiveSessionKeepsLock ==
  \A s \in Session : record[s] = "active" => LockOf(s)

\* A transition operates alone on its change: the lock is its own, no session is
\* active, and no other transition operates; no late release of the lock of an
\* ended session takes it away.
TransitionOwnsChange ==
  \A c \in Command : step[c] = "operate" =>
    /\ changeLock = [by |-> c, session |-> NoSession]
    /\ \A s \in Session : record[s] # "active"
    /\ \A d \in Command : step[d] = "operate" => d = c

\* A session ends once: an abort and a commit that race never overwrite each
\* other, and no start makes an ended session active.  Only a start that fails
\* removes its session, though another command may have ended it meanwhile.
EndedOnce ==
  [][\A s \in Session : record[s] \in Ended => record'[s] \in {record[s], "absent"}]_sessionVars

\* Whatever dead commands left (a transition's lock, the lock of a session that
\* was never written or that has ended), a transition that runs alone on a change
\* without an active session gets to operate, unless it dies.
LoneTransitionOperates ==
  \A c \in Command :
    (/\ step[c] = "read lock" /\ purpose[c] = "transition"
     /\ running = {c} /\ \A s \in Session : record[s] # "active")
      ~> (step[c] = "operate" \/ c \notin running)
=============================================================================
