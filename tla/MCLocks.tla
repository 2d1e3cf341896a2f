------------------------------- MODULE MCLocks -------------------------------
(***************************************************************************)
(* Small instances of PreparedLock and of SessionLocks.  The two share     *)
(* nothing: a behaviour is one of the lock files or one of the change      *)
(* lock, and the other part stays as it began.                             *)
(***************************************************************************)
EXTENDS PreparedLock, SessionLocks, TLC

CONSTANTS gone, left, Living, Fresh

VARIABLE part

MCProcess == Living \cup {gone}
MCFile == Fresh \cup {left}

\* One process has died already; the others meet what it left.  It held the lock
\* or died publishing it (the file left has its temporary still), or had removed
\* it; it may have had a claim.
AfterDeath ==
  /\ lock \in {NoFile, left}
  /\ temps \in SUBSET {left}
  /\ owner = [f \in File |-> IF f = left THEN gone ELSE Nobody]
  /\ claims \in SUBSET {gone}
  /\ alive = Living
  /\ pc = [p \in Process |-> IF p = gone THEN "dead" ELSE "idle"]
  /\ mine = [p \in Process |-> NoFile]
  /\ seen = [p \in Process |-> NoFile]
  /\ twin = [p \in Process |-> FALSE]
  /\ todo = [p \in Process |-> {}]
  /\ busy = [p \in Process |-> FALSE]
  /\ again = [p \in Process |-> FALSE]

LocksInit ==
  /\ part \in {"lock files", "change lock"}
  /\ AfterDeath /\ SessionInit
  /\ part = "change lock" => lock = left /\ temps = {} /\ claims = {}

LocksNext ==
  \/ part = "lock files" /\ LockNext /\ UNCHANGED <<part, sessionVars>>
  \/ part = "change lock" /\ SessionNext /\ UNCHANGED <<part, lockVars>>

\* LockFairness and SessionFairness, each for the behaviours of its part.
LocksSpec ==
  /\ LocksInit /\ [][LocksNext]_<<part, lockVars, sessionVars>>
  /\ \A p \in Process : WF_lockVars(part = "lock files" /\ LockStep(p))
  /\ \A c \in Command : WF_sessionVars(part = "change lock" /\ SessionStep(c))
=============================================================================
