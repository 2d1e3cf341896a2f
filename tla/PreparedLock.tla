----------------------------- MODULE PreparedLock -----------------------------
(***************************************************************************)
(* The lock files of the workflow engine: filesystem-safety.ts and the     *)
(* operations that run under such a lock.  One lock path.  A process       *)
(* prepares a file of its own, links it to the lock path, and holds the    *)
(* lock once it has seen that no other process could still unlink that     *)
(* path.  The lock of a dead process is removed by whoever finds it; a     *)
(* process about to remove the lock file first publishes a claim, a        *)
(* directory named after its pid.                                          *)
(*                                                                         *)
(* Each step is one file system call, or a few that touch nothing shared.  *)
(* A process may die between any two of them.  A process that starts again *)
(* is another member of Process: it has another owner token.               *)
(***************************************************************************)
EXTENDS Naturals

CONSTANTS Process, File, NoFile, Nobody,
          ReclaimFirst \* the lock is first reclaimed, then published once
                       \* (change locks); otherwise it is published, and once
                       \* more after a reclaim (session and repository locks)

ASSUME NoFileAssumption == NoFile \notin File
ASSUME NobodyAssumption == Nobody \notin Process
ASSUME ReclaimFirstAssumption == ReclaimFirst \in BOOLEAN

VARIABLES
  lock,    \* the file the lock path names
  temps,   \* the files their owner's temporary path names
  owner,   \* the pid written in a file
  claims,  \* the processes whose reclaim claim exists
  alive,   \* the processes that run
  pc,      \* where a process stands
  mine,    \* the file it prepared, held open
  seen,    \* the lock file it wants to reclaim
  twin,    \* that file was seen to have a second name, its owner's temporary
  todo,    \* the listed claims it has yet to look at; Nobody is one that went
           \* while it was looked at
  busy,    \* it met a live claim or an existing lock
  again    \* it publishes for the last time, if at all: it has reclaimed or failed

disk == <<lock, temps, owner, claims>>
process == <<alive, pc, mine, seen, twin, todo, busy, again>>
lockVars == <<disk, process>>

\* The places of a process, by the function of the code it is in.
Scans == {"scan before link", "scan after link", "scan before claim"}
Publishing == {"create", "list before link", "scan before link", "link",
               "list after link", "scan after link", "unlink temporary", "verify"}
Withdrawing == {"withdraw", "compare own", "unlink own", "unclaim own", "discard"}
Reclaiming == {"look", "open", "judge", "list before claim", "scan before claim",
               "claim", "compare", "unlink dead temporary", "compare again",
               "unlink dead", "unclaim"}
Holding == {"hold", "release"}
Places == Publishing \cup Withdrawing \cup Reclaiming \cup Holding \cup {"idle", "dead"}

WithFile == (Publishing \ {"create"}) \cup Withdrawing \cup Holding

Listings == SUBSET (Process \cup {Nobody})

\* Types, and that a process has a file open exactly where the code has one.
LockTypeOK ==
  /\ lock \in File \cup {NoFile}
  /\ temps \subseteq File
  /\ owner \in [File -> Process \cup {Nobody}]
  /\ claims \subseteq Process
  /\ alive \subseteq Process
  /\ pc \in [Process -> Places]
  /\ mine \in [Process -> File \cup {NoFile}]
  /\ seen \in [Process -> File \cup {NoFile}]
  /\ twin \in [Process -> BOOLEAN]
  /\ todo \in [Process -> Listings]
  /\ busy \in [Process -> BOOLEAN]
  /\ again \in [Process -> BOOLEAN]
  /\ \A p \in Process :
       /\ p \in alive <=> pc[p] # "dead"
       /\ mine[p] \in File <=> pc[p] \in WithFile

LockInit ==
  /\ lock = NoFile
  /\ temps = {}
  /\ owner = [f \in File |-> Nobody]
  /\ claims = {}
  /\ alive = Process
  /\ pc = [p \in Process |-> "idle"]
  /\ mine = [p \in Process |-> NoFile]
  /\ seen = [p \in Process |-> NoFile]
  /\ twin = [p \in Process |-> FALSE]
  /\ todo = [p \in Process |-> {}]
  /\ busy = [p \in Process |-> FALSE]
  /\ again = [p \in Process |-> FALSE]

-----------------------------------------------------------------------------
Goto(p, place) == pc' = [pc EXCEPT ![p] = place]

\* isProcessAlive.  Mutant: a process that may not be signalled counts as gone.
AliveIfSignalled(q) == FALSE
IsProcessAlive(q) == q \in alive

Close(p) == mine' = [mine EXCEPT ![p] = NoFile]

\* A file nothing names and nobody has open: its inode may be used again.
\* Mutant: a reclaimer closes the dead lock once it has read it.
OpenedByOwner(p, f) == mine[p] = f
Opened(p, f) == mine[p] = f \/ (seen[p] = f /\ pc[p] # "open")
Free(f) == f # lock /\ f \notin temps /\ \A p \in Process : ~Opened(p, f)

\* Where a process goes that lost the lock to another one (EEXIST), and where
\* one goes that is done reclaiming.
AfterConflict(p) == IF ReclaimFirst \/ again[p] THEN "idle" ELSE "look"
AfterReclaim(result) ==
  IF ReclaimFirst \/ result \in {"absent", "reclaimed"} THEN "create" ELSE "idle"

\* An operation asks for the lock.
Request(p) ==
  /\ pc[p] = "idle"
  /\ Goto(p, IF ReclaimFirst THEN "look" ELSE "create")
  /\ again' = [again EXCEPT ![p] = ReclaimFirst]
  /\ UNCHANGED <<disk, alive, mine, seen, twin, todo, busy>>

-----------------------------------------------------------------------------
(* Looking for live claims: clearDeadPreparedLockReclaimClaims *)

ListClaims(p) ==
  /\ \/ pc[p] = "list before link" /\ Goto(p, "scan before link")
     \/ pc[p] = "list after link" /\ Goto(p, "scan after link")
     \/ pc[p] = "list before claim" /\ Goto(p, "scan before claim")
  /\ todo' = [todo EXCEPT ![p] = claims]
  /\ busy' = [busy EXCEPT ![p] = FALSE]
  /\ UNCHANGED <<disk, alive, mine, seen, twin, again>>

\* A claim that p removes is no longer met by a scan that listed it, except by
\* one that is between the lstat and the readdir of just this claim.
Unclaim(p, q) ==
  /\ claims' = claims \ {q}
  /\ \E within \in SUBSET {r \in Process \ {p} : q \in todo[r]} :
       todo' = [r \in Process |->
                  (todo[r] \ {q}) \cup (IF r \in within THEN {Nobody} ELSE {})]

\* Mutant: the claim of a dead process is left where it is.
ClearDeadNot(p, q) == UNCHANGED <<claims, todo>>
ClearDead(p, q) == Unclaim(p, q)

JudgeClaim(p) ==
  /\ pc[p] \in Scans
  /\ Nobody \notin todo[p]
  /\ \E q \in todo[p] :
       \/ /\ IsProcessAlive(q)
          /\ busy' = [busy EXCEPT ![p] = TRUE]
          /\ todo' = [todo EXCEPT ![p] = @ \ {q}]
          /\ UNCHANGED claims
       \/ /\ ~IsProcessAlive(q)
          /\ ClearDead(p, q)
          /\ UNCHANGED busy
  /\ UNCHANGED <<lock, temps, owner, alive, pc, mine, seen, twin, again>>

\* The readdir of a claim that has just gone throws, which ends the operation
\* once its file, its temporary and its link have been taken back.
FailScan(p) ==
  /\ pc[p] \in Scans
  /\ Nobody \in todo[p]
  /\ Goto(p, CASE pc[p] = "scan before link"  -> "discard"
               [] pc[p] = "scan after link"   -> "withdraw"
               [] pc[p] = "scan before claim" -> "idle")
  /\ seen' = [seen EXCEPT ![p] = NoFile]
  /\ todo' = [todo EXCEPT ![p] = {}]
  /\ again' = [again EXCEPT ![p] = TRUE]
  /\ UNCHANGED <<disk, alive, mine, twin, busy>>

\* A reclaimer that claimed before the link could still unlink the path.
AfterLink(p) == IF busy[p] THEN "withdraw" ELSE "unlink temporary"

EndScan(p) ==
  /\ pc[p] \in Scans
  /\ todo[p] = {}
  /\ \/ /\ pc[p] = "scan before link"
        /\ Goto(p, IF busy[p] THEN "discard" ELSE "link")
        /\ UNCHANGED seen
     \/ /\ pc[p] = "scan after link"
        /\ Goto(p, AfterLink(p))
        /\ UNCHANGED seen
     \/ /\ pc[p] = "scan before claim"
        /\ Goto(p, IF busy[p] THEN AfterReclaim("occupied") ELSE "claim")
        /\ seen' = [seen EXCEPT ![p] = IF busy[p] THEN NoFile ELSE @]
  /\ UNCHANGED <<disk, alive, mine, twin, todo, busy, again>>

-----------------------------------------------------------------------------
(* Publishing the lock: publishPreparedExclusiveLock *)

Create(p) ==
  /\ pc[p] = "create"
  /\ \E f \in File :
       /\ Free(f)
       /\ temps' = temps \cup {f}
       /\ owner' = [owner EXCEPT ![f] = p]
       /\ mine' = [mine EXCEPT ![p] = f]
  /\ Goto(p, "list before link")
  /\ UNCHANGED <<lock, claims, alive, seen, twin, todo, busy, again>>

Link(p) ==
  /\ pc[p] = "link"
  /\ \/ /\ lock = NoFile
        /\ lock' = mine[p]
        /\ Goto(p, "list after link")
        /\ UNCHANGED busy
     \/ /\ lock # NoFile
        /\ busy' = [busy EXCEPT ![p] = TRUE]
        /\ Goto(p, "discard")
        /\ UNCHANGED lock
  /\ UNCHANGED <<temps, owner, claims, alive, mine, seen, twin, todo, again>>

UnlinkTemporary(p) ==
  /\ pc[p] = "unlink temporary"
  /\ temps' = temps \ {mine[p]}
  /\ Goto(p, "verify")
  /\ UNCHANGED <<lock, owner, claims, alive, mine, seen, twin, todo, busy, again>>

Verify(p) ==
  /\ pc[p] = "verify"
  /\ Goto(p, IF lock = mine[p] THEN "hold" ELSE "withdraw")
  /\ UNCHANGED <<disk, alive, mine, seen, twin, todo, busy, again>>

\* A lock that was linked but cannot be held is taken back, under a claim.
Withdraw(p) ==
  /\ pc[p] = "withdraw"
  /\ claims' = claims \cup {p}
  /\ Goto(p, "compare own")
  /\ UNCHANGED <<lock, temps, owner, alive, mine, seen, twin, todo, busy, again>>

CompareOwn(p) ==
  /\ pc[p] = "compare own"
  /\ Goto(p, IF lock = mine[p] THEN "unlink own" ELSE "unclaim own")
  /\ UNCHANGED <<disk, alive, mine, seen, twin, todo, busy, again>>

UnlinkOwn(p) ==
  /\ pc[p] = "unlink own"
  /\ lock' = NoFile
  /\ Goto(p, "unclaim own")
  /\ UNCHANGED <<temps, owner, claims, alive, mine, seen, twin, todo, busy, again>>

\* The descriptor and the temporary go before the claim.
UnclaimOwn(p) ==
  /\ pc[p] = "unclaim own"
  /\ temps' = temps \ {mine[p]}
  /\ Close(p)
  /\ Unclaim(p, p)
  /\ Goto(p, IF busy[p] THEN AfterConflict(p) ELSE "idle")
  /\ UNCHANGED <<lock, owner, alive, seen, twin, busy, again>>

Discard(p) ==
  /\ pc[p] = "discard"
  /\ temps' = temps \ {mine[p]}
  /\ Close(p)
  /\ Goto(p, AfterConflict(p))
  /\ UNCHANGED <<lock, owner, claims, alive, seen, twin, todo, busy, again>>

-----------------------------------------------------------------------------
(* Removing the lock of a dead process: reclaimDeadPreparedLock *)

\* A failed reclaim ends the operation; an open that finds the file gone throws.
Look(p) ==
  /\ pc[p] = "look"
  /\ again' = [again EXCEPT ![p] = TRUE]
  /\ seen' = [seen EXCEPT ![p] = lock]
  /\ Goto(p, IF lock = NoFile THEN AfterReclaim("absent") ELSE "open")
  /\ UNCHANGED <<disk, alive, mine, twin, todo, busy>>

Open(p) ==
  /\ pc[p] = "open"
  /\ \/ /\ lock = seen[p]
        /\ twin' = [twin EXCEPT ![p] = lock \in temps]
        /\ Goto(p, "judge")
        /\ UNCHANGED seen
     \/ /\ lock # seen[p]
        /\ seen' = [seen EXCEPT ![p] = NoFile]
        /\ Goto(p, IF lock = NoFile THEN "idle" ELSE AfterReclaim("unsafe"))
        /\ UNCHANGED twin
  /\ UNCHANGED <<disk, alive, mine, todo, busy, again>>

\* The file has both names still: the lock path and its owner's temporary.
ExactTwin(f) == lock = f /\ f \in temps

Judge(p) ==
  /\ pc[p] = "judge"
  /\ LET result == IF IsProcessAlive(owner[seen[p]]) THEN "occupied"
                   ELSE IF twin[p] /\ ~ExactTwin(seen[p]) THEN "unsafe"
                   ELSE "dead"
     IN /\ Goto(p, IF result = "dead" THEN "list before claim"
                   ELSE AfterReclaim(result))
        /\ seen' = [seen EXCEPT ![p] = IF result = "dead" THEN @ ELSE NoFile]
  /\ UNCHANGED <<disk, alive, mine, twin, todo, busy, again>>

Claim(p) ==
  /\ pc[p] = "claim"
  /\ claims' = claims \cup {p}
  /\ Goto(p, "compare")
  /\ UNCHANGED <<lock, temps, owner, alive, mine, seen, twin, todo, busy, again>>

Compare(p) ==
  /\ \/ /\ pc[p] = "compare"
        /\ Goto(p, IF lock # seen[p] THEN "unclaim"
                   ELSE IF twin[p] THEN "unlink dead temporary"
                   ELSE "compare again")
     \/ /\ pc[p] = "compare again"
        /\ Goto(p, IF lock # seen[p] THEN "unclaim" ELSE "unlink dead")
  /\ UNCHANGED <<disk, alive, mine, seen, twin, todo, busy, again>>

UnlinkDeadTemporary(p) ==
  /\ pc[p] = "unlink dead temporary"
  /\ temps' = temps \ {seen[p]}
  /\ Goto(p, "compare again")
  /\ UNCHANGED <<lock, owner, claims, alive, mine, seen, twin, todo, busy, again>>

UnlinkDead(p) ==
  /\ pc[p] = "unlink dead"
  /\ lock' = NoFile
  /\ Goto(p, "unclaim")
  /\ UNCHANGED <<temps, owner, claims, alive, mine, seen, twin, todo, busy, again>>

EndReclaim(p) ==
  /\ pc[p] = "unclaim"
  /\ seen' = [seen EXCEPT ![p] = NoFile]
  /\ Unclaim(p, p)
  /\ Goto(p, AfterReclaim("reclaimed"))
  /\ UNCHANGED <<lock, temps, owner, alive, mine, twin, busy, again>>

-----------------------------------------------------------------------------
(* Letting go, and dying *)

\* The lock is released only by a process that finds it is still its own.
AssertOwned(p) ==
  /\ pc[p] = "hold"
  /\ \/ lock = mine[p] /\ Goto(p, "release") /\ UNCHANGED mine
     \/ lock # mine[p] /\ Goto(p, "idle") /\ Close(p)
  /\ UNCHANGED <<disk, alive, seen, twin, todo, busy, again>>

Release(p) ==
  /\ pc[p] = "release"
  /\ lock' = NoFile
  /\ Close(p)
  /\ Goto(p, "idle")
  /\ UNCHANGED <<temps, owner, claims, alive, seen, twin, todo, busy, again>>

Die(p) ==
  /\ p \in alive
  /\ alive' = alive \ {p}
  /\ Goto(p, "dead")
  /\ Close(p)
  /\ seen' = [seen EXCEPT ![p] = NoFile]
  /\ todo' = [todo EXCEPT ![p] = {}]
  /\ twin' = [twin EXCEPT ![p] = FALSE]
  /\ busy' = [busy EXCEPT ![p] = FALSE]
  /\ again' = [again EXCEPT ![p] = FALSE]
  /\ UNCHANGED disk

-----------------------------------------------------------------------------
Publish(p) == Create(p) \/ Link(p) \/ UnlinkTemporary(p) \/ Verify(p)
TakeBack(p) == Withdraw(p) \/ CompareOwn(p) \/ UnlinkOwn(p) \/ UnclaimOwn(p) \/ Discard(p)
Scan(p) == ListClaims(p) \/ JudgeClaim(p) \/ FailScan(p) \/ EndScan(p)
Reclaim(p) == Look(p) \/ Open(p) \/ Judge(p) \/ Claim(p) \/ Compare(p)
              \/ UnlinkDeadTemporary(p) \/ UnlinkDead(p) \/ EndReclaim(p)
LetGo(p) == AssertOwned(p) \/ Release(p)

LockStep(p) == Publish(p) \/ TakeBack(p) \/ Scan(p) \/ Reclaim(p) \/ LetGo(p)

LockNext == \E p \in Process : Request(p) \/ LockStep(p) \/ Die(p)

LockSpec == LockInit /\ [][LockNext]_lockVars

\* A synchronous operation that runs goes on until it is done.
LockFairness == \A p \in Process : WF_lockVars(LockStep(p))

-----------------------------------------------------------------------------
(* Properties *)

\* Two processes never run under the lock at once, whatever dies when, and
\* however publishing, taking back, reclaiming and releasing interleave: of
\* two processes that link, reclaim and unlink the one path without any lock
\* of their own.
MutualExclusion ==
  \A p, q \in Process : pc[p] \in Holding /\ pc[q] \in Holding => p = q

\* The lock of a process that holds it stays in place until that process
\* releases it: no reclaimer that judged an earlier lock dead and no publisher
\* that takes its own lock back unlinks it, so that assertOwned never fails.
HolderKeepsLock == \A p \in Process : pc[p] \in Holding => lock = mine[p]

\* The process the lock belongs to, as ExclusiveLock sees it.
Holder == IF \E p \in Process : pc[p] \in Holding
          THEN CHOOSE p \in Process : pc[p] \in Holding
          ELSE Nobody

Abstract == INSTANCE ExclusiveLock WITH holder <- Holder

\* The lock files implement the exclusive lock.
ImplementsExclusiveLock == Abstract!Spec

\* Whatever the dead left behind (a lock with or without its temporary, claims,
\* temporaries), a process that asks for the lock when all others are dead gets
\* it, if it lives.
Starts(p) == /\ pc[p] = IF ReclaimFirst THEN "look" ELSE "create"
             /\ again[p] = ReclaimFirst
LoneRequestSucceeds ==
  \A p \in Process :
    (Starts(p) /\ alive = {p}) ~> (pc[p] \in Holding \/ p \notin alive)
=============================================================================
