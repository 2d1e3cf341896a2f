-------------------------- MODULE PreparedLockProofs --------------------------
(***************************************************************************)
(* Proofs about PreparedLock, for every set of processes and of files and  *)
(* for both ways of taking the lock.                                       *)
(***************************************************************************)
EXTENDS PreparedLock, TLAPS

-----------------------------------------------------------------------------
(* Types *)

\* The part of LockTypeOK that says where the processes are.
Standing ==
  /\ pc \in [Process -> Places]
  /\ alive \subseteq Process
  /\ mine \in [Process -> File \cup {NoFile}]
  /\ \A q \in Process : /\ q \in alive <=> pc[q] # "dead"
                        /\ mine[q] \in File <=> pc[q] \in WithFile

\* A process that moves, and neither opens nor closes its file.
LEMMA MoveStep ==
  ASSUME LockTypeOK, NEW p \in Process, NEW x \in Places \ {"dead"}, pc[p] # "dead",
         x \in WithFile <=> pc[p] \in WithFile,
         Goto(p, x), alive' = alive, mine' = mine
  PROVE  Standing'
BY DEF LockTypeOK, Goto, Standing

\* A process that moves and closes its file.
LEMMA CloseStep ==
  ASSUME LockTypeOK, NEW p \in Process, NEW x \in Places \ WithFile, x # "dead",
         pc[p] # "dead", Goto(p, x), alive' = alive, Close(p)
  PROVE  Standing'
BY NoFileAssumption DEF LockTypeOK, Goto, Close, Standing

\* What a removed claim leaves of the scans that listed it.
LEMMA UnclaimEffect ==
  ASSUME LockTypeOK, NEW p \in Process, NEW q \in Process, Unclaim(p, q)
  PROVE  /\ claims' = claims \ {q}
         /\ todo' \in [Process -> Listings]
         /\ \A r \in Process : todo[r] \ {q} \subseteq todo'[r]
BY DEF LockTypeOK, Unclaim, Listings

LEMMA TypeStep ==
  ASSUME LockTypeOK, NEW p \in Process, Request(p) \/ LockStep(p) \/ Die(p)
  PROVE  LockTypeOK'
<1> USE DEF disk
<1>1. ASSUME Request(p) PROVE LockTypeOK'
  <2>1. PICK x \in {"create", "look"} : Goto(p, x) /\ (x \in WithFile <=> pc[p] \in WithFile) /\ pc[p] # "dead"
    BY <1>1 DEF Request, Places, Publishing, Withdrawing, Reclaiming, Holding, WithFile
  <2>2. UNCHANGED <<alive, mine>>
    BY <1>1 DEF Request
  <2>3. Standing'
    BY <2>1, <2>2, MoveStep DEF Places, Publishing, Withdrawing, Reclaiming, Holding, WithFile
  <2> QED
    BY <1>1, <2>3, NoFileAssumption, ReclaimFirstAssumption DEF Request, LockTypeOK, Standing
<1>2. ASSUME ListClaims(p) PROVE LockTypeOK'
  <2>1. PICK x \in {"scan before link", "scan after link", "scan before claim"} : Goto(p, x) /\ (x \in WithFile <=> pc[p] \in WithFile) /\ pc[p] # "dead"
    BY <1>2 DEF ListClaims, Places, Publishing, Withdrawing, Reclaiming, Holding, WithFile
  <2>2. UNCHANGED <<alive, mine>>
    BY <1>2 DEF ListClaims
  <2>3. Standing'
    BY <2>1, <2>2, MoveStep DEF Places, Publishing, Withdrawing, Reclaiming, Holding, WithFile
  <2>4. todo' = [todo EXCEPT ![p] = claims] /\ busy' = [busy EXCEPT ![p] = FALSE]
       /\ UNCHANGED <<disk, seen, twin, again>>
    BY <1>2 DEF ListClaims, LockTypeOK
  <2> QED
    BY <2>3, <2>4 DEF LockTypeOK, Standing, Listings
<1>3. ASSUME JudgeClaim(p) PROVE LockTypeOK'
  <2> PICK q \in todo[p] :
        \/ busy' = [busy EXCEPT ![p] = TRUE] /\ todo' = [todo EXCEPT ![p] = @ \ {q}] /\ UNCHANGED claims
        \/ ClearDead(p, q) /\ UNCHANGED busy
    BY <1>3 DEF JudgeClaim
  <2>1. UNCHANGED <<lock, temps, owner, alive, pc, mine, seen, twin, again>>
    BY <1>3 DEF JudgeClaim
  <2>2. CASE todo' = [todo EXCEPT ![p] = @ \ {q}] /\ busy' = [busy EXCEPT ![p] = TRUE] /\ UNCHANGED claims
    BY <2>1, <2>2 DEF LockTypeOK, Listings
  <2>4. q \in Process
    BY <1>3 DEF JudgeClaim, LockTypeOK, Listings
  <2>3. CASE ClearDead(p, q) /\ UNCHANGED busy
    BY <2>1, <2>3, <2>4, UnclaimEffect DEF LockTypeOK, ClearDead
  <2> QED
    BY <2>2, <2>3
<1>4. ASSUME EndScan(p) PROVE LockTypeOK'
  <2>1. PICK x \in {"discard", "withdraw", "link", "unlink temporary", "create", "idle", "claim"} : Goto(p, x) /\ (x \in WithFile <=> pc[p] \in WithFile) /\ pc[p] # "dead"
    BY <1>4 DEF EndScan, AfterReclaim, AfterLink, Places, Publishing, Withdrawing, Reclaiming, Holding, WithFile
  <2>2. UNCHANGED <<alive, mine>>
    BY <1>4 DEF EndScan
  <2>3. Standing'
    BY <2>1, <2>2, MoveStep DEF Places, Publishing, Withdrawing, Reclaiming, Holding, WithFile
  <2> QED
    BY <1>4, <2>3, NoFileAssumption, ReclaimFirstAssumption DEF EndScan, LockTypeOK, Standing
<1>5. ASSUME Create(p) PROVE LockTypeOK'
  <2> PICK f \in File :
        /\ temps' = temps \cup {f}
        /\ owner' = [owner EXCEPT ![f] = p]
        /\ mine' = [mine EXCEPT ![p] = f]
    BY <1>5 DEF Create
  <2>1. Standing'
    BY <1>5 DEF Create, Goto, LockTypeOK, Standing, Places, Publishing, Withdrawing, Reclaiming, Holding, WithFile
  <2> QED
    BY <1>5, <2>1 DEF Create, LockTypeOK, Standing
<1>6. ASSUME Link(p) PROVE LockTypeOK'
  <2>1. PICK x \in {"list after link", "discard"} : Goto(p, x) /\ (x \in WithFile <=> pc[p] \in WithFile) /\ pc[p] # "dead"
    BY <1>6 DEF Link, Places, Publishing, Withdrawing, Reclaiming, Holding, WithFile
  <2>2. UNCHANGED <<alive, mine>>
    BY <1>6 DEF Link
  <2>3. Standing'
    BY <2>1, <2>2, MoveStep DEF Places, Publishing, Withdrawing, Reclaiming, Holding, WithFile
  <2> QED
    BY <1>6, <2>3, NoFileAssumption, ReclaimFirstAssumption DEF Link, LockTypeOK, Standing
<1>7. ASSUME UnlinkTemporary(p) PROVE LockTypeOK'
  <2>1. PICK x \in {"verify"} : Goto(p, x) /\ (x \in WithFile <=> pc[p] \in WithFile) /\ pc[p] # "dead"
    BY <1>7 DEF UnlinkTemporary, Places, Publishing, Withdrawing, Reclaiming, Holding, WithFile
  <2>2. UNCHANGED <<alive, mine>>
    BY <1>7 DEF UnlinkTemporary
  <2>3. Standing'
    BY <2>1, <2>2, MoveStep DEF Places, Publishing, Withdrawing, Reclaiming, Holding, WithFile
  <2> QED
    BY <1>7, <2>3, NoFileAssumption, ReclaimFirstAssumption DEF UnlinkTemporary, LockTypeOK, Standing
<1>8. ASSUME Verify(p) PROVE LockTypeOK'
  <2>1. PICK x \in {"hold", "withdraw"} : Goto(p, x) /\ (x \in WithFile <=> pc[p] \in WithFile) /\ pc[p] # "dead"
    BY <1>8 DEF Verify, Places, Publishing, Withdrawing, Reclaiming, Holding, WithFile
  <2>2. UNCHANGED <<alive, mine>>
    BY <1>8 DEF Verify
  <2>3. Standing'
    BY <2>1, <2>2, MoveStep DEF Places, Publishing, Withdrawing, Reclaiming, Holding, WithFile
  <2> QED
    BY <1>8, <2>3, NoFileAssumption, ReclaimFirstAssumption DEF Verify, LockTypeOK, Standing
<1>9. ASSUME Withdraw(p) PROVE LockTypeOK'
  <2>1. PICK x \in {"compare own"} : Goto(p, x) /\ (x \in WithFile <=> pc[p] \in WithFile) /\ pc[p] # "dead"
    BY <1>9 DEF Withdraw, Places, Publishing, Withdrawing, Reclaiming, Holding, WithFile
  <2>2. UNCHANGED <<alive, mine>>
    BY <1>9 DEF Withdraw
  <2>3. Standing'
    BY <2>1, <2>2, MoveStep DEF Places, Publishing, Withdrawing, Reclaiming, Holding, WithFile
  <2> QED
    BY <1>9, <2>3, NoFileAssumption, ReclaimFirstAssumption DEF Withdraw, LockTypeOK, Standing
<1>10. ASSUME CompareOwn(p) PROVE LockTypeOK'
  <2>1. PICK x \in {"unlink own", "unclaim own"} : Goto(p, x) /\ (x \in WithFile <=> pc[p] \in WithFile) /\ pc[p] # "dead"
    BY <1>10 DEF CompareOwn, Places, Publishing, Withdrawing, Reclaiming, Holding, WithFile
  <2>2. UNCHANGED <<alive, mine>>
    BY <1>10 DEF CompareOwn
  <2>3. Standing'
    BY <2>1, <2>2, MoveStep DEF Places, Publishing, Withdrawing, Reclaiming, Holding, WithFile
  <2> QED
    BY <1>10, <2>3, NoFileAssumption, ReclaimFirstAssumption DEF CompareOwn, LockTypeOK, Standing
<1>11. ASSUME UnlinkOwn(p) PROVE LockTypeOK'
  <2>1. PICK x \in {"unclaim own"} : Goto(p, x) /\ (x \in WithFile <=> pc[p] \in WithFile) /\ pc[p] # "dead"
    BY <1>11 DEF UnlinkOwn, Places, Publishing, Withdrawing, Reclaiming, Holding, WithFile
  <2>2. UNCHANGED <<alive, mine>>
    BY <1>11 DEF UnlinkOwn
  <2>3. Standing'
    BY <2>1, <2>2, MoveStep DEF Places, Publishing, Withdrawing, Reclaiming, Holding, WithFile
  <2> QED
    BY <1>11, <2>3, NoFileAssumption, ReclaimFirstAssumption DEF UnlinkOwn, LockTypeOK, Standing
<1>12. ASSUME UnclaimOwn(p) PROVE LockTypeOK'
  <2>1. PICK x \in {"idle", "look"} : Goto(p, x) /\ pc[p] # "dead"
    BY <1>12 DEF UnclaimOwn, AfterConflict, Places, Publishing, Withdrawing, Reclaiming, Holding, WithFile
  <2>2. UNCHANGED alive /\ Close(p)
    BY <1>12 DEF UnclaimOwn
  <2>3. Standing'
    BY <2>1, <2>2, CloseStep DEF Places, Publishing, Withdrawing, Reclaiming, Holding, WithFile
  <2> QED
    <3>1. /\ claims' = claims \ {p}
          /\ todo' \in [Process -> Listings]
      BY <1>12, UnclaimEffect DEF UnclaimOwn
    <3> QED
      BY <1>12, <2>3, <3>1, NoFileAssumption, ReclaimFirstAssumption DEF UnclaimOwn, LockTypeOK, Standing
<1>13. ASSUME Discard(p) PROVE LockTypeOK'
  <2>1. PICK x \in {"idle", "look"} : Goto(p, x) /\ pc[p] # "dead"
    BY <1>13 DEF Discard, AfterConflict, Places, Publishing, Withdrawing, Reclaiming, Holding, WithFile
  <2>2. UNCHANGED alive /\ Close(p)
    BY <1>13 DEF Discard
  <2>3. Standing'
    BY <2>1, <2>2, CloseStep DEF Places, Publishing, Withdrawing, Reclaiming, Holding, WithFile
  <2> QED
    BY <1>13, <2>3, NoFileAssumption, ReclaimFirstAssumption DEF Discard, LockTypeOK, Standing
<1>14. ASSUME Look(p) PROVE LockTypeOK'
  <2>1. PICK x \in {"create", "idle", "open"} : Goto(p, x) /\ (x \in WithFile <=> pc[p] \in WithFile) /\ pc[p] # "dead"
    BY <1>14 DEF Look, AfterReclaim, Places, Publishing, Withdrawing, Reclaiming, Holding, WithFile
  <2>2. UNCHANGED <<alive, mine>>
    BY <1>14 DEF Look
  <2>3. Standing'
    BY <2>1, <2>2, MoveStep DEF Places, Publishing, Withdrawing, Reclaiming, Holding, WithFile
  <2> QED
    BY <1>14, <2>3, NoFileAssumption, ReclaimFirstAssumption DEF Look, LockTypeOK, Standing
<1>15. ASSUME Open(p) PROVE LockTypeOK'
  <2>1. PICK x \in {"judge", "idle", "create"} : Goto(p, x) /\ (x \in WithFile <=> pc[p] \in WithFile) /\ pc[p] # "dead"
    BY <1>15 DEF Open, AfterReclaim, Places, Publishing, Withdrawing, Reclaiming, Holding, WithFile
  <2>2. UNCHANGED <<alive, mine>>
    BY <1>15 DEF Open
  <2>3. Standing'
    BY <2>1, <2>2, MoveStep DEF Places, Publishing, Withdrawing, Reclaiming, Holding, WithFile
  <2>4. UNCHANGED <<disk, todo, busy, again>> /\ seen' \in [Process -> File \cup {NoFile}]
    BY <1>15 DEF Open, LockTypeOK
  <2>5. twin' \in [Process -> BOOLEAN]
    <3>1. (lock \in temps) \in BOOLEAN
      OBVIOUS
    <3> QED
      BY <1>15, <3>1 DEF Open, LockTypeOK
  <2> QED
    BY <2>3, <2>4, <2>5 DEF LockTypeOK, Standing
<1>16. ASSUME Judge(p) PROVE LockTypeOK'
  <2>1. PICK x \in {"list before claim", "create", "idle"} : Goto(p, x) /\ (x \in WithFile <=> pc[p] \in WithFile) /\ pc[p] # "dead"
    BY <1>16 DEF Judge, AfterReclaim, IsProcessAlive, ExactTwin, Places, Publishing, Withdrawing, Reclaiming, Holding, WithFile
  <2>2. UNCHANGED <<alive, mine>>
    BY <1>16 DEF Judge
  <2>3. Standing'
    BY <2>1, <2>2, MoveStep DEF Places, Publishing, Withdrawing, Reclaiming, Holding, WithFile
  <2> QED
    BY <1>16, <2>3, NoFileAssumption, ReclaimFirstAssumption DEF Judge, LockTypeOK, Standing
<1>17. ASSUME Claim(p) PROVE LockTypeOK'
  <2>1. PICK x \in {"compare"} : Goto(p, x) /\ (x \in WithFile <=> pc[p] \in WithFile) /\ pc[p] # "dead"
    BY <1>17 DEF Claim, Places, Publishing, Withdrawing, Reclaiming, Holding, WithFile
  <2>2. UNCHANGED <<alive, mine>>
    BY <1>17 DEF Claim
  <2>3. Standing'
    BY <2>1, <2>2, MoveStep DEF Places, Publishing, Withdrawing, Reclaiming, Holding, WithFile
  <2> QED
    BY <1>17, <2>3, NoFileAssumption, ReclaimFirstAssumption DEF Claim, LockTypeOK, Standing
<1>18. ASSUME Compare(p) PROVE LockTypeOK'
  <2>1. PICK x \in {"unclaim", "unlink dead temporary", "compare again", "unlink dead"} : Goto(p, x) /\ (x \in WithFile <=> pc[p] \in WithFile) /\ pc[p] # "dead"
    BY <1>18 DEF Compare, Places, Publishing, Withdrawing, Reclaiming, Holding, WithFile
  <2>2. UNCHANGED <<alive, mine>>
    BY <1>18 DEF Compare
  <2>3. Standing'
    BY <2>1, <2>2, MoveStep DEF Places, Publishing, Withdrawing, Reclaiming, Holding, WithFile
  <2> QED
    BY <1>18, <2>3, NoFileAssumption, ReclaimFirstAssumption DEF Compare, LockTypeOK, Standing
<1>19. ASSUME UnlinkDeadTemporary(p) PROVE LockTypeOK'
  <2>1. PICK x \in {"compare again"} : Goto(p, x) /\ (x \in WithFile <=> pc[p] \in WithFile) /\ pc[p] # "dead"
    BY <1>19 DEF UnlinkDeadTemporary, Places, Publishing, Withdrawing, Reclaiming, Holding, WithFile
  <2>2. UNCHANGED <<alive, mine>>
    BY <1>19 DEF UnlinkDeadTemporary
  <2>3. Standing'
    BY <2>1, <2>2, MoveStep DEF Places, Publishing, Withdrawing, Reclaiming, Holding, WithFile
  <2> QED
    BY <1>19, <2>3, NoFileAssumption, ReclaimFirstAssumption DEF UnlinkDeadTemporary, LockTypeOK, Standing
<1>20. ASSUME UnlinkDead(p) PROVE LockTypeOK'
  <2>1. PICK x \in {"unclaim"} : Goto(p, x) /\ (x \in WithFile <=> pc[p] \in WithFile) /\ pc[p] # "dead"
    BY <1>20 DEF UnlinkDead, Places, Publishing, Withdrawing, Reclaiming, Holding, WithFile
  <2>2. UNCHANGED <<alive, mine>>
    BY <1>20 DEF UnlinkDead
  <2>3. Standing'
    BY <2>1, <2>2, MoveStep DEF Places, Publishing, Withdrawing, Reclaiming, Holding, WithFile
  <2> QED
    BY <1>20, <2>3, NoFileAssumption, ReclaimFirstAssumption DEF UnlinkDead, LockTypeOK, Standing
<1>21. ASSUME EndReclaim(p) PROVE LockTypeOK'
  <2>1. PICK x \in {"create", "idle"} : Goto(p, x) /\ (x \in WithFile <=> pc[p] \in WithFile) /\ pc[p] # "dead"
    BY <1>21 DEF EndReclaim, AfterReclaim, Places, Publishing, Withdrawing, Reclaiming, Holding, WithFile
  <2>2. UNCHANGED <<alive, mine>>
    BY <1>21 DEF EndReclaim
  <2>3. Standing'
    BY <2>1, <2>2, MoveStep DEF Places, Publishing, Withdrawing, Reclaiming, Holding, WithFile
  <2> QED
    <3>1. /\ claims' = claims \ {p}
          /\ todo' \in [Process -> Listings]
      BY <1>21, UnclaimEffect DEF EndReclaim
    <3> QED
      BY <1>21, <2>3, <3>1, NoFileAssumption, ReclaimFirstAssumption DEF EndReclaim, LockTypeOK, Standing
<1>22. ASSUME AssertOwned(p) PROVE LockTypeOK'
  <2>1. CASE lock = mine[p]
    <3>1. Goto(p, "release") /\ UNCHANGED <<alive, mine>> /\ pc[p] = "hold"
      BY <1>22, <2>1, NoFileAssumption DEF AssertOwned
    <3> QED
      BY <1>22, <3>1, MoveStep DEF AssertOwned, LockTypeOK, Standing, Places, Publishing, Withdrawing, Reclaiming, Holding, WithFile
  <2>2. CASE lock # mine[p]
    <3>1. Goto(p, "idle") /\ UNCHANGED alive /\ Close(p) /\ pc[p] = "hold"
      BY <1>22, <2>2 DEF AssertOwned
    <3> QED
      BY <1>22, <3>1, CloseStep DEF AssertOwned, LockTypeOK, Standing, Places, Publishing, Withdrawing, Reclaiming, Holding, WithFile
  <2> QED
    BY <2>1, <2>2
<1>23. ASSUME Release(p) PROVE LockTypeOK'
  <2>1. PICK x \in {"idle"} : Goto(p, x) /\ pc[p] # "dead"
    BY <1>23 DEF Release, Places, Publishing, Withdrawing, Reclaiming, Holding, WithFile
  <2>2. UNCHANGED alive /\ Close(p)
    BY <1>23 DEF Release
  <2>3. Standing'
    BY <2>1, <2>2, CloseStep DEF Places, Publishing, Withdrawing, Reclaiming, Holding, WithFile
  <2> QED
    BY <1>23, <2>3, NoFileAssumption, ReclaimFirstAssumption DEF Release, LockTypeOK, Standing
<1>24. ASSUME Die(p) PROVE LockTypeOK'
  <2>1. Standing'
    <3>1. /\ alive' = alive \ {p}
          /\ pc' = [pc EXCEPT ![p] = "dead"]
          /\ mine' = [mine EXCEPT ![p] = NoFile]
      BY <1>24 DEF Die, Goto, Close
    <3>2. "dead" \in Places \ WithFile
      BY DEF Places, Publishing, Withdrawing, Reclaiming, Holding, WithFile
    <3> QED
      BY <3>1, <3>2, NoFileAssumption DEF LockTypeOK, Standing
  <2> QED
    BY <1>24, <2>1, NoFileAssumption DEF Die, LockTypeOK, Standing, Listings
<1>25. ASSUME FailScan(p) PROVE LockTypeOK'
  <2>1. PICK x \in {"discard", "withdraw", "idle"} :
          Goto(p, x) /\ (x \in WithFile <=> pc[p] \in WithFile) /\ pc[p] # "dead"
    BY <1>25 DEF FailScan, Scans, Places, Publishing, Withdrawing, Reclaiming, Holding, WithFile
  <2>2. UNCHANGED <<alive, mine>>
    BY <1>25 DEF FailScan
  <2>3. Standing'
    BY <2>1, <2>2, MoveStep DEF Places, Publishing, Withdrawing, Reclaiming, Holding, WithFile
  <2> QED
    BY <1>25, <2>3, NoFileAssumption DEF FailScan, LockTypeOK, Standing, Listings
<1> QED
  BY <1>1, <1>2, <1>3, <1>4, <1>5, <1>6, <1>7, <1>8, <1>9, <1>10, <1>11, <1>12, <1>13, <1>14, <1>15, <1>16, <1>17, <1>18, <1>19, <1>20, <1>21, <1>22, <1>23, <1>24, <1>25
     DEF LockStep, Publish, TakeBack, Scan, Reclaim, LetGo

-----------------------------------------------------------------------------
(* The inductive invariant.  A process is dangerous when its next step     *)
(* unlinks whatever file the lock path names; it has compared that file    *)
(* with the one it means before.                                           *)

Dangerous == {"unlink dead", "unlink own"}
Claimed == {"compare", "unlink dead temporary", "compare again", "unlink dead",
            "compare own", "unlink own"}
Judged == {"list before claim", "scan before claim", "claim", "compare",
           "unlink dead temporary", "compare again", "unlink dead"}
Linked == {"list after link", "scan after link", "unlink temporary", "verify",
           "hold", "release"}

\* An open file is the file of its owner: no inode is used again before.
MineInv == \A p \in Process : mine[p] \in File => owner[mine[p]] = p

\* A file that is judged dead and open stays the file of a dead process.
SeenInv ==
  \A p \in Process :
    /\ pc[p] \in {"open", "judge"} \cup Judged => seen[p] \in File
    /\ pc[p] \in Judged => owner[seen[p]] \notin alive

\* Who compares and unlinks has a claim.
ClaimInv == \A p \in Process : pc[p] \in Claimed => p \in claims

\* A process whose link is in place meets the claim of everybody who could still
\* unlink it, before it holds the lock.
GuardInv ==
  \A p, r \in Process :
    /\ pc[p] \in Linked
    /\ lock = mine[p]
    /\ pc[r] \in Dangerous
    => \/ pc[p] = "list after link"
       \/ pc[p] = "scan after link" /\ (r \in todo[p] \/ busy[p])

LockInv ==
  LockTypeOK /\ MineInv /\ SeenInv /\ ClaimInv /\ GuardInv /\ HolderKeepsLock

\* A step of a process moves no other process.
LEMMA Others ==
  ASSUME LockTypeOK, NEW p \in Process,
         Request(p) \/ LockStep(p) \/ Die(p)
  PROVE  \A q \in Process \ {p} : /\ pc'[q] = pc[q]
                                  /\ mine'[q] = mine[q]
                                  /\ seen'[q] = seen[q]
                                  /\ busy'[q] = busy[q]
<1> USE DEF LockTypeOK
<1> DEFINE Same == \A q \in Process \ {p} : /\ pc'[q] = pc[q]
                                           /\ mine'[q] = mine[q]
                                           /\ seen'[q] = seen[q]
                                           /\ busy'[q] = busy[q]
<1>1. ASSUME Request(p) PROVE Same
  BY <1>1 DEF Request, Goto, disk
<1>2. ASSUME ListClaims(p) PROVE Same
  <2>1. \E x : Goto(p, x)
    BY <1>2 DEF ListClaims
  <2> QED
    BY <1>2, <2>1 DEF ListClaims, Goto
<1>3. ASSUME JudgeClaim(p) PROVE Same
  BY <1>3 DEF JudgeClaim, Goto, disk, IsProcessAlive, ClearDead, Unclaim
<1>4. ASSUME EndScan(p) PROVE Same
  <2>1. \E x : Goto(p, x)
    BY <1>4 DEF EndScan
  <2>2. \A q \in Process \ {p} : seen'[q] = seen[q]
    BY <1>4 DEF EndScan
  <2> QED
    BY <1>4, <2>1, <2>2 DEF EndScan, Goto
<1>5. ASSUME Create(p) PROVE Same
  BY <1>5 DEF Create, Goto, LockTypeOK
<1>6. ASSUME Link(p) PROVE Same
  BY <1>6 DEF Link, Goto, disk
<1>7. ASSUME UnlinkTemporary(p) PROVE Same
  BY <1>7 DEF UnlinkTemporary, Goto, disk
<1>8. ASSUME Verify(p) PROVE Same
  BY <1>8 DEF Verify, Goto, disk
<1>9. ASSUME Withdraw(p) PROVE Same
  BY <1>9 DEF Withdraw, Goto, disk
<1>10. ASSUME CompareOwn(p) PROVE Same
  BY <1>10 DEF CompareOwn, Goto, disk
<1>11. ASSUME UnlinkOwn(p) PROVE Same
  BY <1>11 DEF UnlinkOwn, Goto, disk
<1>12. ASSUME UnclaimOwn(p) PROVE Same
  BY <1>12 DEF UnclaimOwn, Goto, disk, Close, Unclaim, AfterConflict
<1>13. ASSUME Discard(p) PROVE Same
  BY <1>13 DEF Discard, Goto, disk, Close, AfterConflict
<1>14. ASSUME Look(p) PROVE Same
  BY <1>14 DEF Look, Goto, disk, AfterReclaim
<1>15. ASSUME Open(p) PROVE Same
  <2>1. \E x : Goto(p, x)
    BY <1>15 DEF Open
  <2>2. \A q \in Process \ {p} : seen'[q] = seen[q]
    BY <1>15 DEF Open
  <2> QED
    BY <1>15, <2>1, <2>2 DEF Open, Goto
<1>16. ASSUME Judge(p) PROVE Same
  BY <1>16 DEF Judge, Goto, disk, AfterReclaim, IsProcessAlive, ExactTwin
<1>17. ASSUME Claim(p) PROVE Same
  BY <1>17 DEF Claim, Goto, disk
<1>18. ASSUME Compare(p) PROVE Same
  BY <1>18 DEF Compare, Goto, disk
<1>19. ASSUME UnlinkDeadTemporary(p) PROVE Same
  BY <1>19 DEF UnlinkDeadTemporary, Goto, disk
<1>20. ASSUME UnlinkDead(p) PROVE Same
  BY <1>20 DEF UnlinkDead, Goto, disk
<1>21. ASSUME EndReclaim(p) PROVE Same
  BY <1>21 DEF EndReclaim, Goto, disk, Unclaim, AfterReclaim
<1>22. ASSUME AssertOwned(p) PROVE Same
  BY <1>22 DEF AssertOwned, Goto, disk, Close
<1>23. ASSUME Release(p) PROVE Same
  BY <1>23 DEF Release, Goto, disk, Close
<1>24. ASSUME Die(p) PROVE Same
  BY <1>24 DEF Die, Goto, disk, Close
<1>25. ASSUME FailScan(p) PROVE Same
  BY <1>25 DEF FailScan, Goto, disk, Scans
<1> QED
  BY <1>1, <1>2, <1>3, <1>4, <1>5, <1>6, <1>7, <1>8, <1>9, <1>10, <1>11, <1>12, <1>13, <1>14, <1>15, <1>16, <1>17, <1>18, <1>19, <1>20, <1>21, <1>22, <1>23, <1>24, <1>25
     DEF LockStep, Publish, TakeBack, Scan, Reclaim, LetGo

\* What a step may do to what is shared: only a link gives the lock path a file,
\* live claims of others stay, and only files that are free are written.
LEMMA Effects ==
  ASSUME LockTypeOK, NEW p \in Process,
         Request(p) \/ LockStep(p) \/ Die(p)
  PROVE  /\ alive' \subseteq alive
         /\ \/ lock' = lock
            \/ lock' = NoFile /\ pc[p] \in Dangerous \cup {"release"}
            \/ lock = NoFile /\ lock' = mine[p] /\ mine[p] \in File
         /\ \A q \in Process : q \in claims /\ q \in alive /\ q # p => q \in claims'
         /\ \A q, r \in Process :
              q # p /\ r \in todo[q] /\ r \in alive /\ r # p => r \in todo'[q]
         /\ \A f \in File : Free(f) \/ owner'[f] = owner[f]
         /\ mine'[p] \in {mine[p], NoFile} \/ owner'[mine'[p]] = p
<1> USE DEF LockTypeOK, WithFile, Publishing, Withdrawing, Holding, Dangerous
<1> DEFINE Effect ==
      /\ alive' \subseteq alive
      /\ \/ lock' = lock
         \/ lock' = NoFile /\ pc[p] \in Dangerous \cup {"release"}
         \/ lock = NoFile /\ lock' = mine[p] /\ mine[p] \in File
      /\ \A q \in Process : q \in claims /\ q \in alive /\ q # p => q \in claims'
      /\ \A q, r \in Process :
           q # p /\ r \in todo[q] /\ r \in alive /\ r # p => r \in todo'[q]
      /\ \A f \in File : Free(f) \/ owner'[f] = owner[f]
      /\ mine'[p] \in {mine[p], NoFile} \/ owner'[mine'[p]] = p
<1>1. ASSUME Request(p) PROVE Effect
  BY <1>1 DEF Request, Goto, disk
<1>2. ASSUME ListClaims(p) PROVE Effect
  BY <1>2 DEF ListClaims, Goto, disk
<1>3. ASSUME JudgeClaim(p) PROVE Effect
  <2> PICK q \in todo[p] :
        \/ /\ q \in alive
           /\ busy' = [busy EXCEPT ![p] = TRUE]
           /\ todo' = [todo EXCEPT ![p] = todo[p] \ {q}]
           /\ UNCHANGED claims
        \/ q \notin alive /\ Unclaim(p, q) /\ UNCHANGED busy
    BY <1>3 DEF JudgeClaim, IsProcessAlive, ClearDead
  <2>1. UNCHANGED <<lock, temps, owner, alive, pc, mine, seen, twin, again>>
    BY <1>3 DEF JudgeClaim
  <2>2. CASE /\ todo' = [todo EXCEPT ![p] = todo[p] \ {q}]
             /\ UNCHANGED claims
    BY <2>1, <2>2
  <2>4. q \in Process
    BY <1>3 DEF JudgeClaim, Listings
  <2>3. CASE q \notin alive /\ Unclaim(p, q)
    BY <2>1, <2>3, <2>4, UnclaimEffect
  <2> QED
    BY <2>2, <2>3
<1>4. ASSUME EndScan(p) PROVE Effect
  BY <1>4 DEF EndScan, Goto, disk, AfterLink, AfterReclaim
<1>5. ASSUME Create(p) PROVE Effect
  <2> PICK f \in File : /\ Free(f)
                       /\ owner' = [owner EXCEPT ![f] = p]
                       /\ mine' = [mine EXCEPT ![p] = f]
    BY <1>5 DEF Create
  <2> QED
    BY <1>5 DEF Create, disk
<1>6. ASSUME Link(p) PROVE Effect
  BY <1>6 DEF Link, Goto, disk
<1>7. ASSUME UnlinkTemporary(p) PROVE Effect
  BY <1>7 DEF UnlinkTemporary, Goto, disk
<1>8. ASSUME Verify(p) PROVE Effect
  BY <1>8 DEF Verify, Goto, disk
<1>9. ASSUME Withdraw(p) PROVE Effect
  BY <1>9 DEF Withdraw, Goto, disk
<1>10. ASSUME CompareOwn(p) PROVE Effect
  BY <1>10 DEF CompareOwn, Goto, disk
<1>11. ASSUME UnlinkOwn(p) PROVE Effect
  BY <1>11 DEF UnlinkOwn, Goto, disk
<1>12. ASSUME UnclaimOwn(p) PROVE Effect
  BY <1>12 DEF UnclaimOwn, Goto, disk, Close, Unclaim, AfterConflict
<1>13. ASSUME Discard(p) PROVE Effect
  BY <1>13 DEF Discard, Goto, disk, Close, AfterConflict
<1>14. ASSUME Look(p) PROVE Effect
  BY <1>14 DEF Look, Goto, disk, AfterReclaim
<1>15. ASSUME Open(p) PROVE Effect
  BY <1>15 DEF Open, Goto, disk, AfterReclaim
<1>16. ASSUME Judge(p) PROVE Effect
  BY <1>16 DEF Judge, Goto, disk, AfterReclaim, IsProcessAlive, ExactTwin
<1>17. ASSUME Claim(p) PROVE Effect
  BY <1>17 DEF Claim, Goto, disk
<1>18. ASSUME Compare(p) PROVE Effect
  BY <1>18 DEF Compare, Goto, disk
<1>19. ASSUME UnlinkDeadTemporary(p) PROVE Effect
  BY <1>19 DEF UnlinkDeadTemporary, Goto, disk
<1>20. ASSUME UnlinkDead(p) PROVE Effect
  BY <1>20 DEF UnlinkDead, Goto, disk
<1>21. ASSUME EndReclaim(p) PROVE Effect
  BY <1>21 DEF EndReclaim, Goto, disk, Unclaim, AfterReclaim
<1>22. ASSUME AssertOwned(p) PROVE Effect
  BY <1>22 DEF AssertOwned, Goto, disk, Close
<1>23. ASSUME Release(p) PROVE Effect
  BY <1>23 DEF Release, Goto, disk, Close
<1>24. ASSUME Die(p) PROVE Effect
  BY <1>24 DEF Die, Goto, disk, Close
<1>25. ASSUME FailScan(p) PROVE Effect
  BY <1>25 DEF FailScan, Goto, disk, Scans
<1> QED
  BY <1>1, <1>2, <1>3, <1>4, <1>5, <1>6, <1>7, <1>8, <1>9, <1>10, <1>11, <1>12, <1>13, <1>14, <1>15, <1>16, <1>17, <1>18, <1>19, <1>20, <1>21, <1>22, <1>23, <1>24, <1>25
     DEF LockStep, Publish, TakeBack, Scan, Reclaim, LetGo

LEMMA MineStep ==
  ASSUME LockTypeOK, MineInv, NEW p \in Process,
         Request(p) \/ LockStep(p) \/ Die(p)
  PROVE  MineInv'
<1> SUFFICES ASSUME NEW q \in Process, mine'[q] \in File PROVE owner'[mine'[q]] = q
  BY DEF MineInv
<1>1. mine'[q] = mine[q] \/ q = p
  BY Others
<1>2. CASE mine'[q] = mine[q]
  <2>1. ~Free(mine[q])
    BY DEF Free, Opened
  <2> QED
    BY <1>2, <2>1, Effects DEF MineInv
<1>3. CASE q = p
  BY <1>2, <1>3, Effects, NoFileAssumption
<1> QED
  BY <1>1, <1>2, <1>3

LEMMA SeenOwn ==
  ASSUME LockTypeOK, SeenInv, NEW p \in Process,
         Request(p) \/ LockStep(p) \/ Die(p)
  PROVE  /\ pc'[p] \in {"open", "judge"} \cup Judged => seen'[p] \in File
         /\ pc'[p] \in Judged => owner'[seen'[p]] \notin alive'
<1> USE DEF LockTypeOK, SeenInv, Judged
<1> DEFINE Own ==
      /\ pc'[p] \in {"open", "judge"} \cup Judged => seen'[p] \in File
      /\ pc'[p] \in Judged => owner'[seen'[p]] \notin alive'
<1>1. ASSUME Request(p) PROVE Own
  BY <1>1, NoFileAssumption, NobodyAssumption DEF Request, Goto, disk
<1>2. ASSUME ListClaims(p) PROVE Own
  BY <1>2, NoFileAssumption, NobodyAssumption DEF ListClaims, Goto, disk
<1>3. ASSUME JudgeClaim(p) PROVE Own
  <2>1. UNCHANGED <<owner, alive, pc, seen>>
    BY <1>3 DEF JudgeClaim
  <2> QED
    BY <2>1
<1>4. ASSUME EndScan(p) PROVE Own
  <2>1. CASE pc[p] # "scan before claim"
    <3>1. \E x \in {"discard", "link", "withdraw", "unlink temporary"} : Goto(p, x)
      BY <1>4, <2>1 DEF EndScan, AfterLink
    <3> QED
      BY <3>1 DEF Goto
  <2>2. CASE pc[p] = "scan before claim" /\ busy[p]
    <3>1. \E x \in {"idle", "create"} : Goto(p, x)
      BY <1>4, <2>2 DEF EndScan, AfterReclaim
    <3> QED
      BY <3>1 DEF Goto
  <2>3. CASE pc[p] = "scan before claim" /\ ~busy[p]
    <3>1. Goto(p, "claim") /\ UNCHANGED <<owner, alive>> /\ seen'[p] = seen[p]
      BY <1>4, <2>3 DEF EndScan, disk
    <3> QED
      BY <2>3, <3>1 DEF Goto
  <2> QED
    BY <2>1, <2>2, <2>3
<1>5. ASSUME Create(p) PROVE Own
  BY <1>5 DEF Create, Goto
<1>6. ASSUME Link(p) PROVE Own
  <2>1. \E x \in {"list after link", "discard"} : Goto(p, x)
    BY <1>6 DEF Link
  <2> QED
    BY <2>1 DEF Goto
<1>7. ASSUME UnlinkTemporary(p) PROVE Own
  BY <1>7, NoFileAssumption, NobodyAssumption DEF UnlinkTemporary, Goto, disk
<1>8. ASSUME Verify(p) PROVE Own
  BY <1>8, NoFileAssumption, NobodyAssumption DEF Verify, Goto, disk
<1>9. ASSUME Withdraw(p) PROVE Own
  BY <1>9, NoFileAssumption, NobodyAssumption DEF Withdraw, Goto, disk
<1>10. ASSUME CompareOwn(p) PROVE Own
  BY <1>10, NoFileAssumption, NobodyAssumption DEF CompareOwn, Goto, disk
<1>11. ASSUME UnlinkOwn(p) PROVE Own
  BY <1>11, NoFileAssumption, NobodyAssumption DEF UnlinkOwn, Goto, disk
<1>12. ASSUME UnclaimOwn(p) PROVE Own
  BY <1>12, NoFileAssumption, NobodyAssumption DEF UnclaimOwn, Goto, disk, Close, Unclaim, AfterConflict
<1>13. ASSUME Discard(p) PROVE Own
  BY <1>13, NoFileAssumption, NobodyAssumption DEF Discard, Goto, disk, Close, AfterConflict
<1>14. ASSUME Look(p) PROVE Own
  BY <1>14, NoFileAssumption, NobodyAssumption DEF Look, Goto, disk, AfterReclaim
<1>15. ASSUME Open(p) PROVE Own
  <2>1. CASE lock = seen[p]
    BY <1>15, <2>1 DEF Open, Goto
  <2>2. CASE lock # seen[p]
    <3>1. \E x \in {"idle", "create"} : Goto(p, x)
      BY <1>15, <2>2 DEF Open, AfterReclaim
    <3> QED
      BY <3>1 DEF Goto
  <2> QED
    BY <2>1, <2>2
<1>16. ASSUME Judge(p) PROVE Own
  BY <1>16, NoFileAssumption, NobodyAssumption DEF Judge, Goto, disk, AfterReclaim, IsProcessAlive, ExactTwin
<1>17. ASSUME Claim(p) PROVE Own
  BY <1>17, NoFileAssumption, NobodyAssumption DEF Claim, Goto, disk
<1>18. ASSUME Compare(p) PROVE Own
  BY <1>18, NoFileAssumption, NobodyAssumption DEF Compare, Goto, disk
<1>19. ASSUME UnlinkDeadTemporary(p) PROVE Own
  BY <1>19, NoFileAssumption, NobodyAssumption DEF UnlinkDeadTemporary, Goto, disk
<1>20. ASSUME UnlinkDead(p) PROVE Own
  BY <1>20, NoFileAssumption, NobodyAssumption DEF UnlinkDead, Goto, disk
<1>21. ASSUME EndReclaim(p) PROVE Own
  <2>1. \E x \in {"create", "idle"} : Goto(p, x)
    BY <1>21 DEF EndReclaim, AfterReclaim
  <2> QED
    BY <2>1 DEF Goto
<1>22. ASSUME AssertOwned(p) PROVE Own
  BY <1>22, NoFileAssumption, NobodyAssumption DEF AssertOwned, Goto, disk, Close
<1>23. ASSUME Release(p) PROVE Own
  BY <1>23, NoFileAssumption, NobodyAssumption DEF Release, Goto, disk, Close
<1>24. ASSUME Die(p) PROVE Own
  BY <1>24, NoFileAssumption, NobodyAssumption DEF Die, Goto, disk, Close
<1>25. ASSUME FailScan(p) PROVE Own
  <2>1. \E x \in {"discard", "withdraw", "idle"} : Goto(p, x)
    BY <1>25 DEF FailScan, Scans
  <2> QED
    BY <2>1 DEF Goto
<1> QED
  BY <1>1, <1>2, <1>3, <1>4, <1>5, <1>6, <1>7, <1>8, <1>9, <1>10, <1>11, <1>12, <1>13, <1>14, <1>15, <1>16, <1>17, <1>18, <1>19, <1>20, <1>21, <1>22, <1>23, <1>24, <1>25
     DEF LockStep, Publish, TakeBack, Scan, Reclaim, LetGo

LEMMA SeenStep ==
  ASSUME LockTypeOK, SeenInv, NEW p \in Process,
         Request(p) \/ LockStep(p) \/ Die(p)
  PROVE  SeenInv'
<1> SUFFICES ASSUME NEW q \in Process
             PROVE  /\ pc'[q] \in {"open", "judge"} \cup Judged => seen'[q] \in File
                    /\ pc'[q] \in Judged => owner'[seen'[q]] \notin alive'
  BY DEF SeenInv
<1>1. CASE q = p
  BY <1>1, SeenOwn
<1>2. CASE q # p
  <2>1. pc'[q] = pc[q] /\ seen'[q] = seen[q]
    BY <1>2, Others
  <2>2. pc[q] \in Judged => ~Free(seen[q])
    BY DEF Free, Opened, Judged
  <2> QED
    BY <2>1, <2>2, Effects DEF SeenInv
<1> QED
  BY <1>1, <1>2

LEMMA ClaimOwn ==
  ASSUME LockTypeOK, ClaimInv, NEW p \in Process,
         Request(p) \/ LockStep(p) \/ Die(p)
  PROVE  pc'[p] \in Claimed => p \in claims'
<1> USE DEF LockTypeOK, ClaimInv, Claimed
<1>1. ASSUME Request(p) PROVE pc'[p] \in Claimed => p \in claims'
  BY <1>1, NoFileAssumption DEF Request, Goto, disk
<1>2. ASSUME ListClaims(p) PROVE pc'[p] \in Claimed => p \in claims'
  BY <1>2, NoFileAssumption DEF ListClaims, Goto, disk
<1>3. ASSUME JudgeClaim(p) PROVE pc'[p] \in Claimed => p \in claims'
  BY <1>3, NoFileAssumption DEF JudgeClaim, Goto, disk, IsProcessAlive, ClearDead, Unclaim
<1>4. ASSUME EndScan(p) PROVE pc'[p] \in Claimed => p \in claims'
  BY <1>4, NoFileAssumption DEF EndScan, Goto, disk, AfterLink, AfterReclaim
<1>5. ASSUME Create(p) PROVE pc'[p] \in Claimed => p \in claims'
  BY <1>5 DEF Create, Goto
<1>6. ASSUME Link(p) PROVE pc'[p] \in Claimed => p \in claims'
  BY <1>6, NoFileAssumption DEF Link, Goto, disk
<1>7. ASSUME UnlinkTemporary(p) PROVE pc'[p] \in Claimed => p \in claims'
  BY <1>7, NoFileAssumption DEF UnlinkTemporary, Goto, disk
<1>8. ASSUME Verify(p) PROVE pc'[p] \in Claimed => p \in claims'
  BY <1>8, NoFileAssumption DEF Verify, Goto, disk
<1>9. ASSUME Withdraw(p) PROVE pc'[p] \in Claimed => p \in claims'
  BY <1>9, NoFileAssumption DEF Withdraw, Goto, disk
<1>10. ASSUME CompareOwn(p) PROVE pc'[p] \in Claimed => p \in claims'
  BY <1>10, NoFileAssumption DEF CompareOwn, Goto, disk
<1>11. ASSUME UnlinkOwn(p) PROVE pc'[p] \in Claimed => p \in claims'
  BY <1>11, NoFileAssumption DEF UnlinkOwn, Goto, disk
<1>12. ASSUME UnclaimOwn(p) PROVE pc'[p] \in Claimed => p \in claims'
  BY <1>12, NoFileAssumption DEF UnclaimOwn, Goto, disk, Close, Unclaim, AfterConflict
<1>13. ASSUME Discard(p) PROVE pc'[p] \in Claimed => p \in claims'
  BY <1>13, NoFileAssumption DEF Discard, Goto, disk, Close, AfterConflict
<1>14. ASSUME Look(p) PROVE pc'[p] \in Claimed => p \in claims'
  BY <1>14, NoFileAssumption DEF Look, Goto, disk, AfterReclaim
<1>15. ASSUME Open(p) PROVE pc'[p] \in Claimed => p \in claims'
  BY <1>15, NoFileAssumption DEF Open, Goto, disk, AfterReclaim
<1>16. ASSUME Judge(p) PROVE pc'[p] \in Claimed => p \in claims'
  BY <1>16, NoFileAssumption DEF Judge, Goto, disk, AfterReclaim, IsProcessAlive, ExactTwin
<1>17. ASSUME Claim(p) PROVE pc'[p] \in Claimed => p \in claims'
  BY <1>17, NoFileAssumption DEF Claim, Goto, disk
<1>18. ASSUME Compare(p) PROVE pc'[p] \in Claimed => p \in claims'
  BY <1>18, NoFileAssumption DEF Compare, Goto, disk
<1>19. ASSUME UnlinkDeadTemporary(p) PROVE pc'[p] \in Claimed => p \in claims'
  BY <1>19, NoFileAssumption DEF UnlinkDeadTemporary, Goto, disk
<1>20. ASSUME UnlinkDead(p) PROVE pc'[p] \in Claimed => p \in claims'
  BY <1>20, NoFileAssumption DEF UnlinkDead, Goto, disk
<1>21. ASSUME EndReclaim(p) PROVE pc'[p] \in Claimed => p \in claims'
  BY <1>21, NoFileAssumption DEF EndReclaim, Goto, disk, Unclaim, AfterReclaim
<1>22. ASSUME AssertOwned(p) PROVE pc'[p] \in Claimed => p \in claims'
  BY <1>22, NoFileAssumption DEF AssertOwned, Goto, disk, Close
<1>23. ASSUME Release(p) PROVE pc'[p] \in Claimed => p \in claims'
  BY <1>23, NoFileAssumption DEF Release, Goto, disk, Close
<1>24. ASSUME Die(p) PROVE pc'[p] \in Claimed => p \in claims'
  BY <1>24, NoFileAssumption DEF Die, Goto, disk, Close
<1>25. ASSUME FailScan(p) PROVE pc'[p] \in Claimed => p \in claims'
  BY <1>25, NoFileAssumption DEF FailScan, Goto, disk, Scans
<1> QED
  BY <1>1, <1>2, <1>3, <1>4, <1>5, <1>6, <1>7, <1>8, <1>9, <1>10, <1>11, <1>12, <1>13, <1>14, <1>15, <1>16, <1>17, <1>18, <1>19, <1>20, <1>21, <1>22, <1>23, <1>24, <1>25
     DEF LockStep, Publish, TakeBack, Scan, Reclaim, LetGo

LEMMA ClaimStep ==
  ASSUME LockTypeOK, ClaimInv, NEW p \in Process,
         Request(p) \/ LockStep(p) \/ Die(p)
  PROVE  ClaimInv'
<1> SUFFICES ASSUME NEW q \in Process, pc'[q] \in Claimed PROVE q \in claims'
  BY DEF ClaimInv
<1>1. CASE q = p
  BY <1>1, ClaimOwn
<1>2. CASE q # p
  <2>1. pc[q] \in Claimed
    BY <1>2, Others
  <2>2. q \in claims /\ q \in alive
    BY <2>1 DEF ClaimInv, Claimed, LockTypeOK
  <2> QED
    BY <1>2, <2>2, Effects
<1> QED
  BY <1>1, <1>2

LEMMA GuardOwn ==
  ASSUME LockTypeOK, ClaimInv, GuardInv, NEW p \in Process,
         Request(p) \/ LockStep(p) \/ Die(p)
  PROVE  \A r \in Process \ {p} :
           pc[r] \in Dangerous /\ pc'[p] \in Linked /\ lock' = mine'[p]
             => \/ pc'[p] = "list after link"
                \/ pc'[p] = "scan after link" /\ (r \in todo'[p] \/ busy'[p])
<1> USE DEF LockTypeOK, GuardInv, Linked, Dangerous
<1> SUFFICES ASSUME NEW r \in Process \ {p}, pc[r] \in Dangerous,
                    pc'[p] \in Linked, lock' = mine'[p]
             PROVE  \/ pc'[p] = "list after link"
                    \/ pc'[p] = "scan after link" /\ (r \in todo'[p] \/ busy'[p])
  OBVIOUS
<1> DEFINE Met == \/ pc'[p] = "list after link"
                  \/ pc'[p] = "scan after link" /\ (r \in todo'[p] \/ busy'[p])
<1>100. r \in claims /\ r \in alive
  BY DEF ClaimInv, Dangerous, Claimed, LockTypeOK
<1>1. ASSUME Request(p) PROVE Met
  BY <1>1, <1>100, NoFileAssumption DEF Request, Goto, disk
<1>2. ASSUME ListClaims(p) PROVE Met
  BY <1>2, <1>100, NoFileAssumption DEF ListClaims, Goto, disk
<1>3. ASSUME JudgeClaim(p) PROVE Met
  <2> PICK q \in todo[p] :
        \/ /\ q \in alive
           /\ busy' = [busy EXCEPT ![p] = TRUE]
           /\ todo' = [todo EXCEPT ![p] = todo[p] \ {q}]
           /\ UNCHANGED claims
        \/ q \notin alive /\ Unclaim(p, q) /\ UNCHANGED busy
    BY <1>3 DEF JudgeClaim, IsProcessAlive, ClearDead
  <2>1. UNCHANGED <<lock, temps, owner, alive, pc, mine, seen, twin, again>>
    BY <1>3 DEF JudgeClaim
  <2>2. pc[p] = "scan after link" /\ lock = mine[p]
    BY <1>3, <2>1 DEF JudgeClaim, Scans
  <2>3. r \in todo[p] \/ busy[p]
    BY <2>2
  <2>4. CASE /\ q \in alive
             /\ busy' = [busy EXCEPT ![p] = TRUE]
    BY <2>1, <2>2, <2>4
  <2>5. CASE q \notin alive /\ Unclaim(p, q) /\ UNCHANGED busy
    <3>1. Nobody \notin todo[p] /\ q \in todo[p]
      BY <1>3 DEF JudgeClaim
    <3>3. todo[p] \in Listings
      OBVIOUS
    <3>2. q \in Process
      BY <3>1, <3>3 DEF Listings
    <3> QED
      BY <1>100, <2>1, <2>2, <2>3, <2>5, <3>2, UnclaimEffect
  <2> QED
    BY <2>4, <2>5
<1>4. ASSUME EndScan(p) PROVE Met
  BY <1>4, <1>100, NoFileAssumption DEF EndScan, Goto, disk, AfterLink, AfterReclaim
<1>5. ASSUME Create(p) PROVE Met
  BY <1>5, <1>100, NoFileAssumption DEF Create, Goto, disk, Free, Opened
<1>6. ASSUME Link(p) PROVE Met
  BY <1>6, <1>100, NoFileAssumption DEF Link, Goto, disk
<1>7. ASSUME UnlinkTemporary(p) PROVE Met
  BY <1>7, <1>100, NoFileAssumption DEF UnlinkTemporary, Goto, disk
<1>8. ASSUME Verify(p) PROVE Met
  BY <1>8, <1>100, NoFileAssumption DEF Verify, Goto, disk
<1>9. ASSUME Withdraw(p) PROVE Met
  BY <1>9, <1>100, NoFileAssumption DEF Withdraw, Goto, disk
<1>10. ASSUME CompareOwn(p) PROVE Met
  BY <1>10, <1>100, NoFileAssumption DEF CompareOwn, Goto, disk
<1>11. ASSUME UnlinkOwn(p) PROVE Met
  BY <1>11, <1>100, NoFileAssumption DEF UnlinkOwn, Goto, disk
<1>12. ASSUME UnclaimOwn(p) PROVE Met
  BY <1>12, <1>100, NoFileAssumption DEF UnclaimOwn, Goto, disk, Close, Unclaim, AfterConflict
<1>13. ASSUME Discard(p) PROVE Met
  BY <1>13, <1>100, NoFileAssumption DEF Discard, Goto, disk, Close, AfterConflict
<1>14. ASSUME Look(p) PROVE Met
  BY <1>14, <1>100, NoFileAssumption DEF Look, Goto, disk, AfterReclaim
<1>15. ASSUME Open(p) PROVE Met
  BY <1>15, <1>100, NoFileAssumption DEF Open, Goto, disk, AfterReclaim
<1>16. ASSUME Judge(p) PROVE Met
  BY <1>16, <1>100, NoFileAssumption DEF Judge, Goto, disk, AfterReclaim, IsProcessAlive, ExactTwin
<1>17. ASSUME Claim(p) PROVE Met
  BY <1>17, <1>100, NoFileAssumption DEF Claim, Goto, disk
<1>18. ASSUME Compare(p) PROVE Met
  BY <1>18, <1>100, NoFileAssumption DEF Compare, Goto, disk
<1>19. ASSUME UnlinkDeadTemporary(p) PROVE Met
  BY <1>19, <1>100, NoFileAssumption DEF UnlinkDeadTemporary, Goto, disk
<1>20. ASSUME UnlinkDead(p) PROVE Met
  BY <1>20, <1>100, NoFileAssumption DEF UnlinkDead, Goto, disk
<1>21. ASSUME EndReclaim(p) PROVE Met
  BY <1>21, <1>100, NoFileAssumption DEF EndReclaim, Goto, disk, Unclaim, AfterReclaim
<1>22. ASSUME AssertOwned(p) PROVE Met
  BY <1>22, <1>100, NoFileAssumption DEF AssertOwned, Goto, disk, Close
<1>23. ASSUME Release(p) PROVE Met
  BY <1>23, <1>100, NoFileAssumption DEF Release, Goto, disk, Close
<1>24. ASSUME Die(p) PROVE Met
  BY <1>24, <1>100, NoFileAssumption DEF Die, Goto, disk, Close
<1>25. ASSUME FailScan(p) PROVE Met
  BY <1>25, <1>100, NoFileAssumption DEF FailScan, Goto, disk, Scans
<1> QED
  BY <1>1, <1>2, <1>3, <1>4, <1>5, <1>6, <1>7, <1>8, <1>9, <1>10, <1>11, <1>12, <1>13, <1>14, <1>15, <1>16, <1>17, <1>18, <1>19, <1>20, <1>21, <1>22, <1>23, <1>24, <1>25
     DEF LockStep, Publish, TakeBack, Scan, Reclaim, LetGo

LEMMA EnterDanger ==
  ASSUME LockTypeOK, NEW p \in Process,
         Request(p) \/ LockStep(p) \/ Die(p)
  PROVE  pc'[p] \in Dangerous =>
           /\ lock' = lock
           /\ \/ lock = seen[p] /\ pc[p] \in Judged
              \/ lock = mine[p] /\ pc[p] = "compare own"
<1> USE DEF LockTypeOK, Judged, Dangerous
<1> DEFINE Enter == pc'[p] \in Dangerous =>
                      /\ lock' = lock
                      /\ \/ lock = seen[p] /\ pc[p] \in Judged
                         \/ lock = mine[p] /\ pc[p] = "compare own"
<1>1. ASSUME Request(p) PROVE Enter
  BY <1>1 DEF Request, Goto, disk
<1>2. ASSUME ListClaims(p) PROVE Enter
  BY <1>2 DEF ListClaims, Goto, disk
<1>3. ASSUME JudgeClaim(p) PROVE Enter
  BY <1>3 DEF JudgeClaim, Scans
<1>4. ASSUME EndScan(p) PROVE Enter
  BY <1>4 DEF EndScan, Goto, disk, AfterLink, AfterReclaim
<1>5. ASSUME Create(p) PROVE Enter
  BY <1>5 DEF Create, Goto
<1>6. ASSUME Link(p) PROVE Enter
  BY <1>6 DEF Link, Goto, disk
<1>7. ASSUME UnlinkTemporary(p) PROVE Enter
  BY <1>7 DEF UnlinkTemporary, Goto, disk
<1>8. ASSUME Verify(p) PROVE Enter
  BY <1>8 DEF Verify, Goto, disk
<1>9. ASSUME Withdraw(p) PROVE Enter
  BY <1>9 DEF Withdraw, Goto, disk
<1>10. ASSUME CompareOwn(p) PROVE Enter
  BY <1>10 DEF CompareOwn, Goto, disk
<1>11. ASSUME UnlinkOwn(p) PROVE Enter
  BY <1>11 DEF UnlinkOwn, Goto, disk
<1>12. ASSUME UnclaimOwn(p) PROVE Enter
  BY <1>12 DEF UnclaimOwn, Goto, disk, Close, Unclaim, AfterConflict
<1>13. ASSUME Discard(p) PROVE Enter
  BY <1>13 DEF Discard, Goto, disk, Close, AfterConflict
<1>14. ASSUME Look(p) PROVE Enter
  BY <1>14 DEF Look, Goto, disk, AfterReclaim
<1>15. ASSUME Open(p) PROVE Enter
  BY <1>15 DEF Open, Goto, disk, AfterReclaim
<1>16. ASSUME Judge(p) PROVE Enter
  BY <1>16 DEF Judge, Goto, disk, AfterReclaim, IsProcessAlive, ExactTwin
<1>17. ASSUME Claim(p) PROVE Enter
  BY <1>17 DEF Claim, Goto, disk
<1>18. ASSUME Compare(p) PROVE Enter
  BY <1>18 DEF Compare, Goto, disk
<1>19. ASSUME UnlinkDeadTemporary(p) PROVE Enter
  BY <1>19 DEF UnlinkDeadTemporary, Goto, disk
<1>20. ASSUME UnlinkDead(p) PROVE Enter
  BY <1>20 DEF UnlinkDead, Goto, disk
<1>21. ASSUME EndReclaim(p) PROVE Enter
  BY <1>21 DEF EndReclaim, Goto, disk, Unclaim, AfterReclaim
<1>22. ASSUME AssertOwned(p) PROVE Enter
  BY <1>22 DEF AssertOwned, Goto, disk, Close
<1>23. ASSUME Release(p) PROVE Enter
  BY <1>23 DEF Release, Goto, disk, Close
<1>24. ASSUME Die(p) PROVE Enter
  BY <1>24 DEF Die, Goto, disk, Close
<1>25. ASSUME FailScan(p) PROVE Enter
  BY <1>25 DEF FailScan, Goto, disk, Scans
<1> QED
  BY <1>1, <1>2, <1>3, <1>4, <1>5, <1>6, <1>7, <1>8, <1>9, <1>10, <1>11, <1>12, <1>13, <1>14, <1>15, <1>16, <1>17, <1>18, <1>19, <1>20, <1>21, <1>22, <1>23, <1>24, <1>25
     DEF LockStep, Publish, TakeBack, Scan, Reclaim, LetGo

LEMMA GuardStep ==
  ASSUME LockTypeOK, MineInv, SeenInv, ClaimInv, GuardInv, NEW p \in Process,
         Request(p) \/ LockStep(p) \/ Die(p)
  PROVE  GuardInv'
<1> SUFFICES ASSUME NEW a \in Process, NEW r \in Process,
                    pc'[a] \in Linked, lock' = mine'[a], pc'[r] \in Dangerous
             PROVE  \/ pc'[a] = "list after link"
                    \/ pc'[a] = "scan after link" /\ (r \in todo'[a] \/ busy'[a])
  BY DEF GuardInv
<1>1. a # r
  BY DEF Linked, Dangerous
<1>2. LockTypeOK'
  BY TypeStep
<1>3. mine'[a] \in File
  BY <1>2 DEF LockTypeOK, Linked, WithFile, Publishing, Withdrawing, Holding
<1>4. CASE a = p
  BY <1>1, <1>4, Others, GuardOwn
<1>5. CASE a # p
  <2>1. /\ pc'[a] = pc[a] /\ mine'[a] = mine[a] /\ busy'[a] = busy[a]
        /\ owner[mine[a]] = a
    BY <1>3, <1>5, Others DEF MineInv
  <2>2. lock' = lock
    <3>1. ~(lock' = mine[p] /\ mine[p] \in File)
      BY <1>3, <1>5, <2>1 DEF MineInv
    <3> QED
      BY <1>3, <3>1, Effects, NoFileAssumption
  <2>3. CASE r = p
    <3>1. a \in alive
      BY <2>1 DEF LockTypeOK, Linked
    <3>2. lock # seen[p] \/ pc[p] \notin Judged
      BY <2>1, <2>2, <3>1 DEF SeenInv
    <3>3. lock # mine[p] \/ mine[p] \notin File
      BY <1>5, <2>1, <2>2 DEF MineInv
    <3> QED
      BY <1>3, <2>1, <2>2, <2>3, <3>2, <3>3, EnterDanger
  <2>4. CASE r # p
    <3>1. pc[r] \in Dangerous /\ r \in alive
      BY <2>4, Others DEF LockTypeOK, Dangerous
    <3> QED
      BY <1>5, <2>1, <2>2, <2>4, <3>1, Effects DEF GuardInv
  <2> QED
    BY <2>3, <2>4
<1> QED
  BY <1>4, <1>5

LEMMA HoldOwn ==
  ASSUME LockTypeOK, HolderKeepsLock, NEW p \in Process,
         Request(p) \/ LockStep(p) \/ Die(p)
  PROVE  pc'[p] \in Holding => lock' = mine'[p]
<1> USE DEF LockTypeOK, Holding, HolderKeepsLock
<1>1. ASSUME Request(p) PROVE pc'[p] \in Holding => lock' = mine'[p]
  BY <1>1 DEF Request, Goto, disk
<1>2. ASSUME ListClaims(p) PROVE pc'[p] \in Holding => lock' = mine'[p]
  BY <1>2 DEF ListClaims, Goto, disk
<1>3. ASSUME JudgeClaim(p) PROVE pc'[p] \in Holding => lock' = mine'[p]
  BY <1>3 DEF JudgeClaim, Goto, disk, IsProcessAlive, ClearDead, Unclaim
<1>4. ASSUME EndScan(p) PROVE pc'[p] \in Holding => lock' = mine'[p]
  <2>1. \E x \in {"discard", "link", "withdraw", "unlink temporary", "claim", "create", "idle"} : Goto(p, x)
    BY <1>4 DEF EndScan, AfterLink, AfterReclaim
  <2> QED
    BY <2>1 DEF Goto
<1>5. ASSUME Create(p) PROVE pc'[p] \in Holding => lock' = mine'[p]
  BY <1>5 DEF Create, Goto
<1>6. ASSUME Link(p) PROVE pc'[p] \in Holding => lock' = mine'[p]
  BY <1>6 DEF Link, Goto, disk
<1>7. ASSUME UnlinkTemporary(p) PROVE pc'[p] \in Holding => lock' = mine'[p]
  BY <1>7 DEF UnlinkTemporary, Goto, disk
<1>8. ASSUME Verify(p) PROVE pc'[p] \in Holding => lock' = mine'[p]
  BY <1>8 DEF Verify, Goto, disk
<1>9. ASSUME Withdraw(p) PROVE pc'[p] \in Holding => lock' = mine'[p]
  BY <1>9 DEF Withdraw, Goto, disk
<1>10. ASSUME CompareOwn(p) PROVE pc'[p] \in Holding => lock' = mine'[p]
  BY <1>10 DEF CompareOwn, Goto, disk
<1>11. ASSUME UnlinkOwn(p) PROVE pc'[p] \in Holding => lock' = mine'[p]
  BY <1>11 DEF UnlinkOwn, Goto, disk
<1>12. ASSUME UnclaimOwn(p) PROVE pc'[p] \in Holding => lock' = mine'[p]
  BY <1>12 DEF UnclaimOwn, Goto, disk, Close, Unclaim, AfterConflict
<1>13. ASSUME Discard(p) PROVE pc'[p] \in Holding => lock' = mine'[p]
  BY <1>13 DEF Discard, Goto, disk, Close, AfterConflict
<1>14. ASSUME Look(p) PROVE pc'[p] \in Holding => lock' = mine'[p]
  BY <1>14 DEF Look, Goto, disk, AfterReclaim
<1>15. ASSUME Open(p) PROVE pc'[p] \in Holding => lock' = mine'[p]
  <2>1. \E x \in {"judge", "idle", "create"} : Goto(p, x)
    BY <1>15 DEF Open, AfterReclaim
  <2> QED
    BY <2>1 DEF Goto
<1>16. ASSUME Judge(p) PROVE pc'[p] \in Holding => lock' = mine'[p]
  BY <1>16 DEF Judge, Goto, disk, AfterReclaim, IsProcessAlive, ExactTwin
<1>17. ASSUME Claim(p) PROVE pc'[p] \in Holding => lock' = mine'[p]
  BY <1>17 DEF Claim, Goto, disk
<1>18. ASSUME Compare(p) PROVE pc'[p] \in Holding => lock' = mine'[p]
  BY <1>18 DEF Compare, Goto, disk
<1>19. ASSUME UnlinkDeadTemporary(p) PROVE pc'[p] \in Holding => lock' = mine'[p]
  BY <1>19 DEF UnlinkDeadTemporary, Goto, disk
<1>20. ASSUME UnlinkDead(p) PROVE pc'[p] \in Holding => lock' = mine'[p]
  BY <1>20 DEF UnlinkDead, Goto, disk
<1>21. ASSUME EndReclaim(p) PROVE pc'[p] \in Holding => lock' = mine'[p]
  BY <1>21 DEF EndReclaim, Goto, disk, Unclaim, AfterReclaim
<1>22. ASSUME AssertOwned(p) PROVE pc'[p] \in Holding => lock' = mine'[p]
  BY <1>22 DEF AssertOwned, Goto, disk, Close
<1>23. ASSUME Release(p) PROVE pc'[p] \in Holding => lock' = mine'[p]
  BY <1>23 DEF Release, Goto, disk, Close
<1>24. ASSUME Die(p) PROVE pc'[p] \in Holding => lock' = mine'[p]
  BY <1>24 DEF Die, Goto, disk, Close
<1>25. ASSUME FailScan(p) PROVE pc'[p] \in Holding => lock' = mine'[p]
  BY <1>25 DEF FailScan, Goto, disk, Scans
<1> QED
  BY <1>1, <1>2, <1>3, <1>4, <1>5, <1>6, <1>7, <1>8, <1>9, <1>10, <1>11, <1>12, <1>13, <1>14, <1>15, <1>16, <1>17, <1>18, <1>19, <1>20, <1>21, <1>22, <1>23, <1>24, <1>25
     DEF LockStep, Publish, TakeBack, Scan, Reclaim, LetGo

LEMMA HoldStep ==
  ASSUME LockTypeOK, MineInv, GuardInv, HolderKeepsLock, NEW p \in Process,
         Request(p) \/ LockStep(p) \/ Die(p)
  PROVE  HolderKeepsLock'
<1> SUFFICES ASSUME NEW a \in Process, pc'[a] \in Holding PROVE lock' = mine'[a]
  BY DEF HolderKeepsLock
<1>1. CASE a = p
  BY <1>1, HoldOwn
<1>2. CASE a # p
  <2>1. pc[a] \in Holding /\ mine'[a] = mine[a] /\ lock = mine[a]
    BY <1>2, Others DEF HolderKeepsLock
  <2>2. mine[a] \in File
    BY <2>1 DEF LockTypeOK, WithFile
  <2>3. pc[p] \notin Dangerous
    BY <1>2, <2>1 DEF GuardInv, Linked, Holding
  <2>4. pc[p] # "release"
    BY <1>2, <2>1, <2>2 DEF MineInv, HolderKeepsLock, Holding
  <2> QED
    BY <2>1, <2>2, <2>3, <2>4, Effects, NoFileAssumption
<1> QED
  BY <1>1, <1>2

-----------------------------------------------------------------------------
(* The theorems *)

LEMMA LockInvInit == LockInit => LockInv
BY NoFileAssumption
   DEF LockInit, LockInv, LockTypeOK, Listings, MineInv, SeenInv, ClaimInv, GuardInv,
       HolderKeepsLock, Places, Publishing, Withdrawing, Reclaiming, Holding,
       WithFile, Judged, Claimed, Linked, Dangerous

LEMMA LockInvStep == LockInv /\ [LockNext]_lockVars => LockInv'
<1> SUFFICES ASSUME LockInv, [LockNext]_lockVars PROVE LockInv'
  OBVIOUS
<1> USE DEF LockInv
<1>1. ASSUME NEW p \in Process, Request(p) \/ LockStep(p) \/ Die(p)
      PROVE  LockInv'
  BY <1>1, TypeStep, MineStep, SeenStep, ClaimStep, GuardStep, HoldStep
<1>2. CASE UNCHANGED lockVars
  BY <1>2 DEF lockVars, disk, process, LockTypeOK, MineInv, SeenInv, ClaimInv,
              GuardInv, HolderKeepsLock
<1> QED
  BY <1>1, <1>2 DEF LockNext

THEOREM LockInvariant == LockSpec => []LockInv
BY LockInvInit, LockInvStep, PTL DEF LockSpec

\* Every variable keeps its type, and no process leaves a descriptor open.
THEOREM LockTypeCorrect == LockSpec => []LockTypeOK
BY LockInvariant, PTL DEF LockInv

\* The lock of a process that holds it is never removed by another one, whatever
\* the number of processes and of crashes.
THEOREM HolderKeepsLockAlways == LockSpec => []HolderKeepsLock
BY LockInvariant, PTL DEF LockInv

LEMMA OneHolder == LockInv => MutualExclusion
BY DEF LockInv, LockTypeOK, MineInv, HolderKeepsLock, MutualExclusion, WithFile

\* No two processes hold the lock at once.
THEOREM MutuallyExclusive == LockSpec => []MutualExclusion
BY LockInvariant, OneHolder, PTL

-----------------------------------------------------------------------------
(* The lock files implement ExclusiveLock *)

HolderInv ==
  /\ \A p \in Process : pc[p] \in Holding => Holder = p
  /\ (\A p \in Process : pc[p] \notin Holding) => Holder = Nobody

LEMMA HolderIs == MutualExclusion => HolderInv
BY DEF MutualExclusion, Holder, HolderInv

LEMMA HolderStep ==
  ASSUME MutualExclusion, MutualExclusion', HolderInv, HolderInv', LockTypeOK,
         NEW p \in Process, Request(p) \/ LockStep(p) \/ Die(p)
  PROVE  Abstract!Next \/ UNCHANGED Holder
<1>1. \A q \in Process \ {p} : pc'[q] = pc[q]
  BY Others
<1>2. CASE pc[p] \in Holding /\ pc'[p] \in Holding
  BY <1>2 DEF HolderInv
<1>3. CASE pc[p] \notin Holding /\ pc'[p] \in Holding
  <2>1. \A q \in Process : pc[q] \notin Holding
    BY <1>1, <1>3 DEF MutualExclusion
  <2>2. Holder = Nobody /\ Holder' = p
    BY <1>3, <2>1 DEF HolderInv
  <2> QED
    BY <2>2 DEF Abstract!Next, Abstract!Acquire
<1>4. CASE pc[p] \in Holding /\ pc'[p] \notin Holding
  <2>1. \A q \in Process : pc'[q] \notin Holding
    BY <1>1, <1>4 DEF MutualExclusion
  <2>2. Holder = p /\ Holder' = Nobody
    BY <1>4, <2>1 DEF HolderInv
  <2> QED
    BY <2>2 DEF Abstract!Next, Abstract!Release
<1>5. CASE pc[p] \notin Holding /\ pc'[p] \notin Holding
  <2>1. \A q \in Process : pc'[q] \in Holding <=> pc[q] \in Holding
    BY <1>1, <1>5
  <2>2. CASE \E q \in Process : pc[q] \in Holding
    BY <2>1, <2>2 DEF HolderInv
  <2>3. CASE \A q \in Process : pc[q] \notin Holding
    BY <2>1, <2>3 DEF HolderInv
  <2> QED
    BY <2>2, <2>3
<1> QED
  BY <1>2, <1>3, <1>4, <1>5

\* The lock files implement the exclusive lock: the holder changes only from
\* nobody to a process and back.
THEOREM LockFilesRefine == LockSpec => ImplementsExclusiveLock
<1>1. LockInit => Abstract!Init
  BY DEF LockInit, Abstract!Init, Holder, Holding
<1>2. /\ LockTypeOK /\ MutualExclusion /\ HolderInv
      /\ MutualExclusion' /\ HolderInv'
      /\ [LockNext]_lockVars
      => [Abstract!Next]_Holder
  <2>1. CASE UNCHANGED lockVars
    <3>1. Holder' = Holder
      BY <2>1 DEF lockVars, process, Holder
    <3> QED
      BY <3>1
  <2>2. CASE LockNext
    BY <2>2, HolderStep DEF LockNext
  <2> QED
    BY <2>1, <2>2
<1> QED
  BY <1>1, <1>2, MutuallyExclusive, LockTypeCorrect, HolderIs, PTL
     DEF LockSpec, ImplementsExclusiveLock, Abstract!Spec

=============================================================================
