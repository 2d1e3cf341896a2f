---------------------------- MODULE ExclusiveLock ----------------------------
(***************************************************************************)
(* What a prepared lock file promises the operations that run under it: at *)
(* any time at most one live process holds the lock, and the next one gets *)
(* it only after the holder has let go or has died.                        *)
(***************************************************************************)
CONSTANTS Process, Nobody \* Nobody is no process

VARIABLE holder

Init == holder = Nobody

Acquire(p) == holder = Nobody /\ holder' = p

\* The holder lets go, or dies.
Release(p) == holder = p /\ holder' = Nobody

Next == \E p \in Process : Acquire(p) \/ Release(p)

Spec == Init /\ [][Next]_holder
=============================================================================
