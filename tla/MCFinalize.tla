------------------------------ MODULE MCFinalize ------------------------------
(***************************************************************************)
(* Small instances of FinalizeTransaction.                                 *)
(***************************************************************************)
EXTENDS FinalizeTransaction

FairSpec == FinalizeSpec /\ FinalizeFairness
=============================================================================
