------------------------- MODULE MCExpenseSyncFeed -------------------------
(* Small instances of ExpenseSyncFeed.                                     *)
EXTENDS ExpenseSyncFeed, TLC

WriterSymmetry == Permutations(Writers)
=============================================================================
