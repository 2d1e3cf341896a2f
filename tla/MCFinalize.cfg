SPECIFICATION FairSpec
CONSTANTS
  Work = {1, 2}
  Tasks = "tasks"
  Documents = {"handoff"}
  Previous = Previous
  Foreign = Foreign
  Baseline = Baseline
  NoTree = NoTree
  NoJournal = NoJournal
  NoCancellation = NoCancellation
  MaxTransactions = 1
  MaxEdits = 2
  MaxCrashes = 1
INVARIANTS
  CommittedTreeChecked
  ChecksStartOnce
  ProjectionsAreJournalled
  CancelledNeverFinished
PROPERTIES
  TransactionsEnd
  PendingCommitsEnd
CHECK_DEADLOCK FALSE
