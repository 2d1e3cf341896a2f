SPECIFICATION FinalizeSpec
CONSTANTS
  Work = {1, 2}
  Tasks = "tasks"
  Documents = {"handoff"}
  Previous = Previous
  Foreign = Foreign
  Baseline = Baseline
  NoTree = NoTree
  NoJournal = NoJournal
  NoCancellation = NoCancellation
  MaxTransactions = 1
  MaxEdits = 0
  MaxCrashes = 1
INVARIANTS
  AbortedNotProjected
CHECK_DEADLOCK FALSE
