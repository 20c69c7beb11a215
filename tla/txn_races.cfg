\* Two paths, two transactions, and an environment that acts at any moment.
SPECIFICATION Spec
CONSTANTS
  NumPaths = 2
  Contents <- MCContents
  Base <- MCBase
  Absent = "none"
  Produced <- MCProduced
  Edits <- MCEdits
  MaxTxn = 2
  MaxEdits = 1
  MaxGitOps = 1
  MaxFaults = 1
  Quiet <- NoWindow
INVARIANTS TypeOK OnePending CommitDecides RollbackIsTotal
PROPERTY ImplementsAtomicUpdate
CHECK_DEADLOCK FALSE
