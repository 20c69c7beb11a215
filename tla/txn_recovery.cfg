\* Nobody else at work: crashes and failures only, and recovery is run until it succeeds.
SPECIFICATION FairSpec
CONSTANTS
  NumPaths = 2
  Contents <- MCContents
  Base <- MCBase
  Absent = "none"
  Produced <- MCProduced
  Edits <- MCEdits
  MaxTxn = 2
  MaxEdits = 0
  MaxGitOps = 0
  MaxFaults = 3
  Quiet <- NoWindow
INVARIANTS AlwaysRecoverable DecidedIsClean
PROPERTY RecoveryConverges
CHECK_DEADLOCK FALSE
