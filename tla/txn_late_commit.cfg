\* Nobody else at work, and a git commit that may fail after it has moved the branch.
SPECIFICATION LateFailureSpec
CONSTANTS
  NumPaths = 2
  Contents <- MCContents
  Base <- MCBase
  Absent = "none"
  Produced <- MCProduced
  Edits <- MCEdits
  MaxTxn = 1
  MaxEdits = 0
  MaxGitOps = 0
  MaxFaults = 2
  Quiet <- NoWindow
INVARIANTS CommitDecides
CHECK_DEADLOCK FALSE
