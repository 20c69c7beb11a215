\* One transaction; a git commit may fail late; the environment is still only in the check-to-use windows.
SPECIFICATION LateFailureSpec
CONSTANTS
  NumPaths = 2
  Contents <- MCContents
  Base <- MCBase
  Absent = "none"
  Produced <- MCProduced
  Edits <- MCEdits
  MaxTxn = 1
  MaxEdits = 2
  MaxGitOps = 2
  MaxFaults = 2
  Quiet <- WindowsAndBackup
INVARIANTS NoEditLost CommitIsOwn BackupsHeld
CHECK_DEADLOCK FALSE
