\* A drain after a crash, with a journal still open.
SPECIFICATION Spec
CONSTANTS
  NumEvents = 2
  Starts <- NoStarts
  Terminals <- LastEnds
  MaxInterval = 2
  NoFile = NoFile
  Attempts = 2
  RecoverFirst = FALSE
  MaxAccess = 2
  MaxBuilds = 2
  MaxFaults = 2
INVARIANTS EventKept
CHECK_DEADLOCK FALSE
