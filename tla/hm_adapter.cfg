\* A lineage of two sessions; signals lost, commands killed, refused and repeated.
SPECIFICATION Spec
CONSTANTS
  NumSessions = 2
  Roots <- FirstRoot
  Counts <- OneCount
  None = None
  InOrder = TRUE
  MaxRows = 2
  MaxCompressions = 2
  MaxAccess = 0
  MaxCalls = 2
  MaxFaults = 2
INVARIANTS TypeOK IntervalsDisjoint SummaryOnce IndexOnce NothingRebound LineageKept
CHECK_DEADLOCK FALSE
