\* A search in a session that continues another one, which is then finalised.
SPECIFICATION Spec
CONSTANTS
  NumSessions = 2
  Roots <- FirstRoot
  Counts <- OneCount
  None = None
  InOrder = TRUE
  MaxRows = 1
  MaxCompressions = 1
  MaxAccess = 1
  MaxCalls = 2
  MaxFaults = 0
INVARIANT AccessFlushed
CHECK_DEADLOCK FALSE
