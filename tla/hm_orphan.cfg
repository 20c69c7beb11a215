\* A session that continues another makes its first LLM call before the
\* gateway's hook has signalled the compression.
SPECIFICATION Spec
CONSTANTS
  NumSessions = 2
  Roots <- FirstRoot
  Counts <- OneCount
  None = None
  InOrder = FALSE
  MaxRows = 1
  MaxCompressions = 1
  MaxAccess = 0
  MaxCalls = 1
  MaxFaults = 1
INVARIANT LineageKept
CHECK_DEADLOCK FALSE
