\* Commands killed or refused, and events that the worker puts aside.
SPECIFICATION HostSpec
CONSTANTS
  NumSessions = 2
  Roots <- FirstRoot
  Counts <- OneCount
  None = None
  InOrder = TRUE
  MaxRows = 1
  MaxCompressions = 1
  MaxAccess = 1
  MaxCalls = 2
  MaxFaults = 2
PROPERTIES IndexArrives UnfinishedCompletes
CHECK_DEADLOCK FALSE
