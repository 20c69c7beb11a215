\* As lc_delivery, with more access events than one interval may hold, and
\* recovery before every drain.
SPECIFICATION ServiceSpec
CONSTANTS
  NumEvents = 2
  Starts <- NoStarts
  Terminals <- LastEnds
  MaxInterval = 1
  NoFile = NoFile
  Attempts = 2
  RecoverFirst = TRUE
  MaxAccess = 2
  MaxBuilds = 2
  MaxFaults = 2
PROPERTIES AccessDelivered
CHECK_DEADLOCK FALSE
