\* Crashes, failures and failing rollbacks; drains before and after a recovery.
SPECIFICATION ServiceSpec
CONSTANTS
  NumEvents = 3
  Starts <- FirstStarts
  Terminals <- LastEnds
  MaxInterval = 2
  NoFile = NoFile
  Attempts = 2
  RecoverFirst = FALSE
  MaxAccess = 2
  MaxBuilds = 2
  MaxFaults = 2
INVARIANTS TypeOK QueuesAgree OneClaim EventKeptUnlessMisled AccessOnce AccessKept
PROPERTIES ImplementsDeliveryLog WatchedDrains EventDelivered AccessDelivered
CHECK_DEADLOCK FALSE
