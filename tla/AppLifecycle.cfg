SPECIFICATION FairSpec
CONSTANTS
  Startable = TRUE
  FaultKinds = {"inspect", "start", "wait", "stop", "destroy"}
  MaxFaults = 3
  MaxCrashes = 3
INVARIANTS TypeOK RunningIsFollowed RemovedIsGone
PROPERTIES KeptAlive RemovalCompletes
CHECK_DEADLOCK FALSE
