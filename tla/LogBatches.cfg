SPECIFICATION FairDeviceLogSpec
CONSTANTS
  MaxBatch = 2
  MaxBuffer = 3
  MaxAccept = 2
  MaxEntries = 4
  LogFaultKinds = {"unreachable"}
  MaxLogFaults = 1
PROPERTY OutagesPass
CHECK_DEADLOCK FALSE
