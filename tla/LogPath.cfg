SPECIFICATION PathSpec
CONSTANTS
  MaxBatch = 2
  MaxBuffer = 3
  MaxAccept = 2
  MaxEntries = 4
  LogFaultKinds = {"unreachable", "lostAnswer", "unknown", "fatal", "end", "crash"}
  MaxLogFaults = 2
  App = {"app1", "app2"}
  MaxLines = 4
  MaxCommands = 3
  AppLogFaultKinds = {"unreachable", "lostAnswer", "stream"}
  MaxAppLogFaults = 1
  Device = {"here", "other"}
  Application = {"app1", "app2"}
  Devices <- MCDevices
  LevelKeys = {4}
  RingSize = 1
  WireSize = 1
  QueueSize = 2
  MaxLogs = 2
  Viewport = 1
  MaxKeys = 3
  MaxBreaks = 1
  ThisDevice = "here"
  Loads <- MCLoads
INVARIANTS
  PathTypeOK
  NothingIsLost
  StoredInOrder
  FlushIsABarrier
  DuplicatesAreLostAnswers
  NoLineIsLost
  ShownMatchesFilter
  LiveTailIsComplete
PROPERTIES
  EveryEntryIsSettled
  EveryLineIsSettled
  FatalExitCompletes
CHECK_DEADLOCK FALSE
