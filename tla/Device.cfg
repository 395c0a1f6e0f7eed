SPECIFICATION DeviceSpec
CONSTANTS
  factory = factory
  good = good
  newer = newer
  broken = broken
  nFactory = nFactory
  nGood = nGood
  nBroken = nBroken
  tag = tag
  Image <- MCImage
  Name <- MCName
  NamesOf <- MCNamesOf
  FactoryImage = factory
  Unhealthy <- MCUnhealthy
  NoImage = NoImage
  NoTarget = NoTarget
  FaultKinds = {"status", "target", "report", "switch", "timerStatus", "apply", "restart", "power"}
  MaxFaults = 2
  MaxAssignments = 3
  Config <- MCConfig
  Application <- MCApplication
  Reference <- MCReference
  Stripped <- MCStripped
  ContainerName <- MCApplication
  Digest = {"sha1"}
  NoDigest = "none"
  AppFaultKinds = {"create"}
  MaxAppFaults = 1
  MaxAppAssignments = 2
  Budgets <- MCBudgets
INVARIANTS DeviceTypeOK OnlyUpgradesOutdateStatus ApplyIsLocked StagedHasTrigger
PROPERTIES ReportsOnlyWhatIsBooted RefinesAtomicUpgrade HealthyVersionsConverge ApplicationsConverge
