SPECIFICATION FairSpec
CONSTANTS
  db1 = db1
  web1 = web1
  web2 = web2
  log1 = log1
  webAdmin1 = webAdmin1
  Config <- MCConfig
  Application <- MCApplication
  Reference <- MCReference
  Stripped <- MCStripped
  ContainerName <- MCApplication
  Digest = {"sha1"}
  NoDigest = "none"
  FaultKinds = {"fetch", "pull", "create", "destroy", "report", "prune", "restart", "list"}
  MaxFaults = 2
  MaxAssignments = 2
INVARIANTS TypeOK IndicesStayValid
PROPERTIES ReportsWhatRuns KeepsWhatIsWanted Converges
