SPECIFICATION FairSpec
CONSTANTS
  db1 = db1
  web1 = web1
  web2 = web2
  log1 = log1
  webAdmin1 = webAdmin1
  Config <- MCPrefixConfig
  Application <- MCPrefixApplication
  Reference <- MCPrefixReference
  Stripped <- MCPrefixStripped
  ContainerName <- MCPrefixApplication
  Digest = {"sha1"}
  NoDigest = "none"
  FaultKinds = {}
  MaxFaults = 0
  MaxAssignments = 2
PROPERTIES Converges
