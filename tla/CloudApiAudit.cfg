SPECIFICATION CloudSpec
CONSTANTS
  User = {"ann", "bob"}
  Task = {"ping", "apps"}
  Requester = {"ping", "apps"}
  Walker = "ann"
  Blank = ""
  Key = {"k1", "k2"}
  NoKey = "null"
  Lifetime = 4
  RefreshBefore = 1
  MaxDelay = 1
  Leeway = 2
  Drift = 0
  Skew = 2
  Horizon = 3
  Self <- MCSelf
  CallOf <- MCCallOf
  Tracked <- MCTracked
  Loads <- MCLoads
PROPERTY
  ChangesNameTheirUser
CHECK_DEADLOCK FALSE
