SPECIFICATION Spec
CONSTANTS
  alice = alice
  bob = bob
  edge = edge
  line = line
  web = web
  v1 = v1
  NoOwner = NoOwner
  Client = {alice, bob}
  Device = {edge}
  Group = {line}
  Name = {v1}
  App = {web}
  Setting <- MCOsOnPostgres
  Seed <- MCSeed
  HomeGroup <- MCHomeGroup
  MaxEvents = 0
PROPERTY RepointIsAccepted
