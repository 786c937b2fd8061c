\* A lease of three units, so that a renewal starts in its last one, an outage
\* grace of one, and a hard limit past both; everything may go wrong.
SPECIFICATION Spec
CONSTANTS
  Device = {d1}
  Groups = {"staff", "guest"}
  Enrol = {"staff"}
  Lease = 3
  Grace = 1
  Hard = 6
  Timeout = 1
  DeviceLimit = 1
  Faults = {"account", "network", "lost", "userinfo", "provider", "database", "endpoint", "crash"}
  MaxGen = 3
  MaxSerial = 2
  MaxLogin = 2
INVARIANTS
  EndpointFollowsStore
  AccessIsBounded
  SessionIsItsLogins
PROPERTIES
  OnlyLoginRevives
