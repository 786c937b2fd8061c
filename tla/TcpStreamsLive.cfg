\* Liveness: two connections, one handler slot, so that the listener is
\* full while it stops.
SPECIFICATION FairSpec
CONSTANTS
  Conn = {c1, c2}
  ann = ann
  bob = bob
  Client = {ann, bob}
  Allow <- MCAllow
  NoSpec = "none"
  Specs <- MCTwo
  Broken = {}
  MaxConns = 1
  MaxPerIP = 1
  MaxGen = 2
PROPERTIES
  StoppedDrains
CHECK_DEADLOCK FALSE
