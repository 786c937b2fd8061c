\* The comment on StreamStatus against the accept loop.
SPECIFICATION Spec
CONSTANTS
  Conn = {c1}
  ann = ann
  bob = bob
  Client = {ann, bob}
  Allow <- MCAllow
  NoSpec = "none"
  Specs <- MCTwo
  Broken = {}
  MaxConns = 1
  MaxPerIP = 1
  MaxGen = 2
INVARIANTS
  RunningMeansAccepting
CHECK_DEADLOCK FALSE
