\* Two connections, one connection per client, listeners started up to three
\* times: a client at its limit, refusals and restarts all happen.
SPECIFICATION Spec
CONSTANTS
  Conn = {c1, c2}
  ann = ann
  bob = bob
  Client = {ann, bob}
  Allow <- MCAllow
  NoSpec = "none"
  Specs <- MCThree
  Broken = {"broken"}
  MaxConns = 2
  MaxPerIP = 1
  MaxGen = 3
SYMMETRY MCSymmetry
INVARIANTS
  TypeOK
  SourceRestriction
  StoppedConnectionsEnd
  ListenerLimits
  CountersExact
CHECK_DEADLOCK FALSE
