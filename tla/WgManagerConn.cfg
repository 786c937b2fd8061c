SPECIFICATION Spec
CONSTANTS
  Peer = {"device:a", "device:b", "site:1"}
  NoPeer = NoPeer
  Pub = {"A", "B", "S", "S2"}
  Addr = {"10.1", "10.2"}
  Dst = {"nas"}
  Configs <- MCConfigs
  Thing = {t1}
  MaxPerPeer = 1
  MaxTotal = 2
  MaxPending = 1
  MaxInst = 3
  MaxTime = 3
INVARIANT ConnIsItsPeers
CHECK_DEADLOCK FALSE
