\* Two things at once, a budget of one per peer, one replacement of the stack
\* instance and one expiry.
SPECIFICATION FairSpec
CONSTANTS
  Peer = {"device:a", "device:b", "site:1"}
  NoPeer = NoPeer
  Pub = {"A", "B", "S", "S2"}
  Addr = {"10.1", "10.2"}
  Dst = {"nas"}
  Configs <- MCConfigs
  Thing = {t1, t2}
  MaxPerPeer = 1
  MaxTotal = 2
  MaxPending = 1
  MaxInst = 2
  MaxTime = 3
INVARIANTS
  OpenIsAuthorized
  ExpiredHaveNothing
  Budgets
PROPERTIES
  AddressKeepsOwner
  ClosedEnds
CHECK_DEADLOCK FALSE
