\* Three sockets: a client can come back while its former session ends.
SPECIFICATION FairSpec
CONSTANTS
  Key = {"ann:1", "ann:2", "bob:1", "eve:1"}
  Addr = {"ann", "bob", "eve"}
  AddrOf <- MCAddrOf
  Refused = {"eve:1"}
  Up = {u1, u2, u3}
  NoUp = NoUp
  MaxSessions = 2
  MaxPerIP = 1
INVARIANTS
  CountsExact
  NoLostSocket
PROPERTIES
  ClosedSessionsDrain
CHECK_DEADLOCK FALSE
