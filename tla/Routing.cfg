\* Up to three configuration changes around a request.
SPECIFICATION Spec
CONSTANTS
  Name = {"app.x", "api.x"}
  Wild = {"*.x"}
  WildOf <- MCWildOf
  DbConfig <- MCDbConfig
  DkConfig <- MCDkConfig
  Absent = Absent
  Req = {r1}
  MaxChanges = 3
INVARIANTS
  TableFollowsConfig
  ManualHostWins
PROPERTIES
  CutsExactly
CHECK_DEADLOCK FALSE
