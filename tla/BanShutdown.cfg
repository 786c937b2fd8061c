\* A ban is lifted through the admin API during an orderly shutdown.
SPECIFICATION BanSpec
CONSTANTS
  Ip = {"ann", "bob"}
  Request = {r1}
  Threshold = 1
  Window = 2
  BanFor = 2
  GcAfter = 2
  MaxTracked = 1
  MaxTime = 4
  MaxStarts = 1
  Exempts = {{}}
  Persist = TRUE
INVARIANTS
  FileFollowsShutdown
CHECK_DEADLOCK FALSE
