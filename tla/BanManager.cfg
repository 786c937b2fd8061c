\* Two refusals race over tables of one entry for two addresses, while bans are
\* lifted, saved and read back after a crash or a shutdown.
SPECIFICATION BanSpec
CONSTANTS
  Ip = {"ann", "bob"}
  Request = {r1, r2}
  Threshold = 2
  Window = 1
  BanFor = 1
  GcAfter = 1
  MaxTracked = 1
  MaxTime = 3
  MaxStarts = 2
  Exempts = {{"ann"}}
  Persist = TRUE
INVARIANTS
  BansExact
  SaverUpToDate
SYMMETRY MCSymmetry
CHECK_DEADLOCK FALSE
