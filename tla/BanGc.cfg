\* A window longer than the age at which gc drops a trail (ban_window_sec is
\* not bounded, gc's hour is fixed).
SPECIFICATION BanSpec
CONSTANTS
  Ip = {"ann", "bob"}
  Request = {r1}
  Threshold = 2
  Window = 3
  BanFor = 2
  GcAfter = 1
  MaxTracked = 1
  MaxTime = 5
  MaxStarts = 1
  Exempts = {{}}
  Persist = FALSE
INVARIANTS
  ThresholdBans
CHECK_DEADLOCK FALSE
