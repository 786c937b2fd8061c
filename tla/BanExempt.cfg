\* A refusal that is recorded while the never-ban list changes.
SPECIFICATION BanSpec
CONSTANTS
  Ip = {"ann", "bob"}
  Request = {r1}
  Threshold = 1
  Window = 2
  BanFor = 2
  GcAfter = 2
  MaxTracked = 1
  MaxTime = 4
  MaxStarts = 1
  Exempts = {{}, {"ann"}}
  Persist = FALSE
INVARIANTS
  NoExemptBanned
CHECK_DEADLOCK FALSE
