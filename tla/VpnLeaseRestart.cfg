\* A lease long enough for a second attempt; only UserInfo fails.
SPECIFICATION Spec
CONSTANTS
  Device = {}
  Groups = {"staff"}
  Enrol = {"staff"}
  Lease = 5
  Grace = 0
  Hard = 8
  Timeout = 1
  DeviceLimit = 1
  Faults = {"userinfo"}
  MaxGen = 3
  MaxSerial = 2
  MaxLogin = 1
PROPERTIES
  RestartSuspendsNobody
CHECK_DEADLOCK FALSE
