\* Two flows and room for one record: full queues, probes, timeouts, and a disk
\* that fails or hangs.
SPECIFICATION FairSpec
CONSTANTS
  Flow = {f1, f2}
  QueueSize = 1
INVARIANTS
  NoRecordNoFlow
  RefusedIsNotAllowed
  OneProbe
  LossesCounted
PROPERTIES
  AdmissionEnds
CHECK_DEADLOCK FALSE
