\* Two flows of one source that may have one in the queue, two workers per
\* instance, reloads in place and a reset.
SPECIFICATION FairSpec
CONSTANTS
  Flow = {"a1", "a2"}
  SrcOf <- MCSrcOf
  Src = {"a"}
  NoFlow = NoFlow
  Policies <- MCPolicies
  Worker = {w1, w2}
  PerSource = 1
  QueueLen = 1
  CacheMax = 1
  DenyFor = 1
  MaxInst = 2
INVARIANTS
  TypeOK
  SharesExact
PROPERTIES
  PendingSettles
