\* A reload while a refusal is being noted.
SPECIFICATION Spec
CONSTANTS
  Flow = {"a1", "a2"}
  SrcOf <- MCSrcOf
  Src = {"a"}
  NoFlow = NoFlow
  Policies <- MCPolicies
  Worker = {w1}
  PerSource = 1
  QueueLen = 1
  CacheMax = 2
  DenyFor = 1
  MaxInst = 2
INVARIANT ReloadForgetsRefusals
