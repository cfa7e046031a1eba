CONSTANTS
  a1 = a1
  a2 = a2
  a3 = a3
  APs <- ThreeAPs
  ApicId <- ThreeIds
  MaxCpu = 5
  NumStacks = 3
  Init32Inputs = {"ok"}
  Init64Given = {TRUE}
  TargetLists <- NoLists
  MaxCalls = 2
  TimeoutSufficient = TRUE
  Unreliable <- OneGone
  EntryReturns = FALSE
SPECIFICATION Spec
INVARIANT ReturnsApsInit
