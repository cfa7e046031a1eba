CONSTANTS
  a1 = a1
  a2 = a2
  a3 = a3
  APs <- ThreeAPs
  ApicId <- ThreeIds
  MaxCpu = 5
  NumStacks = 4
  Init32Inputs = {"ok"}
  Init64Given = {TRUE, FALSE}
  TargetLists <- FullList
  MaxCalls = 2
  TimeoutSufficient = TRUE
  Unreliable <- NoAPs
  EntryReturns = FALSE
SPECIFICATION FairSpec
INVARIANTS
  TypeOK
  OrderedIdsDistinct
  BspWaitsForAps
  LaunchContext
PROPERTIES
  ImplementsBarrier
