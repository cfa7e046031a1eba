CONSTANTS
  a1 = a1
  a2 = a2
  a3 = a3
  APs <- ThreeAPs
  ApicId <- ThreeIds
  MaxCpu = 5
  NumStacks = 3
  Init32Inputs = {"null", "nopage", "ok"}
  Init64Given = {TRUE}
  TargetLists <- SomeLists
  MaxCalls = 1
  TimeoutSufficient = TRUE
  Unreliable <- ThreeAPs
  EntryReturns = FALSE
SPECIFICATION FairSpec
INVARIANTS
  OrderedIdsDistinct
  PrivateStacks
  BspWaitsForAps
  ApsStayInCode
  ReturnsApsInit
  ProcessorCountExact
PROPERTIES
  IdsFrozen
  BspLaunches
  ApsLaunch
