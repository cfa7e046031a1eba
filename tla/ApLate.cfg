CONSTANTS
  a1 = a1
  a2 = a2
  a3 = a3
  APs <- TwoAPs
  ApicId <- TwoIds
  MaxCpu = 4
  NumStacks = 2
  Init32Inputs = {"ok"}
  Init64Given = {TRUE, FALSE}
  TargetLists <- NoLists
  MaxCalls = 2
  TimeoutSufficient = FALSE
  Unreliable <- OneGone
  EntryReturns = TRUE
SPECIFICATION Spec
INVARIANTS
  LaunchContext
