SPECIFICATION LaunchSpec
CONSTANTS
  Word32 = 8388608
  Word64 = 1073741824
  Page = 8
  HeaderSize = 2
  Td <- MCTd
  HideAddr <- MCHideAddr
  HideSize <- MCHideSize
  Maps <- MCMaps
  ModuleLists <- MCModuleLists
  Beyond <- MCNothing
  Headers <- MCHeaders
INVARIANTS
  BootMapFaithful
  InitrdInRam
  
  InitrdSparesLoader
  RamdiskIntact
PROPERTIES
  HighestRam
