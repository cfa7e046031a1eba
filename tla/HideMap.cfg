SPECIFICATION HideSpec
CONSTANTS
  Word32 = 16
  Word64 = 64
  HideAddr = 2
  HideSize = 2
  Maps <- MCMaps
INVARIANTS
  MapWholeOrHidden
  HidesWhatItCan
  EntriesFit
