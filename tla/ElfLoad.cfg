CONSTANTS
  Word = 128
  Page = 4
  Base = 100
  Allocated = 12
  Images <- MCImages
SPECIFICATION ElfSpec
INVARIANTS
  ImageLoaded
  WritesInLoadSize
