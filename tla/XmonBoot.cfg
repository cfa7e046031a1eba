CONSTANTS
  Word = 1073741824
  PageSize = 4096
  HeapBase = 17145856
  HeapSize = 655360
  ByteRequests <- MCByteRequests
  PageRequests = {1, 2}
  Granule = 16
  HalfWord = 32768
  XmonIdt = 17121280
  Td = 16777216
  PkgSize = 301056
  LoaderStart = 30720
  CpuidCounts = {0, 1, 2, 4, 76, 77, 78, 80, 81, 255}
  BootStates <- MCBootStates
  Exceptions = {2, 13, 18}
  CmdlineSizes = {0, 255, 2047, 1063741824, 1073737824}
SPECIFICATION LoaderSpec
INVARIANTS
  BlocksInHeap
  BlocksDisjoint
  LaunchReady
  StacksApart
  GdtCoversSelectors
  FailureCleansLoader
  GuestSegments
  LongModeEntered
  LinuxReady
PROPERTIES
  BootDecided
