CONSTANTS
  Word = 1073741824
  PageSize = 4096
  HeapBase = 17145856
  HeapSize = 655360
  ByteRequests <- MCByteRequests
  PageRequests = {1, 2}
  Granule = 16
  HalfWord = 32768
  XmonIdt = 17121280
  Td = 16777216
  PkgSize = 301056
  LoaderStart = 30720
  CpuidCounts = {2}
  BootStates <- OneBootState
  Exceptions = {2, 13, 18}
  CmdlineSizes = {255}
SPECIFICATION LoaderSpec
INVARIANTS
  FaultsReported
