SPECIFICATION FairSpec
CONSTANTS
  HeaderSize = 48
  FreeBlockSize = 16
  HeapStart = 64
  HeapSize = 336
  Sizes = {16, 100}
  Aligns = {8}
  Purposes = {9}
  ForeignPtrs = {}
  MaxOps = 7
  MaxTracked = 3
  ChecksumBlocks = 1
  PageSize = 64
  MapEntries = 4
INVARIANTS
  StatsDescribeHeap
  GrantsAreDescribed
  HeapValidates
  GapsMatchBooks
  AnalysesFollowHeap
PROPERTIES
  ImplementsGapHeap
  OperationsComplete
