SPECIFICATION Spec
CONSTANTS
  HeaderSize = 48
  FreeBlockSize = 16
  HeapStart = 512
  HeapSize = 336
  Sizes = {16, 100}
  Aligns = {8}
  Purposes = {9}
  ForeignPtrs = {}
  MaxOps = 2
  MaxTracked = 3
  ChecksumBlocks = 1
  PageSize = 64
  MapEntries = 4
INVARIANTS
  HandoverValidates
