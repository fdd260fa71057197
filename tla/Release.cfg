CONSTANTS
  HeaderSize = 48
  FreeBlockSize = 16
  HeapStart = 64
  HeapSize = 448
  Sizes = {8, 41}
  Aligns = {8, 64}
  Purposes = {}
  ForeignPtrs = {}
  MaxOps = 4
SPECIFICATION Spec
INVARIANTS OwnPtrsReleasable
