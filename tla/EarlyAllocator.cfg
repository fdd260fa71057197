SPECIFICATION Spec
CONSTANTS
  HeaderSize = 48
  FreeBlockSize = 16
  HeapStart = 64
  HeapSize = 448
  Sizes = {0, 8, 41}
  Aligns = {3, 8, 64}
  Purposes = {3}
  ForeignPtrs = {8, 512, 513}
  MaxOps = 4
INVARIANTS
  TypeOK
  HeapTiled
  FreeListExact
  FullyCoalesced
  GrantsAreSeparate
  AllocatedMeansOwned
  IntegrityCheckPasses
PROPERTIES
  DoubleFreeCaught
  ImplementsGapHeap
