SPECIFICATION Spec
CONSTANTS
  Top = 5
  Layouts <- MCLayouts
  Align = 4
  HeapSize = 8
  MinHeap = 4
  MaxHeap = 16
  AddressLimit = 20
INVARIANTS
  BssClearedAroundStack
  HeapBehindKernel
CHECK_DEADLOCK FALSE
