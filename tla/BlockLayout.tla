---------------------------- MODULE BlockLayout ----------------------------
(***************************************************************************)
(* Where alloc_aligned places an allocation inside a block, and how much   *)
(* of the block it takes (the arithmetic of init/alloc/allocator.rs).  A   *)
(* block of size s whose header is at b occupies b .. b + HeaderSize + s;  *)
(* the space an allocation requires is counted from b, header and          *)
(* alignment padding included, and is compared with s.                     *)
(***************************************************************************)
EXTENDS Metadata

CONSTANTS
  HeapStart, HeapSize,   \* arguments of EarlyAllocator::new
  Sizes, Aligns          \* the sizes and alignments clients ask for

ASSUME HeapAssumption ==
  /\ HeapStart \in Nat \ {0}
  /\ HeapSize \in Nat
  /\ HeapSize >= 2 * (HeaderSize + FreeBlockSize)     \* min_heap_size()

ASSUME RequestAssumption == Sizes \subseteq Nat /\ Aligns \subseteq Nat

HeapEnd == HeapStart + HeapSize

MinBlockSize == HeaderSize + FreeBlockSize

(* is_power_of_two() *)
IsPowerOfTwo(a) == a > 0 /\ \E k \in 0 .. a : a = 2 ^ k

(* The arguments alloc_aligned accepts *)
WellFormed(size, align) == size # 0 /\ IsPowerOfTwo(align)

(* (data_addr + align - 1) & !(align - 1): the mask drops the remainder. *)
CalculateAlignedAddr(b, align) ==
  LET x == b + HeaderSize + align - 1 IN x - (x % align)

AllocSize(size) == MaxOf(size, FreeBlockSize)

(* Mutant: the alignment padding is not counted. *)
RequiredSizeUnpadded(b, size, align) == HeaderSize + AllocSize(size)

(* required_size, and required_space of find_free_block *)
RequiredSize(b, size, align) ==
  CalculateAlignedAddr(b, align) - b + AllocSize(size)
=============================================================================
