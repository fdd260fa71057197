------------------------------ MODULE Metadata ------------------------------
(***************************************************************************)
(* Block headers and statistics of the early allocator                     *)
(* (init/alloc/metadata.rs).                                               *)
(*                                                                         *)
(* A header is a record of the fields the allocator reads.  The magic      *)
(* number is the same in every header and is left out; so are the          *)
(* timestamp and the padding bytes, which no decision of the allocator     *)
(* depends on.  BlockStatus and AllocPurpose keep their discriminants,     *)
(* because the checksum adds them up.                                      *)
(***************************************************************************)
EXTENDS Integers

CONSTANTS
  HeaderSize,      \* mem::size_of::<BlockHeader>(), 48 on the target
  FreeBlockSize    \* mem::size_of::<FreeBlock>(), two pointers, 16

ASSUME SizesAssumption ==
  /\ HeaderSize \in Nat \ {0}
  /\ FreeBlockSize \in Nat \ {0}

(* BlockStatus *)
Free == 0
Allocated == 1

(* AllocPurpose::Unknown *)
Unknown == 0

Header == [size : Nat, status : {Free, Allocated}, alloc_id : Nat,
           purpose : Nat, checksum : Nat]

(***************************************************************************)
(* calculate_checksum: a wrapping sum of the fields, without the checksum  *)
(* itself.  The sums of the model stay far below 2^32.                     *)
(***************************************************************************)
CalculateChecksum(h) == h.size + h.status + h.alloc_id + h.purpose

UpdateChecksum(h) == [h EXCEPT !.checksum = CalculateChecksum(h)]

Validate(h) == h.checksum = CalculateChecksum(h)

(* BlockHeader::new *)
NewHeader(size, status) ==
  UpdateChecksum([size |-> size, status |-> status, alloc_id |-> 0,
                  purpose |-> Unknown, checksum |-> 0])

TotalSize(h) == h.size + HeaderSize

-----------------------------------------------------------------------------
(***************************************************************************)
(* AllocStats.  coalesce_count always moves with merge_count,              *)
(* max_free_block_size and fragmentation_percent are never written after   *)
(* new, and avg_alloc_size is used_size / total_allocs at the last         *)
(* allocation: these four are left out, as is the constant total_size.     *)
(* min_alloc_size starts at usize::MAX, here at the total size of the      *)
(* heap, which no block reaches.                                           *)
(***************************************************************************)
MaxOf(a, b) == IF a >= b THEN a ELSE b
MinOf(a, b) == IF a <= b THEN a ELSE b

NewStats(total_size) ==
  [used_size |-> 0, free_size |-> total_size, alloc_count |-> 0,
   free_count |-> 1, total_allocs |-> 0, total_frees |-> 0,
   failed_allocs |-> 0, double_free_attempts |-> 0, corrupted_blocks |-> 0,
   split_count |-> 0, merge_count |-> 0, peak_used_size |-> 0,
   max_alloc_size |-> 0, min_alloc_size |-> total_size]

RecordAlloc(s, size) ==
  [s EXCEPT !.used_size = @ + size,
            !.total_allocs = @ + 1,
            !.alloc_count = @ + 1,
            !.max_alloc_size = MaxOf(@, size),
            !.min_alloc_size = MinOf(@, size),
            !.peak_used_size = MaxOf(@, s.used_size + size)]

(* alloc_count uses saturating_sub, used_size a plain subtraction. *)
RecordDealloc(s, size) ==
  [s EXCEPT !.used_size = @ - size,
            !.total_frees = @ + 1,
            !.alloc_count = IF @ > 0 THEN @ - 1 ELSE 0]

RecordMerge(s) == [s EXCEPT !.merge_count = @ + 1]
RecordSplit(s) == [s EXCEPT !.split_count = @ + 1]
RecordAllocFailure(s) == [s EXCEPT !.failed_allocs = @ + 1]
RecordDoubleFree(s) == [s EXCEPT !.double_free_attempts = @ + 1]
RecordCorruption(s) == [s EXCEPT !.corrupted_blocks = @ + 1]

(* The two in-place updates the allocator makes around these calls. *)
FreeGrows(s, bytes) == [s EXCEPT !.free_size = @ + bytes, !.free_count = @ + 1]
FreeShrinks(s, bytes) == [s EXCEPT !.free_size = @ - bytes, !.free_count = @ - 1]
=============================================================================
