------------------------- MODULE EarlyAllocatorGaps -------------------------
(***************************************************************************)
(* The heap of EarlyAllocator seen as GapHeap sees it: a live allocation   *)
(* is a block that is held, and a gap is what lies between two of them.    *)
(***************************************************************************)
EXTENDS EarlyAllocator

Gap == INSTANCE GapHeap WITH
  live <- [b \in DOMAIN held |->
             [total |-> TotalSize(hdr[b]), user |-> held[b].user,
              size |-> held[b].size, align |-> held[b].align]],
  refusals <- stats.failed_allocs

(* The allocator implements GapHeap: first fit over the list is first fit    *)
(* over the gaps between live allocations, and a request is refused only     *)
(* when no gap has room.                                                     *)
ImplementsGapHeap == Gap!GapSpec
=============================================================================
