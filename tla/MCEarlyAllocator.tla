--------------------------- MODULE MCEarlyAllocator ---------------------------
(***************************************************************************)
(* EarlyAllocator for TLC, with the properties that add up over all        *)
(* blocks.                                                                 *)
(***************************************************************************)
EXTENDS EarlyAllocatorGaps, FiniteSetsExt

(* Between operations the statistics describe the heap exactly: the sizes    *)
(* and counts agree with the headers, every allocation is either live or     *)
(* freed, and every block stems from a split that no merge has undone.  In   *)
(* particular none of the plain subtractions on these counters underflows.   *)
StatsDescribeHeap ==
  pc \in {"idle", "find", "check"} =>
    /\ stats.used_size = MapThenSumSet(LAMBDA b : hdr[b].size, DOMAIN held)
    /\ stats.free_size = MapThenSumSet(LAMBDA b : TotalSize(hdr[b]), FreeBlocks)
    /\ stats.alloc_count = Cardinality(DOMAIN held)
    /\ stats.free_count = Cardinality(FreeBlocks)
    /\ stats.total_allocs - stats.total_frees = stats.alloc_count
    /\ stats.split_count - stats.merge_count = Cardinality(blocks) - 1
    /\ stats.used_size <= stats.peak_used_size
    /\ next_alloc_id = stats.total_allocs + 1
=============================================================================
