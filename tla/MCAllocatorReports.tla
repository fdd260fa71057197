------------------------- MODULE MCAllocatorReports -------------------------
(* AllocatorReports for TLC, with the statistics of MCEarlyAllocator *)
EXTENDS MCEarlyAllocator, AllocatorReports
=============================================================================
