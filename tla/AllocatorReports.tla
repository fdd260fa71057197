-------------------------- MODULE AllocatorReports --------------------------
(***************************************************************************)
(* What can be asked of the early allocator between two operations: the    *)
(* handover information (EarlyAllocator::prepare_handover, up to the point *)
(* where it is boxed), the heap walk of BlockIterator and BlockValidator,  *)
(* and the analyses of the handover list.  None of them changes the        *)
(* allocator, so each is an operator on its state.                         *)
(***************************************************************************)
EXTENDS EarlyAllocator, Handover

(* The headers from address a on, as the loop over current_addr meets them *)
WalkFrom[a \in Nat] ==
  IF a >= HeapEnd THEN << >> ELSE <<a>> \o WalkFrom[End(a)]



(* Mutant: the address of the header is written, not that of the data. *)
DescribedFromHeader(a) ==
  Block(a, hdr[a].size, hdr[a].purpose, hdr[a].alloc_id)

Described(a) ==
  Block(a + HeaderSize, hdr[a].size, hdr[a].purpose, hdr[a].alloc_id)



(* The blocks that are stored, until the array is full *)
Tracked ==
  LET live == SelectSeq(WalkFrom[HeapStart], LAMBDA a : hdr[a].status = Allocated)
  IN [i \in 1 .. Min({Len(live), MaxTracked}) |-> Described(live[i])]

(* prepare_handover.  The second argument of HandoverInfo::new is heap_end,  *)
(* and the code passes the size of the heap.                                 *)
PrepareHandover ==
  Sealed([NewInfo(HeapStart, HeapEnd - HeapStart, stats.used_size) EXCEPT
            !.blocks = Tracked])

-----------------------------------------------------------------------------
(* BlockValidator::validate_heap over the blocks of BlockIterator, which     *)
(* stops at a header whose magic number is not intact                        *)
IteratedFrom[a \in Nat] ==
  IF a >= HeapEnd \/ a \notin DOMAIN hdr THEN << >> ELSE <<a>> \o IteratedFrom[End(a)]

ValidateHeap ==
  LET walk == IteratedFrom[HeapStart] IN
  IF \E i \in DOMAIN walk : ~Validate(hdr[walk[i]]) THEN "Block validation failed"
  ELSE IF \E i \in DOMAIN walk : End(walk[i]) > HeapEnd
    THEN "Block extends beyond heap boundary"
  ELSE IF FoldLeft(LAMBDA total, a : total + TotalSize(hdr[a]), 0, walk)
            # HeapEnd - HeapStart
    THEN "Heap blocks do not fill entire heap"
  ELSE "Ok"

-----------------------------------------------------------------------------
(***************************************************************************)
(* Properties                                                              *)
(***************************************************************************)

(* Live blocks below b *)
Rank(b) == Cardinality({c \in DOMAIN held : c < b})

(* The memory manager finds every grant in the handover information: looked  *)
(* up by its first or its last byte, a client's memory is in the block       *)
(* described for it, although alloc_aligned moves the pointer inside the     *)
(* block and the description does not.  When there are more blocks than the  *)
(* array holds, the ones with the lowest addresses are described.            *)
GrantsAreDescribed ==
  pc = "idle" =>
    LET list == Tracked IN
    /\ Len(list) = Min({Cardinality(DOMAIN held), MaxTracked})
    /\ \A b \in DOMAIN held : Rank(b) < MaxTracked =>
         /\ \A a \in {held[b].user, UserEnd(b) - 1} :
              FindBlockByAddr(list, a) = Rank(b) + 1
         /\ list[Rank(b) + 1].alloc_id = hdr[b].alloc_id
         /\ list[Rank(b) + 1].purpose = hdr[b].purpose

(* validate_heap finds nothing wrong between operations: the headers tile    *)
(* the heap as its walk, which knows only magic numbers and sizes, sees      *)
(* them, also past the stale headers that merges leave inside blocks.        *)
HeapValidates == pc = "idle" => ValidateHeap = "Ok"

(* What prepare_handover has made passes its own validation, as long as the  *)
(* array holds all blocks: alloc::prepare_handover promises the caller       *)
(* information that is "prepared and validated".                             *)
HandoverValidates ==
  pc = "idle" /\ Cardinality(DOMAIN held) <= MaxTracked
    => ValidateInfo(PrepareHandover) = "Ok"

(* The users of the analyses pass any slice of AllocatedBlocks, not only the *)
(* address-ordered list that prepare_handover makes.                         *)
Reorderings ==
  LET list == Tracked
  IN {[i \in DOMAIN list |-> list[f[i]]] : f \in Permutations(DOMAIN list)}

(* With every live block described, the analysis of the gaps agrees with the *)
(* allocator's books, whatever the order of the list: what lies between the  *)
(* described blocks is the free space and the headers of the live blocks,    *)
(* and the longest gap holds the largest free block.                         *)
GapsMatchBooks ==
  pc = "idle" /\ Cardinality(DOMAIN held) <= MaxTracked =>
    \A list \in Reorderings :
      LET analysis == AdvancedFragmentation(list, HeapStart, HeapEnd) IN
      /\ analysis.external_fragmentation
           = stats.free_size + HeaderSize * stats.alloc_count
      /\ \A b \in FreeBlocks : analysis.largest_free_block >= TotalSize(hdr[b])

(* blocks_by_priority returns every index once, the more important blocks    *)
(* first and blocks of one priority in the order of the list: the bounds of  *)
(* its two loops leave no pair out, also for the empty list, where the inner *)
(* bound would underflow.                                                    *)
OrderedByPriority(list) ==
  LET s == BlocksByPriority(list)
      P(i) == Priority(list[s[i]].purpose)
  IN /\ DOMAIN s = DOMAIN list
     /\ {s[i] : i \in DOMAIN s} = DOMAIN list
     /\ \A i, j \in DOMAIN s :
          i < j => P(i) < P(j) \/ (P(i) = P(j) /\ s[i] < s[j])

(* create_memory_map marks a page exactly when some byte of it belongs to a  *)
(* block, pages that a block only begins or ends in included, and stays      *)
(* inside the array when the heap has more pages than it has entries.        *)
MappedExactly(list) ==
  LET map == CreateMemoryMap(list, HeapStart, HeapSize)
      On(page) == {i \in DOMAIN list :
                     /\ list[i].addr < HeapStart + (page + 1) * PageSize
                     /\ EndAddr(list[i]) > HeapStart + page * PageSize}
  IN \A page \in 0 .. MapEntries - 1 :
       IF On(page) = {} THEN map[page] = 0 ELSE map[page] \in On(page)

(* group_by_purpose partitions the list: the groups of the reclaimable,      *)
(* critical and movable purposes add up to the sizes reported for them, and  *)
(* each group is what find_blocks_by_purpose finds.                          *)
GroupsAddUp(list) ==
  LET groups == GroupByPurpose(list)
      Total(Counted(_)) ==
        FoldLeft(LAMBDA t, p : IF Counted(p - 1) THEN t + groups[p - 1].size ELSE t,
                 0, UpTo(Cardinality(AllocPurpose)))
  IN /\ Total(IsReclaimable) = ReclaimableSize(list)
     /\ Total(IsCritical) = CriticalSize(list)
     /\ Total(IsMovable) = MovableSize(list)
     /\ Total(LAMBDA p : TRUE) = AllocatedSize(list)
     /\ CriticalSize(list) + ReclaimableSize(list) <= AllocatedSize(list)
     /\ \A p \in AllocPurpose : groups[p].count = Len(FindBlocksByPurpose(list, p))

(* The analyses of the handover list describe the heap: order of migration,  *)
(* memory map and groups are exact after any history, in whatever order the  *)
(* blocks are passed.                                                        *)
AnalysesFollowHeap ==
  pc = "idle" =>
    \A list \in Reorderings :
      OrderedByPriority(list) /\ MappedExactly(list) /\ GroupsAddUp(list)
=============================================================================
