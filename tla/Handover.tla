------------------------------ MODULE Handover ------------------------------
(***************************************************************************)
(* HandoverInfo and handover_utils (init/alloc/handover.rs): the           *)
(* description of the live blocks that the early allocator makes for the   *)
(* memory manager that takes over, and the analyses offered on it.         *)
(*                                                                         *)
(* A block is described by its address, size, purpose and allocation id.   *)
(* The array allocated_blocks with allocated_count is a sequence of at     *)
(* most MaxTracked blocks, and an index i of the code is i + 1 here.       *)
(* Magic and version are the same in every HandoverInfo and are left out,  *)
(* as are the percentages computed with f32 (leak_score,                   *)
(* fragmentation_score), which nothing reads but the printing.             *)
(***************************************************************************)
EXTENDS Integers, Sequences, SequencesExt

CONSTANTS
  MaxTracked,       \* MAX_TRACKED_BLOCKS, 512
  ChecksumBlocks,   \* the number of blocks the checksum covers, 16
  PageSize,         \* page_size, 4096
  MapEntries        \* entries of a memory map, 512

(* AllocPurpose, by discriminant *)
AllocPurpose == 0 .. 19
TempBuffer == 9
CacheBuffer == 14
UserData == 16
Testing == 19

IsReclaimable(p) == p \in {TempBuffer, CacheBuffer, Testing, 0}

(* InterruptTable, ProcessControlBlock, PageTable, KernelStack,              *)
(* BootstrapData and DeviceTree                                              *)
IsCritical(p) == p \in {1, 2, 3, 4, 10, 11}

IsMovable(p) == p \in {TempBuffer, CacheBuffer, UserData, Testing}

(* priority(): 0 is the most important *)
Priority(p) ==
  <<0, 2, 1, 3, 10, 20, 60, 70, 240, 4, 5, 50, 40, 100, 80, 90, 30, 200, 250, 255>>
    [IF p = 0 THEN 20 ELSE p]

-----------------------------------------------------------------------------
(* AllocatedBlock *)

Block(addr, size, purpose, alloc_id) ==
  [addr |-> addr, size |-> size, purpose |-> purpose, alloc_id |-> alloc_id]

EndAddr(b) == b.addr + b.size

ContainsAddr(b, addr) == addr >= b.addr /\ addr < EndAddr(b)

OverlapsWith(b, c) == b.addr < EndAddr(c) /\ c.addr < EndAddr(b)

-----------------------------------------------------------------------------
(* HandoverInfo *)

(* The total size of the blocks that serve one of the purposes *)
SizeOf(bs, purposes) ==
  FoldLeft(LAMBDA total, b : IF b.purpose \in purposes THEN total + b.size ELSE total,
           0, bs)

AllocatedSize(bs) == SizeOf(bs, AllocPurpose)
ReclaimableSize(bs) == SizeOf(bs, {p \in AllocPurpose : IsReclaimable(p)})
CriticalSize(bs) == SizeOf(bs, {p \in AllocPurpose : IsCritical(p)})
MovableSize(bs) == SizeOf(bs, {p \in AllocPurpose : IsMovable(p)})

(* calculate_checksum, without the constant terms; the wrapping sums of the  *)
(* model stay far below 2^32.                                                *)
InfoChecksum(info) ==
  FoldLeft(LAMBDA sum, b : sum + b.addr + b.size + b.alloc_id,
           info.heap_start + info.heap_end + Len(info.blocks),
           SubSeq(info.blocks, 1, Min({Len(info.blocks), ChecksumBlocks})))

(* update_checksum *)
Sealed(info) == [info EXCEPT !.checksum = InfoChecksum(info)]

(* HandoverInfo::new *)
NewInfo(heap_start, heap_end, used_size) ==
  Sealed([heap_start |-> heap_start, heap_end |-> heap_end, blocks |-> << >>,
          used_size |-> used_size, checksum |-> 0])

Overlapped(bs) ==
  \E i, j \in DOMAIN bs : i < j /\ OverlapsWith(bs[i], bs[j])

(* validate, in the code's order *)
ValidateInfo(info) ==
  IF info.heap_start >= info.heap_end THEN "Invalid heap range"
  ELSE IF Len(info.blocks) > MaxTracked THEN "Too many allocated blocks"
  ELSE IF info.checksum # InfoChecksum(info) THEN "Checksum validation failed"
  ELSE IF \E i \in DOMAIN info.blocks :
            \/ info.blocks[i].addr < info.heap_start
            \/ EndAddr(info.blocks[i]) > info.heap_end
    THEN "Block outside heap range"
  ELSE IF Overlapped(info.blocks) THEN "Overlapping blocks detected"
  ELSE IF AllocatedSize(info.blocks) # info.used_size THEN "Statistics mismatch"
  ELSE "Ok"

(* group_by_purpose: number and total size of the blocks of each purpose *)
GroupByPurpose(bs) ==
  FoldLeft(LAMBDA groups, b :
             [groups EXCEPT ![b.purpose] = [count |-> @.count + 1,
                                            size |-> @.size + b.size]],
           [p \in AllocPurpose |-> [count |-> 0, size |-> 0]], bs)

-----------------------------------------------------------------------------
(* The bubble sort of blocks_by_priority and calculate_advanced_fragmentation *)

UpTo(n) == [i \in 1 .. n |-> i]

Swap(idx, j) == [idx EXCEPT ![j] = idx[j + 1], ![j + 1] = idx[j]]

(* One pass of the inner loop, over the pairs 1 .. last *)
BubbleUp(idx, keys, last) ==
  FoldLeft(LAMBDA s, j : IF keys[s[j]] > keys[s[j + 1]] THEN Swap(s, j) ELSE s,
           idx, UpTo(last))

(* The indices of keys, in the order of the keys *)
BubbleSort(keys) ==
  FoldLeft(LAMBDA s, i : BubbleUp(s, keys, Len(keys) - i), UpTo(Len(keys)), UpTo(Len(keys)))

BlocksByPriority(bs) == BubbleSort([i \in DOMAIN bs |-> Priority(bs[i].purpose)])

(* Mutant: the list is taken as it is. *)
SortedByAddrAsIs(bs) == UpTo(Len(bs))

SortedByAddr(bs) == BubbleSort([i \in DOMAIN bs |-> bs[i].addr])

-----------------------------------------------------------------------------
(* handover_utils *)

FindBlockByAddr(bs, addr) ==
  SelectInSeq(bs, LAMBDA b : ContainsAddr(b, addr))      \* 0 stands for None

FindBlocksByPurpose(bs, purpose) ==
  SelectSeq(UpTo(Len(bs)), LAMBDA i : bs[i].purpose = purpose)

(* Mutant: the last page counts only when the block fills it. *)
PagesOfRoundedDown(b, heap_start, heap_size) ==
  LET max_pages == Min({heap_size \div PageSize, MapEntries})
  IN (b.addr - heap_start) \div PageSize
       .. Min({(EndAddr(b) - heap_start) \div PageSize, max_pages}) - 1

(* The pages a block marks in the map *)
PagesOf(b, heap_start, heap_size) ==
  LET start_page == (b.addr - heap_start) \div PageSize
      end_page == (EndAddr(b) - heap_start + PageSize - 1) \div PageSize
      num_pages == (heap_size + PageSize - 1) \div PageSize
      max_pages == Min({num_pages, MapEntries})
  IN start_page .. Min({end_page, max_pages}) - 1

(* create_memory_map: the index of the block a page is marked with, 0 for a  *)
(* free page; a later block overwrites the mark of an earlier one.           *)
CreateMemoryMap(bs, heap_start, heap_size) ==
  FoldLeft(LAMBDA map, i :
             [page \in 0 .. MapEntries - 1 |->
                IF page \in PagesOf(bs[i], heap_start, heap_size) THEN i ELSE map[page]],
           [page \in 0 .. MapEntries - 1 |-> 0], UpTo(Len(bs)))

(* The gap between last_end and addr, if there is one, enters the analysis. *)
AddGap(analysis, addr) ==
  LET gap == addr - analysis.last_end IN
  IF gap > 0
  THEN [analysis EXCEPT !.external_fragmentation = @ + gap,
                        !.free_block_count = @ + 1,
                        !.largest_free_block = Max({@, gap})]
  ELSE analysis

(* calculate_advanced_fragmentation *)
AdvancedFragmentation(bs, heap_start, heap_end) ==
  LET sorted == SortedByAddr(bs)
      Through(analysis, i) ==
        [AddGap(analysis, bs[sorted[i]].addr) EXCEPT
           !.last_end = EndAddr(bs[sorted[i]])]
      none == [last_end |-> heap_start, external_fragmentation |-> 0,
               free_block_count |-> 0, largest_free_block |-> 0]
  IN AddGap(FoldLeft(Through, none, UpTo(Len(bs))), heap_end)
=============================================================================
