---------------------------- MODULE EarlyAllocator ----------------------------
(***************************************************************************)
(* The early heap allocator (init/alloc/allocator.rs): first fit over an   *)
(* address-ordered, doubly linked free list, with the block headers and    *)
(* the list links stored in the heap itself.                               *)
(*                                                                         *)
(* The loops of find_free_block, insert_into_free_list and integrity_check *)
(* are taken one iteration per step; pc, cur, blk, base, req and op are    *)
(* the locals of the operation in progress.  The code runs an operation    *)
(* with exclusive access (&mut self, behind the mutex), so a new operation *)
(* starts only when pc is "idle".  Clients that own memory write to it     *)
(* whenever they like, also in the middle of an operation.                 *)
(*                                                                         *)
(* Memory is modelled by what the allocator reads from it.  hdr holds the  *)
(* headers whose bytes are intact: those of the blocks that tile the heap, *)
(* and the ones a merge has left behind until something overwrites them.   *)
(* Reading a header where hdr has none yields bytes that fail validate().  *)
(* next and prev are the FreeBlock links of the listed blocks; a block is  *)
(* named by the address of its header.                                     *)
(***************************************************************************)
EXTENDS BlockLayout, FiniteSets

CONSTANTS
  Purposes,              \* the purposes clients set
  ForeignPtrs,           \* pointers clients free without having received them
  MaxOps                 \* bound: operations that AllocStats counts

ASSUME ClientAssumption ==
  /\ Purposes \subseteq Nat
  /\ ForeignPtrs \subseteq Nat \ {0}
  /\ MaxOps \in Nat

VARIABLES
  hdr,                   \* intact headers: address -> Header
  next, prev,            \* links of the blocks on the free list
  free_list_head,
  stats, frozen, next_alloc_id,
  pc, op, cur, blk, base, req,     \* the operation in progress
  blocks,                \* ghost: headers of the blocks that tile the heap
  held                   \* ghost: what clients own, by block

heap == <<hdr, next, prev, free_list_head, blocks>>
locals == <<pc, op, cur, blk, base, req>>
vars == <<heap, stats, frozen, next_alloc_id, locals, held>>

NULL == 0                          \* ptr::null_mut()
NoReq == [size |-> 0, align |-> 1]

End(b) == b + TotalSize(hdr[b])

Fits(b, size, align) == hdr[b].size >= RequiredSize(b, size, align)

Splits(b, size, align) ==
  hdr[b].size >= RequiredSize(b, size, align) + MinBlockSize

(* Headers that a write to the bytes lo .. hi-1 destroys. *)
Overlapping(lo, hi) == {a \in DOMAIN hdr : a < hi /\ lo < a + HeaderSize}

-----------------------------------------------------------------------------
(* The free list *)

RemoveFromFreeList(b) ==
  /\ next' = [x \in DOMAIN next \ {b} |-> IF x = prev[b] THEN next[b] ELSE next[x]]
  /\ prev' = [x \in DOMAIN prev \ {b} |-> IF x = next[b] THEN prev[b] ELSE prev[x]]
  /\ free_list_head' = IF prev[b] = NULL THEN next[b] ELSE free_list_head

(* The stores of insert_into_free_list once the place is known: between c   *)
(* (NULL at the head) and n (NULL at the end).  They overwrite the bytes of  *)
(* b's FreeBlock, which may hold part of a header left behind by a merge.    *)
LinkBetween(c, b, n) ==
  /\ next' = [x \in DOMAIN next \cup {b} |->
                IF x = b THEN n ELSE IF x = c THEN b ELSE next[x]]
  /\ prev' = [x \in DOMAIN prev \cup {b} |->
                IF x = b THEN c ELSE IF x = n THEN b ELSE prev[x]]
  /\ free_list_head' = IF c = NULL THEN b ELSE free_list_head
  /\ LET gone == Overlapping(b + HeaderSize, b + MinBlockSize)
     IN hdr' = [a \in DOMAIN hdr \ gone |-> hdr[a]]

Finish == /\ pc' = "idle"
          /\ op' = "none"
          /\ cur' = NULL
          /\ blk' = NULL
          /\ base' = NULL
          /\ req' = NoReq

-----------------------------------------------------------------------------
(* EarlyAllocator::new *)
Init ==
  /\ hdr = [a \in {HeapStart} |-> NewHeader(HeapSize - HeaderSize, Free)]
  /\ next = [a \in {HeapStart} |-> NULL]
  /\ prev = [a \in {HeapStart} |-> NULL]
  /\ free_list_head = HeapStart
  /\ stats = NewStats(HeapSize)
  /\ frozen = FALSE
  /\ next_alloc_id = 1
  /\ pc = "idle" /\ op = "none"
  /\ cur = NULL /\ blk = NULL /\ base = NULL /\ req = NoReq
  /\ blocks = {HeapStart}
  /\ held = [a \in {} |-> NULL]

CountedOps == stats.total_allocs + stats.total_frees + stats.failed_allocs
              + stats.double_free_attempts + stats.corrupted_blocks

Ready == pc = "idle" /\ CountedOps < MaxOps

-----------------------------------------------------------------------------
(* alloc and alloc_aligned *)

(* Mutant: a frozen allocator still serves requests. *)
RefusedUnlessFrozen(size, align) == ~WellFormed(size, align)

Refused(size, align) == frozen \/ ~WellFormed(size, align)

AllocRefused(size, align) ==
  /\ Ready
  /\ Refused(size, align)
  /\ stats' = RecordAllocFailure(stats)
  /\ UNCHANGED <<heap, frozen, next_alloc_id, locals, held>>

AllocStart(size, align) ==
  /\ Ready
  /\ ~Refused(size, align)
  /\ pc' = "find"
  /\ op' = "alloc"
  /\ req' = [size |-> size, align |-> align]
  /\ cur' = free_list_head
  /\ UNCHANGED <<heap, stats, frozen, next_alloc_id, blk, base, held>>

(* Mutant: the search does not advance. *)
FindNextStays ==
  /\ pc = "find"
  /\ cur # NULL
  /\ ~Fits(cur, req.size, req.align)
  /\ UNCHANGED vars

(* find_free_block: this block is too small, follow the link *)
FindNext ==
  /\ pc = "find"
  /\ cur # NULL
  /\ ~Fits(cur, req.size, req.align)
  /\ cur' = next[cur]
  /\ UNCHANGED <<heap, stats, frozen, next_alloc_id, pc, op, blk, base, req, held>>

(* find_free_block: end of the list *)
FindNone ==
  /\ pc = "find"
  /\ cur = NULL
  /\ stats' = RecordAllocFailure(stats)
  /\ Finish
  /\ UNCHANGED <<heap, frozen, next_alloc_id, held>>

(* Mutant: the checksum is not brought up to date. *)
AllocatedHeaderStale(h, size) ==
  [h EXCEPT !.size = size, !.status = Allocated, !.alloc_id = next_alloc_id]

(* The fields alloc_aligned sets in the header of the block it takes.  The   *)
(* purpose of the block's previous life stays.                               *)
AllocatedHeader(h, size) ==
  UpdateChecksum([h EXCEPT !.size = size, !.status = Allocated,
                           !.alloc_id = next_alloc_id])

(* The client's record of a block: its pointer and the bytes it may use. *)
Grant(b) == [user |-> CalculateAlignedAddr(b, req.align),
             size |-> req.size, align |-> req.align]

Granted(b) == [x \in DOMAIN held \cup {b} |-> IF x = b THEN Grant(b) ELSE held[x]]

(* First fit found, remainder too small to split: the whole block is taken. *)
TakeWhole ==
  /\ pc = "find"
  /\ cur # NULL
  /\ Fits(cur, req.size, req.align)
  /\ ~Splits(cur, req.size, req.align)
  /\ RemoveFromFreeList(cur)
  /\ hdr' = [hdr EXCEPT ![cur] = AllocatedHeader(@, @.size)]
  /\ next_alloc_id' = next_alloc_id + 1
  /\ stats' = RecordAlloc(FreeShrinks(stats, TotalSize(hdr[cur])), hdr[cur].size)
  /\ held' = Granted(cur)
  /\ Finish
  /\ UNCHANGED <<frozen, blocks>>

(* First fit found and split: the tail becomes a new free block, which the  *)
(* next steps insert into the list.                                          *)
TakeSplit ==
  LET required == RequiredSize(cur, req.size, req.align)
      rest == cur + required
      gone == Overlapping(rest, rest + HeaderSize)
  IN
  /\ pc = "find"
  /\ cur # NULL
  /\ Fits(cur, req.size, req.align)
  /\ Splits(cur, req.size, req.align)
  /\ RemoveFromFreeList(cur)
  /\ hdr' = [a \in (DOMAIN hdr \ gone) \cup {rest} |->
               CASE a = rest -> NewHeader(hdr[cur].size - required, Free)
                 [] a = cur  -> AllocatedHeader(hdr[cur], required - HeaderSize)
                 [] OTHER    -> hdr[a]]
  /\ next_alloc_id' = next_alloc_id + 1
  /\ stats' = FreeShrinks(stats, TotalSize(hdr[cur]))
  /\ blocks' = blocks \cup {rest}
  /\ held' = Granted(cur)
  /\ pc' = "insert"
  /\ blk' = rest
  /\ base' = cur
  /\ cur' = free_list_head'
  /\ UNCHANGED <<frozen, op, req>>

(* The end of alloc_aligned after a split *)
SplitDone ==
  /\ pc = "split_done"
  /\ stats' = RecordAlloc(FreeGrows(RecordSplit(stats), TotalSize(hdr[blk])),
                          hdr[base].size)
  /\ Finish
  /\ UNCHANGED <<heap, frozen, next_alloc_id, held>>

-----------------------------------------------------------------------------
(* insert_into_free_list *)

AfterInsert == IF op = "alloc" THEN "split_done" ELSE "coalesce_next"

InsertFirst ==
  /\ pc = "insert"
  /\ free_list_head = NULL \/ free_list_head > blk
  /\ LinkBetween(NULL, blk, free_list_head)
  /\ pc' = AfterInsert
  /\ UNCHANGED <<stats, frozen, next_alloc_id, op, cur, blk, base, req, blocks, held>>

(* Mutant: the loop compares the current block instead of the next one. *)
WalksTooFar == next[cur] # NULL /\ cur < blk

(* The condition of the loop that looks for the predecessor *)
WalksOn == next[cur] # NULL /\ next[cur] < blk

InsertWalk ==
  /\ pc = "insert"
  /\ ~(free_list_head = NULL \/ free_list_head > blk)
  /\ WalksOn
  /\ cur' = next[cur]
  /\ UNCHANGED <<heap, stats, frozen, next_alloc_id, pc, op, blk, base, req, held>>

InsertAfter ==
  /\ pc = "insert"
  /\ ~(free_list_head = NULL \/ free_list_head > blk)
  /\ ~WalksOn
  /\ LinkBetween(cur, blk, next[cur])
  /\ pc' = AfterInsert
  /\ UNCHANGED <<stats, frozen, next_alloc_id, op, cur, blk, base, req, blocks, held>>

-----------------------------------------------------------------------------
(* dealloc *)

(* Mutant: the state in the header is not looked at. *)
DeallocOutcomeTrusting(p) ==
  LET h == p - HeaderSize IN
  IF frozen THEN "AllocatorFrozen"
  ELSE IF p < HeapStart \/ p > HeapEnd THEN "InvalidPointer"
  ELSE IF h \notin DOMAIN hdr \/ ~Validate(hdr[h]) THEN "CorruptedHeader"
  ELSE "Ok"

(* The checks of dealloc, in the code's order *)
DeallocOutcome(p) ==
  LET h == p - HeaderSize IN
  IF frozen THEN "AllocatorFrozen"
  ELSE IF p < HeapStart \/ p > HeapEnd THEN "InvalidPointer"
  ELSE IF h \notin DOMAIN hdr \/ ~Validate(hdr[h]) THEN "CorruptedHeader"
  ELSE IF hdr[h].status = Free THEN "DoubleFree"
  ELSE "Ok"

DeallocRefused(p) ==
  /\ Ready
  /\ DeallocOutcome(p) # "Ok"
  /\ stats' = CASE DeallocOutcome(p) = "CorruptedHeader" -> RecordCorruption(stats)
                [] DeallocOutcome(p) = "DoubleFree"      -> RecordDoubleFree(stats)
                [] OTHER                                 -> stats
  /\ UNCHANGED <<heap, frozen, next_alloc_id, locals, held>>

(* Mutant: the freed block still reads as allocated. *)
FreedHeaderStillAllocated(h) == UpdateChecksum(h)

FreedHeader(h) == UpdateChecksum([h EXCEPT !.status = Free])

DeallocStart(p) ==
  LET b == p - HeaderSize IN
  /\ Ready
  /\ DeallocOutcome(p) = "Ok"
  /\ stats' = FreeGrows(RecordDealloc(stats, hdr[b].size), TotalSize(hdr[b]))
  /\ hdr' = [hdr EXCEPT ![b] = FreedHeader(@)]
  /\ held' = [x \in DOMAIN held \ {b} |-> held[x]]
  /\ pc' = "insert"
  /\ op' = "dealloc"
  /\ blk' = b
  /\ cur' = free_list_head
  /\ UNCHANGED <<next, prev, free_list_head, blocks, frozen, next_alloc_id, base, req>>

(* Mutant: the neighbour's header is not counted. *)
AbsorbDataOnly(b, n) == UpdateChecksum([hdr[b] EXCEPT !.size = @ + hdr[n].size])

(* coalesce, merging a block with its right neighbour in memory *)
Absorb(b, n) == UpdateChecksum([hdr[b] EXCEPT !.size = @ + TotalSize(hdr[n])])

(* Mutant: the number of free blocks is not adjusted. *)
RecordCoalescedOnly == RecordMerge(stats)

RecordCoalesced == [RecordMerge(stats) EXCEPT !.free_count = @ - 1]

MergeableNext(n) == n < HeapEnd /\ hdr[n].status = Free

(* Mutant: the absorbed block stays on the free list. *)
CoalesceNextListed ==
  LET n == End(blk) IN
  /\ pc = "coalesce_next"
  /\ IF MergeableNext(n)
     THEN /\ hdr' = [hdr EXCEPT ![blk] = Absorb(blk, n)]
          /\ blocks' = blocks \ {n}
          /\ stats' = RecordCoalesced
          /\ UNCHANGED <<next, prev, free_list_head>>
     ELSE UNCHANGED <<heap, stats>>
  /\ pc' = "coalesce_prev"
  /\ UNCHANGED <<frozen, next_alloc_id, op, cur, blk, base, req, held>>

(* coalesce, first half: the block that follows in memory *)
CoalesceNext ==
  LET n == End(blk) IN
  /\ pc = "coalesce_next"
  /\ IF MergeableNext(n)
     THEN /\ RemoveFromFreeList(n)
          /\ hdr' = [hdr EXCEPT ![blk] = Absorb(blk, n)]
          /\ blocks' = blocks \ {n}
          /\ stats' = RecordCoalesced
     ELSE UNCHANGED <<heap, stats>>
  /\ pc' = "coalesce_prev"
  /\ UNCHANGED <<frozen, next_alloc_id, op, cur, blk, base, req, held>>

(* Mutant: the neighbour's data, without its header, has to reach the block. *)
MergeablePrevShort(p) == p # NULL /\ p + hdr[p].size = blk

MergeablePrev(p) == p # NULL /\ End(p) = blk

(* coalesce, second half: the predecessor in the list, if it ends where     *)
(* this block begins                                                         *)
CoalescePrev ==
  LET p == prev[blk] IN
  /\ pc = "coalesce_prev"
  /\ IF MergeablePrev(p)
     THEN /\ RemoveFromFreeList(blk)
          /\ hdr' = [hdr EXCEPT ![p] = Absorb(p, blk)]
          /\ blocks' = blocks \ {blk}
          /\ stats' = RecordCoalesced
     ELSE UNCHANGED <<heap, stats>>
  /\ Finish
  /\ UNCHANGED <<frozen, next_alloc_id, held>>

-----------------------------------------------------------------------------
(* The remaining operations *)

(* set_purpose; the calls it refuses change nothing. *)
SetPurpose(p, purpose) ==
  LET b == p - HeaderSize IN
  /\ pc = "idle"
  /\ b \in DOMAIN hdr
  /\ Validate(hdr[b]) /\ hdr[b].status = Allocated
  /\ hdr' = [hdr EXCEPT ![b] = UpdateChecksum([@ EXCEPT !.purpose = purpose])]
  /\ UNCHANGED <<next, prev, free_list_head, blocks, stats, frozen,
                 next_alloc_id, locals, held>>

Freeze ==
  /\ pc = "idle"
  /\ frozen' = TRUE
  /\ UNCHANGED <<heap, stats, next_alloc_id, locals, held>>

CheckStart ==
  /\ pc = "idle"
  /\ pc' = "check"
  /\ cur' = HeapStart
  /\ UNCHANGED <<heap, stats, frozen, next_alloc_id, op, blk, base, req, held>>

(* integrity_check, one header; a header that does not validate ends it *)
CheckHeader ==
  LET ok == cur \in DOMAIN hdr /\ Validate(hdr[cur]) IN
  /\ pc = "check"
  /\ cur < HeapEnd
  /\ pc' = IF ok THEN "check" ELSE "corrupted_header"
  /\ cur' = IF ok THEN End(cur) ELSE cur
  /\ UNCHANGED <<heap, stats, frozen, next_alloc_id, op, blk, base, req, held>>

CheckEnd ==
  /\ pc = "check"
  /\ cur >= HeapEnd
  /\ pc' = IF cur = HeapEnd THEN "idle" ELSE "internal_error"
  /\ cur' = NULL
  /\ UNCHANGED <<heap, stats, frozen, next_alloc_id, op, blk, base, req, held>>

(* A client fills the bytes it asked for.  Only a header among them changes  *)
(* the state: one that loses a byte counts as destroyed, and clients do not  *)
(* reproduce headers byte for byte.                                          *)
ClientWrite(b) ==
  LET gone == Overlapping(held[b].user, held[b].user + held[b].size) IN
  /\ gone # {}
  /\ hdr' = [a \in DOMAIN hdr \ gone |-> hdr[a]]
  /\ UNCHANGED <<next, prev, free_list_head, blocks, stats, frozen,
                 next_alloc_id, locals, held>>

(***************************************************************************)
(* The pointers clients pass: their own, pointers to memory that has been  *)
(* freed (or never was handed out), and foreign ones.  A client does not   *)
(* pass a pointer whose block has meanwhile been granted to someone else.  *)
(***************************************************************************)
OwnPtrs == {held[b].user : b \in DOMAIN held}
FreedPtrs == {a + HeaderSize : a \in {x \in DOMAIN hdr : hdr[x].status = Free}}
Ptrs == OwnPtrs \cup FreedPtrs
          \cup {p \in ForeignPtrs : p - HeaderSize \notin DOMAIN held}

Step == FindNext \/ FindNone \/ TakeWhole \/ TakeSplit \/ SplitDone
        \/ InsertFirst \/ InsertWalk \/ InsertAfter
        \/ CoalesceNext \/ CoalescePrev \/ CheckHeader \/ CheckEnd

Next ==
  \/ \E size \in Sizes, align \in Aligns :
       AllocRefused(size, align) \/ AllocStart(size, align)
  \/ \E p \in Ptrs : DeallocRefused(p) \/ DeallocStart(p)
  \/ \E p \in OwnPtrs, purpose \in Purposes : SetPurpose(p, purpose)
  \/ Freeze
  \/ CheckStart
  \/ \E b \in DOMAIN held : ClientWrite(b)
  \/ Step

Spec == Init /\ [][Next]_vars

-----------------------------------------------------------------------------
(***************************************************************************)
(* Properties                                                              *)
(***************************************************************************)

StatsType ==
  [used_size : Int, free_size : Int, alloc_count : Int, free_count : Int,
   total_allocs : Int, total_frees : Int, failed_allocs : Int,
   double_free_attempts : Int, corrupted_blocks : Int, split_count : Int,
   merge_count : Int, peak_used_size : Int, max_alloc_size : Int,
   min_alloc_size : Int]

HeapTypeOK ==
  /\ DOMAIN hdr \subseteq Nat /\ \A a \in DOMAIN hdr : hdr[a] \in Header
  /\ blocks \subseteq Nat \ {0}
  /\ DOMAIN next = DOMAIN prev /\ DOMAIN next \subseteq blocks
  /\ \A b \in DOMAIN next : next[b] \in Nat /\ prev[b] \in Nat
  /\ free_list_head \in Nat
  /\ next_alloc_id \in Nat \ {0}
  /\ DOMAIN held \subseteq Nat
  /\ \A b \in DOMAIN held :
       held[b] \in [user : Nat, size : Nat, align : Nat \ {0}]

LocalsTypeOK ==
  /\ pc \in {"idle", "find", "insert", "split_done", "coalesce_next",
            "coalesce_prev", "check", "corrupted_header", "internal_error"}
  /\ op \in {"none", "alloc", "dealloc"}
  /\ cur \in Nat /\ blk \in Nat /\ base \in Nat
  /\ req \in [size : Nat, align : Nat \ {0}]

(* Types.  The statistics are integers here; that they never go below zero   *)
(* follows from StatsDescribeHeap.                                           *)
TypeOK ==
  /\ HeapTypeOK
  /\ LocalsTypeOK
  /\ stats \in StatsType
  /\ frozen \in BOOLEAN

FreeBlocks == {b \in blocks : hdr[b].status = Free}

(* The block an operation has created or freed and not yet linked *)
Unlinked == IF pc = "insert" THEN {blk} ELSE {}

(* The blocks tile the heap: the first starts at heap_start, each ends where *)
(* another begins or at heap_end, and none begins inside another.  Splitting *)
(* in alloc_aligned and merging in coalesce have to agree on every size.     *)
HeapTiled ==
  /\ HeapStart \in blocks
  /\ blocks \subseteq DOMAIN hdr
  /\ \A b \in blocks : /\ HeapStart <= b /\ End(b) <= HeapEnd
                       /\ End(b) \in blocks \cup {HeapEnd}
  /\ \A b, c \in blocks : b < c => End(b) <= c

(* c follows b in S, NULL standing for the end of S *)
Follows(S, b, c) ==
  IF c = NULL THEN \A x \in S : x <= b
  ELSE c \in S /\ c > b /\ \A x \in S : x <= b \/ c <= x

(* c precedes b in S, NULL standing for the beginning of S *)
Precedes(S, c, b) ==
  IF c = NULL THEN \A x \in S : b <= x
  ELSE c \in S /\ c < b /\ \A x \in S : x <= c \/ b <= x

(* nx, pv and hd link the elements of L in ascending order. *)
IsList(L, nx, pv, hd) ==
  /\ Follows(L, NULL, hd)
  /\ \A b \in L : Follows(L, b, nx[b]) /\ Precedes(L, pv[b], b)

(* The free list is what its comments promise (doubly linked, ordered by     *)
(* address) and holds exactly the free blocks: every next and prev is the    *)
(* nearest free block on its side, whatever was inserted, removed or merged. *)
FreeListExact ==
  /\ DOMAIN next = FreeBlocks \ Unlinked
  /\ IsList(DOMAIN next, next, prev, free_list_head)

(* Between operations no two free blocks touch: coalesce, which looks only   *)
(* at the two neighbours of the freed block, is enough.                      *)
FullyCoalesced ==
  \A b, c \in FreeBlocks : End(b) = c =>
     /\ pc \in {"insert", "coalesce_next", "coalesce_prev"}
     /\ op = "dealloc"
     /\ b = blk \/ c = blk

UserEnd(b) == held[b].user + held[b].size

(* The bytes a client was granted are aligned as asked, inside the heap, and *)
(* overlap neither those of another client nor a header nor a list node of   *)
(* the allocator, so that clients may write to them at any time.             *)
GrantsAreSeparate ==
  /\ \A b \in DOMAIN held : held[b].user % held[b].align = 0
  /\ \A b, c \in DOMAIN held :
       b # c => UserEnd(b) <= held[c].user \/ UserEnd(c) <= held[b].user
  /\ \A b \in DOMAIN held, a \in blocks :
       LET top == a + IF a \in FreeBlocks THEN MinBlockSize ELSE HeaderSize
       IN top <= held[b].user \/ UserEnd(b) <= a

(* A header that reads as valid and allocated, wherever it is found in the   *)
(* heap, is that of a block a client owns.  dealloc trusts whatever header   *)
(* precedes the pointer it is given: by this property no stale pointer makes *)
(* it free a block twice or free the inside of a merged block.               *)
AllocatedMeansOwned ==
  \A a \in DOMAIN hdr :
     Validate(hdr[a]) /\ hdr[a].status = Allocated <=> a \in DOMAIN held

(* integrity_check never reports an error. *)
IntegrityCheckPasses == pc \notin {"corrupted_header", "internal_error"}

(* The allocation ids of live blocks are distinct. *)
AllocIdsUnique ==
  \A b, c \in DOMAIN held : hdr[b].alloc_id = hdr[c].alloc_id => b = c

(* When everything has been given back, the heap is again one free block:    *)
(* no sequence of allocations and frees leaves it fragmented.                *)
EmptyHeapIsWhole ==
  pc = "idle" /\ DOMAIN held = {} =>
    blocks = {HeapStart} /\ End(HeapStart) = HeapEnd

(* Freeing a pointer again, right after it was freed, is reported as a       *)
(* double free, also when coalesce has merged the block's header away.       *)
DoubleFreeCaught ==
  [][pc = "coalesce_prev" =>
       \A p \in {blk + HeaderSize} : DeallocOutcome(p)' = "DoubleFree"]_pc

(* A client can give back what it was given: dealloc accepts every pointer   *)
(* alloc_aligned has returned, until it is freed.                            *)
OwnPtrsReleasable ==
  pc = "idle" /\ ~frozen => \A p \in OwnPtrs : DeallocOutcome(p) = "Ok"

Fairness == WF_vars(Step)
FairSpec == Spec /\ Fairness

(* The loops over the list and over the headers end: every operation that    *)
(* has begun completes.                                                      *)
OperationsComplete == pc # "idle" ~> pc = "idle"
=============================================================================
