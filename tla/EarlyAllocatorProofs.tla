------------------------ MODULE EarlyAllocatorProofs ------------------------
(***************************************************************************)
(* Theorems about EarlyAllocator, for every heap, every set of requests    *)
(* and every number of operations.                                         *)
(***************************************************************************)
EXTENDS AllocatorInvariant, EarlyAllocatorGaps

-----------------------------------------------------------------------------
(***************************************************************************)
(* Steps that change neither the heap nor its owners                       *)
(***************************************************************************)

(* alloc_aligned turning a request away. *)
LEMMA AllocRefusedIInv ==
  ASSUME IInv, NEW size \in Sizes, NEW align \in Aligns, AllocRefused(size, align)
  PROVE  IInv'
<1> USE DEF AllocRefused, Ready, locals, NULL
<1>1. Unlinked' = Unlinked
  BY DEF Unlinked
<1>2. LocalsTypeOK'
  BY DEF IInv, TypeOK, LocalsTypeOK
<1>3. frozen' \in BOOLEAN
  BY DEF IInv, TypeOK
<1>4. stats' \in StatsType
  BY StatsTyped DEF IInv, TypeOK
<1>5. Control'
  BY DEF IInv, Control, IntegrityCheckPasses
<1>6. op # "dealloc" \/ UNCHANGED <<pc, op, blk>>
  BY DEF IInv, Control
<1> QED BY <1>1, <1>2, <1>3, <1>4, <1>5, <1>6, QuietStep

(* alloc_aligned entering find_free_block. *)
LEMMA AllocStartIInv ==
  ASSUME IInv, NEW size \in Sizes, NEW align \in Aligns, AllocStart(size, align)
  PROVE  IInv'
<1> USE DEF AllocStart, Ready, locals, NULL
<1>1. Unlinked' = Unlinked
  BY DEF Unlinked
<1>2. LocalsTypeOK'
  <2>1. size \in Nat /\ align \in Nat \ {0}
    BY RequestAssumption DEF Refused, WellFormed, IsPowerOfTwo
  <2>2. req' \in [size : Nat, align : Nat \ {0}]
    BY <2>1
  <2> QED BY <2>2 DEF IInv, TypeOK, HeapTypeOK, LocalsTypeOK
<1>3. frozen' \in BOOLEAN
  BY DEF IInv, TypeOK
<1>4. stats' \in StatsType
  BY StatsTyped DEF IInv, TypeOK
<1>5. Control'
  <2>1. Follows(DOMAIN next, NULL, free_list_head) /\ DOMAIN next \subseteq Nat \ {0}
        /\ free_list_head \in Nat
    BY Zenon DEF IInv, TypeOK, HeapTypeOK, FreeListExact, IsList
  <2>2. \A b \in DOMAIN next : ~(free_list_head = NULL \/ b < free_list_head)
    BY <2>1 DEF Follows
  <2>3. free_list_head = NULL \/ free_list_head \in DOMAIN next
    BY <2>1 DEF Follows
  <2>4. ~frozen' /\ WellFormed(size, align)
    BY DEF Refused
  <2>5. req'.size = size /\ req'.align = align
    OBVIOUS
  <2> QED BY <2>2, <2>3, <2>4, <2>5 DEF Control, IntegrityCheckPasses, heap
<1>6. op # "dealloc" \/ UNCHANGED <<pc, op, blk>>
  BY DEF IInv, Control
<1> QED BY <1>1, <1>2, <1>3, <1>4, <1>5, <1>6, QuietStep

(* Find_free_block passing over a block that does not fit. *)
LEMMA FindNextIInv ==
  ASSUME IInv, FindNext
  PROVE  IInv'
<1> USE DEF FindNext, locals, NULL
<1>1. Unlinked' = Unlinked
  BY DEF Unlinked
<1>2. LocalsTypeOK'
  BY DEF IInv, TypeOK, HeapTypeOK, LocalsTypeOK, Control
<1>3. frozen' \in BOOLEAN
  BY DEF IInv, TypeOK
<1>4. stats' \in StatsType
  BY StatsTyped DEF IInv, TypeOK
<1>5. Control'
  <2>1. cur \in DOMAIN next /\ DOMAIN next \subseteq Nat \ {0} /\ next[cur] \in Nat
        /\ Follows(DOMAIN next, cur, next[cur])
    BY Zenon DEF IInv, TypeOK, HeapTypeOK, FreeListExact, IsList, Control
  <2>2. next[cur] = NULL \/ next[cur] \in DOMAIN next
    BY <2>1 DEF Follows
  <2>3. ASSUME NEW b \in DOMAIN next, next[cur] = NULL \/ b < next[cur]
        PROVE  ~Fits(b, req.size, req.align)
    <3>1. b < cur \/ b = cur
      BY <2>1, <2>3 DEF Follows
    <3> QED BY <3>1 DEF IInv, Control
  <2>4. \A b : Fits(b, req.size, req.align)' <=> Fits(b, req.size, req.align)
    BY DEF Fits, heap
  <2> QED BY <2>2, <2>3, <2>4 DEF IInv, Control, IntegrityCheckPasses, heap
<1>6. op # "dealloc" \/ UNCHANGED <<pc, op, blk>>
  BY DEF IInv, Control
<1> QED BY <1>1, <1>2, <1>3, <1>4, <1>5, <1>6, QuietStep

(* Find_free_block reaching the end of the list. *)
LEMMA FindNoneIInv ==
  ASSUME IInv, FindNone
  PROVE  IInv'
<1> USE DEF FindNone, Finish, locals, NULL
<1>1. Unlinked' = Unlinked
  BY DEF Unlinked
<1>2. LocalsTypeOK'
  <2>1. req' \in [size : Nat, align : Nat \ {0}]
    BY DEF NoReq
  <2> QED BY <2>1 DEF IInv, TypeOK, LocalsTypeOK
<1>3. frozen' \in BOOLEAN
  BY DEF IInv, TypeOK
<1>4. stats' \in StatsType
  BY StatsTyped DEF IInv, TypeOK
<1>5. Control'
  BY DEF IInv, Control, IntegrityCheckPasses
<1>6. op # "dealloc" \/ UNCHANGED <<pc, op, blk>>
  BY DEF IInv, Control
<1> QED BY <1>1, <1>2, <1>3, <1>4, <1>5, <1>6, QuietStep

(* The statistics after a split. *)
LEMMA SplitDoneIInv ==
  ASSUME IInv, SplitDone
  PROVE  IInv'
<1> USE DEF SplitDone, Finish, locals, NULL
<1>1. Unlinked' = Unlinked
  BY DEF Unlinked
<1>2. LocalsTypeOK'
  <2>1. req' \in [size : Nat, align : Nat \ {0}]
    BY DEF NoReq
  <2> QED BY <2>1 DEF IInv, TypeOK, LocalsTypeOK
<1>3. frozen' \in BOOLEAN
  BY DEF IInv, TypeOK
<1>4. stats' \in StatsType
  <2>1. blk \in DOMAIN hdr /\ base \in DOMAIN hdr
    BY DEF IInv, Control, HeapTiled
  <2>2. TotalSize(hdr[blk]) \in Int /\ hdr[base].size \in Int
    BY <2>1, SizesAssumption DEF IInv, TypeOK, HeapTypeOK, Header, TotalSize
  <2>3. RecordSplit(stats) \in StatsType
    BY StatsTyped DEF IInv, TypeOK
  <2> QED BY Zenon, <2>2, <2>3, StatsTyped
<1>5. Control'
  BY DEF IInv, Control, IntegrityCheckPasses
<1>6. op # "dealloc" \/ UNCHANGED <<pc, op, blk>>
  BY DEF IInv, Control
<1> QED BY <1>1, <1>2, <1>3, <1>4, <1>5, <1>6, QuietStep

(* Insert_into_free_list looking for the predecessor. *)
LEMMA InsertWalkIInv ==
  ASSUME IInv, InsertWalk
  PROVE  IInv'
<1> USE DEF InsertWalk, WalksOn, locals, NULL
<1>1. Unlinked' = Unlinked
  BY DEF Unlinked
<1>2. LocalsTypeOK'
  <2>1. cur \in DOMAIN next
    BY DEF IInv, Control
  <2> QED BY <2>1 DEF IInv, TypeOK, HeapTypeOK, LocalsTypeOK
<1>3. frozen' \in BOOLEAN
  BY DEF IInv, TypeOK
<1>4. stats' \in StatsType
  BY StatsTyped DEF IInv, TypeOK
<1>5. Control'
  <2>1. cur \in DOMAIN next /\ Follows(DOMAIN next, cur, next[cur])
    BY DEF IInv, Control, FreeListExact, IsList
  <2>2. next[cur] \in DOMAIN next
    BY <2>1 DEF Follows
  <2> QED BY <2>2 DEF IInv, Control, IntegrityCheckPasses, heap, FreeBlocks
<1>6. op # "dealloc" \/ UNCHANGED <<pc, op, blk>>
  BY DEF IInv, Control
<1> QED BY <1>1, <1>2, <1>3, <1>4, <1>5, <1>6, QuietStep

(* Dealloc returning an error. *)
LEMMA DeallocRefusedIInv ==
  ASSUME IInv, NEW p \in Ptrs, DeallocRefused(p)
  PROVE  IInv'
<1> USE DEF DeallocRefused, Ready, locals, NULL
<1>1. Unlinked' = Unlinked
  BY DEF Unlinked
<1>2. LocalsTypeOK'
  BY DEF IInv, TypeOK, LocalsTypeOK
<1>3. frozen' \in BOOLEAN
  BY DEF IInv, TypeOK
<1>4. stats' \in StatsType
  BY StatsTyped DEF IInv, TypeOK
<1>5. Control'
  BY DEF IInv, Control, IntegrityCheckPasses
<1>6. op # "dealloc" \/ UNCHANGED <<pc, op, blk>>
  BY DEF IInv, Control
<1> QED BY <1>1, <1>2, <1>3, <1>4, <1>5, <1>6, QuietStep

(* Freeze. *)
LEMMA FreezeIInv ==
  ASSUME IInv, Freeze
  PROVE  IInv'
<1> USE DEF Freeze, locals, NULL
<1>1. Unlinked' = Unlinked
  BY DEF Unlinked
<1>2. LocalsTypeOK'
  BY DEF IInv, TypeOK, LocalsTypeOK
<1>3. frozen' \in BOOLEAN
  BY DEF IInv, TypeOK
<1>4. stats' \in StatsType
  BY StatsTyped DEF IInv, TypeOK
<1>5. Control'
  BY DEF IInv, Control, IntegrityCheckPasses
<1>6. op # "dealloc" \/ UNCHANGED <<pc, op, blk>>
  BY DEF IInv, Control
<1> QED BY <1>1, <1>2, <1>3, <1>4, <1>5, <1>6, QuietStep

(* integrity_check starting. *)
LEMMA CheckStartIInv ==
  ASSUME IInv, CheckStart
  PROVE  IInv'
<1> USE DEF CheckStart, locals, NULL
<1>1. Unlinked' = Unlinked
  BY DEF Unlinked
<1>2. LocalsTypeOK'
  BY HeapAssumption DEF IInv, TypeOK, LocalsTypeOK
<1>3. frozen' \in BOOLEAN
  BY DEF IInv, TypeOK
<1>4. stats' \in StatsType
  BY StatsTyped DEF IInv, TypeOK
<1>5. Control'
  BY DEF IInv, Control, IntegrityCheckPasses, HeapTiled, heap
<1>6. op # "dealloc" \/ UNCHANGED <<pc, op, blk>>
  BY DEF IInv, Control
<1> QED BY <1>1, <1>2, <1>3, <1>4, <1>5, <1>6, QuietStep

(* integrity_check at one header. *)
LEMMA CheckHeaderIInv ==
  ASSUME IInv, CheckHeader
  PROVE  IInv'
<1> USE DEF CheckHeader, locals, NULL
<1>0. cur \in blocks /\ cur \in DOMAIN hdr /\ Validate(hdr[cur])
      /\ End(cur) \in blocks \cup {HeapEnd} /\ End(cur) \in Nat
  <2>1. cur \in blocks
    BY HeapAssumption DEF IInv, TypeOK, LocalsTypeOK, Control, HeapEnd
  <2>2. cur \in DOMAIN hdr /\ Validate(hdr[cur])
        /\ End(cur) \in blocks \cup {HeapEnd}
    BY <2>1 DEF IInv, HeapTiled, HeadersSound
  <2>3. blocks \subseteq Nat
    BY DEF IInv, TypeOK, HeapTypeOK
  <2>4. HeapEnd \in Nat
    BY HeapAssumption DEF HeapEnd
  <2> HIDE DEF CheckHeader
  <2> QED BY <2>1, <2>2, <2>3, <2>4
<1>1. Unlinked' = Unlinked
  BY DEF Unlinked
<1>2. LocalsTypeOK'
  BY <1>0 DEF IInv, TypeOK, LocalsTypeOK
<1>3. frozen' \in BOOLEAN
  BY DEF IInv, TypeOK
<1>4. stats' \in StatsType
  BY StatsTyped DEF IInv, TypeOK
<1>5. Control'
  BY SMTT(30), <1>0 DEF IInv, Control, IntegrityCheckPasses, heap
<1>6. op # "dealloc" \/ UNCHANGED <<pc, op, blk>>
  BY DEF IInv, Control
<1> QED BY <1>1, <1>2, <1>3, <1>4, <1>5, <1>6, QuietStep

(* integrity_check at the end of the heap. *)
LEMMA CheckEndIInv ==
  ASSUME IInv, CheckEnd
  PROVE  IInv'
<1> USE DEF CheckEnd, locals, NULL
<1>1. Unlinked' = Unlinked
  BY DEF Unlinked
<1>2. LocalsTypeOK'
  BY DEF IInv, TypeOK, LocalsTypeOK
<1>3. frozen' \in BOOLEAN
  BY DEF IInv, TypeOK
<1>4. stats' \in StatsType
  BY StatsTyped DEF IInv, TypeOK
<1>5. Control'
  <2>1. cur = HeapEnd
    <3>1. CASE cur \in blocks
      <4>1. hdr[cur] \in Header /\ cur \in Nat /\ End(cur) <= HeapEnd
        BY <3>1 DEF IInv, TypeOK, HeapTypeOK, HeapTiled
      <4>2. hdr[cur].size \in Nat
        BY <4>1 DEF Header
      <4>3. HeapEnd \in Nat
        BY HeapAssumption DEF HeapEnd
      <4>4. End(cur) \in Nat /\ cur < End(cur)
        BY <4>1, <4>2, SizesAssumption DEF End, TotalSize
      <4> QED BY <4>1, <4>3, <4>4
    <3> QED BY <3>1 DEF IInv, Control
  <2> QED BY <2>1 DEF IInv, Control, IntegrityCheckPasses, heap
<1>6. op # "dealloc" \/ UNCHANGED <<pc, op, blk>>
  BY DEF IInv, Control
<1> QED BY <1>1, <1>2, <1>3, <1>4, <1>5, <1>6, QuietStep

-----------------------------------------------------------------------------
(***************************************************************************)
(* The theorems                                                            *)
(***************************************************************************)

(* Every operation of the allocator, and every write of a client, keeps the  *)
(* inductive invariant.                                                      *)
LEMMA NextIInv == IInv /\ [Next]_vars => IInv'
<1> SUFFICES ASSUME IInv, [Next]_vars PROVE IInv'
  OBVIOUS
<1>1. CASE \E size \in Sizes, align \in Aligns :
             AllocRefused(size, align) \/ AllocStart(size, align)
  BY <1>1, AllocRefusedIInv, AllocStartIInv
<1>2. CASE \E p \in Ptrs : DeallocRefused(p) \/ DeallocStart(p)
  BY <1>2, DeallocRefusedIInv, DeallocStartIInv
<1>3. CASE \E p \in OwnPtrs, purpose \in Purposes : SetPurpose(p, purpose)
  BY <1>3, SetPurposeIInv
<1>4. CASE Freeze
  BY <1>4, FreezeIInv
<1>5. CASE CheckStart
  BY <1>5, CheckStartIInv
<1>6. CASE \E b \in DOMAIN held : ClientWrite(b)
  BY <1>6, ClientWriteIInv
<1>7. CASE Step
  BY <1>7, FindNextIInv, FindNoneIInv, TakeWholeIInv, TakeSplitIInv,
     SplitDoneIInv, InsertFirstIInv, InsertWalkIInv, InsertAfterIInv,
     CoalesceNextIInv, CoalescePrevIInv, CheckHeaderIInv, CheckEndIInv DEF Step
<1>8. CASE UNCHANGED vars
  <2>1. UNCHANGED <<hdr, next, prev, free_list_head, blocks, stats, frozen,
                    next_alloc_id, pc, op, cur, blk, base, req, held>>
    BY <1>8 DEF vars, heap, locals
  <2>2. Unlinked' = Unlinked /\ UNCHANGED heap
    BY <2>1 DEF Unlinked, heap
  <2>3. /\ HeapTypeOK' /\ HeapTiled' /\ HeadersSound' /\ Ownership'
        /\ AllocIdsUnique' /\ FreeListExact' /\ FreeBlocks' = FreeBlocks
        /\ \A b \in blocks : End(b)' = End(b)
    BY <2>1, <2>2, HeapUnchanged
  <2>4. TypeOK'
    BY <2>1, <2>3 DEF IInv, TypeOK, LocalsTypeOK
  <2>5. Coalesced'
    BY <2>1, <2>3 DEF IInv, Coalesced, FreeBlocks
  <2>6. Control'
    BY Zenon, <2>1, <2>3 DEF IInv, Control, IntegrityCheckPasses, Fits
  <2> QED BY <2>3, <2>4, <2>5, <2>6 DEF IInv
<1> QED BY <1>1, <1>2, <1>3, <1>4, <1>5, <1>6, <1>7, <1>8 DEF Next

(* The inductive invariant holds in every reachable state. *)
THEOREM Invariance == Spec => []IInv
BY InitIInv, NextIInv, PTL DEF Spec

(* Types, for every heap and every sequence of calls *)
THEOREM TypeCorrectness == Spec => []TypeOK
<1>1. IInv => TypeOK
  BY DEF IInv
<1> QED BY <1>1, Invariance, PTL

(* alloc_aligned's splits and coalesce's merges always leave blocks that     *)
(* tile the heap.                                                            *)
THEOREM TilingTheorem == Spec => []HeapTiled
<1>1. IInv => HeapTiled
  BY DEF IInv
<1> QED BY <1>1, Invariance, PTL

(* The free list is doubly linked, ordered by address and holds exactly the  *)
(* free blocks, after every store to it.                                     *)
THEOREM FreeListTheorem == Spec => []FreeListExact
<1>1. IInv => FreeListExact
  BY DEF IInv
<1> QED BY <1>1, Invariance, PTL

(* No two free blocks touch between operations. *)
THEOREM CoalescingTheorem == Spec => []FullyCoalesced
<1>1. IInv => FullyCoalesced
  BY DEF IInv, Coalesced, FullyCoalesced
<1> QED BY <1>1, Invariance, PTL

(* The ids that alloc_aligned gives to live blocks are distinct. *)
THEOREM AllocIdTheorem == Spec => []AllocIdsUnique
<1>1. IInv => AllocIdsUnique
  BY DEF IInv
<1> QED BY <1>1, Invariance, PTL

(* The memory handed to a client is aligned and shares no byte with that of  *)
(* another client, with a header or with a list node.                        *)
THEOREM SeparationTheorem == Spec => []GrantsAreSeparate
<1>1. ASSUME IInv PROVE GrantsAreSeparate
  <2>1. \A b \in DOMAIN held : /\ b \in blocks /\ b \notin FreeBlocks
                               /\ b + HeaderSize <= held[b].user
                               /\ UserEnd(b) <= End(b)
                               /\ held[b].user % held[b].align = 0
                               /\ held[b].user \in Nat /\ UserEnd(b) \in Nat
    BY <1>1 DEF IInv, Ownership, TypeOK, HeapTypeOK, UserEnd
  <2>2. \A b, c \in blocks : b < c => End(b) <= c
    BY <1>1 DEF IInv, HeapTiled
  <2>3. \A b \in blocks : /\ b \in Nat /\ End(b) \in Nat /\ HeaderSize \in Nat
                          /\ MinBlockSize \in Nat /\ b + MinBlockSize <= End(b)
                          /\ b + HeaderSize <= End(b)
    BY <1>1, BlockFacts
  <2>4. ASSUME NEW b \in DOMAIN held, NEW c \in DOMAIN held, b # c
        PROVE  UserEnd(b) <= held[c].user \/ UserEnd(c) <= held[b].user
    <3>1. CASE b < c
      BY <2>1, <2>2, <2>3, <3>1
    <3>2. CASE c < b
      BY <2>1, <2>2, <2>3, <3>2
    <3> QED BY <2>1, <2>3, <2>4, <3>1, <3>2
  <2>5. ASSUME NEW b \in DOMAIN held, NEW a \in blocks, NEW top,
               top = a + IF a \in FreeBlocks THEN MinBlockSize ELSE HeaderSize
        PROVE  top <= held[b].user \/ UserEnd(b) <= a
    <3>1. top <= End(a) /\ top \in Nat
      BY <2>3, <2>5
    <3>2. CASE a < b
      BY <2>1, <2>2, <2>3, <3>1, <3>2
    <3>3. CASE b < a
      BY <2>1, <2>2, <2>3, <3>3
    <3>4. CASE a = b
      BY <2>1, <2>3, <2>5, <3>4
    <3> QED BY <2>1, <2>3, <3>2, <3>3, <3>4
  <2> QED BY <2>1, <2>4, <2>5 DEF GrantsAreSeparate
<1> QED BY <1>1, Invariance, PTL

(* dealloc meets a valid, allocated header only in front of memory that a    *)
(* client owns.                                                              *)
THEOREM OwnershipTheorem == Spec => []AllocatedMeansOwned
<1>1. ASSUME IInv PROVE AllocatedMeansOwned
  <2>1. \A a \in DOMAIN hdr : hdr[a].status \in {Free, Allocated}
    BY <1>1 DEF IInv, TypeOK, HeapTypeOK, Header
  <2> QED BY <1>1, <2>1
      DEF IInv, HeadersSound, Ownership, FreeBlocks, AllocatedMeansOwned,
          Free, Allocated
<1> QED BY <1>1, Invariance, PTL

(* integrity_check always finds valid headers up to exactly heap_end. *)
THEOREM IntegrityTheorem == Spec => []IntegrityCheckPasses
<1>1. IInv => IntegrityCheckPasses
  BY DEF IInv, Control
<1> QED BY <1>1, Invariance, PTL

(* When all memory has been given back, the heap is one free block again. *)
THEOREM EmptyHeapTheorem == Spec => []EmptyHeapIsWhole
<1>1. ASSUME IInv, pc = "idle", DOMAIN held = {}
      PROVE  blocks = {HeapStart} /\ End(HeapStart) = HeapEnd
  <2>1. blocks = FreeBlocks
    BY <1>1 DEF IInv, Ownership, FreeBlocks
  <2>2. HeapStart \in blocks /\ \A b \in blocks : HeapStart <= b
    BY <1>1 DEF IInv, HeapTiled
  <2>3. End(HeapStart) = HeapEnd
    BY <1>1, <2>1, <2>2 DEF IInv, Coalesced, HeapTiled
  <2>4. ASSUME NEW c \in blocks PROVE c = HeapStart
    <3>1. /\ c \in Nat /\ End(c) \in Nat /\ c < End(c) /\ End(c) <= HeapEnd
      BY <1>1, BlockFacts
    <3>2. HeapStart < c => HeapEnd <= c
      BY <1>1, <2>2, <2>3 DEF IInv, HeapTiled
    <3> QED BY <2>2, <3>1, <3>2, HeapAssumption DEF HeapEnd
  <2> QED BY <2>2, <2>3, <2>4
<1>2. IInv => EmptyHeapIsWhole
  BY <1>1 DEF EmptyHeapIsWhole
<1> QED BY <1>2, Invariance, PTL

(* The pointer dealloc has just released is recognised as freed, also when   *)
(* coalesce has merged its block away.                                       *)
THEOREM DoubleFreeTheorem == Spec => DoubleFreeCaught
<1>1. ASSUME IInv, IInv', Next, pc = "coalesce_prev", pc' # pc,
             NEW p, p = blk + HeaderSize
      PROVE  DeallocOutcome(p)' = "DoubleFree"
  <2>1. CoalescePrev
    BY Zenon, <1>1 DEF Next, AllocRefused, AllocStart, DeallocRefused, DeallocStart,
       SetPurpose, Freeze, CheckStart, ClientWrite, Step, FindNext, FindNone,
       TakeWhole, TakeSplit, SplitDone, InsertFirst, InsertWalk, InsertAfter,
       CoalesceNext, CheckHeader, CheckEnd, Ready, locals
  <2>2. PICK d : d = blk
    BY Zenon
  <2>3. /\ d \in DOMAIN next /\ ~frozen /\ DOMAIN next = FreeBlocks
        /\ Precedes(DOMAIN next, prev[d], d)
    BY ZenonT(40), <1>1, <2>2 DEF IInv, Control, FreeListExact, Unlinked, IsList
  <2>4. d \in blocks /\ hdr[d].status = Free /\ d \in DOMAIN hdr /\ HeapStart <= d
    BY <1>1, <2>3 DEF FreeBlocks, IInv, HeapTiled
  <2>5. d \in DOMAIN hdr' /\ hdr'[d] = hdr[d]
    <3>1. prev[d] # NULL => prev[d] # d
      BY <1>1, <2>3, <2>4, BlockFacts DEF Precedes
    <3>2. CASE MergeablePrev(prev[d])
      BY <2>1, <2>2, <2>4, <3>1, <3>2 DEF CoalescePrev, MergeablePrev
    <3>3. CASE ~MergeablePrev(prev[d])
      BY <2>1, <2>2, <2>4, <3>3 DEF CoalescePrev, heap
    <3> QED BY <3>2, <3>3
  <2>6. Validate(hdr'[d]) /\ ~frozen'
    <3>1. Validate(hdr[d])
      BY <1>1, <2>4 DEF IInv, HeadersSound
    <3> QED BY <2>1, <2>3, <2>5, <3>1 DEF CoalescePrev
  <2>7. /\ d \in Nat /\ HeaderSize \in Nat /\ d + HeaderSize <= End(d)
        /\ End(d) <= HeapEnd /\ End(d) \in Nat
    BY <1>1, <2>4, BlockFacts
  <2>8. p - HeaderSize = d /\ ~(p < HeapStart) /\ ~(p > HeapEnd)
    BY <1>1, <2>2, <2>4, <2>7, HeapAssumption DEF HeapEnd
  <2> QED BY <2>4, <2>5, <2>6, <2>8 DEF DeallocOutcome
<1>2. IInv /\ IInv' /\ [Next]_vars =>
        [pc = "coalesce_prev" =>
           \A p \in {blk + HeaderSize} : DeallocOutcome(p)' = "DoubleFree"]_pc
  BY <1>1 DEF vars, locals
<1> QED BY <1>2, Invariance, PTL DEF Spec, DoubleFreeCaught

-----------------------------------------------------------------------------
(***************************************************************************)
(* The allocator implements GapHeap                                        *)
(***************************************************************************)

(* Every block but the first begins where another one ends. *)
Abutting == \A g \in blocks : g # HeapStart => \E b \in blocks : End(b) = g

(* The abstract heap: what Gap substitutes for live *)
Live == [b \in DOMAIN held |->
           [total |-> TotalSize(hdr[b]), user |-> held[b].user,
            size |-> held[b].size, align |-> held[b].align]]

(* Gap uses the operators of BlockLayout with the same constants. *)
LEMMA SameLayout ==
  /\ Gap!HeapEnd = HeapEnd /\ Gap!MinBlockSize = MinBlockSize
  /\ \A size, align :
       /\ Gap!WellFormed(size, align) <=> WellFormed(size, align)
       /\ \A b : /\ Gap!CalculateAlignedAddr(b, align) = CalculateAlignedAddr(b, align)
                 /\ Gap!RequiredSize(b, size, align) = RequiredSize(b, size, align)
<1>1. Gap!HeapEnd = HeapEnd /\ Gap!MinBlockSize = MinBlockSize
  BY DEF Gap!HeapEnd, HeapEnd, Gap!MinBlockSize, MinBlockSize
<1>2. \A size, align : Gap!WellFormed(size, align) <=> WellFormed(size, align)
  BY Zenon DEF Gap!WellFormed, WellFormed, Gap!IsPowerOfTwo, IsPowerOfTwo
<1>3. \A b, align : Gap!CalculateAlignedAddr(b, align) = CalculateAlignedAddr(b, align)
  BY Zenon DEF Gap!CalculateAlignedAddr, CalculateAlignedAddr
<1>4. \A b, size, align : Gap!RequiredSize(b, size, align) = RequiredSize(b, size, align)
  BY Zenon, <1>3 DEF Gap!RequiredSize, RequiredSize, Gap!AllocSize, AllocSize,
                     Gap!MaxOf, MaxOf
<1> QED BY Zenon, <1>1, <1>2, <1>3, <1>4

(* Between the merging steps of dealloc, the gaps of the abstract heap are   *)
(* the free blocks, and the room in a gap is the size in the header.         *)
LEMMA GapsAreFreeBlocks ==
  ASSUME IInv, Abutting, op # "dealloc"
  PROVE  /\ Gap!Gaps = FreeBlocks
         /\ \A g \in FreeBlocks : /\ Gap!GapEnd(g) = End(g)
                                  /\ Gap!Room(g) = hdr[g].size
<1>1. DOMAIN held = blocks \ FreeBlocks /\ FreeBlocks \subseteq blocks
  BY DEF IInv, Ownership, FreeBlocks
<1>2. \A b \in DOMAIN held : Gap!LiveEnd(b) = End(b)
  BY DEF Gap!LiveEnd, End
<1>3. /\ HeapStart \in blocks
      /\ \A b \in blocks : End(b) \in blocks \cup {HeapEnd}
      /\ \A b, c \in blocks : b < c => End(b) <= c
  BY DEF IInv, HeapTiled
<1>4. \A b \in blocks : b \in Nat /\ End(b) \in Nat /\ b < End(b) /\ End(b) <= HeapEnd
                        /\ End(b) = b + HeaderSize + hdr[b].size
                        /\ hdr[b].size \in Nat /\ HeaderSize \in Nat
  BY BlockFacts
<1>5. \A b, c \in FreeBlocks : End(b) # c
  BY DEF IInv, Coalesced
<1>6. HeapEnd \in Nat
  BY HeapAssumption DEF HeapEnd
<1>7. Gap!Gaps = ({HeapStart} \cup {End(b) : b \in DOMAIN held})
                   \ (DOMAIN held \cup {HeapEnd})
  BY Zenon, <1>2, SameLayout DEF Gap!Gaps
<1>8. Gap!Gaps \subseteq FreeBlocks
  BY <1>1, <1>3, <1>7
<1>9. ASSUME NEW g \in FreeBlocks PROVE g \in Gap!Gaps
  <2>1. g \in blocks /\ g # HeapEnd /\ g \notin DOMAIN held
    BY <1>1, <1>4, <1>6
  <2>2. CASE g = HeapStart
    BY <1>7, <2>1, <2>2
  <2>3. CASE g # HeapStart
    <3>1. PICK b \in blocks : End(b) = g
      BY <2>1, <2>3 DEF Abutting
    <3>2. b \in DOMAIN held
      BY <1>1, <1>5, <3>1
    <3> QED BY <1>7, <2>1, <3>1, <3>2
  <2> QED BY <2>2, <2>3
<1>10. ASSUME NEW g \in FreeBlocks
       PROVE  Gap!GapEnd(g) = End(g) /\ Gap!Room(g) = hdr[g].size
  <2>1. g \in blocks /\ End(g) \in DOMAIN held \cup {HeapEnd}
    BY <1>1, <1>3, <1>5
  <2>2. Gap!Limits(g) = {x \in DOMAIN held \cup {HeapEnd} : x > g}
    BY Zenon, SameLayout DEF Gap!Limits
  <2>3. End(g) \in Gap!Limits(g)
    BY <1>4, <2>1, <2>2
  <2>4. \A y \in Gap!Limits(g) : y \in Nat /\ End(g) <= y
    BY <1>1, <1>3, <1>4, <1>6, <2>1, <2>2
  <2>5. ASSUME NEW x \in Gap!Limits(g), \A y \in Gap!Limits(g) : x <= y
        PROVE  x = End(g)
    BY <2>3, <2>4, <2>5
  <2>6. Gap!GapEnd(g) = End(g)
    BY <2>3, <2>4, <2>5 DEF Gap!GapEnd
  <2>7. End(g) - g - HeaderSize = hdr[g].size
    BY <1>4, <2>1
  <2> QED BY <2>6, <2>7 DEF Gap!Room
<1> QED BY <1>8, <1>9, <1>10

(* Only a refused request counts as a failed allocation. *)
LEMMA FailuresCounted ==
  ASSUME NEW s \in StatsType, NEW n
  PROVE  /\ RecordAllocFailure(s).failed_allocs = s.failed_allocs + 1
         /\ RecordAlloc(s, n).failed_allocs = s.failed_allocs
         /\ RecordDealloc(s, n).failed_allocs = s.failed_allocs
         /\ RecordMerge(s).failed_allocs = s.failed_allocs
         /\ RecordSplit(s).failed_allocs = s.failed_allocs
         /\ RecordDoubleFree(s).failed_allocs = s.failed_allocs
         /\ RecordCorruption(s).failed_allocs = s.failed_allocs
         /\ FreeGrows(s, n).failed_allocs = s.failed_allocs
         /\ FreeShrinks(s, n).failed_allocs = s.failed_allocs
<1>1. RecordAllocFailure(s).failed_allocs = s.failed_allocs + 1
  BY DEF StatsType, RecordAllocFailure
<1>2. /\ RecordDealloc(s, n).failed_allocs = s.failed_allocs
      /\ RecordMerge(s).failed_allocs = s.failed_allocs
      /\ RecordSplit(s).failed_allocs = s.failed_allocs
      /\ RecordDoubleFree(s).failed_allocs = s.failed_allocs
      /\ RecordCorruption(s).failed_allocs = s.failed_allocs
      /\ FreeGrows(s, n).failed_allocs = s.failed_allocs
      /\ FreeShrinks(s, n).failed_allocs = s.failed_allocs
  BY DEF StatsType, RecordDealloc, RecordMerge, RecordSplit, RecordDoubleFree,
         RecordCorruption, FreeGrows, FreeShrinks
<1>3. RecordAlloc(s, n).failed_allocs = s.failed_allocs
  BY DEF StatsType, RecordAlloc
<1> QED BY <1>1, <1>2, <1>3

(* A step that leaves the owners, the sizes of their blocks, the flag and    *)
(* the failure count alone does not show in the abstract heap.               *)
LEMMA HeapLooksTheSame ==
  ASSUME held' = held, frozen' = frozen,
         stats'.failed_allocs = stats.failed_allocs,
         \A b \in DOMAIN held : hdr'[b].size = hdr[b].size
  PROVE  UNCHANGED Gap!gapVars
BY Zenon DEF Gap!gapVars, TotalSize

(* Addresses are totally ordered. *)
LEMMA NotBelow == ASSUME NEW f \in Nat, NEW c \in Nat, ~(f < c) PROVE c <= f
OBVIOUS

(* first fit over the list is first fit over the gaps. *)
LEMMA AllocateStep ==
  ASSUME IInv, Abutting, pc = "find", cur # NULL, Fits(cur, req.size, req.align),
         held' = Granted(cur), frozen' = frozen,
         stats'.failed_allocs = stats.failed_allocs,
         \A b \in DOMAIN held : hdr'[b] = hdr[b],
         TotalSize(hdr'[cur]) = IF Splits(cur, req.size, req.align)
                                THEN RequiredSize(cur, req.size, req.align)
                                ELSE TotalSize(hdr[cur])
  PROVE  Gap!GapNext
<1>0. PICK c, sz, al : c = cur /\ sz = req.size /\ al = req.align
  BY Zenon
<1>1. /\ c \in FreeBlocks /\ c \in blocks /\ c \notin DOMAIN held
      /\ DOMAIN next = FreeBlocks /\ sz \in Nat /\ al \in Nat \ {0}
  BY ZenonT(40), <1>0, Found
<1>2. op = "alloc" /\ ~frozen /\ WellFormed(sz, al) /\ sz \in Sizes /\ al \in Aligns
      /\ \A b \in FreeBlocks : b < c => ~Fits(b, sz, al)
  BY ZenonT(40), <1>0, <1>1 DEF IInv, Control
<1>3. /\ Gap!Gaps = FreeBlocks
      /\ \A g \in FreeBlocks : /\ Gap!GapEnd(g) = End(g)
                               /\ Gap!Room(g) = hdr[g].size
  BY ZenonT(40), <1>2, GapsAreFreeBlocks
<1>4. \A g \in FreeBlocks : Gap!HasRoom(g, sz, al) <=> Fits(g, sz, al)
  BY Zenon, <1>3, SameLayout DEF Gap!HasRoom, Fits
<1>5. \A f \in Gap!Gaps : Gap!HasRoom(f, sz, al) => c <= f
  <2>1. \A f \in FreeBlocks : f \in Nat
    BY Zenon DEF FreeBlocks, IInv, TypeOK, HeapTypeOK
  <2>2. ASSUME NEW f \in FreeBlocks, Fits(f, sz, al) PROVE c <= f
    <3>1. ~(f < c)
      BY Zenon, <1>2, <2>2
    <3>2. f \in Nat /\ c \in Nat
      BY Zenon, <1>1, <2>1
    <3> QED BY Zenon, <3>1, <3>2, NotBelow
  <2> QED BY Zenon, <1>3, <1>4, <2>2
<1>6. Gap!Taken(c, sz, al) = TotalSize(hdr'[c])
  <2>1. End(c) - c = TotalSize(hdr[c])
    BY Zenon, <1>1, BlockWidth
  <2>2. Gap!Taken(c, sz, al) = IF Splits(c, sz, al) THEN RequiredSize(c, sz, al)
                               ELSE End(c) - c
    BY Zenon, <1>1, <1>3, SameLayout DEF Gap!Taken, Splits
  <2> QED BY ZenonT(40), <1>0, <2>1, <2>2
<1>7. /\ DOMAIN held' = DOMAIN held \cup {c}
      /\ held'[c].user = CalculateAlignedAddr(c, al)
      /\ held'[c].size = sz /\ held'[c].align = al
      /\ \A b \in DOMAIN held : held'[b] = held[b]
  BY ZenonT(40), <1>0, <1>1 DEF Granted, Grant
<1>8. Live' = [b \in DOMAIN Live \cup {c} |->
                 IF b = c THEN [total |-> Gap!Taken(c, sz, al),
                                user |-> Gap!CalculateAlignedAddr(c, al),
                                size |-> sz, align |-> al]
                 ELSE Live[b]]
  <2>1. /\ DOMAIN Live = DOMAIN held
        /\ \A b \in DOMAIN held : Live[b] =
             [total |-> TotalSize(hdr[b]), user |-> held[b].user,
              size |-> held[b].size, align |-> held[b].align]
    BY Zenon DEF Live
  <2>2. Live' = [b \in DOMAIN held \cup {c} |->
                   [total |-> TotalSize(hdr'[b]), user |-> held'[b].user,
                    size |-> held'[b].size, align |-> held'[b].align]]
    BY Zenon, <1>7 DEF Live, TotalSize
  <2>3. held'[c].user = Gap!CalculateAlignedAddr(c, al)
    BY Zenon, <1>7, SameLayout
  <2>4. \A b \in DOMAIN held : b # c
    BY ZenonT(40), <1>1
  <2> QED BY ZenonT(40), <1>6, <1>7, <2>1, <2>2, <2>3, <2>4
<1>9. c \in Gap!Gaps /\ Gap!HasRoom(c, sz, al) /\ Gap!WellFormed(sz, al)
  BY Zenon, <1>0, <1>1, <1>2, <1>3, <1>4, SameLayout
<1>10. Gap!Allocate(sz, al)
  BY Zenon, <1>2, <1>5, <1>8, <1>9 DEF Gap!Allocate, Live
<1> QED BY Zenon, <1>2, <1>10 DEF Gap!GapNext

(* TakeWhole is an allocation of the abstract heap. *)
LEMMA TakeWholeStep == ASSUME IInv, Abutting, TakeWhole PROVE Gap!GapNext
<1> USE DEF TakeWhole
<1>1. /\ cur \in blocks /\ cur \notin DOMAIN held
  BY Found
<1>2. cur \in DOMAIN hdr /\ hdr[cur] \in Header /\ hdr[cur].size \in Nat
  BY <1>1, BlockFacts
<1>3. AllocatedHeader(hdr[cur], hdr[cur].size).size = hdr[cur].size
  BY Zenon, <1>2, HeadersWritten DEF IInv, TypeOK, HeapTypeOK
<1>4. hdr'[cur].size = hdr[cur].size /\ \A b \in DOMAIN held : hdr'[b] = hdr[b]
  <2>1. hdr'[cur] = AllocatedHeader(hdr[cur], hdr[cur].size)
    BY <1>2
  <2>2. \A b \in DOMAIN held : b \in DOMAIN hdr /\ b # cur
    BY <1>1 DEF IInv, Ownership, HeapTiled
  <2> QED BY <1>3, <2>1, <2>2
<1>5. stats'.failed_allocs = stats.failed_allocs
  <2>1. stats \in StatsType /\ TotalSize(hdr[cur]) \in Int
    BY <1>2, SizesAssumption DEF IInv, TypeOK, TotalSize
  <2>2. stats' = RecordAlloc(FreeShrinks(stats, TotalSize(hdr[cur])), hdr[cur].size)
    OBVIOUS
  <2> HIDE DEF TakeWhole
  <2>3. FreeShrinks(stats, TotalSize(hdr[cur])) \in StatsType
    BY Zenon, <2>1, StatsTyped
  <2>4. FreeShrinks(stats, TotalSize(hdr[cur])).failed_allocs = stats.failed_allocs
    BY Zenon, <2>1, FailuresCounted
  <2> QED BY Zenon, <2>2, <2>3, <2>4, FailuresCounted
<1>6. /\ pc = "find" /\ cur # NULL /\ Fits(cur, req.size, req.align)
      /\ ~Splits(cur, req.size, req.align) /\ held' = Granted(cur) /\ frozen' = frozen
  OBVIOUS
<1>7. TotalSize(hdr'[cur]) = TotalSize(hdr[cur])
  BY Zenon, <1>4 DEF TotalSize
<1> HIDE DEF TakeWhole
<1> QED BY ZenonT(40), <1>4, <1>5, <1>6, <1>7, AllocateStep

(* So is TakeSplit: the remainder that is split off is a gap again. *)
LEMMA TakeSplitStep == ASSUME IInv, Abutting, TakeSplit PROVE Gap!GapNext
<1>0. PICK c, r, t : c = cur /\ r = RequiredSize(cur, req.size, req.align) /\ t = c + r
  OBVIOUS
<1> USE DEF TakeSplit
<1>1. c \in blocks /\ c \notin DOMAIN held
  BY <1>0, Found
<1>2. /\ c \in Nat /\ r \in Nat /\ c < t /\ hdr[c] \in Header
      /\ HeaderSize \in Nat /\ r - HeaderSize \in Nat /\ t \notin blocks
      /\ \A a \in blocks : a \notin Overlapping(t, t + HeaderSize)
  BY <1>0, SplitFacts
<1>3. AllocatedHeader(hdr[c], r - HeaderSize).size = r - HeaderSize
  <2> HIDE DEF TakeSplit
  <2>1. next_alloc_id \in Nat
    BY DEF IInv, TypeOK, HeapTypeOK
  <2> QED BY ZenonT(30), <1>2, <2>1, HeadersWritten
<1>4. blocks \subseteq DOMAIN hdr /\ DOMAIN held \subseteq blocks
  BY DEF IInv, HeapTiled, Ownership
<1>5. /\ hdr'[c] = AllocatedHeader(hdr[c], r - HeaderSize)
      /\ \A b \in DOMAIN held : hdr'[b] = hdr[b]
  <2>1. c # t
    BY <1>2
  <2>2. /\ DOMAIN hdr' = (DOMAIN hdr \ Overlapping(t, t + HeaderSize)) \cup {t}
        /\ \A a \in DOMAIN hdr' : a # t /\ a # c => hdr'[a] = hdr[a]
        /\ c \in DOMAIN hdr' => hdr'[c] = AllocatedHeader(hdr[c], r - HeaderSize)
    BY <1>0, <2>1
  <2> HIDE DEF TakeSplit
  <2>3. blocks \subseteq DOMAIN hdr'
    BY <1>2, <1>4, <2>2
  <2> QED BY Zenon, <1>1, <1>2, <1>4, <2>2, <2>3
<1>6. TotalSize(hdr'[c]) = r
  BY <1>2, <1>3, <1>5 DEF TotalSize
<1>7. stats'.failed_allocs = stats.failed_allocs
  BY FailuresCounted DEF IInv, TypeOK
<1> QED BY <1>0, <1>5, <1>6, <1>7, AllocateStep

(* A request refused at once, or at the end of the list, is one the abstract *)
(* heap refuses: no gap has room for it.                                     *)
LEMMA RefuseStep ==
  ASSUME IInv, Abutting,
         \/ FindNone
         \/ \E size \in Sizes, align \in Aligns : AllocRefused(size, align)
  PROVE  Gap!GapNext
<1>1. stats' = RecordAllocFailure(stats) /\ UNCHANGED <<hdr, frozen, held>>
  BY DEF FindNone, AllocRefused, heap
<1>2. stats'.failed_allocs = stats.failed_allocs + 1 /\ Live' = Live
  BY Zenon, <1>1, FailuresCounted DEF IInv, TypeOK, Live, TotalSize
<1>3. CASE FindNone
  <2>1. PICK sz, al : sz = req.size /\ al = req.align
    OBVIOUS
  <2>2. op = "alloc" /\ sz \in Sizes /\ al \in Aligns
        /\ \A b \in FreeBlocks : ~Fits(b, sz, al)
    BY Zenon, <1>3, <2>1 DEF FindNone, IInv, Control, FreeListExact, Unlinked
  <2>3. /\ Gap!Gaps = FreeBlocks
        /\ \A g \in FreeBlocks : Gap!Room(g) = hdr[g].size
    BY <2>2, GapsAreFreeBlocks
  <2>4. \A g \in Gap!Gaps : ~Gap!HasRoom(g, sz, al)
    BY Zenon, <2>2, <2>3, SameLayout DEF Gap!HasRoom, Fits
  <2>5. Gap!Refuse(sz, al)
    BY Zenon, <1>1, <1>2, <2>4 DEF Gap!Refuse, Live
  <2> QED BY Zenon, <2>2, <2>5 DEF Gap!GapNext
<1>4. ASSUME NEW size \in Sizes, NEW align \in Aligns, AllocRefused(size, align)
      PROVE  Gap!GapNext
  <2>1. frozen \/ ~Gap!WellFormed(size, align)
    BY <1>4, SameLayout DEF AllocRefused, Refused
  <2>2. Gap!Refuse(size, align)
    BY Zenon, <1>1, <1>2, <2>1 DEF Gap!Refuse, Live
  <2> QED BY Zenon, <2>2 DEF Gap!GapNext
<1> QED BY <1>3, <1>4

(* dealloc releases a block of the abstract heap, through the pointer that   *)
(* directly follows its header.                                              *)
LEMMA ReleaseStep ==
  ASSUME IInv, NEW p \in Ptrs, DeallocStart(p)
  PROVE  Gap!GapNext
<1>0. PICK d : d = p - HeaderSize
  OBVIOUS
<1> USE DEF DeallocStart
<1>1. ~frozen /\ d \in DOMAIN hdr /\ hdr[d].status # Free /\ pc = "idle"
  BY SMTT(30), <1>0 DEF DeallocOutcome, Ready
<1>2. d \in blocks /\ d \in DOMAIN held
  BY Zenon, <1>1 DEF IInv, HeadersSound, Ownership, FreeBlocks
<1>3. d \in Nat /\ HeaderSize \in Nat /\ hdr[d] \in Header /\ hdr[d].size \in Nat
  BY Zenon, <1>2, BlockFacts
<1>4. PICK o \in DOMAIN held : p = held[o].user
  <2>1. p \notin FreedPtrs
    <3> SUFFICES ASSUME NEW a \in DOMAIN hdr, hdr[a].status = Free, p = a + HeaderSize
                 PROVE  FALSE
      BY ZenonT(40) DEF FreedPtrs
    <3>1. a \in Nat
      BY Zenon DEF IInv, TypeOK, HeapTypeOK
    <3> HIDE DEF DeallocStart
    <3>2. a = d
      BY <1>0, <1>3, <3>1
    <3> QED BY <1>1, <3>2
  <2>2. p \in OwnPtrs
    BY ZenonT(40), <1>0, <1>2, <2>1 DEF Ptrs
  <2> QED BY Zenon, <2>2 DEF OwnPtrs
<1>5. held[d].user = d + HeaderSize
  <2>1. o \in blocks /\ o + HeaderSize <= p /\ p + held[o].size <= End(o)
        /\ p \in Nat /\ held[o].size \in Nat
    BY ZenonT(40), <1>4 DEF IInv, Ownership, UserEnd, TypeOK, HeapTypeOK
  <2>2. o \in Nat /\ End(o) \in Nat
    BY ZenonT(40), <2>1, BlockFacts
  <2>3. o < d => End(o) <= d
    BY ZenonT(40), <1>2, <2>1 DEF IInv, HeapTiled
  <2>4. HeaderSize > 0
    BY SizesAssumption
  <2> HIDE DEF DeallocStart
  <2>5. o = d
    BY <1>0, <1>3, <2>1, <2>2, <2>3, <2>4
  <2> QED BY <1>0, <1>3, <1>4, <2>1, <2>5
<1>6. /\ DOMAIN held' = DOMAIN held \ {d}
      /\ \A b \in DOMAIN held \ {d} : held'[b] = held[b] /\ hdr'[b] = hdr[b]
  <2>1. \A b \in DOMAIN held : b \in DOMAIN hdr
    BY ZenonT(40) DEF IInv, Ownership, HeapTiled
  <2> QED BY <1>0, <2>1
<1>7. stats'.failed_allocs = stats.failed_allocs /\ frozen' = frozen
  <2>1. RecordDealloc(stats, hdr[d].size) \in StatsType
        /\ stats \in StatsType
    <3>1. stats \in StatsType /\ hdr[d].size \in Int
      <4>1. stats \in StatsType
        BY Zenon DEF IInv, TypeOK
      <4>2. hdr[d].size \in Nat => hdr[d].size \in Int
        OBVIOUS
      <4> QED BY Zenon, <1>3, <4>1, <4>2
    <3> QED BY Zenon, <3>1, StatsTyped
  <2>2. /\ stats' = FreeGrows(RecordDealloc(stats, hdr[d].size), TotalSize(hdr[d]))
        /\ frozen' = frozen
    BY Zenon, <1>0
  <2> HIDE DEF DeallocStart
  <2>3. ASSUME NEW s \in StatsType, NEW n PROVE FreeGrows(s, n).failed_allocs = s.failed_allocs
    BY Zenon, FailuresCounted
  <2>4. RecordDealloc(stats, hdr[d].size).failed_allocs = stats.failed_allocs
    BY Zenon, <2>1, FailuresCounted
  <2> QED BY Zenon, <2>1, <2>2, <2>3, <2>4
<1> HIDE DEF DeallocStart
<1>8. Live' = [x \in DOMAIN Live \ {d} |-> Live[x]]
  <2>1. /\ DOMAIN Live = DOMAIN held
        /\ \A b \in DOMAIN held : Live[b] =
             [total |-> TotalSize(hdr[b]), user |-> held[b].user,
              size |-> held[b].size, align |-> held[b].align]
    BY Zenon DEF Live
  <2>2. Live' = [b \in DOMAIN held \ {d} |->
                   [total |-> TotalSize(hdr'[b]), user |-> held'[b].user,
                    size |-> held'[b].size, align |-> held'[b].align]]
    BY Zenon, <1>6 DEF Live, TotalSize
  <2> QED BY Zenon, <1>6, <2>1, <2>2
<1>9. Live[d].user = d + HeaderSize /\ d \in DOMAIN Live
  BY ZenonT(40), <1>2, <1>5 DEF Live
<1>10. Gap!Release(d)
  BY ZenonT(40), <1>1, <1>7, <1>8, <1>9 DEF Gap!Release, Live
<1> QED BY Zenon, <1>9, <1>10 DEF Gap!GapNext, Live

(* The headers of owned blocks survive the writes of insert_into_free_list,  *)
(* of coalesce, of set_purpose and of the clients.                           *)
LEMMA OwnedSizesKept ==
  ASSUME IInv, IInv',
         \/ InsertFirst \/ InsertAfter \/ CoalesceNext \/ CoalescePrev
         \/ \E p \in OwnPtrs, purpose \in Purposes : SetPurpose(p, purpose)
         \/ \E b \in DOMAIN held : ClientWrite(b)
  PROVE  UNCHANGED Gap!gapVars
<1>1. /\ DOMAIN held = blocks \ FreeBlocks /\ blocks \subseteq DOMAIN hdr
      /\ blocks' \subseteq DOMAIN hdr' /\ stats \in StatsType
      /\ FreeBlocks \subseteq blocks
  BY ZenonT(40) DEF IInv, Ownership, HeapTiled, TypeOK, FreeBlocks
<1>2. CASE InsertFirst \/ InsertAfter
  <2>1. /\ UNCHANGED <<blocks, held, frozen, stats>>
        /\ \E S : hdr' = [a \in DOMAIN hdr \ S |-> hdr[a]]
    BY Zenon, <1>2 DEF InsertFirst, InsertAfter, LinkBetween
  <2>2. \A a \in DOMAIN hdr' : hdr'[a] = hdr[a]
    BY <2>1
  <2> QED BY Zenon, <1>1, <2>1, <2>2, HeapLooksTheSame
<1>3. CASE \E b \in DOMAIN held : ClientWrite(b)
  <2>1. /\ UNCHANGED <<blocks, held, frozen, stats>>
        /\ \E S : hdr' = [a \in DOMAIN hdr \ S |-> hdr[a]]
    BY Zenon, <1>3 DEF ClientWrite
  <2>2. \A a \in DOMAIN hdr' : hdr'[a] = hdr[a]
    BY <2>1
  <2> QED BY Zenon, <1>1, <2>1, <2>2, HeapLooksTheSame
<1>4. CASE CoalesceNext \/ CoalescePrev
  <2>1. blk \in FreeBlocks /\ (prev[blk] # NULL => prev[blk] \in FreeBlocks)
    BY Zenon, <1>4 DEF CoalesceNext, CoalescePrev, IInv, Control, FreeListExact,
                IsList, Unlinked, Precedes
  <2>2. stats'.failed_allocs = stats.failed_allocs
    <3>1. RecordCoalesced.failed_allocs = stats.failed_allocs
      BY <1>1 DEF RecordCoalesced, RecordMerge, StatsType
    <3> QED BY Zenon, <1>4, <3>1 DEF CoalesceNext, CoalescePrev
  <2>3. UNCHANGED <<held, frozen>>
    BY ZenonT(40), <1>4 DEF CoalesceNext, CoalescePrev
  <2>4. \A b \in DOMAIN held : hdr'[b] = hdr[b]
    <3>1. CASE CoalesceNext
      BY <1>1, <2>1, <3>1 DEF CoalesceNext, heap
    <3>2. CASE CoalescePrev
      BY ZenonT(40), <1>1, <2>1, <3>2 DEF CoalescePrev, MergeablePrev, heap
    <3> QED BY <1>4, <3>1, <3>2
  <2> QED BY <2>2, <2>3, <2>4, HeapLooksTheSame
<1>5. ASSUME NEW p \in OwnPtrs, NEW purpose \in Purposes, SetPurpose(p, purpose)
      PROVE  UNCHANGED Gap!gapVars
  <2>1. PICK d, g : d = p - HeaderSize
                    /\ g = UpdateChecksum([hdr[d] EXCEPT !.purpose = purpose])
    OBVIOUS
  <2>2. /\ d \in DOMAIN hdr /\ UNCHANGED <<held, frozen, stats>>
        /\ hdr' = [hdr EXCEPT ![d] = g]
    BY <1>5, <2>1 DEF SetPurpose
  <2>3. g.size = hdr[d].size
    <3>1. hdr[d] \in Header /\ purpose \in Nat /\ next_alloc_id \in Nat
      BY ZenonT(40), <2>2, ClientAssumption DEF IInv, TypeOK, HeapTypeOK
    <3> QED BY ZenonT(30), <2>1, <3>1, HeadersWritten
  <2>4. \A b \in DOMAIN held : hdr'[b].size = hdr[b].size
    BY <1>1, <2>2, <2>3
  <2> QED BY <2>2, <2>4, HeapLooksTheSame
<1> QED BY <1>2, <1>3, <1>4, <1>5

(* Every step of the allocator is a step of the abstract heap, or does not   *)
(* show in it.                                                               *)
LEMMA StepImplements ==
  ASSUME IInv, IInv', Abutting, [Next]_vars
  PROVE  [Gap!GapNext]_(Gap!gapVars)
<1>1. CASE FindNone \/ \E size \in Sizes, align \in Aligns : AllocRefused(size, align)
  BY <1>1, RefuseStep
<1>2. CASE TakeWhole \/ TakeSplit
  BY <1>2, TakeWholeStep, TakeSplitStep
<1>3. CASE \E p \in Ptrs : DeallocStart(p)
  BY <1>3, ReleaseStep
<1>4. CASE Freeze
  <2>1. Gap!FreezeHeap
    BY Zenon, <1>4 DEF Freeze, Gap!FreezeHeap, heap
  <2> QED BY Zenon, <2>1 DEF Gap!GapNext
<1>5. CASE \/ InsertFirst \/ InsertAfter \/ CoalesceNext \/ CoalescePrev
           \/ \E p \in OwnPtrs, purpose \in Purposes : SetPurpose(p, purpose)
           \/ \E b \in DOMAIN held : ClientWrite(b)
  BY <1>5, OwnedSizesKept
<1>6. CASE SplitDone
  <2>1. /\ blk \in DOMAIN hdr /\ base \in DOMAIN hdr /\ stats \in StatsType
    BY Zenon, <1>6 DEF SplitDone, IInv, Control, HeapTiled, TypeOK
  <2>2. TotalSize(hdr[blk]) \in Int
    <3>1. hdr[blk] \in Header
      BY Zenon, <2>1 DEF IInv, TypeOK, HeapTypeOK
    <3>2. hdr[blk].size \in Nat
      BY <3>1 DEF Header
    <3> QED BY <3>2, SizesAssumption DEF TotalSize
  <2>3. RecordSplit(stats) \in StatsType
    BY <2>1, StatsTyped
  <2>4. FreeGrows(RecordSplit(stats), TotalSize(hdr[blk])) \in StatsType
    BY <2>2, <2>3, StatsTyped
  <2>5. stats'.failed_allocs = stats.failed_allocs
    BY <1>6, <2>1, <2>3, <2>4, FailuresCounted DEF SplitDone
  <2> QED BY Zenon, <1>6, <2>5, HeapLooksTheSame DEF SplitDone, heap
<1>7. CASE \E p \in Ptrs : DeallocRefused(p)
  <2>1. stats'.failed_allocs = stats.failed_allocs
    <3>1. stats \in StatsType
      BY DEF IInv, TypeOK
    <3>2. stats' \in {RecordCorruption(stats), RecordDoubleFree(stats), stats}
      BY <1>7 DEF DeallocRefused
    <3> QED BY <3>1, <3>2, FailuresCounted
  <2> QED BY <1>7, <2>1, HeapLooksTheSame DEF DeallocRefused, heap
<1>8. CASE \/ \E size \in Sizes, align \in Aligns : AllocStart(size, align)
           \/ FindNext \/ InsertWalk \/ CheckStart \/ CheckHeader \/ CheckEnd
           \/ UNCHANGED vars
  <2>1. UNCHANGED <<hdr, held, stats, frozen>>
    BY Zenon, <1>8 DEF AllocStart, FindNext, InsertWalk, CheckStart, CheckHeader,
                CheckEnd, vars, heap
  <2> QED BY <2>1, HeapLooksTheSame
<1> QED BY Zenon, <1>1, <1>2, <1>3, <1>4, <1>5, <1>6, <1>7, <1>8 DEF Next, Step

-----------------------------------------------------------------------------
(* That blocks abut needs induction, which is brought in here so that the    *)
(* proofs above do not carry it along.                                       *)
WF == INSTANCE WellFoundedInduction

(* A set of numbers below n that is not empty has a largest element. *)
LEMMA LargestBelow ==
  ASSUME NEW n \in Nat, NEW T, T \subseteq Nat, T # {}, \A k \in T : k < n
  PROVE  \E m \in T : \A k \in T : k <= m
<1> DEFINE R == {p \in Nat \X Nat : p[1] < p[2]}
           D == {n - k : k \in T}
<1>1. WF!IsWellFoundedOn(R, Nat)
  BY WF!NatLessThanWellFounded DEF WF!OpToRel
<1>2. D \subseteq Nat /\ D # {}
  <2>1. \A k \in T : n - k \in Nat
    OBVIOUS
  <2> QED BY Zenon, <2>1
<1>3. PICK d \in D : \A e \in D : ~(<<e, d>> \in R)
  BY Zenon, <1>1, <1>2, WF!WFMin
<1>4. \A e \in D : ~(e < d)
  BY Zenon, <1>2, <1>3
<1>5. PICK m \in T : d = n - m
  OBVIOUS
<1>6. \A k \in T : n - k \in D
  OBVIOUS
<1> HIDE DEF D, R
<1>7. ASSUME NEW k \in T PROVE k <= m
  <2>1. ~(n - k < n - m)
    BY <1>4, <1>5, <1>6
  <2> QED BY <2>1
<1> QED BY <1>7

(* The blocks of a tiled heap abut: the one before g is the largest below g. *)
LEMMA BlockBefore == IInv => Abutting
<1> SUFFICES ASSUME IInv, NEW g \in blocks, g # HeapStart
             PROVE  \E b \in blocks : End(b) = g
  BY DEF Abutting
<1> DEFINE T == {b \in blocks : b < g}
<1>1. /\ HeapStart \in blocks /\ HeapStart <= g /\ blocks \subseteq Nat
      /\ \A b, c \in blocks : b < c => End(b) <= c
  BY DEF IInv, HeapTiled, TypeOK, HeapTypeOK
<1>2. \E m \in T : \A k \in T : k <= m
  <2>1. HeapStart \in T
    BY <1>1
  <2>2. T # {} /\ T \subseteq Nat /\ \A k \in T : k < g
    BY Zenon, <1>1, <2>1
  <2> HIDE DEF T
  <2> QED BY Zenon, <1>1, <2>2, LargestBelow
<1>3. PICK m \in blocks : m < g /\ \A k \in blocks : k < g => k <= m
  BY <1>2
<1>4. /\ m \in Nat /\ End(m) \in Nat /\ m < End(m)
      /\ End(m) \in blocks \cup {HeapEnd}
  BY BlockFacts, BlocksSpan, Zenon
<1>5. g < HeapEnd /\ HeapEnd \in Nat
  <2>1. g \in Nat /\ End(g) \in Nat /\ g < End(g) /\ End(g) <= HeapEnd
    BY BlockFacts, BlocksSpan, Zenon
  <2> QED BY <2>1, HeapAssumption DEF HeapEnd
<1>6. End(m) <= g
  BY <1>1, <1>3
<1>7. End(m) = g
  BY <1>1, <1>3, <1>4, <1>5, <1>6
<1> QED BY <1>7

(* The allocator implements GapHeap, for every heap and all requests: first  *)
(* fit over the free list with its headers, splits and merges is first fit   *)
(* over the gaps between live allocations.                                   *)
THEOREM Refinement == Spec => ImplementsGapHeap
<1>1. ASSUME Init PROVE Gap!GapInit
  BY Zenon, <1>1 DEF Init, Gap!GapInit, NewStats
<1>2. IInv /\ IInv' /\ [Next]_vars => [Gap!GapNext]_(Gap!gapVars)
  BY BlockBefore, StepImplements
<1> QED BY <1>1, <1>2, Invariance, PTL DEF Spec, ImplementsGapHeap, Gap!GapSpec
=============================================================================
