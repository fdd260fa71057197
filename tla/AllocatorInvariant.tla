------------------------- MODULE AllocatorInvariant -------------------------
(***************************************************************************)
(* The inductive invariant of EarlyAllocator, the facts about lists and    *)
(* alignment it rests on, and the steps that change headers, list, blocks  *)
(* or owners: each keeps it.                                               *)
(***************************************************************************)
EXTENDS EarlyAllocator, TLAPS

-----------------------------------------------------------------------------
(* The list, as a fact about sets of addresses and functions on them *)

(* remove_from_free_list: taking an element out of a list leaves a list of   *)
(* the others.                                                               *)
LEMMA RemoveKeepsList ==
  ASSUME NEW L, L \subseteq Nat \ {0}, NEW nx, NEW pv, NEW hd,
         \A x \in L : nx[x] \in Nat /\ pv[x] \in Nat, hd \in Nat,
         IsList(L, nx, pv, hd),
         NEW b \in L, NEW M, NEW nx2, NEW pv2, NEW hd2, M = L \ {b},
         \A x \in M : nx2[x] = IF x = pv[b] THEN nx[b] ELSE nx[x],
         \A x \in M : pv2[x] = IF x = nx[b] THEN pv[b] ELSE pv[x],
         hd2 = IF pv[b] = NULL THEN nx[b] ELSE hd
  PROVE  IsList(M, nx2, pv2, hd2)
<1>1. Follows(L, b, nx[b]) /\ Precedes(L, pv[b], b) /\ Follows(L, NULL, hd)
  BY DEF IsList
<1>2. Follows(M, NULL, IF pv[b] = NULL THEN nx[b] ELSE hd)
  BY <1>1 DEF Follows, Precedes, NULL
<1>3. ASSUME NEW x \in M
      PROVE  Follows(M, x, IF x = pv[b] THEN nx[b] ELSE nx[x])
  <2>1. Follows(L, x, nx[x])
    BY DEF IsList
  <2>2. CASE x = pv[b]
    BY <1>1, <2>1, <2>2 DEF Follows, Precedes, NULL
  <2>3. CASE x # pv[b]
    BY <1>1, <2>1, <2>3 DEF Follows, Precedes, NULL
  <2> QED BY <2>2, <2>3
<1>4. ASSUME NEW x \in M
      PROVE  Precedes(M, IF x = nx[b] THEN pv[b] ELSE pv[x], x)
  <2>1. Precedes(L, pv[x], x)
    BY DEF IsList
  <2>2. CASE x = nx[b]
    BY <1>1, <2>1, <2>2 DEF Follows, Precedes, NULL
  <2>3. CASE x # nx[b]
    BY <1>1, <2>1, <2>3 DEF Follows, Precedes, NULL
  <2> QED BY <2>2, <2>3
<1> QED BY Zenon, <1>2, <1>3, <1>4 DEF IsList

(* The stores of insert_into_free_list: an element linked between two        *)
(* neighbours that enclose it gives a list again.                            *)
LEMMA InsertKeepsList ==
  ASSUME NEW L, NEW M, L \subseteq Nat \ {0}, NEW nx, NEW pv, NEW hd,
         \A x \in L : nx[x] \in Nat /\ pv[x] \in Nat, hd \in Nat,
         IsList(L, nx, pv, hd),
         NEW b \in M, b \in Nat \ {0}, b \notin L, NEW c \in Nat, NEW n \in Nat,
         Follows(L, b, n), Precedes(L, c, b),
         NEW nx2, NEW pv2, NEW hd2, L = M \ {b},
         \A x \in M : nx2[x] = IF x = b THEN n ELSE IF x = c THEN b ELSE nx[x],
         \A x \in M : pv2[x] = IF x = b THEN c ELSE IF x = n THEN b ELSE pv[x],
         hd2 = IF c = NULL THEN b ELSE hd
  PROVE  IsList(M, nx2, pv2, hd2)
<1>1. Follows(M, NULL, IF c = NULL THEN b ELSE hd)
  BY DEF Follows, Precedes, NULL, IsList
<1>2. ASSUME NEW x \in M
      PROVE  Follows(M, x, IF x = b THEN n ELSE IF x = c THEN b ELSE nx[x])
  <2>1. CASE x = b
    BY <2>1 DEF Follows, NULL
  <2>2. CASE x # b /\ x = c
    BY <2>2 DEF Follows, Precedes, NULL
  <2>3. CASE x # b /\ x # c
    BY <2>3 DEF Follows, Precedes, NULL, IsList
  <2> QED BY <2>1, <2>2, <2>3
<1>3. ASSUME NEW x \in M
      PROVE  Precedes(M, IF x = b THEN c ELSE IF x = n THEN b ELSE pv[x], x)
  <2>1. CASE x = b
    BY <2>1 DEF Precedes, NULL
  <2>2. CASE x # b /\ x = n
    BY <2>2 DEF Follows, Precedes, NULL
  <2>3. CASE x # b /\ x # n
    BY <2>3 DEF Follows, Precedes, NULL, IsList
  <2> QED BY <2>1, <2>2, <2>3
<1> QED BY <1>1, <1>2, <1>3 DEF IsList

-----------------------------------------------------------------------------
(* The arithmetic of alloc_aligned *)

(* A nonzero multiple of the alignment a is at least a away from zero. *)
LEMMA MulAtLeast ==
  ASSUME NEW a \in Nat \ {0}, NEW d \in Int
  PROVE  (d >= 1 => a * d >= a) /\ (d <= -1 => a * d <= -a)
OBVIOUS

(* Distribution, for the quotient and remainder of an address *)
LEMMA MulMinus ==
  ASSUME NEW a \in Int, NEW b \in Int, NEW c \in Int
  PROVE  a * (b - c) = a * b - a * c
OBVIOUS

(* A multiple of a leaves no remainder when divided by a. *)
LEMMA MultipleMod ==
  ASSUME NEW a \in Nat \ {0}, NEW q \in Int
  PROVE  (a * q) % a = 0
<1>1. ASSUME NEW y \in Int
      PROVE  /\ y \div a \in Int /\ y % a \in 0 .. a - 1
             /\ y = a * (y \div a) + (y % a)
  OBVIOUS
<1>2. ASSUME NEW p \in Int, NEW r \in 0 .. a - 1, a * q = a * p + r
      PROVE  r = 0
  <2>1. a * (q - p) = r
    BY <1>2, MulMinus
  <2>2. q - p < 1 /\ q - p > -1
    BY <2>1, MulAtLeast
  <2> QED BY <2>1, <2>2
<1>3. a * q \in Int
  OBVIOUS
<1> QED BY <1>1, <1>2, <1>3

(* calculate_aligned_addr rounds up to a multiple of the alignment, never    *)
(* into the header.                                                          *)
LEMMA AlignedAddr ==
  ASSUME NEW b \in Nat, NEW align \in Nat \ {0}
  PROVE  /\ CalculateAlignedAddr(b, align) \in Nat
         /\ b + HeaderSize <= CalculateAlignedAddr(b, align)
         /\ CalculateAlignedAddr(b, align) % align = 0
<1>1. ASSUME NEW x \in Nat
      PROVE  /\ x \div align \in Int /\ x % align \in 0 .. align - 1
             /\ x - (x % align) = align * (x \div align)
  OBVIOUS
<1>2. ASSUME NEW x \in Nat
      PROVE  (x - (x % align)) % align = 0
  BY Zenon, <1>1, MultipleMod
<1>3. b + HeaderSize + align - 1 \in Nat /\ HeaderSize \in Nat
  BY SizesAssumption
<1>4. CalculateAlignedAddr(b, align) % align = 0
  BY <1>2, <1>3 DEF CalculateAlignedAddr
<1>5. ASSUME NEW x \in Nat, NEW d \in Nat, x = d + align - 1
      PROVE  x - (x % align) \in Nat /\ d <= x - (x % align)
  <2>1. x % align \in 0 .. align - 1
    BY <1>1
  <2> QED BY <1>5, <2>1
<1>6. /\ CalculateAlignedAddr(b, align) \in Nat
      /\ b + HeaderSize <= CalculateAlignedAddr(b, align)
  BY <1>3, <1>5 DEF CalculateAlignedAddr
<1> QED BY <1>4, <1>6

(* The space an allocation requires covers the header, the padding and at    *)
(* least a FreeBlock.                                                        *)
LEMMA RequiredSpace ==
  ASSUME NEW b \in Nat, NEW size \in Nat, NEW align \in Nat \ {0}
  PROVE  /\ RequiredSize(b, size, align) \in Nat
         /\ HeaderSize + FreeBlockSize <= RequiredSize(b, size, align)
         /\ CalculateAlignedAddr(b, align) + size <= b + RequiredSize(b, size, align)
<1>1. /\ CalculateAlignedAddr(b, align) \in Nat
      /\ b + HeaderSize <= CalculateAlignedAddr(b, align)
  BY AlignedAddr
<1>2. AllocSize(size) \in Nat /\ AllocSize(size) >= size
      /\ AllocSize(size) >= FreeBlockSize
  BY SizesAssumption DEF AllocSize, MaxOf
<1> QED BY <1>1, <1>2, SizesAssumption DEF RequiredSize

-----------------------------------------------------------------------------
(***************************************************************************)
(* The inductive invariant                                                 *)
(***************************************************************************)

(* Every intact header validates, also the stale ones, which are all free;   *)
(* every block has room for a list node.                                     *)
HeadersSound ==
  /\ \A a \in DOMAIN hdr : Validate(hdr[a])
  /\ \A a \in DOMAIN hdr \ blocks : hdr[a].status = Free
  /\ \A b \in blocks : hdr[b].size >= FreeBlockSize

(* The owned blocks are the allocated ones, and what their clients were      *)
(* given lies inside them.                                                   *)
Ownership ==
  /\ DOMAIN held = blocks \ FreeBlocks
  /\ \A b \in DOMAIN held :
       /\ b + HeaderSize <= held[b].user
       /\ UserEnd(b) <= End(b)
       /\ held[b].user % held[b].align = 0
       /\ hdr[b].alloc_id < next_alloc_id

(* FullyCoalesced, with what coalesce has established so far *)
Coalesced ==
  \A b, c \in FreeBlocks : End(b) = c =>
    /\ op = "dealloc"
    /\ \/ pc \in {"insert", "coalesce_next"} /\ (b = blk \/ c = blk)
       \/ pc = "coalesce_prev" /\ c = blk

(* What the locals of the operation in progress mean at each point of it *)
Control ==
  /\ pc \in {"idle", "check"} => op = "none"
  /\ pc = "find" =>
       /\ op = "alloc" /\ ~frozen /\ WellFormed(req.size, req.align)
       /\ req.size \in Sizes /\ req.align \in Aligns
       /\ cur = NULL \/ cur \in DOMAIN next
       /\ \A b \in DOMAIN next :
            cur = NULL \/ b < cur => ~Fits(b, req.size, req.align)
  /\ pc = "insert" =>
       /\ blk \in FreeBlocks /\ op \in {"alloc", "dealloc"} /\ ~frozen
       /\ \/ free_list_head = NULL
          \/ free_list_head > blk
          \/ cur \in DOMAIN next /\ cur < blk
       /\ op = "alloc" => base \in blocks
  /\ pc = "split_done" => blk \in blocks /\ base \in blocks /\ op = "alloc"
  /\ pc \in {"coalesce_next", "coalesce_prev"} =>
       blk \in DOMAIN next /\ op = "dealloc" /\ ~frozen
  /\ pc = "check" => cur \in blocks \cup {HeapEnd}
  /\ IntegrityCheckPasses

IInv == /\ TypeOK
        /\ HeapTiled
        /\ HeadersSound
        /\ Ownership
        /\ AllocIdsUnique
        /\ FreeListExact
        /\ Coalesced
        /\ Control

-----------------------------------------------------------------------------
(* The statistics keep their types. *)
LEMMA StatsTyped ==
  ASSUME NEW s \in StatsType, NEW size \in Int
  PROVE  /\ RecordAlloc(s, size) \in StatsType
         /\ RecordDealloc(s, size) \in StatsType
         /\ RecordMerge(s) \in StatsType
         /\ RecordSplit(s) \in StatsType
         /\ RecordAllocFailure(s) \in StatsType
         /\ RecordDoubleFree(s) \in StatsType
         /\ RecordCorruption(s) \in StatsType
         /\ FreeGrows(s, size) \in StatsType
         /\ FreeShrinks(s, size) \in StatsType
<1>1. ASSUME NEW t \in StatsType, NEW n \in Int
      PROVE  /\ [t EXCEPT !.used_size = n] \in StatsType
             /\ [t EXCEPT !.total_allocs = n] \in StatsType
             /\ [t EXCEPT !.total_frees = n] \in StatsType
             /\ [t EXCEPT !.alloc_count = n] \in StatsType
             /\ [t EXCEPT !.free_size = n] \in StatsType
             /\ [t EXCEPT !.free_count = n] \in StatsType
             /\ [t EXCEPT !.max_alloc_size = n] \in StatsType
             /\ [t EXCEPT !.min_alloc_size = n] \in StatsType
             /\ [t EXCEPT !.peak_used_size = n] \in StatsType
  BY DEF StatsType
<1>2. /\ s.used_size \in Int /\ s.total_allocs \in Int /\ s.total_frees \in Int
      /\ s.alloc_count \in Int /\ s.free_size \in Int /\ s.free_count \in Int
      /\ s.max_alloc_size \in Int /\ s.min_alloc_size \in Int
      /\ s.peak_used_size \in Int
  BY DEF StatsType
<1>3. RecordAlloc(s, size) \in StatsType
  <2> DEFINE s1 == [s EXCEPT !.used_size = s.used_size + size]
             s2 == [s1 EXCEPT !.total_allocs = s.total_allocs + 1]
             s3 == [s2 EXCEPT !.alloc_count = s.alloc_count + 1]
             s4 == [s3 EXCEPT !.max_alloc_size = MaxOf(s.max_alloc_size, size)]
             s5 == [s4 EXCEPT !.min_alloc_size = MinOf(s.min_alloc_size, size)]
             s6 == [s5 EXCEPT !.peak_used_size =
                       MaxOf(s.peak_used_size, s.used_size + size)]
  <2>1. RecordAlloc(s, size) = s6
    BY DEF RecordAlloc
  <2>2. /\ MaxOf(s.max_alloc_size, size) \in Int
        /\ MinOf(s.min_alloc_size, size) \in Int
        /\ MaxOf(s.peak_used_size, s.used_size + size) \in Int
        /\ s.used_size + size \in Int
        /\ s.total_allocs + 1 \in Int
        /\ s.alloc_count + 1 \in Int
    BY <1>2 DEF MaxOf, MinOf
  <2>3. s1 \in StatsType  BY Zenon, <1>1, <2>2
  <2> HIDE DEF s1
  <2>4. s2 \in StatsType  BY Zenon, <1>1, <2>2, <2>3
  <2> HIDE DEF s2
  <2>5. s3 \in StatsType  BY Zenon, <1>1, <2>2, <2>4
  <2> HIDE DEF s3
  <2>6. s4 \in StatsType  BY Zenon, <1>1, <2>2, <2>5
  <2> HIDE DEF s4
  <2>7. s5 \in StatsType  BY Zenon, <1>1, <2>2, <2>6
  <2> HIDE DEF s5
  <2> QED BY Zenon, <1>1, <2>1, <2>2, <2>7
<1>4. RecordDealloc(s, size) \in StatsType
  <2> DEFINE n == IF s.alloc_count > 0 THEN s.alloc_count - 1 ELSE 0
             s1 == [s EXCEPT !.used_size = s.used_size - size]
             s2 == [s1 EXCEPT !.total_frees = s.total_frees + 1]
  <2>1. RecordDealloc(s, size) = [s2 EXCEPT !.alloc_count = n]
    BY DEF RecordDealloc
  <2>2. n \in Int /\ s.used_size - size \in Int /\ s.total_frees + 1 \in Int
    BY <1>2
  <2> HIDE DEF n
  <2>3. s1 \in StatsType  BY Zenon, <1>1, <2>2
  <2> HIDE DEF s1
  <2>4. s2 \in StatsType  BY Zenon, <1>1, <2>2, <2>3
  <2> HIDE DEF s2
  <2> QED BY Zenon, <1>1, <2>1, <2>2, <2>4
<1>5. FreeGrows(s, size) \in StatsType
  <2> DEFINE s1 == [s EXCEPT !.free_size = s.free_size + size]
  <2>1. FreeGrows(s, size) = [s1 EXCEPT !.free_count = s.free_count + 1]
    BY DEF FreeGrows
  <2>2. s.free_size + size \in Int /\ s.free_count + 1 \in Int  BY <1>2
  <2>3. s1 \in StatsType  BY Zenon, <1>1, <2>2
  <2> HIDE DEF s1
  <2> QED BY Zenon, <1>1, <2>1, <2>2, <2>3
<1>6. FreeShrinks(s, size) \in StatsType
  <2> DEFINE s1 == [s EXCEPT !.free_size = s.free_size - size]
  <2>1. FreeShrinks(s, size) = [s1 EXCEPT !.free_count = s.free_count - 1]
    BY DEF FreeShrinks
  <2>2. s.free_size - size \in Int /\ s.free_count - 1 \in Int  BY <1>2
  <2>3. s1 \in StatsType  BY Zenon, <1>1, <2>2
  <2> HIDE DEF s1
  <2> QED BY Zenon, <1>1, <2>1, <2>2, <2>3
<1>7. /\ RecordMerge(s) \in StatsType
      /\ RecordSplit(s) \in StatsType
      /\ RecordAllocFailure(s) \in StatsType
      /\ RecordDoubleFree(s) \in StatsType
      /\ RecordCorruption(s) \in StatsType
  BY DEF StatsType, RecordMerge, RecordSplit, RecordAllocFailure,
         RecordDoubleFree, RecordCorruption
<1> QED BY <1>3, <1>4, <1>5, <1>6, <1>7

(* update_checksum leaves a header that validates, and nothing else changed. *)
LEMMA ChecksumUpdated ==
  ASSUME NEW h \in Header
  PROVE  LET g == UpdateChecksum(h)
         IN /\ g \in Header /\ Validate(g)
            /\ g.size = h.size /\ g.status = h.status /\ g.alloc_id = h.alloc_id
BY DEF UpdateChecksum, CalculateChecksum, Validate, Header, Free, Allocated

(* The headers that new, alloc_aligned, dealloc, set_purpose and coalesce    *)
(* write validate and have the intended fields.                              *)
LEMMA HeadersWritten ==
  ASSUME NEW h \in Header, NEW n \in Nat, next_alloc_id \in Nat
  PROVE  /\ NewHeader(n, Free) \in Header /\ Validate(NewHeader(n, Free))
         /\ NewHeader(n, Free).size = n /\ NewHeader(n, Free).status = Free
         /\ AllocatedHeader(h, n) \in Header /\ Validate(AllocatedHeader(h, n))
         /\ AllocatedHeader(h, n).size = n
         /\ AllocatedHeader(h, n).status = Allocated
         /\ AllocatedHeader(h, n).alloc_id = next_alloc_id
         /\ FreedHeader(h) \in Header /\ Validate(FreedHeader(h))
         /\ FreedHeader(h).size = h.size /\ FreedHeader(h).status = Free
         /\ LET g == UpdateChecksum([h EXCEPT !.purpose = n])
            IN /\ g \in Header /\ Validate(g)
               /\ g.size = h.size /\ g.status = h.status /\ g.alloc_id = h.alloc_id
         /\ LET g == UpdateChecksum([h EXCEPT !.size = n])
            IN /\ g \in Header /\ Validate(g)
               /\ g.size = n /\ g.status = h.status /\ g.alloc_id = h.alloc_id
<1>1. NewHeader(n, Free) \in Header /\ Validate(NewHeader(n, Free))
      /\ NewHeader(n, Free).size = n /\ NewHeader(n, Free).status = Free
  <2> DEFINE g == [size |-> n, status |-> Free, alloc_id |-> 0,
                   purpose |-> Unknown, checksum |-> 0]
  <2>1. g \in Header /\ g.size = n /\ g.status = Free
    BY DEF Header, Free, Unknown
  <2> HIDE DEF g
  <2>2. /\ UpdateChecksum(g) \in Header /\ Validate(UpdateChecksum(g))
        /\ UpdateChecksum(g).size = n /\ UpdateChecksum(g).status = Free
    BY <2>1, ChecksumUpdated
  <2> QED BY <2>2 DEF NewHeader, g
<1>2. /\ AllocatedHeader(h, n) \in Header /\ Validate(AllocatedHeader(h, n))
      /\ AllocatedHeader(h, n).size = n
      /\ AllocatedHeader(h, n).status = Allocated
      /\ AllocatedHeader(h, n).alloc_id = next_alloc_id
  <2> DEFINE h1 == [h EXCEPT !.size = n]
             h2 == [h1 EXCEPT !.status = Allocated]
             h3 == [h2 EXCEPT !.alloc_id = next_alloc_id]
  <2>1. AllocatedHeader(h, n) = UpdateChecksum(h3)
    BY DEF AllocatedHeader
  <2>2. h1 \in Header /\ h1.size = n
    BY DEF Header
  <2> HIDE DEF h1
  <2>3. h2 \in Header /\ h2.size = n /\ h2.status = Allocated
    BY <2>2 DEF Header
  <2> HIDE DEF h2
  <2>4. h3 \in Header /\ h3.size = n /\ h3.status = Allocated
        /\ h3.alloc_id = next_alloc_id
    BY <2>3 DEF Header
  <2> HIDE DEF h3
  <2> QED BY <2>1, <2>4, ChecksumUpdated
<1>3. /\ FreedHeader(h) \in Header /\ Validate(FreedHeader(h))
      /\ FreedHeader(h).size = h.size /\ FreedHeader(h).status = Free
  <2> DEFINE g == [h EXCEPT !.status = Free]
  <2>1. g \in Header /\ g.size = h.size /\ g.status = Free
    BY DEF Header
  <2>2. FreedHeader(h) = UpdateChecksum(g)
    BY DEF FreedHeader
  <2> HIDE DEF g
  <2> QED BY <2>1, <2>2, ChecksumUpdated
<1>4. LET g == UpdateChecksum([h EXCEPT !.purpose = n])
      IN /\ g \in Header /\ Validate(g)
         /\ g.size = h.size /\ g.status = h.status /\ g.alloc_id = h.alloc_id
  <2> DEFINE g == [h EXCEPT !.purpose = n]
  <2>1. g \in Header /\ g.size = h.size /\ g.status = h.status
        /\ g.alloc_id = h.alloc_id
    BY DEF Header
  <2> HIDE DEF g
  <2>2. /\ UpdateChecksum(g) \in Header /\ Validate(UpdateChecksum(g))
        /\ UpdateChecksum(g).size = h.size /\ UpdateChecksum(g).status = h.status
        /\ UpdateChecksum(g).alloc_id = h.alloc_id
    BY <2>1, ChecksumUpdated
  <2> QED BY <2>2 DEF g
<1>5. LET g == UpdateChecksum([h EXCEPT !.size = n])
      IN /\ g \in Header /\ Validate(g)
         /\ g.size = n /\ g.status = h.status /\ g.alloc_id = h.alloc_id
  <2> DEFINE g == [h EXCEPT !.size = n]
  <2>1. g \in Header /\ g.size = n /\ g.status = h.status
        /\ g.alloc_id = h.alloc_id
    BY DEF Header
  <2> HIDE DEF g
  <2>2. /\ UpdateChecksum(g) \in Header /\ Validate(UpdateChecksum(g))
        /\ UpdateChecksum(g).size = n /\ UpdateChecksum(g).status = h.status
        /\ UpdateChecksum(g).alloc_id = h.alloc_id
    BY <2>1, ChecksumUpdated
  <2> QED BY <2>2 DEF g
<1> QED BY <1>1, <1>2, <1>3, <1>4, <1>5

(* EarlyAllocator::new establishes the invariant: one free block, listed. *)
LEMMA InitIInv == Init => IInv
<1> SUFFICES ASSUME Init PROVE IInv
  OBVIOUS
<1> USE SizesAssumption, HeapAssumption DEF Init, NULL, HeapEnd
<1> DEFINE h == NewHeader(HeapSize - HeaderSize, Free)
<1>1. /\ h \in Header /\ Validate(h)
      /\ h.size = HeapSize - HeaderSize /\ h.status = Free
  BY DEF NewHeader, UpdateChecksum, CalculateChecksum, Validate, Header,
         Unknown, Free
<1>2. hdr[HeapStart] = h /\ DOMAIN hdr = {HeapStart}
  OBVIOUS
<1> HIDE DEF h
<1>3. TypeOK
  <2>1. stats \in StatsType
    BY DEF NewStats, StatsType
  <2>2. req \in [size : Nat, align : Nat \ {0}]
    BY DEF NoReq
  <2>3. /\ DOMAIN held = {} /\ DOMAIN next = {HeapStart}
        /\ DOMAIN prev = {HeapStart}
        /\ next[HeapStart] = 0 /\ prev[HeapStart] = 0
    OBVIOUS
  <2>4. HeapTypeOK
    BY <1>1, <1>2, <2>3 DEF HeapTypeOK
  <2>5. LocalsTypeOK
    BY <2>2 DEF LocalsTypeOK
  <2>6. frozen \in BOOLEAN
    BY Zenon
  <2> QED BY <2>1, <2>4, <2>5, <2>6 DEF TypeOK
<1>4. End(HeapStart) = HeapEnd
  BY <1>1, <1>2 DEF End, TotalSize
<1>5. FreeBlocks = {HeapStart}
  BY <1>1, <1>2 DEF FreeBlocks
<1>6. HeapTiled /\ HeadersSound
  BY <1>1, <1>2, <1>4 DEF HeapTiled, HeadersSound
<1>7. Ownership /\ AllocIdsUnique
  BY <1>5 DEF Ownership, AllocIdsUnique
<1>8. FreeListExact
  BY <1>5 DEF FreeListExact, IsList, Follows, Precedes, Unlinked
<1>9. Coalesced /\ Control
  BY <1>4, <1>5 DEF Coalesced, Control, IntegrityCheckPasses
<1> QED BY <1>3, <1>6, <1>7, <1>8, <1>9 DEF IInv

-----------------------------------------------------------------------------
(***************************************************************************)
(* What carries over a step that changes neither the heap nor its owners   *)
(***************************************************************************)

(* The parts of the invariant about the heap carry over. *)
LEMMA HeapUnchanged ==
  ASSUME IInv, UNCHANGED <<heap, next_alloc_id, held>>, Unlinked' = Unlinked
  PROVE  /\ HeapTypeOK' /\ HeapTiled' /\ HeadersSound' /\ Ownership'
         /\ AllocIdsUnique' /\ FreeListExact' /\ FreeBlocks' = FreeBlocks
         /\ \A b \in blocks : End(b)' = End(b)
<1>1. FreeBlocks' = FreeBlocks /\ \A b \in blocks : End(b)' = End(b)
  BY DEF FreeBlocks, End, heap
<1>2. HeapTypeOK' /\ HeapTiled' /\ HeadersSound'
  BY DEF IInv, TypeOK, HeapTypeOK, HeapTiled, HeadersSound, End, heap
<1>3. Ownership' /\ AllocIdsUnique'
  BY <1>1 DEF IInv, Ownership, AllocIdsUnique, End, UserEnd, heap
<1>4. FreeListExact'
  BY <1>1 DEF IInv, FreeListExact, heap
<1> QED BY <1>1, <1>2, <1>3, <1>4

(* So the invariant survives such a step when the locals, the statistics and *)
(* the flag keep their types, Control holds again, and no free blocks touch  *)
(* unless the operation and its block stay the same.                         *)
LEMMA QuietStep ==
  ASSUME IInv, UNCHANGED <<heap, next_alloc_id, held>>, Unlinked' = Unlinked,
         LocalsTypeOK', stats' \in StatsType, frozen' \in BOOLEAN, Control',
         op # "dealloc" \/ UNCHANGED <<pc, op, blk>>
  PROVE  IInv'
<1>1. /\ HeapTypeOK' /\ HeapTiled' /\ HeadersSound' /\ Ownership'
      /\ AllocIdsUnique' /\ FreeListExact' /\ FreeBlocks' = FreeBlocks
      /\ \A b \in blocks : End(b)' = End(b)
  BY HeapUnchanged
<1>2. Coalesced'
  BY <1>1 DEF IInv, Coalesced, FreeBlocks
<1> QED BY <1>1, <1>2 DEF IInv, TypeOK

-----------------------------------------------------------------------------
(***************************************************************************)
(* Steps that write memory but leave the blocks as they are                *)
(***************************************************************************)

(* The numbers behind a block *)
LEMMA BlockFacts ==
  ASSUME IInv, NEW b \in blocks
  PROVE  /\ b \in Nat \ {0} /\ b \in DOMAIN hdr /\ hdr[b] \in Header
         /\ hdr[b].size \in Nat /\ hdr[b].status \in {Free, Allocated}
         /\ HeaderSize \in Nat \ {0} /\ FreeBlockSize \in Nat \ {0}
         /\ MinBlockSize = HeaderSize + FreeBlockSize
         /\ End(b) = b + HeaderSize + hdr[b].size /\ End(b) \in Nat
         /\ b + MinBlockSize <= End(b) /\ End(b) <= HeapEnd
         /\ End(b) \in blocks \cup {HeapEnd}
<1>1. /\ b \in Nat \ {0} /\ b \in DOMAIN hdr /\ hdr[b] \in Header
      /\ hdr[b].size >= FreeBlockSize /\ End(b) <= HeapEnd
      /\ End(b) \in blocks \cup {HeapEnd}
  BY Zenon DEF IInv, TypeOK, HeapTypeOK, HeapTiled, HeadersSound
<1>2. hdr[b].size \in Nat /\ hdr[b].status \in {Free, Allocated}
  BY <1>1 DEF Header
<1> QED BY <1>1, <1>2, SizesAssumption DEF End, TotalSize, MinBlockSize

(* A block is as wide as its header says. *)
LEMMA BlockWidth == ASSUME IInv, NEW b \in blocks PROVE End(b) - b = TotalSize(hdr[b])
<1>1. b \in Nat /\ HeaderSize \in Nat /\ hdr[b].size \in Nat
  BY Zenon, BlockFacts
<1> QED BY <1>1 DEF End, TotalSize

(* Every block ends after it begins. *)
LEMMA BlocksSpan ==
  ASSUME IInv
  PROVE  \A x \in blocks : x \in Nat /\ End(x) \in Nat /\ x < End(x)
<1> SUFFICES ASSUME NEW x \in blocks PROVE x \in Nat /\ End(x) \in Nat /\ x < End(x)
  OBVIOUS
<1>1. /\ x \in Nat /\ End(x) \in Nat /\ MinBlockSize = HeaderSize + FreeBlockSize
      /\ HeaderSize \in Nat \ {0} /\ FreeBlockSize \in Nat \ {0} /\ x + MinBlockSize <= End(x)
  BY BlockFacts
<1> QED BY <1>1

(* A step that rewrites headers without changing sizes, states or ids, and   *)
(* destroys only headers that no block uses, keeps the heap as it was.       *)
LEMMA SameBlocks ==
  ASSUME IInv, UNCHANGED <<blocks, next_alloc_id, held>>,
         blocks \subseteq DOMAIN hdr', DOMAIN hdr' \subseteq DOMAIN hdr,
         \A a \in DOMAIN hdr' :
           /\ hdr'[a] \in Header /\ Validate(hdr'[a])
           /\ hdr'[a].size = hdr[a].size /\ hdr'[a].status = hdr[a].status
           /\ hdr'[a].alloc_id = hdr[a].alloc_id
  PROVE  /\ DOMAIN hdr' \subseteq Nat /\ \A a \in DOMAIN hdr' : hdr'[a] \in Header
         /\ HeapTiled' /\ HeadersSound' /\ Ownership' /\ AllocIdsUnique'
         /\ FreeBlocks' = FreeBlocks /\ \A b \in blocks : End(b)' = End(b)
<1>1. FreeBlocks' = FreeBlocks
  BY DEF FreeBlocks
<1>2. \A b \in blocks : End(b)' = End(b)
  BY DEF End, TotalSize
<1>3. HeapTiled'
  BY <1>2 DEF IInv, HeapTiled
<1>4. HeadersSound'
  BY DEF IInv, HeadersSound
<1>5. Ownership'
  <2>1. DOMAIN held' = blocks' \ FreeBlocks'
    BY <1>1 DEF IInv, Ownership
  <2>2. \A b \in DOMAIN held : b \in blocks /\ UserEnd(b)' = UserEnd(b)
    BY DEF IInv, Ownership, UserEnd
  <2> QED BY <1>2, <2>1, <2>2 DEF IInv, Ownership
<1>6. AllocIdsUnique'
  BY DEF IInv, AllocIdsUnique, Ownership
<1>7. DOMAIN hdr' \subseteq Nat
  BY DEF IInv, TypeOK, HeapTypeOK
<1> QED BY <1>1, <1>2, <1>3, <1>4, <1>5, <1>6, <1>7

(* set_purpose *)
LEMMA SetPurposeIInv ==
  ASSUME IInv, NEW p \in OwnPtrs, NEW purpose \in Purposes, SetPurpose(p, purpose)
  PROVE  IInv'
<1> DEFINE d == p - HeaderSize
<1> USE DEF SetPurpose, locals
<1>1. DOMAIN hdr' = DOMAIN hdr /\ d \in DOMAIN hdr
  OBVIOUS
<1>2. ASSUME NEW a \in DOMAIN hdr'
      PROVE  /\ hdr'[a] \in Header /\ Validate(hdr'[a])
             /\ hdr'[a].size = hdr[a].size /\ hdr'[a].status = hdr[a].status
             /\ hdr'[a].alloc_id = hdr[a].alloc_id
  <2>1. hdr[a] \in Header /\ Validate(hdr[a]) /\ next_alloc_id \in Nat
        /\ purpose \in Nat
    BY <1>1, ClientAssumption DEF IInv, TypeOK, HeapTypeOK, HeadersSound
  <2>2. CASE a = d
    <3>1. hdr'[a] = UpdateChecksum([hdr[a] EXCEPT !.purpose = purpose])
      BY <1>1, <2>2
    <3> DEFINE g == UpdateChecksum([hdr[a] EXCEPT !.purpose = purpose])
    <3> HIDE DEF SetPurpose
    <3>2. /\ g \in Header /\ Validate(g)
          /\ g.size = hdr[a].size /\ g.status = hdr[a].status
          /\ g.alloc_id = hdr[a].alloc_id
      BY <2>1, HeadersWritten, Zenon
    <3> QED BY <3>1, <3>2
  <2>3. CASE a # d
    BY <1>1, <2>1, <2>3
  <2> QED BY <2>2, <2>3
<1>3. blocks \subseteq DOMAIN hdr'
  BY <1>1 DEF IInv, HeapTiled
<1>4. /\ DOMAIN hdr' \subseteq Nat /\ \A a \in DOMAIN hdr' : hdr'[a] \in Header
      /\ HeapTiled' /\ HeadersSound' /\ Ownership' /\ AllocIdsUnique'
      /\ FreeBlocks' = FreeBlocks /\ \A b \in blocks : End(b)' = End(b)
  BY <1>1, <1>2, <1>3, SameBlocks
<1>5. TypeOK'
  BY <1>4 DEF IInv, TypeOK, HeapTypeOK, LocalsTypeOK
<1>6. FreeListExact'
  BY <1>4 DEF IInv, FreeListExact, Unlinked
<1>7. Coalesced'
  BY <1>4 DEF IInv, Coalesced, FreeBlocks
<1>8. Control'
  BY <1>4 DEF IInv, Control, IntegrityCheckPasses
<1> QED BY <1>4, <1>5, <1>6, <1>7, <1>8 DEF IInv

(* A client writing to its memory, in the middle of anything: it can only    *)
(* destroy headers that no block uses.                                       *)
LEMMA ClientWriteIInv ==
  ASSUME IInv, NEW o \in DOMAIN held, ClientWrite(o)
  PROVE  IInv'
<1> DEFINE gone == Overlapping(held[o].user, held[o].user + held[o].size)
<1> USE DEF ClientWrite, locals
<1>1. DOMAIN hdr' = DOMAIN hdr \ gone /\ \A a \in DOMAIN hdr' : hdr'[a] = hdr[a]
  BY ZenonT(30)
<1>2. blocks \cap gone = {}
  <2> SUFFICES ASSUME NEW a \in blocks PROVE a \notin gone
    OBVIOUS
  <2>1. o \in blocks /\ o + HeaderSize <= held[o].user
        /\ held[o].user + held[o].size <= End(o)
        /\ held[o].user \in Nat /\ held[o].size \in Nat
    BY DEF IInv, Ownership, UserEnd, TypeOK, HeapTypeOK
  <2>2. /\ a \in Nat /\ o \in Nat /\ HeaderSize \in Nat /\ End(o) \in Nat
        /\ End(a) \in Nat /\ a + HeaderSize <= End(a)
    BY SMTT(30), <2>1, BlockFacts
  <2>3. (a < o => End(a) <= o) /\ (o < a => End(o) <= a)
    BY <2>1 DEF IInv, HeapTiled
  <2> HIDE DEF ClientWrite
  <2>4. PICK u \in Nat, s \in Nat, f \in Nat, g \in Nat :
          u = held[o].user /\ s = held[o].size /\ f = End(o) /\ g = End(a)
    BY <2>1, <2>2
  <2>5. u + s <= a \/ a + HeaderSize <= u
    <3>1. /\ o + HeaderSize <= u /\ u + s <= f /\ a + HeaderSize <= g
          /\ (a < o => g <= o) /\ (o < a => f <= a)
      BY <2>1, <2>2, <2>3, <2>4
    <3> QED BY <2>2, <2>4, <3>1
  <2>6. ~(a < held[o].user + held[o].size /\ held[o].user < a + HeaderSize)
    BY <2>2, <2>4, <2>5
  <2> QED BY Zenon, <2>6 DEF Overlapping
<1>3. blocks \subseteq DOMAIN hdr'
  BY SMTT(30), <1>1, <1>2 DEF IInv, HeapTiled
<1>4. ASSUME NEW a \in DOMAIN hdr'
      PROVE  hdr'[a] \in Header /\ Validate(hdr'[a])
  BY <1>1 DEF IInv, TypeOK, HeapTypeOK, HeadersSound
<1>5. /\ DOMAIN hdr' \subseteq Nat /\ \A a \in DOMAIN hdr' : hdr'[a] \in Header
      /\ HeapTiled' /\ HeadersSound' /\ Ownership' /\ AllocIdsUnique'
      /\ FreeBlocks' = FreeBlocks /\ \A b \in blocks : End(b)' = End(b)
  BY SMTT(30), <1>1, <1>3, <1>4, SameBlocks
<1>6. TypeOK'
  BY SMTT(30), <1>5 DEF IInv, TypeOK, HeapTypeOK, LocalsTypeOK
<1>7. FreeListExact'
  <2>1. UNCHANGED <<next, prev, free_list_head, pc, blk>>
    OBVIOUS
  <2> HIDE DEF ClientWrite
  <2> QED BY <1>5, <2>1 DEF IInv, FreeListExact, Unlinked
<1>8. Coalesced'
  BY ZenonT(30), <1>5 DEF IInv, Coalesced, FreeBlocks
<1>9. Control'
  <2>1. \A b \in DOMAIN next : hdr'[b] = hdr[b]
    BY Zenon, <1>1, <1>3 DEF IInv, TypeOK, HeapTypeOK
  <2>2. \A b \in DOMAIN next : Fits(b, req.size, req.align)'
                              <=> Fits(b, req.size, req.align)
    BY Zenon, <2>1 DEF Fits
  <2> QED BY Zenon, <1>5, <2>2 DEF IInv, Control, IntegrityCheckPasses
<1> QED BY Zenon, <1>5, <1>6, <1>7, <1>8, <1>9 DEF IInv

-----------------------------------------------------------------------------
(***************************************************************************)
(* Steps that change the blocks or the list                                *)
(***************************************************************************)

(* remove_from_free_list in a state of the allocator *)
LEMMA Removed ==
  ASSUME IInv, NEW b \in DOMAIN next, RemoveFromFreeList(b)
  PROVE  /\ DOMAIN next' = DOMAIN next \ {b} /\ DOMAIN prev' = DOMAIN next \ {b}
         /\ \A x \in DOMAIN next' : next'[x] \in Nat /\ prev'[x] \in Nat
         /\ free_list_head' \in Nat
         /\ IsList(DOMAIN next', next', prev', free_list_head')
<1> USE DEF RemoveFromFreeList
<1>1. /\ DOMAIN next \subseteq Nat \ {0} /\ DOMAIN prev = DOMAIN next
      /\ \A x \in DOMAIN next : next[x] \in Nat /\ prev[x] \in Nat
      /\ free_list_head \in Nat
      /\ IsList(DOMAIN next, next, prev, free_list_head)
  BY Zenon DEF IInv, TypeOK, HeapTypeOK, FreeListExact
<1>2. DOMAIN next' = DOMAIN next \ {b} /\ DOMAIN prev' = DOMAIN next \ {b}
  BY <1>1
<1>3. /\ \A x \in DOMAIN next' :
           next'[x] = IF x = prev[b] THEN next[b] ELSE next[x]
      /\ \A x \in DOMAIN next' :
           prev'[x] = IF x = next[b] THEN prev[b] ELSE prev[x]
      /\ free_list_head' = IF prev[b] = NULL THEN next[b] ELSE free_list_head
  BY <1>1, <1>2
<1> HIDE DEF RemoveFromFreeList
<1>4. IsList(DOMAIN next', next', prev', free_list_head')
  BY SMTT(30), <1>1, <1>2, <1>3, RemoveKeepsList
<1> QED BY <1>1, <1>2, <1>3, <1>4

(* What the free block that find_free_block returns satisfies *)
LEMMA Found ==
  ASSUME IInv, pc = "find", cur # NULL
  PROVE  /\ cur \in DOMAIN next /\ DOMAIN next = FreeBlocks
         /\ cur \in FreeBlocks /\ cur \in blocks /\ cur \notin DOMAIN held
         /\ req.size \in Nat /\ req.align \in Nat \ {0}
         /\ Grant(cur) \in [user : Nat, size : Nat, align : Nat \ {0}]
         /\ Grant(cur).user = CalculateAlignedAddr(cur, req.align)
         /\ Grant(cur).size = req.size
         /\ RequiredSize(cur, req.size, req.align) \in Nat
         /\ HeaderSize + FreeBlockSize <= RequiredSize(cur, req.size, req.align)
         /\ cur + HeaderSize <= Grant(cur).user
         /\ Grant(cur).user + Grant(cur).size
              <= cur + RequiredSize(cur, req.size, req.align)
         /\ Grant(cur).user % Grant(cur).align = 0
<1>1. cur \in DOMAIN next /\ DOMAIN next = FreeBlocks
  BY ZenonT(40) DEF IInv, Control, FreeListExact, Unlinked
<1>2. cur \in FreeBlocks /\ cur \in blocks /\ cur \notin DOMAIN held
  BY <1>1 DEF FreeBlocks, IInv, Ownership
<1>3. req.size \in Nat /\ req.align \in Nat \ {0} /\ cur \in Nat
  BY DEF IInv, TypeOK, LocalsTypeOK
<1>4. /\ CalculateAlignedAddr(cur, req.align) \in Nat
      /\ cur + HeaderSize <= CalculateAlignedAddr(cur, req.align)
      /\ CalculateAlignedAddr(cur, req.align) % req.align = 0
  BY <1>3, AlignedAddr
<1>5. /\ RequiredSize(cur, req.size, req.align) \in Nat
      /\ HeaderSize + FreeBlockSize <= RequiredSize(cur, req.size, req.align)
      /\ CalculateAlignedAddr(cur, req.align) + req.size
           <= cur + RequiredSize(cur, req.size, req.align)
  BY Zenon, <1>3, RequiredSpace
<1> QED BY ZenonT(40), <1>1, <1>2, <1>3, <1>4, <1>5 DEF Grant

(* alloc_aligned taking a whole block *)
LEMMA TakeWholeIInv == ASSUME IInv, TakeWhole PROVE IInv'
<1>0. PICK c : c = cur
  OBVIOUS
<1> DEFINE G == Grant(cur)
           A == AllocatedHeader(hdr[cur], hdr[cur].size)
<1> USE DEF TakeWhole, Finish
<1>1. /\ cur \in DOMAIN next /\ DOMAIN next = FreeBlocks
      /\ cur \in FreeBlocks /\ cur \in blocks /\ cur \notin DOMAIN held
      /\ G \in [user : Nat, size : Nat, align : Nat \ {0}]
      /\ RequiredSize(cur, req.size, req.align) \in Nat
      /\ cur + HeaderSize <= G.user
      /\ G.user + G.size <= cur + RequiredSize(cur, req.size, req.align)
      /\ G.user % G.align = 0
  BY Found
<1>2. /\ DOMAIN next' = DOMAIN next \ {cur} /\ DOMAIN prev' = DOMAIN next \ {cur}
      /\ \A x \in DOMAIN next' : next'[x] \in Nat /\ prev'[x] \in Nat
      /\ free_list_head' \in Nat
      /\ IsList(DOMAIN next', next', prev', free_list_head')
  BY Zenon, <1>1, Removed
<1>3. /\ cur \in Nat \ {0} /\ cur \in DOMAIN hdr /\ hdr[cur] \in Header
      /\ hdr[cur].size \in Nat /\ HeaderSize \in Nat
      /\ End(cur) = cur + HeaderSize + hdr[cur].size /\ next_alloc_id \in Nat \ {0}
  BY Zenon, <1>1, BlockFacts DEF IInv, TypeOK, HeapTypeOK
<1>4. /\ A \in Header /\ Validate(A) /\ A.size = hdr[cur].size
      /\ A.status = Allocated /\ A.alloc_id = next_alloc_id
  BY Zenon, <1>3, HeadersWritten
<1>5. /\ DOMAIN hdr' = DOMAIN hdr /\ hdr'[cur] = A
      /\ \A a \in DOMAIN hdr : a # cur => hdr'[a] = hdr[a]
  BY <1>3
<1>6. /\ DOMAIN held' = DOMAIN held \cup {cur} /\ held'[cur] = G
      /\ \A b \in DOMAIN held : held'[b] = held[b]
  BY Zenon, <1>1 DEF Granted
<1>7. stats' \in StatsType
  <2>1. stats \in StatsType /\ TotalSize(hdr[cur]) \in Int /\ hdr[cur].size \in Int
    BY <1>3 DEF IInv, TypeOK, TotalSize
  <2>2. FreeShrinks(stats, TotalSize(hdr[cur])) \in StatsType
    BY <2>1, StatsTyped
  <2> QED BY Zenon, <2>1, <2>2, StatsTyped
<1>8. Fits(cur, req.size, req.align) /\ next_alloc_id' = next_alloc_id + 1
      /\ blocks' = blocks /\ frozen' = frozen /\ pc' = "idle" /\ op' = "none"
      /\ cur' = NULL /\ blk' = NULL /\ base' = NULL /\ req' = NoReq
  OBVIOUS
<1> HIDE DEF G, A, TakeWhole, Finish
<1>id. next_alloc_id \in Nat \ {0} /\ next_alloc_id' = next_alloc_id + 1
  BY Zenon, <1>3, <1>8
<1>9. FreeBlocks' = FreeBlocks \ {cur}
  <2>1. \A b \in blocks : b \in DOMAIN hdr
    BY DEF IInv, HeapTiled
  <2>2. hdr'[cur].status # Free
    BY <1>4, <1>5 DEF Free, Allocated
  <2>3. \A b \in blocks \ {cur} : hdr'[b].status = hdr[b].status
    BY <1>5, <2>1, Zenon
  <2> QED BY <1>8, <2>2, <2>3, ZenonT(40) DEF FreeBlocks
<1>10. \A b \in blocks : End(b)' = End(b)
  <2>1. \A b \in blocks : b \in DOMAIN hdr
    BY DEF IInv, HeapTiled
  <2>2. \A b \in blocks : hdr'[b].size = hdr[b].size
    BY <1>4, <1>5, <2>1
  <2> QED BY <2>2 DEF End, TotalSize
<1>11. TypeOK'
  <2>1. \A a \in DOMAIN hdr' : hdr'[a] \in Header
    <3>1. \A a \in DOMAIN hdr : hdr[a] \in Header
      BY Zenon DEF IInv, TypeOK, HeapTypeOK
    <3> QED BY Zenon, <1>4, <1>5, <3>1
  <2>2. \A b \in DOMAIN held' :
          held'[b] \in [user : Nat, size : Nat, align : Nat \ {0}]
    BY Zenon, <1>1, <1>6 DEF IInv, TypeOK, HeapTypeOK
  <2>3. HeapTypeOK'
    <3>1. next_alloc_id' \in Nat \ {0}
      BY <1>id
    <3>2. /\ DOMAIN hdr' \subseteq Nat /\ blocks' \subseteq Nat \ {0}
          /\ DOMAIN next \subseteq blocks /\ DOMAIN held \subseteq Nat /\ cur \in Nat
      BY <1>3, <1>5, <1>8, ZenonT(40) DEF IInv, TypeOK, HeapTypeOK
    <3>3. DOMAIN next' = DOMAIN prev' /\ DOMAIN next' \subseteq blocks'
      BY <1>2, <1>8, <3>2, ZenonT(40)
    <3>4. DOMAIN held' \subseteq Nat
      BY <1>6, <3>2, ZenonT(40)
    <3> QED BY <1>2, <2>1, <2>2, <3>1, <3>2, <3>3, <3>4, Zenon DEF HeapTypeOK
  <2>4. LocalsTypeOK'
    BY <1>8 DEF LocalsTypeOK, NULL, NoReq
  <2> QED BY <1>7, <1>8, <2>3, <2>4 DEF IInv, TypeOK
<1>12. HeapTiled'
  BY <1>5, <1>8, <1>10 DEF IInv, HeapTiled
<1>13. HeadersSound'
  <2>1. \A a \in DOMAIN hdr' : Validate(hdr'[a])
    BY <1>4, <1>5 DEF IInv, HeadersSound
  <2>2. \A a \in DOMAIN hdr' \ blocks' : hdr'[a].status = Free
    BY <1>1, <1>5, <1>8 DEF IInv, HeadersSound
  <2>3. \A b \in blocks' : hdr'[b].size >= FreeBlockSize
    BY Zenon, <1>4, <1>5, <1>8 DEF IInv, HeadersSound, HeapTiled
  <2> QED BY <2>1, <2>2, <2>3 DEF HeadersSound
<1>14. Ownership'
  <2>1. DOMAIN held' = blocks' \ FreeBlocks'
    BY <1>1, <1>6, <1>8, <1>9 DEF IInv, Ownership
  <2>2. ASSUME NEW b \in DOMAIN held, b # cur
        PROVE  /\ b + HeaderSize <= held'[b].user /\ UserEnd(b)' <= End(b)'
               /\ held'[b].user % held'[b].align = 0
               /\ hdr'[b].alloc_id < next_alloc_id'
    <3>1. b \in blocks /\ b \in DOMAIN hdr /\ hdr[b] \in Header
      BY DEF IInv, Ownership, HeapTiled, TypeOK, HeapTypeOK
    <3>2. hdr[b].alloc_id \in Nat /\ hdr'[b].alloc_id = hdr[b].alloc_id
      BY <1>5, <2>2, <3>1 DEF Header
    <3>3. held'[b] = held[b] /\ UserEnd(b)' = UserEnd(b) /\ End(b)' = End(b)
      BY <1>6, <1>10, <3>1 DEF UserEnd
    <3>4. /\ b + HeaderSize <= held[b].user /\ UserEnd(b) <= End(b)
          /\ held[b].user % held[b].align = 0 /\ hdr[b].alloc_id < next_alloc_id
      BY DEF IInv, Ownership
    <3>5. hdr'[b].alloc_id < next_alloc_id'
      BY <1>id, <3>2, <3>4
    <3> QED BY Zenon, <3>3, <3>4, <3>5
  <2>3. /\ c + HeaderSize <= held'[c].user /\ UserEnd(c)' <= End(c)'
        /\ held'[c].user % held'[c].align = 0
        /\ hdr'[c].alloc_id < next_alloc_id'
    <3>1. G.user \in Nat /\ G.size \in Nat
      BY <1>1
    <3>2. G.user + G.size <= End(c)
      BY <1>0, <1>1, <1>3, <1>8, <3>1 DEF Fits
    <3>3. UserEnd(c)' = G.user + G.size /\ End(c)' = End(c)
      BY <1>0, <1>1, <1>6, <1>10 DEF UserEnd
    <3>4. hdr'[c].alloc_id < next_alloc_id'
      <4>1. hdr'[c].alloc_id = next_alloc_id
        BY Zenon, <1>0, <1>4, <1>5
      <4> QED BY <1>id, <4>1
    <3> QED BY Zenon, <1>0, <1>1, <1>6, <3>2, <3>3, <3>4
  <2>4. \A b \in DOMAIN held' :
          /\ b + HeaderSize <= held'[b].user /\ UserEnd(b)' <= End(b)'
          /\ held'[b].user % held'[b].align = 0
          /\ hdr'[b].alloc_id < next_alloc_id'
    BY ZenonT(40), <1>0, <1>1, <1>6, <2>2, <2>3
  <2> QED BY <2>1, <2>4 DEF Ownership
<1>15. AllocIdsUnique'
  <2>1. \A b \in DOMAIN held : /\ hdr'[b].alloc_id = hdr[b].alloc_id
                               /\ hdr[b].alloc_id < next_alloc_id
                               /\ hdr[b].alloc_id \in Nat
    BY Zenon, <1>1, <1>5 DEF IInv, Ownership, HeapTiled, TypeOK, HeapTypeOK, Header
  <2> QED BY <1>3, <1>4, <1>5, <1>6, <2>1 DEF IInv, AllocIdsUnique
<1>16. FreeListExact'
  BY <1>1, <1>2, <1>8, <1>9 DEF FreeListExact, Unlinked
<1>17. Coalesced'
  <2>1. pc = "find"
    BY DEF TakeWhole
  <2> QED BY ZenonT(40), <1>8, <1>9, <1>10, <2>1 DEF IInv, Coalesced, FreeBlocks
<1>18. Control'
  BY <1>8 DEF Control, IntegrityCheckPasses
<1> QED BY <1>11, <1>12, <1>13, <1>14, <1>15, <1>16, <1>17, <1>18 DEF IInv

(* The stores of insert_into_free_list, between two neighbours in the list  *)
(* that enclose the block                                                    *)
LEMMA LinkedIInv ==
  ASSUME IInv, pc = "insert", NEW c \in Nat, NEW n \in Nat,
         Follows(DOMAIN next, blk, n), Precedes(DOMAIN next, c, blk),
         LinkBetween(c, blk, n), pc' = AfterInsert,
         UNCHANGED <<stats, frozen, next_alloc_id, op, cur, blk, base, req,
                     blocks, held>>
  PROVE  IInv'
<1> DEFINE gone == Overlapping(blk + HeaderSize, blk + MinBlockSize)
<1> USE DEF LinkBetween
<1>1. /\ blk \in FreeBlocks /\ blk \in blocks /\ blk \in Nat \ {0}
      /\ DOMAIN next = FreeBlocks \ {blk}
  BY Zenon, BlockFacts DEF IInv, Control, FreeListExact, Unlinked, FreeBlocks
<1>2. /\ DOMAIN next \subseteq Nat \ {0} /\ DOMAIN prev = DOMAIN next
      /\ \A x \in DOMAIN next : next[x] \in Nat /\ prev[x] \in Nat
      /\ free_list_head \in Nat
      /\ IsList(DOMAIN next, next, prev, free_list_head)
  BY Zenon DEF IInv, TypeOK, HeapTypeOK, FreeListExact
<1>3. DOMAIN next' = DOMAIN next \cup {blk} /\ DOMAIN prev' = DOMAIN next \cup {blk}
  BY <1>2
<1>4. /\ \A x \in DOMAIN next' :
           next'[x] = IF x = blk THEN n ELSE IF x = c THEN blk ELSE next[x]
      /\ \A x \in DOMAIN next' :
           prev'[x] = IF x = blk THEN c ELSE IF x = n THEN blk ELSE prev[x]
      /\ free_list_head' = IF c = NULL THEN blk ELSE free_list_head
  BY <1>2, <1>3
<1>5. DOMAIN hdr' = DOMAIN hdr \ gone /\ \A a \in DOMAIN hdr' : hdr'[a] = hdr[a]
  OBVIOUS
<1> HIDE DEF LinkBetween
<1>6. IsList(DOMAIN next', next', prev', free_list_head')
  <2>1. blk \in Nat \ {0} /\ blk \in DOMAIN next'
        /\ DOMAIN next = DOMAIN next' \ {blk}
    BY Zenon, <1>1, <1>3
  <2> QED BY <1>2, <1>4, <2>1, InsertKeepsList
<1>7. blocks \cap gone = {}
  <2> SUFFICES ASSUME NEW a \in blocks PROVE a \notin gone
    OBVIOUS
  <2>1. /\ a \in Nat /\ blk \in Nat /\ HeaderSize \in Nat /\ MinBlockSize \in Nat
        /\ End(blk) \in Nat /\ blk + MinBlockSize <= End(blk)
    BY <1>1, BlockFacts
  <2>2. blk < a => End(blk) <= a
    BY <1>1 DEF IInv, HeapTiled
  <2> QED BY <2>1, <2>2 DEF Overlapping
<1>8. blocks \subseteq DOMAIN hdr'
  BY <1>5, <1>7 DEF IInv, HeapTiled
<1>9. \A a \in DOMAIN hdr' : hdr'[a] \in Header /\ Validate(hdr'[a])
  BY <1>5 DEF IInv, TypeOK, HeapTypeOK, HeadersSound
<1>10. /\ DOMAIN hdr' \subseteq Nat /\ \A a \in DOMAIN hdr' : hdr'[a] \in Header
       /\ HeapTiled' /\ HeadersSound' /\ Ownership' /\ AllocIdsUnique'
       /\ FreeBlocks' = FreeBlocks /\ \A b \in blocks : End(b)' = End(b)
  BY Zenon, <1>5, <1>8, <1>9, SameBlocks
<1>11. TypeOK'
  <2>1. \A b \in DOMAIN next' : next'[b] \in Nat /\ prev'[b] \in Nat
    BY <1>1, <1>2, <1>3, <1>4
  <2>2. free_list_head' \in Nat
    BY SMTT(30), <1>1, <1>2, <1>4
  <2>3. HeapTypeOK'
    BY Zenon, <1>1, <1>3, <1>10, <2>1, <2>2 DEF IInv, TypeOK, HeapTypeOK
  <2>4. LocalsTypeOK'
    BY SMTT(30) DEF IInv, TypeOK, LocalsTypeOK, AfterInsert
  <2> QED BY <2>3, <2>4 DEF IInv, TypeOK
<1>12. FreeListExact'
  <2>1. Unlinked' = {}
    BY DEF Unlinked, AfterInsert
  <2> QED BY Zenon, <1>1, <1>3, <1>6, <1>10, <2>1 DEF FreeListExact
<1>13. Coalesced'
  <2>1. FreeBlocks \subseteq blocks
    BY Zenon DEF FreeBlocks
  <2>2. \A b, f \in FreeBlocks' : End(b)' = f =>
          op = "dealloc" /\ (b = blk \/ f = blk)
    BY ZenonT(40), <1>10, <2>1 DEF IInv, Coalesced
  <2>3. op = "dealloc" => pc' = "coalesce_next"
    BY Zenon DEF AfterInsert
  <2> QED BY ZenonT(40), <2>2, <2>3 DEF Coalesced
<1>14. Control'
  BY Zenon, <1>1, <1>3 DEF IInv, Control, AfterInsert, IntegrityCheckPasses
<1> QED BY SMTT(30), <1>10, <1>11, <1>12, <1>13, <1>14 DEF IInv

(* insert_into_free_list at the head *)
LEMMA InsertFirstIInv == ASSUME IInv, InsertFirst PROVE IInv'
<1> USE DEF InsertFirst
<1>1. /\ DOMAIN next \subseteq Nat \ {0} /\ free_list_head \in Nat
      /\ IsList(DOMAIN next, next, prev, free_list_head) /\ blk \in Nat
  BY Zenon DEF IInv, TypeOK, HeapTypeOK, LocalsTypeOK, FreeListExact
<1>2. /\ Follows(DOMAIN next, blk, free_list_head)
      /\ Precedes(DOMAIN next, NULL, blk)
  BY <1>1 DEF IsList, Follows, Precedes, NULL
<1>3. NULL \in Nat
  BY DEF NULL
<1> QED BY <1>1, <1>2, <1>3, LinkedIInv

(* insert_into_free_list behind the predecessor the walk has found *)
LEMMA InsertAfterIInv == ASSUME IInv, InsertAfter PROVE IInv'
<1> USE DEF InsertAfter
<1>1. /\ DOMAIN next \subseteq Nat \ {0} /\ cur \in DOMAIN next /\ cur < blk
      /\ next[cur] \in Nat /\ blk \in Nat /\ cur \in Nat /\ blk \notin DOMAIN next
      /\ IsList(DOMAIN next, next, prev, free_list_head)
  BY Zenon DEF IInv, Control, TypeOK, HeapTypeOK, LocalsTypeOK, FreeListExact, Unlinked
<1>2. Follows(DOMAIN next, cur, next[cur])
  BY Zenon, <1>1 DEF IsList
<1>3. Follows(DOMAIN next, blk, next[cur]) /\ Precedes(DOMAIN next, cur, blk)
  BY <1>1, <1>2 DEF Follows, Precedes, NULL, WalksOn
<1> QED BY <1>1, <1>3, LinkedIInv

(* dealloc accepting a pointer: the header in front of it is that of a block *)
(* in use, which becomes free and waits to be linked.                        *)
LEMMA DeallocStartIInv ==
  ASSUME IInv, NEW p \in Ptrs, DeallocStart(p)
  PROVE  IInv'
<1>0. PICK d : d = p - HeaderSize
  OBVIOUS
<1> DEFINE F == FreedHeader(hdr[d])
<1> USE DEF DeallocStart
<1>1. ~frozen /\ d \in DOMAIN hdr /\ hdr[d].status # Free /\ pc = "idle"
  BY SMTT(30), <1>0 DEF DeallocOutcome, Ready
<1>2. /\ d \in blocks /\ d \notin FreeBlocks /\ d \in DOMAIN held
  BY Zenon, <1>1 DEF IInv, HeadersSound, Ownership, FreeBlocks
<1>3. /\ d \in Nat \ {0} /\ hdr[d] \in Header /\ hdr[d].size \in Nat
      /\ HeaderSize \in Nat /\ next_alloc_id \in Nat
  BY Zenon, <1>2, BlockFacts DEF IInv, TypeOK, HeapTypeOK
<1>4. F \in Header /\ Validate(F) /\ F.size = hdr[d].size /\ F.status = Free
  BY Zenon, <1>3, HeadersWritten
<1>5. /\ DOMAIN hdr' = DOMAIN hdr /\ hdr'[d] = F
      /\ \A a \in DOMAIN hdr : a # d => hdr'[a] = hdr[a]
  BY <1>0, <1>1
<1>6. /\ DOMAIN held' = DOMAIN held \ {d}
      /\ \A b \in DOMAIN held' : held'[b] = held[b]
  BY <1>0
<1>7. stats' \in StatsType
  <2>1. stats \in StatsType /\ TotalSize(hdr[d]) \in Int /\ hdr[d].size \in Int
    BY <1>3 DEF IInv, TypeOK, TotalSize
  <2>2. RecordDealloc(stats, hdr[d].size) \in StatsType
    BY Zenon, <2>1, StatsTyped
  <2> QED BY Zenon, <1>0, <2>1, <2>2, StatsTyped
<1>8. /\ next' = next /\ prev' = prev /\ free_list_head' = free_list_head
      /\ blocks' = blocks /\ frozen' = frozen /\ next_alloc_id' = next_alloc_id
      /\ pc' = "insert" /\ op' = "dealloc" /\ blk' = d /\ cur' = free_list_head
      /\ base' = base /\ req' = req
  BY <1>0
<1> HIDE DEF F, DeallocStart
<1>9. \A b \in blocks : b \in DOMAIN hdr
  BY DEF IInv, HeapTiled
<1>10. FreeBlocks' = FreeBlocks \cup {d}
  BY Zenon, <1>2, <1>4, <1>5, <1>8, <1>9 DEF FreeBlocks
<1>11. \A b \in blocks : End(b)' = End(b)
  <2>1. \A b \in blocks : hdr'[b].size = hdr[b].size
    BY <1>4, <1>5, <1>9
  <2> QED BY <2>1 DEF End, TotalSize
<1>12. TypeOK'
  <2>1. \A a \in DOMAIN hdr' : hdr'[a] \in Header
    <3>1. \A a \in DOMAIN hdr : hdr[a] \in Header
      BY Zenon DEF IInv, TypeOK, HeapTypeOK
    <3> QED BY Zenon, <1>4, <1>5, <3>1
  <2>2. HeapTypeOK'
    BY ZenonT(40), <1>5, <1>6, <1>8, <2>1 DEF IInv, TypeOK, HeapTypeOK
  <2>3. LocalsTypeOK'
    BY Zenon, <1>3, <1>8 DEF IInv, TypeOK, HeapTypeOK, LocalsTypeOK
  <2> QED BY <1>7, <1>8, <2>2, <2>3 DEF IInv, TypeOK
<1>13. HeapTiled'
  BY Zenon, <1>5, <1>8, <1>11 DEF IInv, HeapTiled
<1>14. HeadersSound'
  <2>1. \A a \in DOMAIN hdr' : Validate(hdr'[a])
    BY ZenonT(40), <1>4, <1>5 DEF IInv, HeadersSound
  <2>2. \A a \in DOMAIN hdr' \ blocks' : hdr'[a].status = Free
    BY Zenon, <1>2, <1>5, <1>8 DEF IInv, HeadersSound
  <2>3. \A b \in blocks' : hdr'[b].size >= FreeBlockSize
    BY ZenonT(40), <1>4, <1>5, <1>8, <1>9 DEF IInv, HeadersSound
  <2> QED BY <2>1, <2>2, <2>3 DEF HeadersSound
<1>15. Ownership'
  <2>1. DOMAIN held' = blocks' \ FreeBlocks'
    BY ZenonT(40), <1>6, <1>8, <1>10 DEF IInv, Ownership
  <2>2. ASSUME NEW b \in DOMAIN held'
        PROVE  /\ b \in blocks /\ hdr'[b] = hdr[b]
               /\ held'[b] = held[b] /\ UserEnd(b)' = UserEnd(b) /\ End(b)' = End(b)
               /\ b \in DOMAIN held
    <3>1. b \in blocks /\ b \in DOMAIN held /\ b # d
      BY ZenonT(40), <1>6 DEF IInv, Ownership
    <3>2. hdr'[b] = hdr[b] /\ held'[b] = held[b]
      BY Zenon, <1>5, <1>6, <1>9, <3>1
    <3> QED BY ZenonT(40), <1>11, <3>1, <3>2 DEF UserEnd
  <2> QED BY ZenonT(40), <1>8, <2>1, <2>2 DEF IInv, Ownership
<1>16. AllocIdsUnique'
  <2>1. ASSUME NEW b \in DOMAIN held'
        PROVE  b \in DOMAIN held /\ hdr'[b] = hdr[b]
    <3>1. b \in blocks /\ b \in DOMAIN held /\ b # d
      BY ZenonT(40), <1>6 DEF IInv, Ownership
    <3> QED BY Zenon, <1>5, <1>9, <3>1
  <2> QED BY ZenonT(40), <2>1 DEF IInv, AllocIdsUnique
<1>17. FreeListExact'
  <2>1. Unlinked' = {d} /\ Unlinked = {}
    BY <1>1, <1>8 DEF Unlinked
  <2> QED BY Zenon, <1>2, <1>8, <1>10, <2>1 DEF IInv, FreeListExact
<1>18. Coalesced'
  <2>1. \A b, c \in FreeBlocks' : End(b)' = c => b = d \/ c = d
    BY ZenonT(40), <1>1, <1>10, <1>11 DEF IInv, Coalesced, FreeBlocks
  <2> QED BY SMTT(30), <1>8, <2>1 DEF Coalesced
<1>19. Control'
  <2>1. /\ DOMAIN next = FreeBlocks /\ d \notin DOMAIN next
        /\ Follows(DOMAIN next, NULL, free_list_head)
    BY ZenonT(40), <1>1, <1>2 DEF IInv, FreeListExact, Unlinked, IsList
  <2>2. \/ free_list_head = NULL \/ free_list_head > d
        \/ free_list_head \in DOMAIN next /\ free_list_head < d
    <3>1. free_list_head = NULL \/ free_list_head \in DOMAIN next
      BY Zenon, <2>1 DEF Follows
    <3>2. \/ free_list_head \in Nat /\ d \in Nat /\ free_list_head # d
          \/ free_list_head = NULL
      BY Zenon, <1>3, <2>1, <3>1 DEF IInv, TypeOK, HeapTypeOK
    <3> QED BY <3>1, <3>2
  <2> QED BY SMTT(30), <1>1, <1>8, <1>10, <2>2 DEF Control, IntegrityCheckPasses
<1> QED BY <1>12, <1>13, <1>14, <1>15, <1>16, <1>17, <1>18, <1>19 DEF IInv

-----------------------------------------------------------------------------
(***************************************************************************)
(* Splitting a block in alloc_aligned                                      *)
(***************************************************************************)

(* The arithmetic of a split: the remainder starts inside the block, ends    *)
(* where it ended, and both parts can hold a list node.                      *)
LEMMA SplitFacts ==
  ASSUME IInv, NEW c, c = cur, NEW r, r = RequiredSize(cur, req.size, req.align),
         NEW t, t = c + r, pc = "find", cur # NULL, Splits(cur, req.size, req.align)
  PROVE  /\ c \in Nat \ {0} /\ r \in Nat /\ t \in Nat \ {0} /\ End(c) \in Nat
         /\ HeaderSize \in Nat \ {0} /\ FreeBlockSize \in Nat \ {0}
         /\ hdr[c] \in Header /\ hdr[c].size \in Nat
         /\ End(c) = c + HeaderSize + hdr[c].size
         /\ r - HeaderSize \in Nat /\ r - HeaderSize >= FreeBlockSize
         /\ hdr[c].size - r \in Nat /\ hdr[c].size - r >= FreeBlockSize
         /\ c < t /\ t + HeaderSize < End(c) /\ End(c) <= HeapEnd
         /\ \A a \in blocks : a <= c \/ End(c) <= a
         /\ \A a \in blocks : a \in Nat \ {0} /\ End(a) \in Nat /\ a < End(a)
         /\ t \notin blocks
         /\ \A a \in blocks : a \notin Overlapping(t, t + HeaderSize)
<1>1. c \in blocks /\ r \in Nat /\ HeaderSize + FreeBlockSize <= r
  BY Found
<1>2. /\ c \in Nat \ {0} /\ HeaderSize \in Nat \ {0} /\ FreeBlockSize \in Nat \ {0}
      /\ hdr[c] \in Header /\ hdr[c].size \in Nat /\ End(c) \in Nat
      /\ End(c) = c + HeaderSize + hdr[c].size /\ End(c) <= HeapEnd
      /\ MinBlockSize = HeaderSize + FreeBlockSize
  BY Zenon, <1>1, BlockFacts
<1>3. hdr[c].size >= r + HeaderSize + FreeBlockSize
  BY <1>1, <1>2 DEF Splits
<1>4. \A a \in blocks : a <= c \/ End(c) <= a
  <2>1. \A a \in blocks : a \in Nat
    BY DEF IInv, TypeOK, HeapTypeOK
  <2>2. \A a \in blocks : c < a => End(c) <= a
    BY <1>1 DEF IInv, HeapTiled
  <2> QED BY <1>2, <2>1, <2>2
<1>5. \A a \in blocks : a \in Nat \ {0} /\ End(a) \in Nat /\ a < End(a)
  BY BlockFacts, BlocksSpan, Zenon
<1>6. c < t /\ t + HeaderSize < End(c) /\ t \in Nat \ {0}
  BY <1>1, <1>2, <1>3
<1>7. t \notin blocks
  BY <1>2, <1>4, <1>6
<1>8. \A a \in blocks : a \notin Overlapping(t, t + HeaderSize)
  BY <1>1, <1>2, <1>4, <1>5, <1>6 DEF Overlapping
<1>9. /\ r - HeaderSize \in Nat /\ r - HeaderSize >= FreeBlockSize
      /\ hdr[c].size - r \in Nat /\ hdr[c].size - r >= FreeBlockSize
  BY <1>1, <1>2, <1>3
<1> QED BY ZenonT(40), <1>1, <1>2, <1>4, <1>5, <1>6, <1>7, <1>8, <1>9

(* alloc_aligned splitting a block *)
LEMMA TakeSplitIInv == ASSUME IInv, TakeSplit PROVE IInv'
<1>0. PICK c, r, t : c = cur /\ r = RequiredSize(cur, req.size, req.align) /\ t = c + r
  OBVIOUS
<1> DEFINE G == Grant(cur)
           A == AllocatedHeader(hdr[c], r - HeaderSize)
           R == NewHeader(hdr[c].size - r, Free)
           gone == Overlapping(t, t + HeaderSize)
<1> USE DEF TakeSplit
<1>1. /\ c \in DOMAIN next /\ DOMAIN next = FreeBlocks
      /\ c \in FreeBlocks /\ c \in blocks /\ c \notin DOMAIN held
      /\ G \in [user : Nat, size : Nat, align : Nat \ {0}]
      /\ c + HeaderSize <= G.user
      /\ G.user + G.size <= c + r
      /\ G.user % G.align = 0
  BY <1>0, Found
<1>2. /\ DOMAIN next' = DOMAIN next \ {c} /\ DOMAIN prev' = DOMAIN next \ {c}
      /\ \A x \in DOMAIN next' : next'[x] \in Nat /\ prev'[x] \in Nat
      /\ free_list_head' \in Nat
      /\ IsList(DOMAIN next', next', prev', free_list_head')
  BY Zenon, <1>0, <1>1, Removed
<1>3. /\ c \in Nat \ {0} /\ r \in Nat /\ t \in Nat \ {0} /\ End(c) \in Nat
      /\ HeaderSize \in Nat \ {0} /\ FreeBlockSize \in Nat \ {0}
      /\ hdr[c] \in Header /\ hdr[c].size \in Nat
      /\ End(c) = c + HeaderSize + hdr[c].size
      /\ r - HeaderSize \in Nat /\ r - HeaderSize >= FreeBlockSize
      /\ hdr[c].size - r \in Nat /\ hdr[c].size - r >= FreeBlockSize
      /\ c < t /\ t + HeaderSize < End(c) /\ End(c) <= HeapEnd
      /\ \A a \in blocks : a <= c \/ End(c) <= a
      /\ \A a \in blocks : a \in Nat \ {0} /\ End(a) \in Nat /\ a < End(a)
      /\ t \notin blocks
      /\ \A a \in blocks : a \notin gone
  BY <1>0, SplitFacts
<1>4. next_alloc_id \in Nat \ {0}
  BY DEF IInv, TypeOK, HeapTypeOK
<1>5. /\ A \in Header /\ Validate(A) /\ A.size = r - HeaderSize
      /\ A.status = Allocated /\ A.alloc_id = next_alloc_id
      /\ R \in Header /\ Validate(R) /\ R.size = hdr[c].size - r /\ R.status = Free
  <2> HIDE DEF TakeSplit
  <2>1. PICK n, m : n = r - HeaderSize /\ m = hdr[c].size - r
    OBVIOUS
  <2>2. n \in Nat /\ m \in Nat /\ hdr[c] \in Header
    BY <1>3, <2>1
  <2>3. /\ A \in Header /\ Validate(A) /\ A.size = n
        /\ A.status = Allocated /\ A.alloc_id = next_alloc_id
    BY ZenonT(60), <1>4, <2>1, <2>2, HeadersWritten
  <2>4. R \in Header /\ Validate(R) /\ R.size = m /\ R.status = Free
    BY ZenonT(60), <1>4, <2>1, <2>2, HeadersWritten
  <2> HIDE DEF A, R
  <2> QED BY <2>1, <2>3, <2>4
<1>6. /\ DOMAIN hdr' = (DOMAIN hdr \ gone) \cup {t} /\ hdr'[t] = R
      /\ \A a \in DOMAIN hdr' : a # t /\ a # c => hdr'[a] = hdr[a]
      /\ c \in DOMAIN hdr' => hdr'[c] = A
  <2>1. c # t
    BY <1>3
  <2> QED BY <1>0, <2>1
<1>7. /\ DOMAIN held' = DOMAIN held \cup {c} /\ held'[c] = G
      /\ \A b \in DOMAIN held : held'[b] = held[b]
  BY <1>0, <1>1 DEF Granted
<1>8. stats' \in StatsType
  <2>1. stats \in StatsType /\ TotalSize(hdr[cur]) \in Int
    BY <1>0, <1>3 DEF IInv, TypeOK, TotalSize
  <2> QED BY <2>1, StatsTyped
<1>9. /\ next_alloc_id' = next_alloc_id + 1 /\ blocks' = blocks \cup {t}
      /\ frozen' = frozen /\ op' = op /\ req' = req /\ pc' = "insert"
      /\ blk' = t /\ base' = c /\ cur' = free_list_head' /\ pc = "find"
  BY <1>0
<1> HIDE DEF G, A, R, TakeSplit
<1>10. \A b \in blocks : b \in DOMAIN hdr /\ b \in DOMAIN hdr'
  BY <1>3, <1>6 DEF IInv, HeapTiled
<1>11. /\ hdr'[c] = A
       /\ \A b \in blocks \ {c} : hdr'[b] = hdr[b]
  BY ZenonT(40), <1>1, <1>3, <1>6, <1>10
<1>12. FreeBlocks' = (FreeBlocks \ {c}) \cup {t}
  <2>1. hdr'[t].status = Free /\ hdr'[c].status # Free
    BY <1>5, <1>6, <1>11, SMTT(30) DEF Free, Allocated
  <2>2. \A b \in blocks \ {c} : hdr'[b].status = hdr[b].status
    BY <1>11, ZenonT(40)
  <2>3. FreeBlocks' = {b \in blocks \cup {t} : hdr'[b].status = Free}
    BY <1>9, ZenonT(40) DEF FreeBlocks
  <2>4. FreeBlocks = {b \in blocks : hdr[b].status = Free}
    BY ZenonT(40) DEF FreeBlocks
  <2>5. c \in blocks /\ t \notin blocks
    BY <1>1, <1>3, Zenon
  <2> QED
    BY <2>1, <2>2, <2>3, <2>4, <2>5, ZenonT(40)
<1>13. /\ End(c)' = t /\ End(t)' = End(c)
       /\ \A b \in blocks \ {c} : End(b)' = End(b)
  <2>1. End(c)' = t
    <3>1. /\ c \in Nat /\ r \in Nat /\ HeaderSize \in Nat /\ t = c + r
          /\ hdr'[c].size = r - HeaderSize
      BY <1>0, <1>3, <1>5, <1>11, Zenon
    <3> QED BY <3>1 DEF End, TotalSize
  <2>2. End(t)' = End(c)
    <3>1. /\ c \in Nat /\ r \in Nat /\ HeaderSize \in Nat /\ hdr[c].size \in Nat
          /\ t = c + r /\ hdr'[t].size = hdr[c].size - r
      BY <1>0, <1>3, <1>5, <1>6, Zenon
    <3> QED BY <3>1 DEF End, TotalSize
  <2>3. \A b \in blocks \ {c} : End(b)' = End(b)
    BY <1>11, Zenon DEF End, TotalSize
  <2> QED
    BY <2>1, <2>2, <2>3
<1>14. TypeOK'
  <2>1. \A a \in DOMAIN hdr' : hdr'[a] \in Header
    BY Zenon, <1>5, <1>6, <1>11 DEF IInv, TypeOK, HeapTypeOK
  <2>2. \A b \in DOMAIN held' :
          held'[b] \in [user : Nat, size : Nat, align : Nat \ {0}]
    <3>1. \A b \in DOMAIN held :
            held[b] \in [user : Nat, size : Nat, align : Nat \ {0}]
      BY Zenon DEF IInv, TypeOK, HeapTypeOK
    <3> QED BY Zenon, <1>1, <1>7, <3>1
  <2>3. HeapTypeOK'
    <3>1. DOMAIN hdr' \subseteq Nat /\ blocks' \subseteq Nat \ {0}
      BY ZenonT(40), <1>3, <1>6, <1>9 DEF IInv, TypeOK, HeapTypeOK
    <3>2. DOMAIN next' = DOMAIN prev' /\ DOMAIN next' \subseteq blocks'
      BY Zenon, <1>2, <1>9 DEF IInv, TypeOK, HeapTypeOK
    <3>3. next_alloc_id' \in Nat \ {0}
      BY <1>4, <1>9
    <3>4. DOMAIN held' \subseteq Nat
      BY ZenonT(40), <1>3, <1>7 DEF IInv, TypeOK, HeapTypeOK
    <3> QED
      BY ZenonT(40), <1>2, <2>1, <2>2, <3>1, <3>2, <3>3, <3>4 DEF HeapTypeOK
  <2>4. LocalsTypeOK'
    BY Zenon, <1>2, <1>3, <1>9 DEF IInv, TypeOK, LocalsTypeOK
  <2> QED BY <1>8, <1>9, <2>3, <2>4 DEF IInv, TypeOK
<1>15. HeapTiled'
  <2>1. /\ HeapStart \in blocks' /\ blocks' \subseteq DOMAIN hdr'
    BY ZenonT(40), <1>6, <1>9, <1>10 DEF IInv, HeapTiled
  <2>2. ASSUME NEW b \in blocks'
        PROVE  /\ HeapStart <= b /\ End(b)' <= HeapEnd
               /\ End(b)' \in blocks' \cup {HeapEnd}
    <3>1. \A x \in blocks : /\ HeapStart <= x /\ End(x) <= HeapEnd
                            /\ End(x) \in blocks \cup {HeapEnd}
      BY DEF IInv, HeapTiled
    <3>2. HeapStart \in Nat /\ HeapEnd \in Nat
      BY HeapAssumption DEF HeapEnd
    <3>3. /\ HeapStart <= c /\ End(c) <= HeapEnd /\ End(c) \in blocks \cup {HeapEnd}
          /\ c \in Nat /\ t \in Nat /\ HeaderSize \in Nat /\ End(c) \in Nat
          /\ c < t /\ t + HeaderSize < End(c)
      BY <1>1, <1>3, <3>1, Zenon
    <3>4. HeapStart <= t /\ t <= HeapEnd
      BY <3>2, <3>3
    <3>5. CASE b = t
      BY <1>9, <1>13, <3>3, <3>4, <3>5, Zenon
    <3>6. CASE b = c
      BY <1>9, <1>13, <3>3, <3>4, <3>6, Zenon
    <3>7. CASE b # t /\ b # c
      BY <1>9, <1>13, <3>1, <3>7, ZenonT(40)
    <3> QED BY <3>5, <3>6, <3>7, Zenon
  <2>3. ASSUME NEW b \in blocks', NEW e \in blocks', b < e
        PROVE  End(b)' <= e
    <3>1. \A x, y \in blocks : x < y => End(x) <= y
      BY DEF IInv, HeapTiled
    <3>0. /\ c \in Nat /\ t \in Nat /\ HeaderSize \in Nat /\ End(c) \in Nat
          /\ c < t /\ t + HeaderSize < End(c)
      BY <1>3, Zenon
    <3>2. CASE b = t
      <4>1. e \in blocks
        BY <1>9, <2>3, <3>0, <3>2
      <4>2. e \in Nat /\ (e <= c \/ End(c) <= e) /\ End(t)' = End(c)
        BY <1>3, <1>13, <4>1, Zenon
      <4> QED BY <2>3, <3>0, <3>2, <4>2
    <3>3. CASE b = c
      <4>1. CASE e \in blocks
        <5>1. e \in Nat /\ (e <= c \/ End(c) <= e) /\ End(c)' = t
          BY <1>3, <1>13, <4>1, Zenon
        <5> QED BY <2>3, <3>0, <3>3, <5>1
      <4>2. CASE e = t
        BY <1>13, <3>0, <3>3, <4>2
      <4> QED BY <1>9, <4>1, <4>2, Zenon
    <3>4. CASE b # t /\ b # c /\ e = t
      <4>1. b \in blocks /\ b < c
        <5>1. b \in blocks
          BY <1>9, <3>4, Zenon
        <5>2. b \in Nat /\ (b <= c \/ End(c) <= b)
          BY <1>3, <5>1, Zenon
        <5> QED BY <2>3, <3>0, <3>4, <5>1, <5>2
      <4>2. End(b) <= c /\ End(b)' = End(b) /\ End(b) \in Nat
        BY Zenon, <1>1, <1>3, <1>13, <3>1, <3>4, <4>1
      <4> QED BY <1>3, <3>4, <4>2
    <3>5. CASE b # t /\ b # c /\ e # t
      BY <1>9, <1>13, <2>3, <3>1, <3>5
    <3> QED BY <3>2, <3>3, <3>4, <3>5
  <2> QED BY <2>1, <2>2, <2>3 DEF HeapTiled
<1>16. HeadersSound'
  <2>1. \A a \in DOMAIN hdr' : Validate(hdr'[a])
    BY ZenonT(40), <1>5, <1>6, <1>11 DEF IInv, HeadersSound
  <2>2. \A a \in DOMAIN hdr' \ blocks' : hdr'[a].status = Free
    BY Zenon, <1>1, <1>6, <1>9 DEF IInv, HeadersSound
  <2>3. \A b \in blocks' : hdr'[b].size >= FreeBlockSize
    <3>1. \A b \in blocks : hdr[b].size >= FreeBlockSize
      BY Zenon DEF IInv, HeadersSound
    <3>2. A.size >= FreeBlockSize /\ R.size >= FreeBlockSize
      BY ZenonT(40), <1>3, <1>5
    <3> QED BY Zenon, <1>6, <1>9, <1>11, <3>1, <3>2
  <2> QED BY <2>1, <2>2, <2>3 DEF HeadersSound
<1>17. \A b \in DOMAIN held : /\ b \in blocks \ {c} /\ hdr'[b] = hdr[b]
                              /\ hdr[b].alloc_id \in Nat
                              /\ hdr[b].alloc_id < next_alloc_id
  BY ZenonT(40), <1>1, <1>10, <1>11 DEF IInv, Ownership, TypeOK, HeapTypeOK, Header
<1>18. Ownership'
  <2>1. DOMAIN held' = blocks' \ FreeBlocks'
    <3>1. DOMAIN held = blocks \ FreeBlocks
      BY Zenon DEF IInv, Ownership
    <3>2. t \notin blocks
      BY <1>3
    <3> QED BY <1>1, <1>7, <1>9, <1>12, <3>1, <3>2
  <2>2. ASSUME NEW b \in DOMAIN held
        PROVE  /\ b + HeaderSize <= held'[b].user /\ UserEnd(b)' <= End(b)'
               /\ held'[b].user % held'[b].align = 0
               /\ hdr'[b].alloc_id < next_alloc_id'
    <3>1. held'[b] = held[b] /\ UserEnd(b)' = UserEnd(b) /\ End(b)' = End(b)
      BY ZenonT(40), <1>7, <1>13, <1>17 DEF UserEnd
    <3>2. /\ b + HeaderSize <= held[b].user /\ UserEnd(b) <= End(b)
          /\ held[b].user % held[b].align = 0
      BY DEF IInv, Ownership
    <3>3. hdr'[b].alloc_id < next_alloc_id'
      BY <1>4, <1>9, <1>17
    <3> QED BY ZenonT(40), <3>1, <3>2, <3>3
  <2>3. /\ c + HeaderSize <= held'[c].user /\ UserEnd(c)' <= End(c)'
        /\ held'[c].user % held'[c].align = 0
        /\ hdr'[c].alloc_id < next_alloc_id'
    <3>1. UserEnd(c)' = G.user + G.size
      BY <1>7 DEF UserEnd
    <3>2. UserEnd(c)' <= End(c)'
      BY <1>0, <1>1, <1>13, <3>1
    <3>3. hdr'[c].alloc_id < next_alloc_id'
      <4>1. hdr'[c].alloc_id = next_alloc_id /\ next_alloc_id' = next_alloc_id + 1
        BY Zenon, <1>5, <1>9, <1>11
      <4> QED BY <1>4, <4>1
    <3> QED BY <1>1, <1>7, <3>2, <3>3
  <2>4. \A b \in DOMAIN held' :
          /\ b + HeaderSize <= held'[b].user /\ UserEnd(b)' <= End(b)'
          /\ held'[b].user % held'[b].align = 0
          /\ hdr'[b].alloc_id < next_alloc_id'
    BY ZenonT(40), <1>7, <2>2, <2>3
  <2> QED BY <2>1, <2>4 DEF Ownership
<1>19. AllocIdsUnique'
  <2>1. hdr'[c].alloc_id = next_alloc_id /\ DOMAIN held' = DOMAIN held \cup {c}
    BY Zenon, <1>5, <1>7, <1>11
  <2>2. \A b \in DOMAIN held : /\ hdr'[b].alloc_id = hdr[b].alloc_id
                               /\ hdr'[b].alloc_id # next_alloc_id
    <3>1. \A k \in Nat : k < next_alloc_id => k # next_alloc_id
      BY <1>4
    <3> QED BY Zenon, <1>17, <3>1
  <2>3. \A b, e \in DOMAIN held : hdr[b].alloc_id = hdr[e].alloc_id => b = e
    BY Zenon DEF IInv, AllocIdsUnique
  <2> QED BY ZenonT(40), <2>1, <2>2, <2>3 DEF AllocIdsUnique
<1>20. FreeListExact'
  <2>1. Unlinked' = {t}
    BY <1>9 DEF Unlinked
  <2>2. t \notin FreeBlocks
    BY <1>3 DEF FreeBlocks
  <2> QED BY <1>1, <1>2, <1>12, <2>1, <2>2 DEF FreeListExact
<1>21. Coalesced'
  <2>1. \A b, e \in FreeBlocks : End(b) # e
    BY <1>9 DEF IInv, Coalesced
  <2>2. ASSUME NEW b \in FreeBlocks', NEW e \in FreeBlocks', End(b)' = e
        PROVE  FALSE
    <3>1. FreeBlocks \subseteq blocks
      BY DEF FreeBlocks
    <3>2. CASE b = t
      <4>1. e # t
        BY <1>3, <1>13, <2>2, <3>2
      <4> QED BY Zenon, <1>1, <1>12, <1>13, <2>1, <2>2, <3>2, <4>1
    <3>3. CASE b # t /\ e # t
      BY <1>12, <1>13, <2>1, <2>2, <3>1, <3>3
    <3>4. CASE b # t /\ e = t
      <4>1. b \in blocks /\ b # c /\ End(b) = t /\ (b < c => End(b) <= c)
        BY ZenonT(40), <1>1, <1>12, <1>13, <2>2, <3>1, <3>4 DEF IInv, HeapTiled
      <4> QED BY <1>3, <4>1
    <3> QED BY <3>2, <3>3, <3>4
  <2> QED BY <2>2 DEF Coalesced
<1>22. Control'
  <2>1. t \notin DOMAIN next' /\ Follows(DOMAIN next', NULL, free_list_head')
    BY ZenonT(40), <1>1, <1>2, <1>3 DEF IsList, FreeBlocks
  <2>2. \/ free_list_head' = NULL \/ free_list_head' > t
        \/ free_list_head' \in DOMAIN next' /\ free_list_head' < t
    <3>1. free_list_head' = NULL \/ free_list_head' \in DOMAIN next'
      BY <2>1, Zenon DEF Follows
    <3>2. free_list_head' \in Nat /\ t \in Nat
      BY <1>2, <1>3, Zenon
    <3> QED BY <2>1, <3>1, <3>2
  <2>3. op = "alloc" /\ ~frozen
    BY <1>9 DEF IInv, Control
  <2> QED BY SMTT(30), <1>1, <1>9, <1>12, <2>2, <2>3 DEF Control, IntegrityCheckPasses
<1> QED BY <1>14, <1>15, <1>16, <1>18, <1>19, <1>20, <1>21, <1>22 DEF IInv

-----------------------------------------------------------------------------
(***************************************************************************)
(* Merging free blocks in coalesce                                         *)
(***************************************************************************)

(* coalesce merging a free block b with the free block n that follows it in *)
(* memory.  The header of n stays behind in the merged block, marked free.   *)
LEMMA Merged ==
  ASSUME IInv, NEW b \in DOMAIN next, NEW n \in DOMAIN next, End(b) = n,
         DOMAIN next = FreeBlocks, RemoveFromFreeList(n),
         hdr' = [hdr EXCEPT ![b] = Absorb(b, n)], blocks' = blocks \ {n},
         stats' = RecordCoalesced, UNCHANGED <<frozen, next_alloc_id, held>>
  PROVE  /\ HeapTypeOK' /\ stats' \in StatsType
         /\ HeapTiled' /\ HeadersSound' /\ Ownership' /\ AllocIdsUnique'
         /\ FreeBlocks' = FreeBlocks \ {n} /\ DOMAIN next' = FreeBlocks'
         /\ IsList(DOMAIN next', next', prev', free_list_head')
         /\ End(b)' = End(n) /\ b < n
         /\ \A x \in blocks' \ {b} : End(x)' = End(x)
<1> DEFINE A == Absorb(b, n)
<1>1. b \in blocks /\ n \in blocks /\ b \in FreeBlocks /\ n \in FreeBlocks
  BY DEF FreeBlocks
<1>2. /\ b \in Nat \ {0} /\ n \in Nat \ {0} /\ b \in DOMAIN hdr
      /\ hdr[b] \in Header /\ hdr[n] \in Header /\ HeaderSize \in Nat \ {0}
      /\ hdr[b].size \in Nat /\ hdr[n].size \in Nat
      /\ End(b) = b + HeaderSize + hdr[b].size
      /\ End(n) = n + HeaderSize + hdr[n].size
      /\ hdr[b].status = Free /\ hdr[n].status = Free /\ next_alloc_id \in Nat
      /\ End(n) \in Nat
  BY Zenon, <1>1, BlockFacts DEF FreeBlocks, IInv, TypeOK, HeapTypeOK
<1>3. b < n
  BY <1>2
<1>4. A \in Header /\ Validate(A) /\ A.status = Free
      /\ A.size = hdr[b].size + hdr[n].size + HeaderSize
  <2> DEFINE g(k) == UpdateChecksum([hdr[b] EXCEPT !.size = k])
  <2>1. PICK k : k = hdr[b].size + TotalSize(hdr[n])
    OBVIOUS
  <2>2. k \in Nat /\ k = hdr[b].size + hdr[n].size + HeaderSize
    <3>1. hdr[b].size \in Nat /\ hdr[n].size \in Nat /\ HeaderSize \in Nat
      BY Zenon, <1>2
    <3>2. k = hdr[b].size + (hdr[n].size + HeaderSize)
      BY <2>1 DEF TotalSize
    <3> QED BY <3>1, <3>2
  <2>3. A = g(k)
    BY <2>1 DEF Absorb
  <2>4. g(k) \in Header /\ Validate(g(k)) /\ g(k).size = k
        /\ g(k).status = hdr[b].status
    BY ZenonT(60), <1>2, <2>2, HeadersWritten
  <2> HIDE DEF A, g
  <2> QED BY Zenon, <1>2, <2>2, <2>3, <2>4
<1>5. /\ DOMAIN hdr' = DOMAIN hdr /\ hdr'[b] = A
      /\ \A a \in DOMAIN hdr : a # b => hdr'[a] = hdr[a]
  BY <1>2
<1>6. /\ DOMAIN next' = DOMAIN next \ {n} /\ DOMAIN prev' = DOMAIN next \ {n}
      /\ \A x \in DOMAIN next' : next'[x] \in Nat /\ prev'[x] \in Nat
      /\ free_list_head' \in Nat
      /\ IsList(DOMAIN next', next', prev', free_list_head')
  BY Zenon, Removed
<1> HIDE DEF A
<1>7. blocks \subseteq DOMAIN hdr
  BY DEF IInv, HeapTiled
<1>8. FreeBlocks' = FreeBlocks \ {n}
  BY Zenon, <1>1, <1>4, <1>5, <1>7 DEF FreeBlocks
<1>9. End(b)' = End(n) /\ \A x \in blocks' \ {b} : End(x)' = End(x)
  <2>1. /\ b \in Nat /\ n \in Nat /\ HeaderSize \in Nat
        /\ hdr[b].size \in Nat /\ hdr[n].size \in Nat
        /\ n = b + HeaderSize + hdr[b].size /\ End(n) = n + HeaderSize + hdr[n].size
        /\ hdr'[b].size = hdr[b].size + hdr[n].size + HeaderSize
    BY <1>2, <1>4, <1>5, Zenon
  <2>2. End(b)' = b + (hdr'[b].size + HeaderSize)
    BY DEF End, TotalSize
  <2>3. End(b)' = End(n)
    BY <2>1, <2>2
  <2>4. \A x \in blocks' \ {b} : hdr'[x] = hdr[x]
    BY <1>5, <1>7, Zenon
  <2>5. \A x \in blocks' \ {b} : End(x)' = End(x)
    BY <2>4, Zenon DEF End, TotalSize
  <2> QED BY <2>3, <2>5, Zenon
<1>10. HeapTypeOK'
  <2>1. \A a \in DOMAIN hdr' : hdr'[a] \in Header
    BY ZenonT(40), <1>4, <1>5 DEF IInv, TypeOK, HeapTypeOK
  <2>2. DOMAIN next' \subseteq blocks'
    BY Zenon, <1>6 DEF IInv, TypeOK, HeapTypeOK
  <2> QED BY Zenon, <1>5, <1>6, <2>1, <2>2 DEF IInv, TypeOK, HeapTypeOK
<1>11. stats' \in StatsType
  <2> DEFINE s == RecordMerge(stats)
  <2>1. s \in StatsType
    BY StatsTyped DEF IInv, TypeOK
  <2> HIDE DEF s
  <2>2. s.free_count - 1 \in Int
    BY <2>1 DEF StatsType
  <2>3. [s EXCEPT !.free_count = s.free_count - 1] \in StatsType
    BY <2>1, <2>2 DEF StatsType
  <2> QED BY <2>3 DEF RecordCoalesced, s
<1>12. HeapTiled'
  <2>1. \A x, y \in blocks : x < y => End(x) <= y
    BY DEF IInv, HeapTiled
  <2>2. \A x \in blocks : x \in Nat /\ End(x) \in Nat /\ x < End(x)
    BY BlocksSpan, Zenon
  <2>3. \A x \in blocks : /\ HeapStart <= x /\ End(x) <= HeapEnd
                          /\ End(x) \in blocks \cup {HeapEnd}
    BY DEF IInv, HeapTiled
  <2>4. HeapStart \in blocks' /\ blocks' \subseteq DOMAIN hdr'
    <3>1. HeapStart \in Nat /\ HeapStart <= b /\ HeapStart \in blocks
      BY Zenon, <1>1, <2>3, HeapAssumption DEF IInv, HeapTiled
    <3>2. HeapStart # n
      BY <1>2, <1>3, <3>1
    <3> QED BY <1>5, <1>7, <3>1, <3>2
  <2>5. ASSUME NEW x \in blocks'
        PROVE  /\ HeapStart <= x /\ End(x)' <= HeapEnd
               /\ End(x)' \in blocks' \cup {HeapEnd}
    <3>1. CASE x = b
      <4>1. /\ HeapStart <= b /\ End(n) <= HeapEnd /\ End(n) \in blocks \cup {HeapEnd}
            /\ n \in Nat /\ End(n) \in Nat /\ n < End(n)
        BY <1>1, <2>2, <2>3, Zenon
      <4>2. End(n) # n
        BY <4>1
      <4> QED BY <1>9, <3>1, <4>1, <4>2, Zenon
    <3>2. CASE x # b
      <4>1. x \in blocks /\ x # n /\ End(x)' = End(x)
        BY <1>9, <3>2
      <4>2. End(x) # n
        <5>1. /\ x < b => End(x) <= b
              /\ b < x => n <= x
              /\ b \in Nat /\ n \in Nat /\ x \in Nat /\ End(x) \in Nat /\ x < End(x)
          BY <1>1, <2>1, <2>2, <4>1, Zenon
        <5> QED BY <1>3, <3>2, <5>1
      <4> QED BY <2>3, <4>1, <4>2
    <3> QED BY <3>1, <3>2
  <2>6. ASSUME NEW x \in blocks', NEW y \in blocks', x < y
        PROVE  End(x)' <= y
    <3>1. CASE x = b
      <4>1. n < y
        BY <1>1, <1>2, <2>1, <2>2, <2>6, <3>1
      <4> QED BY <1>1, <1>9, <2>1, <3>1, <4>1
    <3>2. CASE x # b
      BY <1>9, <2>1, <2>6, <3>2
    <3> QED BY <3>1, <3>2
  <2> QED BY <2>4, <2>5, <2>6 DEF HeapTiled
<1>13. HeadersSound'
  <2>1. \A a \in DOMAIN hdr' : Validate(hdr'[a])
    BY <1>4, <1>5 DEF IInv, HeadersSound
  <2>2. \A a \in DOMAIN hdr' \ blocks' : hdr'[a].status = Free
    BY ZenonT(40), <1>1, <1>2, <1>4, <1>5 DEF IInv, HeadersSound
  <2>3. \A x \in blocks' : hdr'[x].size >= FreeBlockSize
    <3>1. \A x \in blocks : hdr[x].size >= FreeBlockSize
      BY DEF IInv, HeadersSound
    <3>2. \A x \in blocks' \ {b} : hdr'[x].size >= FreeBlockSize
      BY Zenon, <1>5, <1>7, <3>1
    <3>3. hdr'[b].size >= FreeBlockSize
      <4>1. /\ hdr'[b].size = hdr[b].size + hdr[n].size + HeaderSize
            /\ hdr[b].size \in Nat /\ hdr[n].size \in Nat /\ HeaderSize \in Nat
            /\ hdr[b].size >= FreeBlockSize
        BY Zenon, <1>1, <1>2, <1>4, <1>5, <3>1
      <4> QED BY <4>1, SizesAssumption
    <3> QED BY Zenon, <3>2, <3>3
  <2> QED BY Zenon, <2>1, <2>2, <2>3 DEF HeadersSound
<1>14. \A x \in DOMAIN held : x \in blocks' \ {b} /\ hdr'[x] = hdr[x]
  BY ZenonT(40), <1>1, <1>5, <1>7 DEF IInv, Ownership
<1>15. Ownership'
  <2>1. DOMAIN held' = blocks' \ FreeBlocks'
    BY Zenon, <1>1, <1>8 DEF IInv, Ownership
  <2>2. \A x \in DOMAIN held : UserEnd(x)' = UserEnd(x) /\ End(x)' = End(x)
    BY ZenonT(40), <1>9, <1>14 DEF UserEnd
  <2>3. ASSUME NEW x \in DOMAIN held
        PROVE  /\ x + HeaderSize <= held'[x].user /\ UserEnd(x)' <= End(x)'
               /\ held'[x].user % held'[x].align = 0 /\ hdr'[x].alloc_id < next_alloc_id'
    <3>1. /\ x + HeaderSize <= held[x].user /\ UserEnd(x) <= End(x)
          /\ held[x].user % held[x].align = 0 /\ hdr[x].alloc_id < next_alloc_id
      BY Zenon DEF IInv, Ownership
    <3> QED BY <1>14, <2>2, <3>1, Zenon
  <2> QED BY <2>1, <2>3, Zenon DEF Ownership
<1>16. AllocIdsUnique'
  BY ZenonT(40), <1>14 DEF IInv, AllocIdsUnique
<1> QED BY ZenonT(40), <1>3, <1>6, <1>8, <1>9, <1>10, <1>11, <1>12, <1>13, <1>15, <1>16

(* coalesce, first half *)
LEMMA CoalesceNextIInv == ASSUME IInv, CoalesceNext PROVE IInv'
<1>0. PICK d, n : d = blk /\ n = End(blk)
  OBVIOUS
<1> USE DEF CoalesceNext
<1>1. /\ d \in DOMAIN next /\ DOMAIN next = FreeBlocks /\ d \in FreeBlocks
      /\ d \in blocks /\ FreeBlocks \subseteq blocks /\ op = "dealloc" /\ ~frozen
  BY Zenon, <1>0 DEF IInv, Control, FreeListExact, Unlinked, FreeBlocks
<1>2. /\ d \in Nat /\ End(d) \in Nat /\ d < End(d)
      /\ End(d) \in blocks \cup {HeapEnd}
      /\ \A x \in blocks : x \in Nat /\ End(x) \in Nat /\ x < End(x) /\ End(x) <= HeapEnd
  <2>1. ASSUME NEW x \in blocks
        PROVE  /\ x \in Nat /\ End(x) \in Nat /\ x < End(x) /\ End(x) <= HeapEnd
               /\ End(x) \in blocks \cup {HeapEnd}
    BY BlockFacts, BlocksSpan, Zenon
  <2> QED BY Zenon, <1>1, <2>1
<1>3. \A b, c \in FreeBlocks : End(b) = c => b = d \/ c = d
  BY <1>0 DEF IInv, Coalesced
<1>4. HeapEnd \in Nat
  BY HeapAssumption DEF HeapEnd
<1>5. /\ pc' = "coalesce_prev" /\ frozen' = frozen /\ next_alloc_id' = next_alloc_id
      /\ op' = op /\ cur' = cur /\ blk' = d /\ base' = base /\ req' = req
      /\ held' = held
  BY <1>0
<1>6. LocalsTypeOK'
  BY <1>5, <1>0 DEF IInv, TypeOK, LocalsTypeOK
<1>7. CASE MergeableNext(n)
  <2>1. /\ n \in DOMAIN next /\ End(d) = n
    <3>1. n < HeapEnd /\ hdr[n].status = Free /\ n \in blocks \cup {HeapEnd} /\ End(d) = n
      BY Zenon, <1>0, <1>2, <1>7 DEF MergeableNext
    <3>2. n # HeapEnd
      BY <1>4, <3>1
    <3> QED BY Zenon, <1>1, <3>1, <3>2 DEF FreeBlocks
  <2>2. /\ RemoveFromFreeList(n) /\ hdr' = [hdr EXCEPT ![d] = Absorb(d, n)]
        /\ blocks' = blocks \ {n} /\ stats' = RecordCoalesced
    BY <1>0, <1>7
  <2> HIDE DEF CoalesceNext
  <2>3. /\ HeapTypeOK' /\ stats' \in StatsType
        /\ HeapTiled' /\ HeadersSound' /\ Ownership' /\ AllocIdsUnique'
        /\ FreeBlocks' = FreeBlocks \ {n} /\ DOMAIN next' = FreeBlocks'
        /\ IsList(DOMAIN next', next', prev', free_list_head')
        /\ End(d)' = End(n) /\ d < n
        /\ \A x \in blocks' \ {d} : End(x)' = End(x)
    BY Zenon, <1>1, <1>5, <2>1, <2>2, Merged
  <2>4. TypeOK'
    BY <1>5, <1>6, <2>3 DEF IInv, TypeOK
  <2>5. FreeListExact'
    BY <1>5, <2>3 DEF FreeListExact, Unlinked
  <2>6. Coalesced'
    <3>1. ASSUME NEW b \in FreeBlocks', NEW c \in FreeBlocks', End(b)' = c
          PROVE  c = d
      <4>1. b \in FreeBlocks /\ c \in FreeBlocks /\ b # n /\ b \in blocks'
        BY <1>1, <2>2, <2>3
      <4>2. CASE b = d
        <5>1. End(n) = c /\ n # d /\ n \in FreeBlocks
          BY ZenonT(40), <1>1, <1>2, <2>1, <2>3, <3>1, <4>2
        <5> QED BY <1>3, <4>1, <5>1
      <4>3. CASE b # d
        BY <1>3, <2>3, <3>1, <4>1, <4>3
      <4> QED BY <4>2, <4>3
    <3> QED BY <1>1, <1>5, <3>1 DEF Coalesced
  <2>7. Control'
    <3>1. d # n
      BY <1>1, <1>2, <2>1
    <3>2. pc' = "coalesce_prev" /\ op' = "dealloc" /\ ~frozen' /\ blk' \in DOMAIN next'
      BY <1>1, <1>5, <2>3, <3>1, Zenon
    <3> QED BY <3>2 DEF Control, IntegrityCheckPasses
  <2> QED BY <2>3, <2>4, <2>5, <2>6, <2>7 DEF IInv
<1>8. CASE ~MergeableNext(n)
  <2>1. UNCHANGED <<heap, stats>>
    BY <1>0, <1>8
  <2> HIDE DEF CoalesceNext
  <2>2. FreeBlocks' = FreeBlocks /\ \A b \in blocks : End(b)' = End(b)
    BY <2>1 DEF heap, FreeBlocks, End
  <2>3. HeapTypeOK' /\ HeapTiled' /\ HeadersSound' /\ Ownership' /\ AllocIdsUnique'
    <3>1. Unlinked' = Unlinked
      BY <1>5 DEF Unlinked, CoalesceNext
    <3> QED BY <1>5, <2>1, <3>1, HeapUnchanged
  <2>4. TypeOK'
    BY <1>5, <1>6, <2>1, <2>3 DEF IInv, TypeOK
  <2>5. FreeListExact'
    BY <1>1, <1>5, <2>1, <2>2 DEF IInv, FreeListExact, Unlinked, heap
  <2>6. Coalesced'
    <3>1. \A c \in FreeBlocks : End(d) # c
      <4>1. \A c \in FreeBlocks : c < HeapEnd
        BY <1>1, <1>2, <1>4
      <4> QED BY <1>0, <1>8, <4>1 DEF MergeableNext, FreeBlocks
    <3>2. \A b, c \in FreeBlocks : End(b) = c => c = d
      BY <1>3, <3>1
    <3> QED BY <1>1, <1>5, <2>2, <3>2 DEF Coalesced
  <2>7. Control'
    BY <1>1, <1>5, <2>1 DEF Control, IntegrityCheckPasses, heap
  <2> QED BY <2>3, <2>4, <2>5, <2>6, <2>7 DEF IInv
<1> QED BY <1>7, <1>8

(* coalesce, second half *)
LEMMA CoalescePrevIInv == ASSUME IInv, CoalescePrev PROVE IInv'
<1>0. PICK d, p : d = blk /\ p = prev[blk]
  OBVIOUS
<1>1. /\ d \in DOMAIN next /\ DOMAIN next = FreeBlocks /\ d \in FreeBlocks
      /\ d \in blocks /\ FreeBlocks \subseteq blocks
      /\ Precedes(DOMAIN next, p, d)
  BY ZenonT(40), <1>0 DEF CoalescePrev, IInv, Control, FreeListExact, Unlinked,
     FreeBlocks, IsList
<1>2. \A x \in blocks : x \in Nat /\ End(x) \in Nat /\ x < End(x)
  BY BlocksSpan, Zenon
<1>3. \A b, c \in FreeBlocks : End(b) = c => c = d
  BY <1>0 DEF CoalescePrev, IInv, Coalesced
<1>4. /\ pc' = "idle" /\ frozen' = frozen /\ next_alloc_id' = next_alloc_id
      /\ op' = "none" /\ held' = held /\ blk' = NULL
      /\ cur' = NULL /\ base' = NULL /\ req' = NoReq
  BY Zenon DEF CoalescePrev, Finish
<1>5. LocalsTypeOK' /\ Control'
  <2>1. LocalsTypeOK'
    BY <1>4 DEF LocalsTypeOK, NULL, NoReq
  <2>2. Control'
    BY <1>4 DEF Control, IntegrityCheckPasses
  <2> QED BY <2>1, <2>2
<1>6. CASE MergeablePrev(p)
  <2>1. p \in DOMAIN next /\ End(p) = d
    BY <1>0, <1>1, <1>6 DEF MergeablePrev, Precedes
  <2>2. /\ RemoveFromFreeList(d) /\ hdr' = [hdr EXCEPT ![p] = Absorb(p, d)]
        /\ blocks' = blocks \ {d} /\ stats' = RecordCoalesced
    BY <1>0, <1>6, Zenon DEF CoalescePrev
  <2>3. /\ HeapTypeOK' /\ stats' \in StatsType
        /\ HeapTiled' /\ HeadersSound' /\ Ownership' /\ AllocIdsUnique'
        /\ FreeBlocks' = FreeBlocks \ {d} /\ DOMAIN next' = FreeBlocks'
        /\ IsList(DOMAIN next', next', prev', free_list_head')
        /\ End(p)' = End(d) /\ p < d
        /\ \A x \in blocks' \ {p} : End(x)' = End(x)
    BY Zenon, <1>1, <1>4, <2>1, <2>2, Merged
  <2>4. TypeOK'
    BY <1>4, <1>5, <2>3 DEF IInv, TypeOK
  <2>5. FreeListExact'
    BY <1>4, <2>3 DEF FreeListExact, Unlinked
  <2>6. Coalesced'
    <3>1. ASSUME NEW b \in FreeBlocks', NEW c \in FreeBlocks', End(b)' = c
          PROVE  FALSE
      <4>1. b \in FreeBlocks /\ c \in FreeBlocks /\ c # d /\ b \in blocks'
        BY <1>1, <2>2, <2>3
      <4>2. CASE b = p
        BY Zenon, <1>1, <1>3, <2>3, <3>1, <4>1, <4>2
      <4>3. CASE b # p
        BY <1>3, <2>3, <3>1, <4>1, <4>3
      <4> QED BY <4>2, <4>3
    <3> QED BY <3>1 DEF Coalesced
  <2> QED BY <1>5, <2>3, <2>4, <2>5, <2>6 DEF IInv
<1>7. CASE ~MergeablePrev(p)
  <2>1. UNCHANGED <<heap, stats>>
    BY <1>0, <1>7, Zenon DEF CoalescePrev
  <2>2. FreeBlocks' = FreeBlocks /\ \A b \in blocks : End(b)' = End(b)
    BY <2>1 DEF heap, FreeBlocks, End
  <2>3. HeapTypeOK' /\ HeapTiled' /\ HeadersSound' /\ Ownership' /\ AllocIdsUnique'
    <3>1. Unlinked' = Unlinked
      BY <1>4 DEF Unlinked, CoalescePrev
    <3> QED BY <1>4, <2>1, <3>1, HeapUnchanged
  <2>4. TypeOK'
    BY <1>4, <1>5, <2>1, <2>3 DEF IInv, TypeOK
  <2>5. FreeListExact'
    BY <1>1, <1>4, <2>1, <2>2 DEF IInv, FreeListExact, Unlinked, heap
  <2>6. Coalesced'
    <3>1. ASSUME NEW b \in FreeBlocks, End(b) = d
          PROVE  FALSE
      <4>1. b \in DOMAIN next /\ b < d /\ b \in Nat /\ d \in Nat
        BY <1>1, <1>2, <3>1
      <4>2. p # NULL /\ p \in DOMAIN next /\ p < d /\ b <= p
        BY <1>1, <4>1 DEF Precedes
      <4>3. p \in blocks /\ b \in blocks /\ p \in Nat /\ (b < p => End(b) <= p)
        BY <1>1, <1>2, <4>2 DEF IInv, HeapTiled
      <4>4. b = p
        BY <3>1, <4>1, <4>2, <4>3
      <4> QED BY <1>0, <1>7, <3>1, <4>2, <4>4 DEF MergeablePrev
    <3> QED BY <1>1, <1>3, <2>2, <3>1 DEF Coalesced
  <2> QED BY <1>5, <2>3, <2>4, <2>5, <2>6 DEF IInv
<1> QED BY <1>6, <1>7
=============================================================================
