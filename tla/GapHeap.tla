------------------------------ MODULE GapHeap ------------------------------
(***************************************************************************)
(* What the early allocator promises, without headers, list or merging:    *)
(* the heap is a set of live allocations, and the free memory is what lies *)
(* between them.  A request is served from the gap with the lowest address *)
(* that has room for it, and is refused only when no gap has room, when it *)
(* is malformed or when the heap is frozen.  A block goes back to the heap *)
(* as a whole, and only through the pointer that directly follows its      *)
(* header: a pointer that was moved up to meet its alignment has no header *)
(* in front of it and cannot be released.                                  *)
(***************************************************************************)
EXTENDS BlockLayout

VARIABLES
  live,       \* block -> the bytes it occupies and what its client was given
  frozen,
  refusals    \* requests refused so far

gapVars == <<live, frozen, refusals>>

LiveEnd(b) == b + live[b].total

(* A gap is named by its first byte. *)
Gaps == ({HeapStart} \cup {LiveEnd(b) : b \in DOMAIN live})
          \ (DOMAIN live \cup {HeapEnd})

Limits(g) == {x \in DOMAIN live \cup {HeapEnd} : x > g}
GapEnd(g) == CHOOSE x \in Limits(g) : \A y \in Limits(g) : x <= y

(* The size the header of a free block covering the gap would hold *)
Room(g) == GapEnd(g) - g - HeaderSize

HasRoom(g, size, align) == Room(g) >= RequiredSize(g, size, align)

(* A remainder too small for a block of its own goes with the allocation. *)
Taken(g, size, align) ==
  LET required == RequiredSize(g, size, align)
  IN IF Room(g) >= required + MinBlockSize THEN required ELSE GapEnd(g) - g

GapInit == live = [b \in {} |-> 0] /\ frozen = FALSE /\ refusals = 0

Allocate(size, align) ==
  /\ ~frozen
  /\ WellFormed(size, align)
  /\ \E g \in Gaps :
       /\ HasRoom(g, size, align)
       /\ \A f \in Gaps : HasRoom(f, size, align) => g <= f
       /\ live' = [b \in DOMAIN live \cup {g} |->
                    IF b = g
                    THEN [total |-> Taken(g, size, align),
                          user |-> CalculateAlignedAddr(g, align),
                          size |-> size, align |-> align]
                    ELSE live[b]]
  /\ UNCHANGED <<frozen, refusals>>

Refuse(size, align) ==
  /\ \/ frozen
     \/ ~WellFormed(size, align)
     \/ \A g \in Gaps : ~HasRoom(g, size, align)
  /\ refusals' = refusals + 1
  /\ UNCHANGED <<live, frozen>>

Release(b) ==
  /\ ~frozen
  /\ live[b].user = b + HeaderSize
  /\ live' = [x \in DOMAIN live \ {b} |-> live[x]]
  /\ UNCHANGED <<frozen, refusals>>

FreezeHeap == frozen' = TRUE /\ UNCHANGED <<live, refusals>>

GapNext ==
  \/ \E size \in Sizes, align \in Aligns :
       Allocate(size, align) \/ Refuse(size, align)
  \/ \E b \in DOMAIN live : Release(b)
  \/ FreezeHeap

GapSpec == GapInit /\ [][GapNext]_gapVars
=============================================================================
