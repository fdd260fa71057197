-------------------------- MODULE BootLayoutProofs --------------------------
(***************************************************************************)
(* The properties of BootLayout for every layout, alignment and heap size. *)
(***************************************************************************)
EXTENDS BootLayout, TLAPS

LayoutType == [sbss : Nat, ebss : Nat, stack_bottom : Nat, stack_top : Nat, end : Nat]

(* What a linker guarantees of a layout *)
Ordered(l) ==
  /\ l \in LayoutType
  /\ l.sbss <= l.ebss /\ l.ebss <= l.end
  /\ l.stack_bottom <= l.stack_top /\ l.stack_top <= l.end
  /\ 0 < l.end /\ l.end + Align + HeapSize <= AddressLimit

(***************************************************************************)
(* The inductive invariant: which bytes each loop has written when it is   *)
(* at addr.  The first loop has cleared everything below addr; it leaves   *)
(* exactly the bytes of .bss below the stack, to which the second one adds *)
(* those from the top of the stack up to addr.                             *)
(***************************************************************************)
LowPart == layout.sbss .. LowEnd - 1

Inv ==
  /\ Ordered(layout)
  /\ addr \in Nat
  /\ heap_start \in Nat
  /\ pc \in {"low", "high", "init", "running"}
  /\ pc = "low" => /\ layout.sbss <= addr
                   /\ addr > layout.sbss => addr <= LowEnd
                   /\ cleared = layout.sbss .. addr - 1
  /\ pc = "high" => /\ HighStart <= addr
                    /\ addr > HighStart => addr <= layout.ebss
                    /\ cleared = LowPart \cup (HighStart .. addr - 1)
  /\ pc \in {"init", "running"} =>
       cleared = LowPart \cup (HighStart .. layout.ebss - 1)
  /\ heap_start # 0 => heap_start >= layout.end

(* (a + Align - 1) & !(Align - 1) is the first multiple of Align from a on.  *)
LEMMA AlignedUp ==
  ASSUME NEW a \in Nat
  PROVE  /\ Aligned(a) \in Nat
         /\ a <= Aligned(a) /\ Aligned(a) < a + Align
         /\ Aligned(a) % Align = 0
<1> DEFINE x == a + Align - 1
<1>1. Align \in Nat /\ Align > 0
  BY HeapAssumption
<1>2. x \in Nat
  BY <1>1
<1>3. PICK q \in Int : x = q * Align + (x % Align)
  BY <1>1, <1>2 DEF x
<1>4. x % Align \in 0 .. Align - 1
  BY <1>1, <1>2
<1>5. Aligned(a) = x - (x % Align)
  BY DEF Aligned
<1>6. Aligned(a) = q * Align
  BY <1>1, <1>2, <1>3, <1>4, <1>5
<1> HIDE DEF x
<1>7. (q * Align) % Align = 0
  BY <1>1, <1>3, Z3
<1>8. QED
  BY <1>1, <1>4, <1>5, <1>6, <1>7 DEF x

(* _start begins with a layout of the linker, nothing cleared. *)
LEMMA InitInv == Init => Inv
<1> SUFFICES ASSUME Init PROVE Inv
  OBVIOUS
<1>1. Ordered(layout)
  BY LayoutAssumption DEF Init, Ordered, LayoutType
<1>2. cleared = layout.sbss .. layout.sbss - 1
  BY <1>1 DEF Init, Ordered, LayoutType
<1>3. QED
  BY <1>1, <1>2 DEF Init, Inv, Ordered, LayoutType

(* Every step of the two loops and of init preserves the invariant. *)
LEMMA NextInv == Inv /\ [Next]_vars => Inv'
<1> SUFFICES ASSUME Inv, [Next]_vars PROVE Inv'
  OBVIOUS
<1>0. /\ layout.sbss \in Nat /\ layout.ebss \in Nat /\ layout.end \in Nat
      /\ layout.stack_bottom \in Nat /\ layout.stack_top \in Nat
      /\ layout.sbss <= layout.ebss /\ layout.stack_bottom <= layout.stack_top
  BY DEF Inv, Ordered, LayoutType
<1>1. CASE ClearLow
  <2>1. layout' = layout /\ pc' = pc /\ heap_start' = heap_start /\ addr' = addr + 1
    BY <1>1 DEF ClearLow
  <2>2. (layout.sbss .. addr - 1) \cup {addr} = layout.sbss .. addr' - 1
    BY <1>0, <1>1, <2>1 DEF Inv, ClearLow
  <2>3. cleared' = layout.sbss .. addr' - 1
    BY <1>1, <2>2 DEF Inv, ClearLow
  <2>4. addr' <= LowEnd
    BY <1>0, <1>1, <2>1 DEF Inv, ClearLow, LowEnd, Lesser
  <2>5. QED
    BY <1>0, <1>1, <2>1, <2>3, <2>4 DEF Inv, ClearLow, LowEnd
<1>2. CASE LowDone
  <2>1. layout' = layout /\ pc' = "high" /\ heap_start' = heap_start
        /\ cleared' = cleared /\ addr' = HighStart
    BY <1>2 DEF LowDone
  <2>2. HighStart \in Nat
    BY <1>0 DEF HighStart, Greater
  <2>3. cleared = layout.sbss .. LowEnd - 1
    BY <1>0, <1>2 DEF Inv, LowDone, LowEnd, Lesser
  <2>4. HighStart .. HighStart - 1 = {}
    BY <2>2
  <2>5. QED
    BY <1>0, <2>1, <2>2, <2>3, <2>4 DEF Inv, LowPart, LowEnd, HighStart
<1>3. CASE ClearHigh
  <2>1. layout' = layout /\ pc' = pc /\ heap_start' = heap_start /\ addr' = addr + 1
    BY <1>3 DEF ClearHigh
  <2>2. HighStart \in Nat
    BY <1>0 DEF HighStart, Greater
  <2>3. (HighStart .. addr - 1) \cup {addr} = HighStart .. addr' - 1
    BY <1>0, <1>3, <2>1, <2>2 DEF Inv, ClearHigh
  <2>4. cleared' = LowPart \cup (HighStart .. addr' - 1)
    BY <1>3, <2>3 DEF Inv, ClearHigh
  <2>5. addr' <= layout.ebss
    BY <1>0, <1>3, <2>1 DEF Inv, ClearHigh
  <2>6. QED
    BY <1>0, <1>3, <2>1, <2>2, <2>4, <2>5
       DEF Inv, ClearHigh, LowPart, LowEnd, HighStart
<1>4. CASE HighDone
  <2>1. layout' = layout /\ pc' = "init" /\ heap_start' = heap_start
        /\ cleared' = cleared /\ addr' = addr
    BY <1>4 DEF HighDone
  <2>2. HighStart \in Nat
    BY <1>0 DEF HighStart, Greater
  <2>3. HighStart .. addr - 1 = HighStart .. layout.ebss - 1
    BY <1>0, <1>4, <2>2 DEF Inv, HighDone
  <2>4. cleared = LowPart \cup (HighStart .. layout.ebss - 1)
    BY <1>4, <2>3 DEF Inv, HighDone
  <2>5. QED
    BY <1>4, <2>1, <2>4 DEF Inv, HighDone, LowPart, LowEnd, HighStart
<1>5. CASE InitHeap
  <2> DEFINE start == Aligned(layout.end)
  <2>1. /\ start \in Nat /\ layout.end <= start /\ start < layout.end + Align
        /\ start % Align = 0
    BY <1>0, AlignedUp
  <2> HIDE DEF start
  <2>2. /\ Align \in Nat /\ HeapSize \in Nat /\ AddressLimit \in Nat
        /\ MinHeap <= HeapSize /\ HeapSize <= MaxHeap
    BY HeapAssumption
  <2>3. /\ 0 < layout.end
        /\ layout.end + Align + HeapSize <= AddressLimit
    BY DEF Inv, Ordered
  <2>4. Accepts(start, HeapSize)
    BY <1>0, <2>1, <2>2, <2>3 DEF Accepts
  <2>5. pc = "init" /\ pc' = "running" /\ heap_start' = start
        /\ layout' = layout /\ addr' = addr /\ cleared' = cleared
    BY <1>5, <2>4 DEF InitHeap, start
  <2>6. QED
    BY <2>1, <2>5 DEF Inv, LowPart, LowEnd, HighStart
<1>6. CASE UNCHANGED vars
  BY <1>6 DEF vars, Inv, LowPart, LowEnd, HighStart
<1>7. QED
  BY <1>1, <1>2, <1>3, <1>4, <1>5, <1>6 DEF Next

(* The invariant holds in every reachable state of the boot. *)
LEMMA Invariance == Spec => []Inv
<1>1. QED
  BY InitInv, NextInv, PTL DEF Spec

(* clear_bss writes to .bss and not to the stack, and has written to all of  *)
(* the rest when it returns, for every position of the two.                  *)
THEOREM BssCleared == Spec => []BssClearedAroundStack
<1>1. Inv => BssClearedAroundStack
  <2> SUFFICES ASSUME Inv PROVE BssClearedAroundStack
    OBVIOUS
  <2>0. /\ layout.sbss \in Nat /\ layout.ebss \in Nat /\ layout.end \in Nat
        /\ layout.stack_bottom \in Nat /\ layout.stack_top \in Nat
        /\ layout.sbss <= layout.ebss /\ layout.stack_bottom <= layout.stack_top
        /\ addr \in Nat
    BY DEF Inv, Ordered, LayoutType
  <2>1. LowPart \cup (HighStart .. layout.ebss - 1) = Bss \ Stack
    BY <2>0 DEF LowPart, LowEnd, HighStart, Lesser, Greater, Bss, Stack
  <2>2. CASE pc = "low"
    BY <2>0, <2>2 DEF Inv, LowEnd, Lesser, BssClearedAroundStack, Bss, Stack
  <2>3. CASE pc = "high"
    <3>1. HighStart .. addr - 1 \subseteq HighStart .. layout.ebss - 1
      BY <2>0, <2>3 DEF Inv, HighStart, Greater
    <3>2. QED
      BY <2>1, <2>3, <3>1 DEF Inv, BssClearedAroundStack
  <2>4. CASE pc \in {"init", "running"}
    BY <2>1, <2>4 DEF Inv, BssClearedAroundStack
  <2>5. QED
    BY <2>2, <2>3, <2>4 DEF Inv
<1>2. QED
  BY <1>1, Invariance, PTL

(* The heap begins behind .bss and the boot stack. *)
THEOREM HeapIsBehindKernel == Spec => []HeapBehindKernel
<1>1. Inv => HeapBehindKernel
  <2> SUFFICES ASSUME Inv, heap_start # 0,
                      NEW a \in Heap, a \in Bss \cup Stack
               PROVE  FALSE
    BY DEF HeapBehindKernel
  <2>1. /\ layout.ebss \in Nat /\ layout.stack_top \in Nat /\ layout.end \in Nat
        /\ layout.ebss <= layout.end /\ layout.stack_top <= layout.end
        /\ layout.sbss \in Nat /\ layout.stack_bottom \in Nat
    BY DEF Inv, Ordered, LayoutType
  <2>2. heap_start \in Nat /\ heap_start >= layout.end
    BY DEF Inv
  <2>3. a \in Int /\ heap_start <= a
    BY <2>2, HeapAssumption DEF Heap
  <2>4. a < layout.ebss \/ a < layout.stack_top
    BY <2>1, <2>3 DEF Bss, Stack
  <2>5. QED
    BY <2>1, <2>2, <2>3, <2>4
<1>2. QED
  BY <1>1, Invariance, PTL

(* alloc::init accepts the heap. *)
THEOREM HeapIsAccepted == Spec => []HeapAccepted
<1>1. Inv => HeapAccepted
  BY DEF Inv, HeapAccepted
<1>2. QED
  BY <1>1, Invariance, PTL
=============================================================================
