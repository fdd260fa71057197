----------------------------- MODULE BootLayout -----------------------------
(***************************************************************************)
(* The first steps after _start (main.rs): clear_bss (lib.rs) zeroes the   *)
(* .bss section byte by byte while it runs on the stack that is part of    *)
(* the section, and init (lib.rs) puts the heap behind the kernel, where   *)
(* alloc::init (init/alloc/mod.rs) accepts it or not.                      *)
(*                                                                         *)
(* The addresses come from the linker, so a layout is a record of them;    *)
(* any two regions may touch, and clear_bss is meant for stacks that lie   *)
(* before, in, across the ends of, or after .bss.                          *)
(***************************************************************************)
EXTENDS Integers

CONSTANTS
  Layouts,             \* the layouts a linker may produce
  Align,               \* alignment of the heap, 16
  HeapSize,            \* heap_size, 2 MB
  MinHeap, MaxHeap,    \* the sizes alloc::init accepts, 64 KB and 1 GB
  AddressLimit         \* 2^64

ASSUME LayoutAssumption ==
  /\ Layouts \subseteq [sbss : Nat, ebss : Nat, stack_bottom : Nat,
                        stack_top : Nat, end : Nat]
  /\ \A l \in Layouts : /\ l.sbss <= l.ebss /\ l.ebss <= l.end
                        /\ l.stack_bottom <= l.stack_top /\ l.stack_top <= l.end
                        /\ 0 < l.end /\ l.end + Align + HeapSize <= AddressLimit

ASSUME HeapAssumption ==
  /\ Align \in Nat \ {0} /\ AddressLimit \in Nat
  /\ MinHeap \in Nat /\ HeapSize \in MinHeap .. MaxHeap /\ MaxHeap \in Nat

VARIABLES
  layout,
  pc,          \* "low" and "high" loop of clear_bss, "init", "running", "halted"
  addr,        \* the next byte of the loop
  cleared,     \* the bytes written
  heap_start   \* where alloc::init was told the heap is, 0 before

vars == <<layout, pc, addr, cleared, heap_start>>

Bss == layout.sbss .. layout.ebss - 1
Stack == layout.stack_bottom .. layout.stack_top - 1
Heap == heap_start .. heap_start + HeapSize - 1

Lesser(a, b) == IF a <= b THEN a ELSE b
Greater(a, b) == IF a >= b THEN a ELSE b

-----------------------------------------------------------------------------
(* Where the two loops end.  A loop that its if-statement skips is one that  *)
(* ends before it begins.                                                    *)
LowEnd == Lesser(layout.ebss, layout.stack_bottom)

(* Mutant: the second loop starts at the bottom of the stack. *)
HighStartBottom == Greater(layout.sbss, layout.stack_bottom)

HighStart == Greater(layout.sbss, layout.stack_top)

Init ==
  /\ layout \in Layouts
  /\ pc = "low" /\ addr = layout.sbss
  /\ cleared = {} /\ heap_start = 0

ClearLow ==
  /\ pc = "low" /\ addr < LowEnd
  /\ cleared' = cleared \cup {addr}
  /\ addr' = addr + 1
  /\ UNCHANGED <<layout, pc, heap_start>>

LowDone ==
  /\ pc = "low" /\ addr >= LowEnd
  /\ pc' = "high" /\ addr' = HighStart
  /\ UNCHANGED <<layout, cleared, heap_start>>

ClearHigh ==
  /\ pc = "high" /\ addr < layout.ebss
  /\ cleared' = cleared \cup {addr}
  /\ addr' = addr + 1
  /\ UNCHANGED <<layout, pc, heap_start>>

HighDone ==
  /\ pc = "high" /\ addr >= layout.ebss
  /\ pc' = "init"
  /\ UNCHANGED <<layout, addr, cleared, heap_start>>

(* Mutant: rounded down. *)
AlignedDown(a) == a - (a % Align)

(* (heap_start + 0xF) & !0xF *)
Aligned(a) == LET x == a + Align - 1 IN x - (x % Align)

(* The parameter checks of alloc::init *)
Accepts(start, size) ==
  /\ start # 0
  /\ MinHeap <= size /\ size <= MaxHeap
  /\ start % Align = 0
  /\ start + size < AddressLimit

(* init: the allocator gets the heap, or the kernel halts. *)
InitHeap ==
  LET start == Aligned(layout.end) IN
  /\ pc = "init"
  /\ heap_start' = start
  /\ pc' = IF Accepts(start, HeapSize) THEN "running" ELSE "halted"
  /\ UNCHANGED <<layout, addr, cleared>>

Next == ClearLow \/ LowDone \/ ClearHigh \/ HighDone \/ InitHeap

Spec == Init /\ [][Next]_vars

-----------------------------------------------------------------------------
(***************************************************************************)
(* Properties                                                              *)
(***************************************************************************)

(* clear_bss never writes to the stack it runs on, nor outside .bss,         *)
(* wherever the stack lies, and when it returns every other byte of .bss is  *)
(* zero: no static that the kernel reads next has been skipped.              *)
BssClearedAroundStack ==
  /\ cleared \subseteq Bss \ Stack
  /\ pc \notin {"low", "high"} => cleared = Bss \ Stack

(* The heap lies behind everything the linker has placed: no block that the  *)
(* allocator hands out overlaps .bss or the boot stack.                      *)
HeapBehindKernel == heap_start # 0 => Heap \cap (Bss \cup Stack) = {}

(* The kernel always gets its heap: alloc::init accepts the address that     *)
(* init computes, for every end of the kernel.                               *)
HeapAccepted == pc # "halted"
=============================================================================
