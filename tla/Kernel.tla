------------------------------- MODULE Kernel -------------------------------
(***************************************************************************)
(* Harts that execute the kernel's routines.  A hart has a stack of        *)
(* frames; a frame releases its locks when it returns.  Panics do not      *)
(* unwind (Cargo.toml: panic = "abort"): the frames below a panic, and     *)
(* their locks, stay.  A trap pushes the frame of handle_trap on whatever  *)
(* the hart was doing.                                                     *)
(***************************************************************************)
EXTENDS KernelRoutines, FiniteSets, FiniteSetsExt, Naturals

CONSTANTS
  Harts, Nobody,
  Scenarios         \* the circumstances the kernel may find itself in, each with
                    \*   boot        the harts that start in rust_main
                    \*   active      the harts that run client code
                    \*   booted      kernel_init has returned before the start
                    \*   blocks      the number of blocks the heap has room for
                    \*   fragmented  an allocation may fail although a block is left
                    \*   padded      a pointer may be moved up to meet its alignment
                    \*   calls       what client code calls
                    \*   trapAt      the kinds of step at which a trap may come
                    \*   maxCalls, maxTraps

NoBlock == 0

ASSUME KernelAssumption ==
  /\ Nobody \notin Harts
  /\ \A s \in Scenarios :
       /\ s.boot \subseteq s.active /\ s.active \subseteq Harts
       /\ {s.booted, s.fragmented, s.padded} \subseteq BOOLEAN
       /\ s.blocks \in Nat \ {0}
       /\ s.calls \subseteq DOMAIN Code
       /\ s.maxCalls \in Nat /\ s.maxTraps \in Nat

Flags ==
  {"INITIALIZED", "ENABLED", "instance", "frozen", "TRAP_INITIALIZED", "trap_system",
   "stvec", "panic_mode", "SIE"}

Mutexes == {"TRAP_SYSTEM", "HANDLE_MAP", "HANDLERS", "ERROR_HANDLERS", "LOG", "ALLOCATOR"}

VARIABLES
  scenario,         \* never changes
  flags, mutex,
  live,             \* blocks allocated in the heap
  padded,           \* those with padding between the header and the pointer
  owned, kept,      \* blocks of the clients of each hart, and of the kernel's data
  stack,            \* per hart, the top first
  power,
  calls, traps      \* how many there have been

vars == <<scenario, flags, mutex, live, padded, owned, kept, stack, power, calls, traps>>

Blocks == 1 .. scenario.blocks

(* The trap system, which kernel_init leaves on the heap: the boxed managers *)
(* and four handlers                                                         *)
TrapSystemBlocks == 1 .. 5

Frame(fn, arg, by) ==
  [fn |-> fn, pc |-> 1, ok |-> TRUE, arg |-> arg, ret |-> NoBlock,
   guards |-> {}, by |-> by]

(* Before kernel_init, and when it is done.  ENABLED is TRUE from the start. *)
BootState(done) ==
  /\ flags = [f \in Flags |->
                \/ f = "ENABLED"
                \/ done /\ f \in {"INITIALIZED", "instance", "TRAP_INITIALIZED", "trap_system",
                                  "stvec"}]
  /\ mutex = [m \in Mutexes |-> Nobody]
  /\ live = (IF done THEN TrapSystemBlocks ELSE {})
  /\ kept = live /\ padded = {}

Init ==
  /\ scenario \in Scenarios
  /\ BootState(scenario.booted)
  /\ owned = [h \in Harts |-> {}]
  /\ stack = [h \in Harts |-> IF h \in scenario.boot
                              THEN <<Frame("rust_main", NoBlock, "call")>> ELSE << >>]
  /\ power = "on"
  /\ calls = 0 /\ traps = 0

-----------------------------------------------------------------------------
Top(h) == Head(stack[h])

(* The step hart h is about to take *)
At(h) ==
  IF stack[h] = << >> THEN Idle
  ELSE LET code == Code[Top(h).fn]
       IN IF Top(h).pc > Len(code) THEN Return ELSE code[Top(h).pc]

Op(h) == At(h).op
Of(h) == At(h).of

Become(h, frame) == stack' = [stack EXCEPT ![h] = <<frame>> \o Tail(@)]

After(frame) == [frame EXCEPT !.pc = @ + 1]

Advance(h) == Become(h, After(Top(h)))

Push(h, fn) ==
  stack' = [stack EXCEPT ![h] = <<Frame(fn, Top(h).arg, "call"), After(Head(@))>> \o Tail(@)]

(* What a client has after its call: a new block, or the one it lent. *)
Back(frame) ==
  IF frame.ret # NoBlock THEN {frame.ret}
  ELSE IF frame.fn = "realloc" THEN {frame.arg} ELSE {}

Receive(caller, frame, ok) ==
  [caller EXCEPT !.ok = ok, !.ret = IF frame.ret # NoBlock THEN frame.ret ELSE @]

(* Return: the guards of the frame are dropped, the caller gets the result.  *)
Pop(h, ok) ==
  LET rest == Tail(stack[h]) IN
  /\ stack' = [stack EXCEPT ![h] =
                 IF Top(h).by = "call" /\ rest # << >>
                 THEN <<Receive(Head(rest), Top(h), ok)>> \o Tail(rest) ELSE rest]
  /\ owned' = IF Top(h).by = "client" THEN [owned EXCEPT ![h] = @ \cup Back(Top(h))] ELSE owned
  /\ mutex' = [m \in Mutexes |-> IF m \in Top(h).guards THEN Nobody ELSE mutex[m]]

bounds == <<scenario, calls, traps>>

-----------------------------------------------------------------------------
Acquire(h) ==
  /\ Op(h) = "lock"
  /\ mutex[Of(h)] = Nobody
  /\ mutex' = [mutex EXCEPT ![Of(h)] = h]
  /\ Become(h, After([Top(h) EXCEPT !.guards = @ \cup {Of(h)}]))
  /\ UNCHANGED <<flags, live, padded, owned, kept, power, bounds>>

(* Whether an early return does not return *)
GoesOn(h) ==
  \/ Op(h) = "need" /\ flags[Of(h)]
  \/ Op(h) = "neednot" /\ ~flags[Of(h)]
  \/ Op(h) = "needok" /\ Top(h).ok
  \/ Op(h) = "doneifok" /\ ~Top(h).ok

Test(h) ==
  /\ Op(h) \in {"need", "neednot", "needok", "doneifok"}
  /\ IF GoesOn(h) THEN Advance(h) /\ UNCHANGED <<owned, mutex>>
     ELSE Pop(h, Op(h) = "doneifok")
  /\ UNCHANGED <<flags, live, padded, kept, power, bounds>>

ReturnStep(h) ==
  /\ Op(h) = "return"
  /\ Pop(h, Top(h).ok)
  /\ UNCHANGED <<flags, live, padded, kept, power, bounds>>

Store(h) ==
  /\ Op(h) \in {"set", "clear"}
  /\ flags' = [flags EXCEPT ![Of(h)] = (Op(h) = "set")]
  /\ Become(h, After([Top(h) EXCEPT !.ok = TRUE]))
  /\ UNCHANGED <<mutex, live, padded, owned, kept, power, bounds>>

CallRoutine(h) ==
  /\ Op(h) = "call"
  /\ Push(h, Of(h))
  /\ UNCHANGED <<flags, mutex, live, padded, owned, kept, power, bounds>>

CallUnlessOk(h) ==
  /\ Op(h) = "elsecall"
  /\ IF Top(h).ok THEN Advance(h) ELSE Push(h, Of(h))
  /\ UNCHANGED <<flags, mutex, live, padded, owned, kept, power, bounds>>

Require(h) ==
  /\ Op(h) = "expect"
  /\ IF flags[Of(h)] THEN Advance(h) ELSE Push(h, "panic")
  /\ UNCHANGED <<flags, mutex, live, padded, owned, kept, power, bounds>>

CompareExchange(h) ==
  /\ Op(h) = "cas"
  /\ flags' = [flags EXCEPT ![Of(h)] = TRUE]
  /\ IF flags[Of(h)] THEN Push(h, "panic") ELSE Advance(h)
  /\ UNCHANGED <<mutex, live, padded, owned, kept, power, bounds>>

Outcome(h) ==
  /\ Op(h) \in {"ok", "fail", "choose"}
  /\ \E ok \in BOOLEAN :
       /\ Op(h) # "choose" => ok = (Op(h) = "ok")
       /\ Become(h, After([Top(h) EXCEPT !.ok = ok]))
  /\ UNCHANGED <<flags, mutex, live, padded, owned, kept, power, bounds>>

(* A new EarlyAllocator takes the whole heap to be free and is not frozen. *)
CreateHeap(h) ==
  /\ Op(h) = "create"
  /\ flags' = [flags EXCEPT !["instance"] = TRUE, !["frozen"] = FALSE]
  /\ live' = {} /\ padded' = {}
  /\ Become(h, After([Top(h) EXCEPT !.ok = TRUE]))
  /\ UNCHANGED <<mutex, owned, kept, power, bounds>>

(* Blocks have no identity but their number: the smallest free one is taken. *)
(* Whether the pointer lies directly behind the header is up to alignment    *)
(* and place.                                                                *)
AllocateBlock(h) ==
  /\ Op(h) = "allocate"
  /\ \E b \in {NoBlock, Min((Blocks \ live) \cup {Max(Blocks) + 1})} :
       /\ b # NoBlock => b \in Blocks /\ ~flags["frozen"]
       /\ b = NoBlock => flags["frozen"] \/ Blocks \subseteq live \/ scenario.fragmented
       /\ live' = live \cup ({b} \ {NoBlock})
       /\ \/ padded' = padded
          \/ scenario.padded /\ b # NoBlock /\ padded' = padded \cup {b}
       /\ Become(h, After([Top(h) EXCEPT !.ok = (b # NoBlock), !.ret = b]))
  /\ UNCHANGED <<flags, mutex, owned, kept, power, bounds>>

(* The header is looked for directly in front of the pointer; padding there  *)
(* reads as a corrupted one.                                                 *)
ReleaseBlock(h) ==
  LET ok == ~flags["frozen"] /\ Top(h).arg \in live \ padded IN
  /\ Op(h) = "release"
  /\ live' = IF ok THEN live \ {Top(h).arg} ELSE live
  /\ Become(h, After([Top(h) EXCEPT !.ok = ok]))
  /\ UNCHANGED <<flags, mutex, padded, owned, kept, power, bounds>>

Move(h) ==
  /\ Op(h) \in {"pass", "keep"}
  /\ kept' = IF Op(h) = "keep" THEN kept \cup {Top(h).ret} ELSE kept
  /\ Become(h, After([Top(h) EXCEPT !.ret = NoBlock,
                                    !.arg = IF Op(h) = "pass" THEN Top(h).ret ELSE @]))
  /\ UNCHANGED <<flags, mutex, live, padded, owned, power, bounds>>

(* Without data to drop the routine has nothing to give back and returns. *)
FetchKept(h) ==
  /\ Op(h) = "fetch"
  /\ IF kept = {} THEN Pop(h, TRUE) /\ UNCHANGED kept
     ELSE /\ kept' = kept \ {Max(kept)}
          /\ Become(h, After([Top(h) EXCEPT !.arg = Max(kept)]))
          /\ UNCHANGED <<owned, mutex>>
  /\ UNCHANGED <<flags, live, padded, power, bounds>>

(* system_reset; an error comes back and the next step is taken. *)
FirmwareCall(h) ==
  /\ Op(h) = "firmware"
  /\ \/ power' = Of(h) /\ UNCHANGED stack
     \/ power' = power /\ Advance(h)
  /\ UNCHANGED <<flags, mutex, live, padded, owned, kept, bounds>>

SwitchOff(h) ==
  /\ Op(h) = "poweroff"
  /\ power' = "off"
  /\ UNCHANGED <<flags, mutex, live, padded, owned, kept, stack, bounds>>

Step(h) ==
  /\ power = "on"
  /\ \/ Acquire(h) \/ Test(h) \/ ReturnStep(h) \/ Store(h)
     \/ CallRoutine(h) \/ CallUnlessOk(h) \/ Require(h) \/ CompareExchange(h) \/ Outcome(h)
     \/ CreateHeap(h) \/ AllocateBlock(h) \/ ReleaseBlock(h) \/ Move(h) \/ FetchKept(h)
     \/ FirmwareCall(h) \/ SwitchOff(h)

-----------------------------------------------------------------------------
TakesBlock == {"dealloc", "dealloc_safe", "global_dealloc", "early_box_drop",
               "realloc", "realloc_to_zero"}

(* Client code calls the kernel when the hart has nothing else to do. *)
Invoke(h) ==
  /\ power = "on"
  /\ Op(h) = "idle"
  /\ calls < scenario.maxCalls                                   \* bound
  /\ calls' = calls + 1
  /\ \E fn \in scenario.calls :
       \E b \in IF fn \in TakesBlock THEN owned[h] ELSE {NoBlock} :
         /\ owned' = [owned EXCEPT ![h] = @ \ {b}]
         /\ stack' = [stack EXCEPT ![h] = <<Frame(fn, b, "client")>> \o @]
  /\ UNCHANGED <<scenario, flags, mutex, live, padded, kept, power, traps>>

(* An exception of the step at hand, or an interrupt *)
Trap(h) ==
  /\ power = "on"
  /\ flags["stvec"]
  /\ Op(h) \in scenario.trapAt
  /\ traps < scenario.maxTraps                                   \* bound
  /\ traps' = traps + 1
  /\ stack' = [stack EXCEPT ![h] = <<Frame("handle_trap", NoBlock, "trap")>> \o @]
  /\ UNCHANGED <<scenario, flags, mutex, live, padded, owned, kept, power, calls>>

Next == \E h \in scenario.active : Step(h) \/ Trap(h) \/ Invoke(h)

Spec == Init /\ [][Next]_vars

(* Every hart executes its code; the number of calls and traps is bounded,   *)
(* so that nobody is overtaken for ever at a lock.                           *)
FairSpec == Spec /\ \A h \in Harts : WF_vars(Step(h))

-----------------------------------------------------------------------------
(***************************************************************************)
(* Properties                                                              *)
(***************************************************************************)

Frames(h) == {stack[h][i] : i \in DOMAIN stack[h]}

InFlight(h) == {f.arg : f \in Frames(h)} \cup {f.ret : f \in Frames(h)}

(* What a client or the kernel's data holds is allocated: no second          *)
(* initialisation starts the heap afresh under them, and nothing is freed    *)
(* for somebody else.                                                        *)
OwnedAreLive == kept \cup UNION {owned[h] : h \in Harts} \subseteq live

(* A block is lost only in the two ways dealloc refuses an owner's pointer:  *)
(* the heap is frozen, or alignment has moved the pointer away from its      *)
(* header.  Every other allocated block has an owner or is on its way to     *)
(* one, through every early return of realloc, EarlyBox, the liballoc hooks  *)
(* and the managers.                                                         *)
NoBlockLost ==
  \A b \in live \ padded :
     \/ flags["frozen"]
     \/ b \in kept
     \/ \E h \in Harts : b \in owned[h] \cup InFlight(h)

(* A frozen heap stays as it is, for ever: no enable() and no init() that    *)
(* was under way when freeze() ran puts a new allocator, which is not        *)
(* frozen, in its place.                                                     *)
FrozenIsFinal == [][flags["frozen"] => live' = live /\ flags'["frozen"]]_vars

LockLevel ==
  [TRAP_SYSTEM |-> 1, HANDLE_MAP |-> 2, HANDLERS |-> 3, ERROR_HANDLERS |-> 4, LOG |-> 5,
   ALLOCATOR |-> 6]

(* Locks are taken in one order: a hart that asks for a lock holds only      *)
(* locks that come before it, its own lock not among them.  The exceptions   *)
(* are a lock held by what a trap interrupted or a panic left behind, and    *)
(* the allocator's while the handover list is boxed; no other chain of calls *)
(* locks twice or against the order.                                         *)
LockOrder ==
  \A h \in Harts : Op(h) = "lock" =>
    \A i \in DOMAIN stack[h] : \A m \in stack[h][i].guards :
      \/ LockLevel[m] < LockLevel[Of(h)]
      \/ \E j \in 1 .. i - 1 : \/ stack[h][j].by = "trap"
                               \/ stack[h][j].fn \in {"panic", "early_prepare_handover"}

(* The hart has halted, or waits for a lock it holds itself. *)
Stuck(h) ==
  \/ Op(h) = "halt"
  \/ Op(h) = "lock" /\ mutex[Of(h)] = h

(* In a client's call or in a trap *)
Busy(h) == ~Stuck(h) /\ \E f \in Frames(h) : f.by # "call"

(* Every call of a client and every trap comes to its end: the harts go on   *)
(* where they were, or the machine is switched off or reset, unless a hart   *)
(* has panicked or hung itself, which PanicCauses and LockOrder confine.  No *)
(* hart waits for ever for a lock of another.  As calls and traps are        *)
(* bounded, a time comes when none is under way.                             *)
CallsReturn ==
  (\E h \in Harts : Busy(h)) ~> (power # "on" \/ \A h \in Harts : ~Busy(h))

(* The kernel panics only when it runs out of memory, or when a trap comes   *)
(* while initialize_trap_system is under way: the order of initialisation    *)
(* never fails one of its own checks, and afterwards every trap and every    *)
(* call finds what it expects.                                               *)
PanicCauses ==
  \A h \in Harts : \A j \in DOMAIN stack[h] : stack[h][j].fn = "panic" =>
    \E i \in j + 1 .. Len(stack[h]) :
      \/ stack[h][i].fn = "alloc_error_handler"
      \/ /\ stack[h][i].by = "trap"
         /\ \E k \in i + 1 .. Len(stack[h]) : stack[h][k].fn = "initialize_trap_system"

In(h, fn) == stack[h] # << >> /\ Top(h).fn = fn

(* With enough memory and no trap, boot gets through kernel_init and its     *)
(* verification: the test suites find every flag set, the trap system on the *)
(* heap and nothing else, and no lock held.                                  *)
BootInitialises ==
  <>(~scenario.fragmented /\ scenario.maxTraps = 0
       => \A h \in scenario.boot : In(h, "run_all_tests") /\ BootState(TRUE))

(* With enough memory and no trap, boot goes on to "System ready. Entering   *)
(* idle loop."                                                               *)
BootReachesIdle ==
  \A h \in Harts : h \in scenario.boot => <>(In(h, "main_loop") /\ Op(h) = "idle")
=============================================================================
