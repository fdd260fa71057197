# A TLA+ model of nt_rustos

nt_rustos is a small RISC-V supervisor-mode kernel in Rust. It boots, sets up an
early heap, installs a trap system on top of that heap, runs its self tests and
idles. This directory holds TLA+ modules translated from the source, TLC
configurations that check them on small instances, and TLAPS proofs. Paths below
are relative to the kernel's `src/` directory. `PROJECT.json` maps every
definition to the lines it models.

## 1. The system

| Part | State | Operations that change it |
|---|---|---|
| Block metadata and statistics (`init/alloc/metadata.rs`) | header fields and checksum; `AllocStats` counters | `new`, `update_checksum`, `record_*` |
| Early allocator (`init/alloc/allocator.rs`) | headers and free-list links inside the heap, `free_list_head`, `stats`, `frozen`, `next_alloc_id`; the mutex around it | `new`, `alloc`, `alloc_aligned`, `dealloc` (with `coalesce`), `set_purpose`, `freeze`, `integrity_check`, `prepare_handover` |
| Handover (`init/alloc/handover.rs`) | `HandoverInfo`: up to 512 block records, purposes, checksum | `new`, filling, `update_checksum`, `validate` |
| Global allocator (`init/alloc/global.rs`) | none of its own | `GlobalAlloc`, `realloc`, `safe_alloc`, `EarlyBox` and its drop |
| Allocator interface (`init/alloc/mod.rs`) | flags `INITIALIZED`, `ENABLED` | `init`, `enable`, `disable`, `alloc*`, `dealloc*`, `freeze`, `prepare_handover` |
| Trap handler registry (`trap/infrastructure/handler_manager.rs`, `context_manager.rs`, `trap/ds/handler.rs`) | map from trap type and priority to handlers, map from handle to handler | `register`, `unregister`, `transfer_ownership`, `dispatch`, `unregister_for_context` |
| Error manager (`trap/infrastructure/error_manager.rs`, `trap/collections/ring_buffer.rs`) | error handlers, ring-buffer log, panic mode | `register_handler`, `handle_error`, `log_error`, `push`, `pop`, `clear` |
| Trap system (`trap/infrastructure/di`, `trap/api.rs`) | `INITIALIZED`, `GLOBAL_TRAP_SYSTEM` behind a mutex | `initialize_trap_system`, `with_trap_system`, `dispatch_trap`, the public API |
| Trap entry and interrupts (`low_level.rs`, `asm/trap_entry.asm`) | `stvec`, the `SIE` bit, the saved context | `__trap_entry`, `enable_interrupts`, `disable_interrupts`, `restore_interrupts` |
| Life cycle (`lib.rs`, `main.rs`) | boot phase | `init`, `main_loop`, panic handler, `shutdown`, `reboot` |
| SBI calls and console (`util/sbi`, `console.rs`) | none of their own; harts and extensions are the firmware's | `hart_start`, `hart_stop`, probing, reset, printing |

How they interact: `lib.rs` initialises the allocator first, then the trap
system, whose maps, handlers and messages live on that heap. Every trap goes
through the mutex of `GLOBAL_TRAP_SYSTEM` and the mutex of the handler registry;
an unhandled one formats a message and therefore takes the allocator's mutex
too. The panic handler uses both the trap system and the allocator. `shutdown`
asks for handover information, which allocates, and freezes the heap.

What is hard here:

- list, headers and statistics are rewritten piecemeal by split, insert, remove
  and merge, and must agree after any history of calls;
- headers survive in memory after a merge, and `dealloc` trusts what it reads in
  front of the pointer it is given;
- spin mutexes are taken by code that traps, panics or calls back into the same
  component;
- initialisation flags are set before, or tested apart from, the state they
  announce.

`PROJECT.json` lists these hazards line by line.

## 2. What is modelled

| Module | Models |
|---|---|
| `Metadata` | block headers, checksum, `AllocStats` and its updates |
| `BlockLayout` | alignment and size arithmetic of `alloc_aligned` and `find_free_block` |
| `EarlyAllocator` | the allocator, one loop iteration per step, with its clients |
| `GapHeap` | the abstract specification of it: live allocations and gaps |
| `EarlyAllocatorGaps` | the refinement mapping from `EarlyAllocator` to `GapHeap` |
| `Handover` | `HandoverInfo`: block list, purposes, validation, analyses, as operators |
| `AllocatorReports` | `EarlyAllocator` with what reads it: handover, heap walk, analyses |
| `RingBuffer`, `BoundedLog` | the ring buffer, and the log it implements |
| `PriorityMap` | `BTreeMap<u8, Vec<T>>` of the Rust library (external): the order of its iteration, and `Vec::retain` |
| `ErrorCode` | packing and unpacking of error codes |
| `ErrorManager` | error handlers, panic mode and log, with several callers |
| `TrapCause` | `scause` and its decoding to trap types |
| `HandlerManager` | the two handler maps with their locks, with several callers |
| `Instructions`, `AllocatorRoutines`, `TrapRoutines`, `KernelRoutines` | the functions of the allocator interface, the trap system and the life cycle, as sequences of instructions |
| `Kernel` | harts that run these routines; locks, flags, heap, traps, power |
| `TrapEntry` | `trap_entry.asm` instruction by instruction, with nested traps |
| `BootLayout` | `clear_bss` and the placement of the heap |
| `MC...` | instances for TLC: constants, scenarios, and properties that sum over sets |
| `AllocatorInvariant`, `EarlyAllocatorProofs`, `RingBufferProofs`, `PriorityMapProofs`, `ErrorManagerProofs`, `HandlerManagerProofs`, `TrapEntryProofs`, `BootLayoutProofs` | proofs |

### The allocator: `EarlyAllocator`, `GapHeap`

**State.** `hdr` maps addresses to the headers whose bytes are intact, including
those a merge left behind; `next`, `prev` and `free_list_head` are the links. A
block is named by the address of its header. `stats`, `frozen` and
`next_alloc_id` are the fields of the same name. `pc`, `op`, `cur`, `blk`,
`base` and `req` are the locals of the operation in progress. Two variables are
ghosts: `blocks`, the blocks that tile the heap, and `held`, what clients own.

**Actions.** `alloc_aligned` is `AllocRefused`, or `AllocStart`, the search
`FindNext`/`FindNone`, then `TakeWhole` or `TakeSplit`; after a split come the
insertion steps and `SplitDone`. `dealloc` is `DeallocRefused`, or
`DeallocStart`, the insertion steps (`InsertFirst`, `InsertWalk`,
`InsertAfter`), `CoalesceNext` and `CoalescePrev`. `integrity_check` is
`CheckStart`, `CheckHeader`, `CheckEnd`. `SetPurpose` and `Freeze` are one step.
`ClientWrite` lets an owner overwrite its bytes at any moment, also in the
middle of an operation; a grant counts from the step that takes the block, a
little before the call returns.

**Abstractions.** The magic number, the timestamp and padding are left out of
headers. The timestamp is part of the checksum, but every update of it is
followed by a new checksum. `usize` and `u32` arithmetic does not wrap at the
sizes in question. A header that loses any byte counts as invalid: accidental
checksum matches are not considered. Clients free their own pointers, pointers
to freed memory and foreign pointers, but not a pointer that now belongs to
another client. A failed `integrity_check` would leave `pc` at the error it
reports; `IntegrityCheckPasses` says that never happens.

`GapHeap` describes the same calls without headers or list: a request is served
from the lowest gap with room, and refused only if none has room, if it is
malformed or if the heap is frozen. It keeps two traits of the code that a
reader may not expect. The room of a gap is compared with a requirement that
already includes the header, so a gap has to be `HeaderSize` bytes larger than
strictly needed. And only a pointer directly behind its header can be released.

### Handover and reports: `Handover`, `AllocatorReports`

`prepare_handover`, `validate`, the heap walk and the grouping, gap and
memory-map functions read the heap and change nothing, so they are operators on
the state of `EarlyAllocator`. `prepare_handover` is modelled up to the point
where its result is boxed; the boxing, which needs a lock, is in `Kernel`. The
properties are stated in every state between two calls. The analyses (bubble sort by priority, sort by address, gaps, pages,
groups) are compared with reference definitions for the handover list in every
order, since their users may pass any slice of blocks. The table of 512 blocks
is `MaxTracked`, the first 16 blocks that enter the checksum are
`ChecksumBlocks`.

### Errors: `RingBuffer`, `ErrorManager`, `ErrorCode`

`RingBuffer` has the fields of the code (`buffer`, `head`, `tail`, `count`) and
its index arithmetic modulo the capacity; `BoundedLog` is a sequence that drops
its oldest entry. `ErrorManager` gives each caller a program counter:
`handle_error` tests panic mode without the lock (`Gate`), takes the lock,
calls one matching handler per step, logs and returns. Any verdict of a handler
is possible. Errors are packed into codes and the handlers' filters see what is
unpacked. The handlers are a `PriorityMap`, gone through by ascending priority
and in order of registration. `late`, `logged` and `calls` are ghosts.

### Registry: `HandlerManager`, `TrapCause`

`entries` are the shared handler entries; `handlers` and `handle_map` refer to
them by index, which keeps the aliasing of the code: the default page-fault
entry is registered for three trap types, and a transfer of ownership through
one handle is seen through the others. An operation that changes both maps
takes the lock of `handle_map` in one step and works once the other is free, as
in the code; `dispatch` holds the lock of `handlers` while the handlers run,
one per step. The lists of a trap type are a `PriorityMap`. Handles are hashes
of description and trap type; collisions are not considered.

### The composition: `Kernel` and its routines

Here the parts meet, abstracted to what can block, fail or be interrupted. A
function of the code is a sequence of instructions: take a lock, test or set a
flag, call, allocate, free, return. `AllocatorRoutines`, `TrapRoutines` and
`KernelRoutines` hold these sequences, function by function and in the order of
the source. `Kernel` runs them on harts with a stack of frames. A frame owns the
guards of the locks it has taken; they are dropped when it returns, as Rust
does. A call into liballoc (`Vec`, `Box`, `String`, maps) may allocate and may
free, and an allocation may fail, which calls `alloc_error_handler` and panics.
A panic aborts: no guard of an outer frame is dropped. A trap puts the frame of
`handle_trap` on top of whatever the hart was doing.

Six spin locks are modelled (trap system, the two handler maps, error handlers,
log, allocator), and the flags `INITIALIZED` and `ENABLED` of the allocator,
`INITIALIZED` of the trap system apart from the stored system, `frozen`,
`stvec`, panic mode and `SIE`. Memory is a number of blocks of equal size;
`kept` is what the kernel's own data holds, `owned` what clients hold. `padded`
are the blocks whose pointer alignment has moved away from the header: `dealloc`
refuses them, and `realloc`, `EarlyBox` and the global allocator ignore the
refusal. A routine that allocates several times in a row under the same locks is
given one allocation, which may be any of them.

The test suites that `main_loop` runs are routines too: the cases of the
allocator's suite, each kind once, between the two snapshots that
`run_alloc_tests` takes. The console and the SBI suite neither lock nor
allocate.

The circumstances are a constant of the specification: a scenario says which
harts boot, whether the kernel is initialised already, how much memory there is,
whether an allocation may fail although there is some, whether pointers may be
padded, what clients call and where traps may come. `Init`
chooses one of `Scenarios`, and it never changes. The functions of the hardware
and the firmware are external: the firmware may refuse a reset.

### Trap entry and boot layout

`TrapEntry` executes the assembly one instruction at a time on `sp`, `t0`, `a0`
and `s0`, which stand for the scratch, return-value and preserved registers;
`memory` is the stack, one context per slot. `sstatus`, `sepc`, `scause` and
`stval` are saved one by one. The handler may set the return value of the
context, advance its `sepc` over the instruction that trapped (when the trap
came from the code outside), enable interrupts, be interrupted, and cause
exceptions itself. `interrupted` is a ghost
stack of what each trap has found.

`BootLayout` takes the addresses of the linker as a record and runs the two
loops of `clear_bss` byte by byte, then the parameter checks of `alloc::init`.

## 3. Runs

| Run | Checks | Result |
|---|---|---|
| `early_allocator` | safety of the allocator, `DoubleFreeCaught`, refinement of `GapHeap` | holds, 38,860 states |
| `fragmentation` | longer histories, with moved pointers: statistics, refinement, termination; every report agrees with the heap | holds, 151,258 |
| `ring_buffer` | one window, refinement of `BoundedLog` | holds, 372 |
| `error_manager` | handler order, results, panic mode, log, termination | holds, 335,180 |
| `handler_manager` | the two maps, authorisation, dispatch, termination | holds, 80,542 |
| `kernel` | seven scenarios: ownership of memory, lock order, causes of panics, freezing, termination, boot | holds, 186,607 |
| `trap_entry` | context and exact return of nested traps | holds, 36,623 |
| `boot_layout` | `.bss` cleared around the stack, heap behind the kernel | holds, 8,480 |
| `release` | `OwnPtrsReleasable` | violated |
| `handover` | `HandoverValidates` | violated |
| `unregister` | `UnregisterRemovesHandler` | violated |
| `boot_idle` | `BootReachesIdle` | violated |

### What the passing runs show

**Allocator.** After any history of calls the heap is tiled by its blocks, the
free list links exactly the free ones, grants are disjoint, statistics are
right. Between calls, every grant that fits the table is found in the handover
list (`GrantsAreDescribed`), also when alignment has moved the pointer inside
its block; gaps computed from that list match the books (`GapsMatchBooks`); and
the heap walk of `validate_heap` finds nothing wrong (`HeapValidates`).

**Concurrent registry and error manager.** The agreement properties of the
registry (`SoleHandlersAgree`, `RemovalAuthorised`, `ContextLeavesNothing`) are
stated for handlers whose description belongs to one registration only
(`Sole`), which the documentation of `register_trap_handler` asks for; this
excludes clients that use the description of a default handler. The run
`unregister` shows what happens to the others. `DispatchCoversType` holds without that restriction.
In the error manager an error reaches the handlers that match it in their order
and gets the result of their verdicts (`HandlersCalledInOrder`), it is logged
once (`LoggedOnce`), and one that is reported in panic mode and is not fatal
reaches no handler (`PanicModeGate`), whatever the other caller reports
meanwhile. The log is the ring buffer, which keeps the newest entries
(`ImplementsBoundedLog`).

**Kernel.** One run covers all scenarios.

- *Memory.* Whatever two harts do at once with `init`, `freeze`, `enable`,
  `alloc`, `dealloc` and `realloc`, no block is pulled away from its owner
  (`OwnedAreLive`): both may pass the test of `INITIALIZED`, and only the test
  under the lock keeps the second from replacing the heap. The same test keeps a
  frozen allocator from being replaced by a fresh one (`FrozenIsFinal`).
- *Loss.* A block that somebody has allocated keeps an owner until it is freed,
  through every early return of `realloc` and `EarlyBox` (`NoBlockLost`), except
  in the two ways in which `dealloc` refuses an owner's pointer: the heap is
  frozen, or the pointer is padded. Padded blocks do get lost, by the defect
  that `release` shows; the property says that there is no third way.
- *Locks.* No chain of calls takes two locks in opposite orders or the same one
  twice (`LockOrder`), except in a trap or panic that came while the hart held a
  lock, and in `prepare_handover`. The exceptions name an exposure: there the
  hart does hang. Calls that do not meet one of them return, and so do the
  traps between calls (`CallsReturn`).
- *Panics* have two causes only (`PanicCauses`): no memory, or a trap that
  interrupts `initialize_trap_system`, which announces the system before it is
  stored.
- *Boot.* With enough memory and no trap `init` leaves both subsystems
  initialised, the trap system on the heap and nothing else, and no lock held,
  when the tests begin (`BootInitialises`). That boot does not get past the tests
  is the run `boot_idle`.

### What the violations show

- `release`: `alloc_aligned` returns an address rounded up to the alignment, and
  `dealloc` looks for the header directly in front of it. With padding in
  between it answers `CorruptedHeader` and the block is never returned. The
  shortest trace is one allocation aligned to 64; with alignment 8 it happens
  after an allocation of odd size.
- `handover`: `prepare_handover` writes the size of the heap where its end
  belongs. On a heap whose address is above its size, as on the target, `validate`
  answers "Invalid heap range" from the first state on.
- `unregister`: the handler is removed from the first trap type that has one of
  the same description and priority, which need not be the handle's.
- `boot_idle`: `prepare_handover` boxes its result while it holds the allocator's
  lock, and waits for itself. The allocator's suite takes a snapshot before its
  first case, so boot hangs there and never gets to the idle loop. `shutdown()`
  makes the same call and never switches off (`lib.rs:231`, against `lib.rs:241`).

`findings` in `PROJECT.json` quotes the lines that say otherwise.

### Other differences between text and code

Met while translating, and kept in the model as the code has them; no run is
devoted to them.

- The address in a handover record is called the user data address
  (`init/alloc/handover.rs:182`). It is the first byte behind the header, which
  is not what the client was given when alignment has moved the pointer;
  `GrantsAreDescribed` says that the client's bytes are inside the record all
  the same.
- The largest free block is set once and never measured again
  (`init/alloc/metadata.rs:229`), so the estimate never exceeds the threshold
  from which fragmentation is to be reported (`metadata.rs:281`, `:299`).
- `register_error_handler` registers with an error manager that it has just made
  and drops when it returns (`trap/api.rs:164`), so the error manager of the
  running kernel has no handler. What `error_manager` shows holds of
  `HeapErrorManager` by itself.
- Ages are differences between two unrelated counters
  (`init/alloc/handover.rs:238`).
- The end of a context also removes handlers of others with the same description
  and priority (`handler_manager.rs:186`), and `transfer_ownership` does not look
  at the protection level (`handler_manager.rs:131`).
- The flag of the trap system is set before the system is stored
  (`di/mod.rs:56`); a panic in between panics again in the panic handler.
- The global allocator does not test `ENABLED` (`init/alloc/global.rs:160`).
- `enable_interrupts` uses the instruction that clears `SIE`
  (`low_level.rs:62`).
- `sp` is saved after it was lowered (`trap_entry.asm:20`). The return path loads
  that value and adds the size of the context, so `ReturnExact` holds all the
  same.

### Bounds

- **Allocator runs.** The target's header (48) and list-node (16) sizes. A heap
  of 448 bytes holds up to six minimal blocks. Sizes 0, 8 and 41 are malformed,
  below the minimum and odd; alignments 3, 8 and 64 are malformed, ordinary and
  larger than the header. `MaxOps` bounds the calls that `AllocStats` counts: 4,
  enough for two allocations and two frees in any order, and 7 in
  `fragmentation`, enough to free a block between two free ones and for walks
  over several list nodes (the shortest takes four allocations and three frees).
  There the heap has 336 bytes, five minimal blocks; after a request of 100
  bytes the next block is not aligned to 8, so pointers are moved. The table
  holds three blocks and the memory map four pages, so that both overflow, and a purpose can
  be set, so that blocks differ in priority.
- **`ring_buffer`.** Capacity 3 with three items: every offset and fill level.
- **`error_manager`.** Two callers, two handlers, three errors, capacity 2: the
  ring overwrites, and an error is reported on each side of the switch to panic
  mode.
- **`handler_manager`.** Two callers and five operations, on the default
  handlers (one entry for three page faults, one for illegal instructions) and
  four handlers of clients; `scause` has five bits, which covers every code the
  decoding distinguishes.
- **`handover`.** The same heap at an address above its size, two calls. The
  violation needs none.
- **`kernel`.** Seven scenarios. Two harts use an allocator that is not
  initialised: two blocks, four calls. Two harts use the trap system: twelve
  blocks, two calls, one trap; every call but `drop_context` holds the lock of
  the whole system. One hart makes three calls with one trap. One hart boots undisturbed; one boots with a trap at any instruction and
  allocations that may fail. One hart calls any function of the interfaces with a
  trap at any instruction, or any two with a trap between them, and again allocations may fail. The trap system takes five blocks of its own,
  so at most seven are free for calls. Two harts meet at each lock in every
  pairing of the calls of a scenario; longer cycles are excluded by `LockOrder`,
  which looks at one hart at a time.
- **`boot_idle`.** The undisturbed boot alone.
- **`trap_entry`.** Room for three contexts, so traps nest three deep.
- **`boot_layout`.** Every order of `.bss`, stack and kernel end up to address
  5, that is, every way in which they touch, overlap or are empty.

### Fairness

`OperationsComplete` of the allocator assumes weak fairness of `Step`: the code
waits for nothing inside its loops. In `ErrorManager`, `HandlerManager` and
`Kernel` every caller or hart is given weak fairness of its own steps: a hart
that can execute does so. Taking a spin lock is a step that is enabled while
the lock is free, and weak fairness says nothing of a hart that is overtaken
again and again; with the calls and traps bounded that cannot go on for ever,
so no stronger assumption is needed. Spin locks that are not fair may starve a
hart under unbounded contention, which these runs do not exclude. No fairness is
assumed of clients, traps or firmware. Deadlock is not checked in `Kernel` and
`HandlerManager`, where calls run out and the machine halts or is switched off,
nor where the algorithm simply ends; there the liveness properties do that work.

## 4. Proofs

| Theorem | States |
|---|---|
| `Invariance` (allocator) | `IInv` |
| `TypeCorrectness` | `TypeOK` |
| `TilingTheorem` | `HeapTiled` |
| `FreeListTheorem` | `FreeListExact` |
| `CoalescingTheorem` | `FullyCoalesced` |
| `AllocIdTheorem` | `AllocIdsUnique` |
| `SeparationTheorem` | `GrantsAreSeparate` |
| `OwnershipTheorem` | `AllocatedMeansOwned` |
| `IntegrityTheorem` | `IntegrityCheckPasses` |
| `EmptyHeapTheorem` | `EmptyHeapIsWhole` |
| `DoubleFreeTheorem` | `DoubleFreeCaught` |
| `Refinement` | `ImplementsGapHeap` |
| `WindowIsExact` | `WindowExact` |
| `RingBufferImplementsLog` | `ImplementsBoundedLog` |
| `HandlersAreCalledInOrder` | `HandlersCalledInOrder` |
| `PanicModeIsGate` | `PanicModeGate` |
| `ErrorsAreLoggedOnce` | `LoggedOnce` |
| `MapsAgree` | `SoleHandlersAgree` |
| `DispatchCovers` | `DispatchCoversType` |
| `RemovalsAuthorised` | `RemovalAuthorised` |
| `ContextsLeaveNothing` | `ContextLeavesNothing` |
| `HandlersSeeTheirTrap` | `ContextIsOwn` |
| `TrapsReturnExactly` | `ReturnExact` |
| `BssCleared` | `BssClearedAroundStack` |
| `HeapIsBehindKernel` | `HeapBehindKernel` |
| `HeapIsAccepted` | `HeapAccepted` |

### The allocator

`EarlyAllocatorProofs` proves, for every heap position and size, every set of
requests and pointers and every `MaxOps` that satisfy the named assumptions
(`SizesAssumption`, `HeapAssumption`, `RequestAssumption`, `ClientAssumption`):
`TypeOK`, `HeapTiled`, `FreeListExact`, `FullyCoalesced`, `GrantsAreSeparate`,
`AllocatedMeansOwned`, `IntegrityCheckPasses`, `AllocIdsUnique`,
`EmptyHeapIsWhole` and `DoubleFreeCaught`.

None of these is inductive alone. `IInv` (in `AllocatorInvariant`) adds:

- `HeadersSound`: headers of blocks validate and are large enough for a list
  node, and headers left behind by merges read as free;
- `Ownership`: the allocated blocks are those clients hold, and each grant lies
  inside its block, behind the header;
- `Coalesced`: `FullyCoalesced` with what each half of `coalesce` has achieved;
- `Control`: what the locals mean at each `pc`; for instance, during insertion
  `cur` is a listed block below the one to insert.

The list is described without sequences or induction: `IsList` says that each
link is the nearest listed block on its side. Two lemmas, `RemoveKeepsList` and
`InsertKeepsList`, carry this through all list operations. `AlignedAddr` and
`RequiredSpace` are the facts about rounding. One lemma per action shows that it
preserves `IInv`; the actions that change headers, list, blocks or owners are
in `AllocatorInvariant`, the others in `EarlyAllocatorProofs`, where `NextIInv`
combines them.

`Refinement` then shows that the allocator implements `GapHeap`, for the same
constants. The mapping sends the owned blocks to the live allocations; the
abstract specification knows nothing of headers and list. Most of the argument is
the lemma `GapsAreFreeBlocks`: while no insertion or merge is under way, the gaps
between live allocations are exactly the free blocks, because the blocks tile
the heap (so the space in front of a block is the block before it,
`BlockBefore`, found as the largest one below) and no two free blocks touch.
`Control` says that the search has found no room below `cur`, so the block taken
is the lowest gap with room (`TakeWholeStep`, `TakeSplitStep`) and a search that
ends has met every gap (`RefuseStep`). A release is one step at `DeallocStart`
(`ReleaseStep`); insertion and merging are invisible above
(`HeapLooksTheSame`). `StepImplements` has one case per action.

### The ring buffer

`RingBufferProofs` proves `WindowExact` and the refinement of `BoundedLog` for
every capacity (`CapacityAssumption`: at least 1) and every set of items. The
inductive invariant is `TypeOK` with `WindowExact`: `tail` is `count` slots
behind `head`, modulo the capacity, and exactly the slots of that window are
filled. The lemma `RemainderWraps` replaces the remainder by at most one
subtraction, after which one case per action is linear arithmetic. The
refinement maps the window to a sequence; each operation maps to the operation
of the same name of the log.

### Priority maps

`PriorityMapProofs` shows what the loops of `PriorityMap` produce for every
finite set of keys. `RetainEmbeds`: there is an increasing map from the places
of the result to those of the kept elements in the original, and it misses none.
`InKeyOrderPlaces`: each place of the iteration is a place of one of the lists,
in lexicographic order of key and place, and none is left out. The recursive
functions are defined over numbers up to a length; that they exist and satisfy
these facts is shown by considering the least number for which it fails
(`LeastElement`).

### The error manager

`ErrorManagerProofs` proves `HandlersCalledInOrder`, `PanicModeGate` and
`LoggedOnce` for any set of callers, every capacity of the ring, all priorities,
handlers and reports that satisfy the named assumptions (priorities are finitely
many numbers, entries and reports are made of the declared sources and levels,
`Nobody` is no caller, the capacity is at least 1). The inductive invariant has
three parts. `CallerInv` says of each caller that the handlers it has called,
followed by those it has still to call, are the matching ones, as long as it
holds the lock; that `Handled` can only be the last verdict; and that behind the
gate a fatal error finds panic mode on. It survives the steps of the others
because the map of handlers changes only before the first error and panic mode is
never switched off (`CallerKept`). `LogInv` says that each error is open with
exactly one caller or logged exactly once. `RingInv` says that the ring yields
the latest `Capacity` entries of everything ever logged; `LatestAppend` is the
step of that window, and `RingBufferProofs`, instantiated with log entries,
supplies what a push does to the ring.

### The handler registry

`HandlerManagerProofs` proves `SoleHandlersAgree`, `DispatchCoversType`,
`RemovalAuthorised` and `ContextLeavesNothing` for any set of actors,
registrations, requesters, contexts and trap causes and every finite set of
priorities that contains that of the default handlers (`PrioritiesAssumption`).
The inductive invariant is `Registry`, about the two maps, with `ActorInv` for
each actor. `Registry` places every entry in the list of its priority, oldest
first (`Placed`, `Sorted`), gives every handle the name of its entry (`Named`,
`Known`), and says for sole descriptions that what is listed has its handle
(`Held`) and what has a handle is listed (`Listed`). `ActorInv` says who holds
which lock and what a call relies on between its two steps: a handle that was
found free is still free, a permission that was tested still holds, a list being
dispatched has not changed. Each operation has a lemma for the maps
(`RegisterMaps`, `UnregisterMaps`, `TransferMaps`, `ContextMaps`) and one for
the actors. Uniqueness of a handler in its list follows from `Held` and
`Sorted`: two entries of the same sole description would share a handle and
hence be the same entry. An attempt to prove the properties showed that `Sole`
has to exclude the description of the default handler for illegal instructions
when a client uses it too, which no registration of the run does.

### The trap entry

`TrapEntryProofs` proves `ContextIsOwn` and `ReturnExact` for every size of the
stack and thus every depth of nesting (`ConstantsAssumption`). A context that is
complete must survive all later traps, and the newest one is complete only in
part. The invariant therefore has one conjunct for the outer traps (`OuterHeld`:
each has a full context in the slot below its stack pointer; `Stacked`: these
slots are consecutive; `Nested`: an outer trap was interrupted in its handler or
before the first instruction of the return code) and one for each phase of the
newest (`Entering`, `Handling`, `Returning`, `Inside`, `Outside`), which says
what the code executed so far has saved or restored.

### The boot layout

`BootLayoutProofs` proves `BssClearedAroundStack`, `HeapBehindKernel` and
`HeapAccepted` for every layout, alignment and heap size that satisfy
`LayoutAssumption` (regions are ordered and end before the kernel does, the
heap fits the address space) and `HeapAssumption`. The invariant says which
bytes each loop has written when it is at `addr`.

### Only model-checked

- **Liveness** (`OperationsComplete` of the allocator and of the registry,
  `ErrorsGetResult`, `CallsReturn`, `BootInitialises`) is out of the prover's
  reach.
- **Sums and walks.** `StatsDescribeHeap` adds up the sizes of sets of blocks, and
  `GrantsAreDescribed`, `HeapValidates`, `GapsMatchBooks` and
  `AnalysesFollowHeap` read what walks, folds and sorts
  over the heap compute; all of them need induction over data.
- **The composition.** The properties of `Kernel` (`OwnedAreLive`, `NoBlockLost`,
  `LockOrder`, `PanicCauses`, `FrozenIsFinal`) depend on
  the code of all routines at once and are checked for the scenarios above.

`AllocIdsUnique`, `EmptyHeapIsWhole` and `HeapAccepted` are proved and not
checked by a run.

## 5. Not modelled

- **Output.** `console.rs` macros, `print_*` and `Display` implementations and
  `print_sbi_info` format text and change no state.
- **Contents of memory.** Zeroing in `alloc_zeroed` and copying in `realloc`;
  the model keeps who owns a block, not what is in it, except for headers.
- **SBI calls** other than the reset (`util/sbi/api.rs`). Hart, timer, IPI,
  remote-fence, PMU and console wrappers hand their arguments to the firmware,
  decode its answer and keep no state.
- **Unused code.** `TaskContext`, the vectored trap mode, the trait
  `HandoverProtocol` (nothing implements it), `MemoryPermissions` and
  `set_purpose` of `init/alloc/mod.rs`, which does nothing.
- **Ages and leak detection** (`init/alloc/handover.rs`). Timestamps are
  abstracted away; see "Other differences".
- **Comparison of snapshots.** `MemorySnapshot::compare` subtracts counters for
  a report.
- **Stack depth of the kernel.** Routines have unlimited stack; `TrapEntry`
  alone bounds it.
- **Health judgements** (`check_health`, `MemoryInfo::is_healthy`) compare
  counters with thresholds and change nothing.
- **Tests** (`test/`) beyond their calls: what a case compares and prints. The
  calls themselves are in `KernelRoutines`.
