------------------------- MODULE AllocatorRoutines -------------------------
(***************************************************************************)
(* The layers over EarlyAllocator: ThreadSafeEarlyAllocator (allocator.rs, *)
(* ts_...), the global allocator (global.rs) and the interface functions   *)
(* with their flags INITIALIZED and ENABLED (mod.rs).  Sizes and layouts   *)
(* are valid ones; reports and printing are left out.                      *)
(***************************************************************************)
EXTENDS Instructions, TLC

(* allocator.rs: everything happens under the lock, on Some(allocator). *)
WithInstance(step) == <<Lock("ALLOCATOR"), Need("instance"), step>>

(* Mutant: what is under the lock is not looked at again. *)
TsInitUnchecked == <<Lock("ALLOCATOR"), Create>>

TsInit == <<Lock("ALLOCATOR"), NeedNot("instance"), Create>>

TsAlloc == WithInstance(Allocate)
TsDealloc == WithInstance(Release)
TsStats == WithInstance(Ok)
TsIntegrityCheck == WithInstance(Ok)    \* see EarlyAllocator: the heap is well formed
TsSetPurpose == WithInstance(Ok)
TsFreeze == WithInstance(Set("frozen"))
TsPrepareHandover == WithInstance(Call("early_prepare_handover"))

(* The list of blocks is built and boxed by the global allocator. *)
EarlyPrepareHandover == <<Call("early_box_new")>>

-----------------------------------------------------------------------------
(* global.rs *)
SafeAlloc == <<Call("ts_alloc")>>
EarlyBoxNew == <<Call("safe_alloc")>>
GlobalAlloc == <<Call("ts_alloc")>>
GlobalDealloc == <<Call("ts_dealloc"), Ok>>
EarlyBoxDrop == <<Call("global_dealloc")>>
AllocErrorHandler == <<Call("ts_stats"), Call("panic")>>

(* Mutant: the old block is not given back. *)
ReallocKeepsOld == <<Call("global_alloc")>>

Realloc == <<Call("global_alloc"), NeedOk, Call("global_dealloc")>>
ReallocToZero == <<Call("global_dealloc")>>

(* Vec, String, Arc, Box and BTreeMap of liballoc: memory, or the error      *)
(* handler.                                                                  *)
Heap == <<Call("global_alloc"), ElseCall("alloc_error_handler"), Keep>>
Unheap == <<Fetch, Call("global_dealloc")>>

-----------------------------------------------------------------------------
(* mod.rs *)

AllocInit ==
  <<NeedNot("INITIALIZED"), Call("ts_init"), NeedOk, Set("INITIALIZED"),
    Call("ts_integrity_check"), NeedOk, Call("ts_stats"), Ok>>

Enable == <<Set("ENABLED")>>
Disable == <<Clear("ENABLED")>>
Alloc == <<Need("INITIALIZED"), Need("ENABLED"), Call("ts_alloc")>>
AllocZeroed == <<Call("alloc")>>
Dealloc == <<Need("INITIALIZED"), Call("ts_dealloc"), Ok>>
DeallocSafe == <<Need("INITIALIZED"), Call("ts_dealloc")>>
Stats == <<Need("INITIALIZED"), Call("ts_stats")>>
IntegrityCheck == <<Need("INITIALIZED"), Call("ts_integrity_check")>>
PrintStatus == <<Need("INITIALIZED"), Call("stats"), Call("integrity_check")>>
HealthCheck == <<Call("stats")>>
UsageSummary == <<Call("stats")>>
Maintenance == <<Need("INITIALIZED"), Call("integrity_check"), NeedOk, Call("health_check"), Ok>>

(* A list that does not validate is dropped. *)
PrepareHandover ==
  <<Need("INITIALIZED"), Call("integrity_check"), Call("health_check"),
    Call("ts_prepare_handover"), NeedOk,
    Choose, DoneIfOk, Pass, Call("early_box_drop")>>

Freeze ==
  <<Need("INITIALIZED"), Call("print_status"), Call("ts_freeze"), NeedOk, Call("disable")>>

EmergencyReclaim ==
  <<Need("INITIALIZED"), Call("stats"), Call("ts_prepare_handover"), NeedOk,
    Pass, Call("early_box_drop")>>
CreateSnapshot ==
  <<Need("INITIALIZED"), Call("stats"), NeedOk, Call("ts_prepare_handover")>>
PrintDebugInfo ==
  <<Need("INITIALIZED"), Call("stats"), Call("prepare_handover"), NeedOk,
    Pass, Call("early_box_drop")>>

AllocatorCode ==
  [ts_init |-> TsInit, ts_alloc |-> TsAlloc, ts_dealloc |-> TsDealloc,
   ts_stats |-> TsStats, ts_integrity_check |-> TsIntegrityCheck,
   ts_set_purpose |-> TsSetPurpose, ts_freeze |-> TsFreeze,
   ts_prepare_handover |-> TsPrepareHandover,
   early_prepare_handover |-> EarlyPrepareHandover]
  @@
  [safe_alloc |-> SafeAlloc, early_box_new |-> EarlyBoxNew,
   early_box_drop |-> EarlyBoxDrop, global_alloc |-> GlobalAlloc,
   global_dealloc |-> GlobalDealloc, alloc_error_handler |-> AllocErrorHandler,
   realloc |-> Realloc, realloc_to_zero |-> ReallocToZero,
   heap |-> Heap, unheap |-> Unheap]
  @@
  [init |-> AllocInit, enable |-> Enable, disable |-> Disable, alloc |-> Alloc,
   alloc_zeroed |-> AllocZeroed, dealloc |-> Dealloc, dealloc_safe |-> DeallocSafe,
   stats |-> Stats, integrity_check |-> IntegrityCheck, print_status |-> PrintStatus,
   health_check |-> HealthCheck, usage_summary |-> UsageSummary,
   maintenance |-> Maintenance, prepare_handover |-> PrepareHandover,
   freeze |-> Freeze, emergency_reclaim |-> EmergencyReclaim,
   create_snapshot |-> CreateSnapshot, print_debug_info |-> PrintDebugInfo]
=============================================================================
