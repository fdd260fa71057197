------------------------------ MODULE MCKernel ------------------------------
(* Instances of Kernel for TLC *)
EXTENDS Kernel

Anywhere == {i.op : i \in {Lock(""), Need(""), Call(""), Set(""), Allocate, Choose, Idle, Return}}

(* Every function of the kernel's interfaces *)
Interface ==
  {"alloc", "alloc_zeroed", "dealloc", "dealloc_safe", "stats", "integrity_check",
   "print_status", "print_debug_info", "prepare_handover", "freeze", "enable", "disable",
   "emergency_reclaim", "maintenance", "create_snapshot", "ts_set_purpose",
   "early_box_new", "early_box_drop", "realloc", "realloc_to_zero"}
  \cup
  {"register_trap_handler", "unregister_trap_handler", "transfer_handler_ownership",
   "enable_interrupts", "disable_interrupts", "restore_interrupts",
   "report_system_error", "report_fatal_error", "register_error_handler", "drop_context"}
  \cup
  {"get_memory_info", "shutdown", "reboot"}

(* Two harts in an allocator that nobody has initialised yet, with room for  *)
(* two blocks                                                                *)
AllocatorUse ==
  [boot |-> {}, active |-> {1, 2}, booted |-> FALSE, blocks |-> 2, fragmented |-> FALSE,
   padded |-> TRUE,
   calls |-> {"init", "alloc", "dealloc", "realloc", "freeze", "enable"},
   trapAt |-> {}, maxCalls |-> 4, maxTraps |-> 0]

(* Two harts that use the trap system, with a trap between their calls; only *)
(* drop_context does so without the lock of the whole system.                *)
TrapSystemUse ==
  [boot |-> {}, active |-> {1, 2}, booted |-> TRUE, blocks |-> 12, fragmented |-> FALSE,
   padded |-> FALSE,
   calls |-> {"register_trap_handler", "unregister_trap_handler", "drop_context"},
   trapAt |-> {"idle"}, maxCalls |-> 2, maxTraps |-> 1]

(* A hart with longer histories of calls *)
LongUse ==
  [boot |-> {}, active |-> {1}, booted |-> TRUE, blocks |-> 12, fragmented |-> FALSE,
   padded |-> FALSE,
   calls |-> {"reboot", "alloc", "dealloc", "register_trap_handler",
              "unregister_trap_handler", "restore_interrupts"},
   trapAt |-> {"idle"}, maxCalls |-> 3, maxTraps |-> 1]

(* A hart that boots, with enough memory and no trap *)
CalmBoot ==
  [boot |-> {1}, active |-> {1}, booted |-> FALSE, blocks |-> 12, fragmented |-> FALSE,
   padded |-> FALSE, calls |-> {}, trapAt |-> {}, maxCalls |-> 0, maxTraps |-> 0]

(* A hart that boots, may run out of memory at every allocation and is       *)
(* interrupted at any step                                                   *)
AdverseBoot ==
  [CalmBoot EXCEPT !.fragmented = TRUE, !.trapAt = Anywhere, !.maxTraps = 1]

(* The same for a hart that calls any function after boot, and any two with  *)
(* a trap between them                                                       *)
AdverseCall ==
  [AdverseBoot EXCEPT !.boot = {}, !.booted = TRUE, !.calls = Interface, !.maxCalls = 1]
AdversePair == [AdverseCall EXCEPT !.trapAt = {"idle"}, !.maxCalls = 2]

AllScenarios ==
  {AllocatorUse, TrapSystemUse, LongUse, CalmBoot, AdverseBoot, AdverseCall, AdversePair}

OneBoot == {CalmBoot}
=============================================================================
