--------------------------- MODULE KernelRoutines ---------------------------
(***************************************************************************)
(* The kernel's own routines (main.rs, lib.rs): boot, the main loop, panic *)
(* and the two ways to stop, down to the firmware's reset call, and the    *)
(* test suites the main loop runs first (test/).  Code is the table of all *)
(* routines.                                                               *)
(***************************************************************************)
EXTENDS AllocatorRoutines, TrapRoutines, Sequences

(* main.rs *)
RustMain == <<Call("kernel_init"), Call("verify_system_state"), Call("main_loop")>>

VerifySystemState ==
  <<Expect("INITIALIZED"), Expect("TRAP_INITIALIZED"), Call("get_memory_info"),
    Call("integrity_check"), ElseCall("panic")>>

(* lib.rs *)

(* Mutant: traps before the heap they allocate from. *)
KernelInitTrapsFirst ==
  <<Call("initialize_trap_system"), Call("init"), ElseCall("halt"), Call("stats"),
    Call("test_dynamic_structures")>>

KernelInit ==
  <<Call("init"), ElseCall("halt"), Call("stats"), Call("initialize_trap_system"),
    Call("test_dynamic_structures")>>

HaltLoop == <<Halt>>

(* A Vec and a String, which grow and live to the end, and an EarlyBox. *)
TestDynamicStructures ==
  <<Call("test_vec"), Call("test_vec"), Call("test_box"), Call("unheap"), Call("unheap")>>
TestVec ==
  <<Call("global_alloc"), ElseCall("alloc_error_handler"), Pass,
    Call("realloc"), ElseCall("alloc_error_handler"), Keep>>
TestBox == <<Call("early_box_new"), NeedOk, Pass, Call("early_box_drop")>>

MainLoop == <<Call("run_all_tests"), Call("print_status"), Idle>>

GetMemoryInfo == <<Call("usage_summary"), Call("stats")>>

Panic == <<Clear("SIE"), Call("panic_mode_on"), Call("panic_memory_state"), Halt>>
PanicModeOn == <<Need("TRAP_INITIALIZED")>> \o WithTrapSystem(Set("panic_mode"))
PanicMemoryState == <<Need("INITIALIZED"), Call("usage_summary"), Call("stats")>>

Shutdown == <<Call("save_state"), Firmware("off"), PowerOff>>
SaveState ==
  <<Need("INITIALIZED"), Call("hand_over"), Call("freeze"), Call("print_status")>>
HandOver == <<Call("prepare_handover"), NeedOk, Pass, Call("early_box_drop")>>

(* Mutant: the kernel waits for the last users of the heap. *)
RebootLocked == <<Lock("ALLOCATOR"), Call("freeze_before_reboot"), Firmware("reset"), PowerOff>>

(* A reset the firmware refuses ends in a shutdown. *)
Reboot == <<Call("freeze_before_reboot"), Firmware("reset"), PowerOff>>
FreezeBeforeReboot == <<Need("INITIALIZED"), Call("freeze")>>

-----------------------------------------------------------------------------
(* test/mod.rs; the console and the SBI suite neither lock nor allocate.     *)
RunAllTests == <<Call("run_alloc_tests")>>

(* test/alloc_test.rs *)
RunAllocTests ==
  <<Call("stats"), Call("create_snapshot"), Pass, Call("run_suite"), Call("last_snapshot"),
    Call("early_box_drop"), Call("integrity_check"), Call("stats")>>
LastSnapshot == <<Call("create_snapshot"), NeedOk, Pass, Call("early_box_drop")>>

(* The cases, each kind once: pointers, purposes and leaks, liballoc's       *)
(* structures, EarlyBox, checks                                              *)
RunSuite ==
  <<Call("test_pointer"), Call("test_listed_pointer"), Call("test_vec"), Call("unheap"),
    Call("test_box"), Call("integrity_check"), Call("health_check")>>
TestPointer == <<Call("alloc"), NeedOk, Pass, Call("dealloc_safe")>>
TestListedPointer ==
  <<Call("alloc"), NeedOk, Pass, Call("hand_over"), Call("dealloc_safe")>>

-----------------------------------------------------------------------------
KernelCode ==
  [rust_main |-> RustMain, verify_system_state |-> VerifySystemState,
   kernel_init |-> KernelInit, halt |-> HaltLoop,
   test_dynamic_structures |-> TestDynamicStructures, test_vec |-> TestVec,
   test_box |-> TestBox,
   main_loop |-> MainLoop, get_memory_info |-> GetMemoryInfo]
  @@
  [run_all_tests |-> RunAllTests, run_alloc_tests |-> RunAllocTests,
   last_snapshot |-> LastSnapshot, run_suite |-> RunSuite, test_pointer |-> TestPointer,
   test_listed_pointer |-> TestListedPointer]
  @@
  [panic |-> Panic, panic_mode_on |-> PanicModeOn,
   panic_memory_state |-> PanicMemoryState,
   shutdown |-> Shutdown, save_state |-> SaveState, hand_over |-> HandOver,
   reboot |-> Reboot, freeze_before_reboot |-> FreezeBeforeReboot]

Code == AllocatorCode @@ TrapCode @@ KernelCode
=============================================================================
