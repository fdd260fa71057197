---------------------------- MODULE TrapRoutines ----------------------------
(***************************************************************************)
(* The trap system as it is reached from the outside: its initialisation   *)
(* and its global (di/mod.rs), the way of a trap (low_level.rs,            *)
(* container.rs, the managers) and the interface functions (api.rs).  What *)
(* the managers compute is in HandlerManager and ErrorManager; here only   *)
(* their locks, their allocations and their early returns matter.          *)
(***************************************************************************)
EXTENDS Instructions, Sequences, TLC

(* with_trap_system: the lock is held until the closure returns. *)
WithTrapSystem(step) == <<Lock("TRAP_SYSTEM"), Expect("trap_system"), step>>

(* Mutant: the system is not stored. *)
InitializeTrapSystemUnstored ==
  <<Cas("TRAP_INITIALIZED"), Call("heap"), Call("init_trap_vector"),
    Call("register_default_handlers")>>

(* The managers and the container are boxed; the vector is set before the    *)
(* default handlers are there and before the system is stored.               *)
InitializeTrapSystem ==
  <<Cas("TRAP_INITIALIZED"), Call("heap"), Call("init_trap_vector"),
    Call("register_default_handlers"), Call("store_trap_system")>>

InitTrapVector == <<Set("stvec")>>
RegisterDefaultHandlers ==
  <<Call("hm_insert_new"), Call("hm_insert_new"), Call("hm_insert_new"), Call("hm_insert_new")>>
StoreTrapSystem == <<Lock("TRAP_SYSTEM"), Set("trap_system")>>

-----------------------------------------------------------------------------
(* The way of a trap *)
HandleTrap == <<Call("dispatch_trap")>>
DispatchTrap == WithTrapSystem(Call("ts_handle_trap"))



(* Unhandled: an error with a formatted message goes to the error manager.   *)
TsHandleTrap == <<Call("hm_dispatch"), DoneIfOk, Call("heap"), Call("handle_error")>>

(* The handlers run under the lock; one of them handles the trap or not.     *)
HmDispatch == <<Lock("HANDLERS"), Choose>>

(* In panic mode an error is only logged. *)
HandleError == <<Call("error_handlers"), DoneIfOk, Call("log_error")>>
ErrorHandlers == <<NeedNot("panic_mode"), Lock("ERROR_HANDLERS"), Call("log_error"), Ok>>
(* A push over a full ring drops the oldest entry, with its message. *)
LogError == <<Lock("LOG"), Call("drop_oldest"), Ok>>
DropOldest == <<Choose, NeedOk, Call("unheap")>>

(* A fatal error switches panic mode on and always reaches the handlers. *)
HandleFatalError ==
  <<Set("panic_mode"), Lock("ERROR_HANDLERS"), Call("log_error"), Ok>>

-----------------------------------------------------------------------------
(* handler_manager.rs; a name already taken and a missing permission are     *)
(* early returns with the lock of handle_map held.                           *)

(* Mutant: the locks are taken in the other order. *)
HmInsertSwapped ==
  <<Lock("HANDLERS"), Lock("HANDLE_MAP"), Choose, NeedOk, Call("heap"), Ok>>

HmInsert == <<Lock("HANDLE_MAP"), Choose, NeedOk, Lock("HANDLERS"), Call("heap"), Ok>>
HmInsertNew == <<Lock("HANDLE_MAP"), Lock("HANDLERS"), Call("heap"), Ok>>

(* register: an entry that is not inserted is dropped. *)
HmRegister == <<Call("hm_insert"), DoneIfOk, Call("unheap"), Fail>>

(* An unknown handle or a missing permission; then a handler no list has *)
HmUnregister ==
  <<Lock("HANDLE_MAP"), Choose, NeedOk, Lock("HANDLERS"), Choose, NeedOk,
    Call("unheap"), Ok>>

HmTransferOwnership == <<Lock("HANDLE_MAP"), Choose>>

HmUnregisterForContext ==
  <<Lock("HANDLE_MAP"), Lock("HANDLERS"), Call("heap"), Call("unheap")>>

(* context_manager.rs: ManagedContext::drop does not take the global lock.   *)
DropContext == <<Call("hm_unregister_for_context")>>

-----------------------------------------------------------------------------
(* api.rs *)
RegisterTrapHandler ==
  <<Need("TRAP_INITIALIZED"), Call("heap")>> \o WithTrapSystem(Call("hm_register"))
UnregisterTrapHandler ==
  <<Need("TRAP_INITIALIZED")>> \o WithTrapSystem(Call("hm_unregister"))
TransferHandlerOwnership ==
  <<Need("TRAP_INITIALIZED")>> \o WithTrapSystem(Call("hm_transfer_ownership"))
EnableInterrupts ==                     \* csrrci: clear the bit
  <<Need("TRAP_INITIALIZED")>> \o WithTrapSystem(Clear("SIE"))
DisableInterrupts ==                    \* csrrc: clear the bit
  <<Need("TRAP_INITIALIZED")>> \o WithTrapSystem(Clear("SIE"))
RestoreInterrupts ==                    \* of was_enabled = true
  <<Need("TRAP_INITIALIZED")>> \o WithTrapSystem(Set("SIE"))
ReportSystemError ==
  <<Need("TRAP_INITIALIZED")>> \o WithTrapSystem(Call("handle_error"))
ReportFatalError ==
  <<Need("TRAP_INITIALIZED")>> \o WithTrapSystem(Call("handle_fatal_error"))

(* The handler goes to a new error manager, which is dropped at once. *)
RegisterErrorHandler ==
  <<Need("TRAP_INITIALIZED")>> \o WithTrapSystem(Call("throw_away_manager"))
ThrowAwayManager == <<Call("heap"), Call("unheap"), Ok>>

TrapCode ==
  [initialize_trap_system |-> InitializeTrapSystem, init_trap_vector |-> InitTrapVector,
   register_default_handlers |-> RegisterDefaultHandlers,
   store_trap_system |-> StoreTrapSystem]
  @@
  [handle_trap |-> HandleTrap, dispatch_trap |-> DispatchTrap,
   ts_handle_trap |-> TsHandleTrap, hm_dispatch |-> HmDispatch,
   handle_error |-> HandleError, error_handlers |-> ErrorHandlers, log_error |-> LogError,
   drop_oldest |-> DropOldest,
   hm_insert |-> HmInsert, hm_insert_new |-> HmInsertNew,
   hm_register |-> HmRegister, hm_unregister |-> HmUnregister,
   hm_transfer_ownership |-> HmTransferOwnership,
   hm_unregister_for_context |-> HmUnregisterForContext, drop_context |-> DropContext]
  @@
  [register_trap_handler |-> RegisterTrapHandler,
   unregister_trap_handler |-> UnregisterTrapHandler,
   transfer_handler_ownership |-> TransferHandlerOwnership,
   enable_interrupts |-> EnableInterrupts, disable_interrupts |-> DisableInterrupts,
   restore_interrupts |-> RestoreInterrupts, report_system_error |-> ReportSystemError]
  @@
  [handle_fatal_error |-> HandleFatalError, report_fatal_error |-> ReportFatalError,
   register_error_handler |-> RegisterErrorHandler,
   throw_away_manager |-> ThrowAwayManager]
=============================================================================
