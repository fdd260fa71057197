-------------------------- MODULE MCHandlerManager --------------------------
(* Instances of HandlerManager for TLC.  scause has five bits, enough for    *)
(* every code that to_trap_type distinguishes.                               *)
EXTENDS HandlerManager

R(type, priority, description, protection, registrar, context) ==
  [type |-> type, priority |-> priority, description |-> description,
   protection |-> protection, registrar |-> registrar, context |-> context]

(* Two handlers for one trap type, and two processes that register a handler *)
(* of the same name for different faults                                     *)
Clients ==
  {R("TimerInterrupt", 10, "tick", "User", 2, 7),
   R("TimerInterrupt", 5, "audit", "System", 3, NoContext),
   R("LoadPageFault", 5, "pager", "User", 2, 7),
   R("StorePageFault", 5, "pager", "User", 3, 8)}
=============================================================================
