--------------------------- MODULE HandlerManager ---------------------------
(***************************************************************************)
(* trap/infrastructure/handler_manager.rs: the registry of trap handlers.  *)
(* The same handlers are kept in two maps, each behind its own spin lock:  *)
(* by trap type and priority for dispatch, and by handle.  Operations that *)
(* change both maps take the lock of handle_map first and do their work    *)
(* once they have the other; dispatch holds the lock of handlers while the *)
(* handlers run.  A call that returns Err at once changes nothing and is   *)
(* no step here.                                                           *)
(***************************************************************************)
EXTENDS TrapCause, PriorityMap

CONSTANTS
  Actors, Nobody,     \* who calls the registry, and the holder of a free lock
  Priorities,
  Registrations,      \* what clients register
  Requesters,         \* registrar ids that unregister and transfer
  NewOwners,          \* registrar ids that receive ownership
  Contexts,           \* contexts that end (ManagedContext::drop)
  Causes,             \* values of scause
  MaxOps

KERNEL == 0
SYSTEM == 1
NoContext == 0
ProtectionLevel == {"Kernel", "System", "User"}

ASSUME NobodyAssumption == Nobody \notin Actors
ASSUME PrioritiesAssumption ==
  Priorities \subseteq Nat /\ IsFiniteSet(Priorities) /\ 10 \in Priorities
ASSUME RegistrationsAssumption ==
  Registrations \subseteq
    [type : TrapType, priority : Priorities, description : STRING,
     protection : ProtectionLevel, registrar : Nat, context : Nat]
ASSUME RegistrarsAssumption == Requesters \subseteq Nat /\ NewOwners \subseteq Nat
ASSUME ContextsAssumption == Contexts \subseteq Nat \ {NoContext}
ASSUME CausesAssumption == Causes \subseteq Nat
ASSUME BoundsAssumption == MaxOps \in Nat

VARIABLES
  entries,            \* the Arc<RwLock<HandlerEntry>>s, in order of creation
  handlers,           \* type -> priority -> sequence of entries (indices)
  handle_map,         \* handle -> entry (index)
  handlers_lock, handle_lock,
  pc, op, todo, calls,          \* per actor: the call in progress
  ops                           \* operations begun

maps == <<entries, handlers, handle_map>>
locals == <<pc, op, todo, calls>>
vars == <<maps, handlers_lock, handle_lock, locals, ops>>

(* generate_id hashes description and type; distinct pairs are taken to have *)
(* distinct hashes.                                                          *)
Handle(description, type) == [description |-> description, type |-> type]

HandlerEntry(r) ==
  [priority |-> r.priority, description |-> r.description,
   protection |-> r.protection, registrar |-> r.registrar, context |-> r.context]

CanBeUnregisteredBy(e, id) ==
  CASE e.protection = "Kernel" -> id = KERNEL
    [] e.protection = "System" -> id \in {KERNEL, SYSTEM}
    [] e.protection = "User"   -> id \in {e.registrar, KERNEL}

NoOp == [kind |-> "none"]

(* register_default_enhanced_handlers: the three page faults share one entry. *)
PageFault == "Default Page Fault Handler"
IllegalInst == "Default Illegal Instruction Handler"
PageFaultTypes == {"LoadPageFault", "StorePageFault", "InstructionPageFault"}

DefaultEntry(description) ==
  [priority |-> 10, description |-> description, protection |-> "Kernel",
   registrar |-> KERNEL, context |-> NoContext]

DefaultHandlers(t) ==
  IF t \in PageFaultTypes THEN <<1>>
  ELSE IF t = "IllegalInstruction" THEN <<2>> ELSE << >>

DefaultHandles ==
  {Handle(PageFault, t) : t \in PageFaultTypes}
    \cup {Handle(IllegalInst, "IllegalInstruction")}

(* The registry as initialize_trap_system leaves it *)
Init ==
  /\ entries = <<DefaultEntry(PageFault), DefaultEntry(IllegalInst)>>
  /\ handlers = [t \in TrapType |-> [p \in Priorities |->
                   IF p = 10 THEN DefaultHandlers(t) ELSE << >>]]
  /\ handle_map = [h \in DefaultHandles |-> IF h.description = PageFault THEN 1 ELSE 2]
  /\ handlers_lock = Nobody /\ handle_lock = Nobody
  /\ pc = [a \in Actors |-> "idle"]
  /\ op = [a \in Actors |-> NoOp]
  /\ todo = [a \in Actors |-> << >>]
  /\ calls = [a \in Actors |-> << >>]
  /\ ops = 0

-----------------------------------------------------------------------------
Begin(a, o) ==
  /\ pc[a] = "idle"
  /\ ops < MaxOps                               \* bound
  /\ ops' = ops + 1
  /\ op' = [op EXCEPT ![a] = o]

Finish(a) ==
  /\ pc' = [pc EXCEPT ![a] = "idle"]
  /\ op' = [op EXCEPT ![a] = NoOp]

(* The operations that need both locks hold handle_map while they wait for   *)
(* handlers.                                                                 *)
LockHandleMap(a, o) ==
  /\ Begin(a, o)
  /\ handle_lock = Nobody
  /\ handle_lock' = a
  /\ pc' = [pc EXCEPT ![a] = o.kind]
  /\ UNCHANGED <<maps, handlers_lock, todo, calls>>

(* Mutant: handlers is changed while a dispatch may be running over it. *)
BothLocksSkipped(a, kind) ==
  /\ pc[a] = kind
  /\ handle_lock' = Nobody
  /\ Finish(a)
  /\ UNCHANGED <<handlers_lock, todo, calls, ops>>

(* handlers is free: lock it, do the work, drop both guards. *)
BothLocks(a, kind) ==
  /\ pc[a] = kind
  /\ handlers_lock = Nobody
  /\ handle_lock' = Nobody
  /\ Finish(a)
  /\ UNCHANGED <<handlers_lock, todo, calls, ops>>

(* register *)
RegisterBegin(a, r) ==
  /\ Handle(r.description, r.type) \notin DOMAIN handle_map
  /\ LockHandleMap(a, [kind |-> "register", of |-> r])

Register(a) ==
  LET r == op[a].of
      h == Handle(r.description, r.type)
      id == Len(entries) + 1
  IN
  /\ BothLocks(a, "register")
  /\ entries' = Append(entries, HandlerEntry(r))
  /\ handlers' = [handlers EXCEPT ![r.type][r.priority] = Append(@, id)]
  /\ handle_map' = [x \in DOMAIN handle_map \cup {h} |->
                       IF x = h THEN id ELSE handle_map[x]]

(* unregister *)
UnregisterBegin(a, h, requester) ==
  /\ h \in DOMAIN handle_map
  /\ CanBeUnregisteredBy(entries[handle_map[h]], requester)
  /\ LockHandleMap(a, [kind |-> "unregister", handle |-> h, by |-> requester])

Described(ids, d) == \E k \in DOMAIN ids : entries[ids[k]].description = d

(* The entries whose description is not in D *)
NotNamed(D) == {id \in DOMAIN entries : entries[id].description \notin D}

(* The trap types with a handler of this description at this priority *)
FoundTypes(d, p) == {t \in TrapType : Described(handlers[t][p], d)}

(* The handler is looked for by description and priority; the first trap     *)
(* type that has one loses it, the handle is forgotten.                      *)
Unregister(a) ==
  LET h == op[a].handle
      e == entries[handle_map[h]]
      found == FoundTypes(e.description, e.priority)
  IN
  /\ BothLocks(a, "unregister")
  /\ found # {}
  /\ LET t == CHOOSE t \in found : \A u \in found : Index(t) <= Index(u)
     IN handlers' = [handlers EXCEPT ![t][e.priority] = Retain(@, NotNamed({e.description}))]
  /\ handle_map' = [x \in DOMAIN handle_map \ {h} |-> handle_map[x]]
  /\ UNCHANGED entries

(* No trap type has it: Err, and the handle stays. *)
UnregisterNotFound(a) ==
  LET e == entries[handle_map[op[a].handle]] IN
  /\ BothLocks(a, "unregister")
  /\ FoundTypes(e.description, e.priority) = {}
  /\ UNCHANGED maps

(* Mutant: ownership changes while another call holds handle_map. *)
TransferOwnershipUnlocked(a, h, current_owner, new_owner) ==
  /\ Begin(a, NoOp)
  /\ h \in DOMAIN handle_map
  /\ current_owner \in {entries[handle_map[h]].registrar, KERNEL}
  /\ entries' = [entries EXCEPT ![handle_map[h]].registrar = new_owner]
  /\ UNCHANGED <<handlers, handle_map, handlers_lock, handle_lock, pc, todo, calls>>

TransferOwnership(a, h, current_owner, new_owner) ==
  /\ Begin(a, NoOp)
  /\ handle_lock = Nobody
  /\ h \in DOMAIN handle_map
  /\ current_owner \in {entries[handle_map[h]].registrar, KERNEL}
  /\ entries' = [entries EXCEPT ![handle_map[h]].registrar = new_owner]
  /\ UNCHANGED <<handlers, handle_map, handlers_lock, handle_lock, pc, todo, calls>>

(* unregister_for_context, called when a ManagedContext is dropped *)
DropContextBegin(a, c) == LockHandleMap(a, [kind |-> "drop", context |-> c])

HandlesOf(c) == {h \in DOMAIN handle_map : entries[handle_map[h]].context = c}

(* What the handlers of these handles are called, at priority p *)
NamesAt(handles, p) ==
  {entries[handle_map[h]].description :
     h \in {x \in handles : entries[handle_map[x]].priority = p}}

(* Mutant: the handlers stay behind. *)
UnregisterForContextHandlesOnly(a) ==
  LET gone == HandlesOf(op[a].context) IN
  /\ BothLocks(a, "drop")
  /\ handle_map' = [x \in DOMAIN handle_map \ gone |-> handle_map[x]]
  /\ UNCHANGED <<entries, handlers>>

(* Every handler with the description and the priority of one that belongs   *)
(* to the context goes, whatever its trap type.                              *)
UnregisterForContext(a) ==
  LET gone == HandlesOf(op[a].context) IN
  /\ BothLocks(a, "drop")
  /\ handle_map' = [x \in DOMAIN handle_map \ gone |-> handle_map[x]]
  /\ handlers' = [t \in TrapType |-> [p \in Priorities |->
                   Retain(handlers[t][p], NotNamed(NamesAt(gone, p)))]]
  /\ UNCHANGED entries

-----------------------------------------------------------------------------
(* dispatch *)

(* The handlers of a type, in the order of the loops of dispatch *)
HandlersFor(t) == InKeyOrder(handlers[t])

DispatchBegin(a, scause) ==
  /\ Begin(a, [kind |-> "dispatch", type |-> ToTrapType(scause)])
  /\ handlers_lock = Nobody
  /\ handlers_lock' = a
  /\ pc' = [pc EXCEPT ![a] = "dispatch"]
  /\ todo' = [todo EXCEPT ![a] = HandlersFor(ToTrapType(scause))]
  /\ UNCHANGED <<maps, handle_lock, calls>>

(* Mutant: a dispatch consults handle_map before it drops the guard of       *)
(* handlers.                                                                 *)
DispatchEndConsults(a) ==
  /\ handle_lock = Nobody
  /\ handlers_lock' = Nobody
  /\ Finish(a)
  /\ todo' = [todo EXCEPT ![a] = << >>]
  /\ calls' = [calls EXCEPT ![a] = << >>]
  /\ UNCHANGED <<maps, handle_lock, ops>>

DispatchEnd(a) ==
  /\ handlers_lock' = Nobody
  /\ Finish(a)
  /\ todo' = [todo EXCEPT ![a] = << >>]
  /\ calls' = [calls EXCEPT ![a] = << >>]
  /\ UNCHANGED <<maps, handle_lock, ops>>

(* A handler that answers Pass or Failed: the next one is tried. *)
CallHandler(a) ==
  /\ pc[a] = "dispatch"
  /\ todo[a] # << >>
  /\ calls' = [calls EXCEPT ![a] = Append(@, Head(todo[a]))]
  /\ todo' = [todo EXCEPT ![a] = Tail(@)]
  /\ UNCHANGED <<maps, handlers_lock, handle_lock, pc, op, ops>>

HandlerHandled(a) == pc[a] = "dispatch" /\ todo[a] # << >> /\ DispatchEnd(a)

NoneHandled(a) == pc[a] = "dispatch" /\ todo[a] = << >> /\ DispatchEnd(a)

Step(a) ==
  \/ Register(a) \/ Unregister(a) \/ UnregisterNotFound(a) \/ UnregisterForContext(a)
  \/ CallHandler(a) \/ HandlerHandled(a) \/ NoneHandled(a)

Operation(a) ==
  \/ \E r \in Registrations : RegisterBegin(a, r)
  \/ \E h \in DOMAIN handle_map, id \in Requesters : UnregisterBegin(a, h, id)
  \/ \E h \in DOMAIN handle_map, id \in Requesters, new \in NewOwners :
        TransferOwnership(a, h, id, new)
  \/ \E c \in Contexts : DropContextBegin(a, c)
  \/ \E scause \in Causes : DispatchBegin(a, scause)
  \/ Step(a)

Next == \E a \in Actors : Operation(a)

Spec == Init /\ [][Next]_vars

(* Handlers return and lock holders run on.  The number of operations is     *)
(* bounded, so that nobody is overtaken for ever at a lock.                  *)
FairSpec == Spec /\ \A a \in Actors : WF_vars(Step(a))

-----------------------------------------------------------------------------
(***************************************************************************)
(* Properties                                                              *)
(***************************************************************************)

(* The description is used for one trap type only, as the documentation of   *)
(* register_trap_handler asks ("a unique static string").                    *)
Sole(d) ==
  /\ d # PageFault
  /\ \A r, s \in Registrations : r.description = d /\ s.description = d => r = s
  /\ d = IllegalInst => \A r \in Registrations : r.description # d

(* entry id is registered for type t *)
Registered(id, t) ==
  \E k \in DOMAIN handlers[t][entries[id].priority] :
     handlers[t][entries[id].priority][k] = id

(* The two maps agree on every handler whose description is its own: a       *)
(* handle's entry is registered for the handle's trap type and its priority, *)
(* exactly once, and nothing is registered without a handle, through every   *)
(* sequence of registrations, removals and endings of contexts.              *)
SoleHandlersAgree ==
  \A id \in DOMAIN entries, t \in TrapType, p \in Priorities :
    LET d == entries[id].description
        h == Handle(d, t)
        at == {k \in DOMAIN handlers[t][p] : entries[handlers[t][p][k]].description = d}
    IN Sole(d) =>
         IF h \in DOMAIN handle_map /\ entries[handle_map[h]].priority = p
         THEN \E k \in at : at = {k} /\ handlers[t][p][k] = handle_map[h]
         ELSE at = {}

(* What unregister takes out of the registry, the requester may remove at    *)
(* the moment it goes: the permission is tested before the second lock is    *)
(* there, and ownership can be transferred.                                  *)
RemovalAuthorised ==
  [][\A a \in Actors, t \in TrapType, id \in DOMAIN entries :
       /\ handle_lock = a /\ pc[a] = "unregister" /\ Sole(entries[id].description)
       /\ Registered(id, t) /\ ~Registered(id, t)'
       => CanBeUnregisteredBy(entries[id], op[a].by)]_vars

(* While a trap is dispatched the registry stands still: the handlers called *)
(* and the ones still to be called are all the handlers of the trap's type,  *)
(* by priority and then in order of registration.                            *)
DispatchCoversType ==
  \A a \in Actors : pc[a] = "dispatch" =>
    /\ calls[a] \o todo[a] = HandlersFor(op[a].type)
    /\ \A j, k \in DOMAIN (calls[a] \o todo[a]) :
         LET e(i) == (calls[a] \o todo[a])[i] IN
         j < k => \/ entries[e(j)].priority < entries[e(k)].priority
                  \/ entries[e(j)].priority = entries[e(k)].priority /\ e(j) < e(k)

(* The end of a context leaves none of its handlers in the registry. *)
ContextLeavesNothing ==
  [][\A a \in Actors : pc[a] = "drop" /\ pc'[a] = "idle" =>
       \A t \in TrapType, id \in DOMAIN entries :
          entries[id].context = op[a].context /\ Sole(entries[id].description)
            => ~Registered(id, t)']_vars

(* Every operation completes: no order of locks blocks two of them. *)
OperationsComplete == \A a \in Actors : pc[a] # "idle" ~> pc[a] = "idle"

(* unregister removes the handler its handle stands for: when a handle is    *)
(* forgotten, its handler is no longer registered for the handle's type.     *)
UnregisterRemovesHandler ==
  [][\A h \in DOMAIN handle_map \ DOMAIN handle_map', id \in DOMAIN entries :
       handle_map[h] = id => ~Registered(id, h.type)']_vars
=============================================================================
