---------------------------- MODULE ErrorManager ----------------------------
(***************************************************************************)
(* trap/infrastructure/error_manager.rs: error handlers by priority, the   *)
(* error log and panic mode.  Several callers may be inside handle_error   *)
(* at once (the manager is shared, its methods take &self).  The spin lock *)
(* of the handlers is held while handlers run; the one of the log covers a *)
(* single push, which is one step here.  Handlers are registered while the *)
(* manager is not shared yet (register_handler takes &mut self).           *)
(***************************************************************************)
EXTENDS ErrorCode, PriorityMap

CONSTANTS
  Callers, Nobody,    \* who runs handle_error, and the holder of a free lock
  Priorities,         \* the priorities in use
  Entries,            \* handlers: [priority, source, level], NoFilter matching all
  Reports,            \* the errors that occur: [source, level, number]
  Capacity,           \* ERROR_LOG_CAPACITY
  MaxHandlers, MaxErrors

NoFilter == -1

ASSUME NobodyAssumption == Nobody \notin Callers
ASSUME PrioritiesAssumption == Priorities \subseteq Nat /\ IsFiniteSet(Priorities)
ASSUME EntriesAssumption ==
  Entries \subseteq [priority : Priorities, source : Sources \cup {NoFilter},
                    level : Levels \cup {NoFilter}]
ASSUME ReportsAssumption ==
  Reports \subseteq [source : Sources, level : Levels, number : Numbers]
ASSUME CapacityAssumption == Capacity \in Nat \ {0}
ASSUME BoundsAssumption == MaxHandlers \in Nat /\ MaxErrors \in Nat

VARIABLES
  handlers,                     \* priority -> the entries in order of arrival
  buffer, head, tail, count,    \* the log
  panic_mode,
  handlers_lock,
  pc, error, todo, result,      \* locals of handle_error, per caller
  late, calls,                  \* panic mode at the call; handlers called so far
  reported,                     \* number of errors reported
  logged                        \* every entry ever written to the log

log == <<buffer, head, tail, count>>
locals == <<pc, error, todo, result, late, calls>>
vars == <<handlers, log, panic_mode, handlers_lock, locals, reported, logged>>

ErrorResult == {"Handled", "Partial", "Unhandled"}

(* A SystemError; the id stands for its message, address and time. *)
SystemError(id, r) ==
  [id |-> id, code |-> NewCode(r.source, r.level, r.number), of |-> r]

NoError == [id |-> 0]

(* ErrorLogEntry *)
LogEntry == [error : 1 .. MaxErrors, result : ErrorResult]
NoEntry == [error |-> 0]

Ring == INSTANCE RingBuffer WITH
  Items <- LogEntry, NoItem <- NoEntry, ret <- NoEntry

Init ==
  /\ handlers = [p \in Priorities |-> << >>]
  /\ Ring!WithCapacity
  /\ panic_mode = FALSE
  /\ handlers_lock = Nobody
  /\ pc = [c \in Callers |-> "idle"]
  /\ error = [c \in Callers |-> NoError]
  /\ todo = [c \in Callers |-> << >>]
  /\ result = [c \in Callers |-> "Unhandled"]
  /\ late = [c \in Callers |-> FALSE]
  /\ calls = [c \in Callers |-> << >>]
  /\ reported = 0
  /\ logged = << >>

-----------------------------------------------------------------------------
(* The handlers in the order of handle_error's two loops: the keys of the    *)
(* BTreeMap ascend, the entries of a key are in order of arrival.            *)
InOrder == InKeyOrder(handlers)

RegisterHandler(e) ==
  /\ reported = 0                           \* not shared yet
  /\ Len(InOrder) < MaxHandlers             \* bound
  /\ handlers' = [handlers EXCEPT ![e.priority] = Append(@, e)]
  /\ UNCHANGED <<log, panic_mode, handlers_lock, locals, reported, logged>>

(* Mutant: an entry for a level matches the errors of every level. *)
MatchesSource(e, code) == e.source \in {NoFilter, SourceOf(code)}

Matches(e, code) ==
  e.source \in {NoFilter, SourceOf(code)} /\ e.level \in {NoFilter, LevelOf(code)}

Goto(c, label) == pc' = [pc EXCEPT ![c] = label]

(* A caller enters handle_error with a new error. *)
Report(c, r) ==
  /\ pc[c] = "idle"
  /\ reported < MaxErrors                   \* bound
  /\ reported' = reported + 1
  /\ error' = [error EXCEPT ![c] = SystemError(reported + 1, r)]
  /\ late' = [late EXCEPT ![c] = panic_mode]
  /\ Goto(c, "gate")
  /\ UNCHANGED <<handlers, log, panic_mode, handlers_lock, todo, result, calls, logged>>

(* Mutant: panic mode does not keep errors from the handlers. *)
GateOpen(c) ==
  /\ pc[c] = "gate"
  /\ panic_mode' = (panic_mode \/ IsFatal(error[c].code))
  /\ Goto(c, "lock")
  /\ UNCHANGED <<handlers, log, handlers_lock, error, todo, result, late, calls,
                 reported, logged>>

(* Mutant: in panic mode an error is ignored, but not logged. *)
GateSilent(c) ==
  /\ pc[c] = "gate"
  /\ panic_mode' = (panic_mode \/ IsFatal(error[c].code))
  /\ Goto(c, IF panic_mode /\ ~IsFatal(error[c].code) THEN "return" ELSE "lock")
  /\ UNCHANGED <<handlers, log, handlers_lock, error, todo, result, late, calls,
                 reported, logged>>

(* The test of panic_mode, and enter_panic_mode for a fatal error *)
Gate(c) ==
  /\ pc[c] = "gate"
  /\ panic_mode' = (panic_mode \/ IsFatal(error[c].code))
  /\ Goto(c, IF panic_mode /\ ~IsFatal(error[c].code) THEN "log" ELSE "lock")
  /\ UNCHANGED <<handlers, log, handlers_lock, error, todo, result, late, calls,
                 reported, logged>>

LockHandlers(c) ==
  /\ pc[c] = "lock"
  /\ handlers_lock = Nobody
  /\ handlers_lock' = c
  /\ todo' = [todo EXCEPT ![c] =
                Retain(InOrder, {e \in Entries : Matches(e, error[c].code)})]
  /\ Goto(c, "dispatch")
  /\ UNCHANGED <<handlers, log, panic_mode, error, result, late, calls,
                 reported, logged>>

(* final_result after a handler's verdict *)
Combine(r, verdict) == IF verdict = "Unhandled" THEN r ELSE verdict

(* The next matching handler runs; its verdict is the handler's affair. *)
CallHandler(c, verdict) ==
  /\ pc[c] = "dispatch"
  /\ todo[c] # << >>
  /\ calls' = [calls EXCEPT ![c] = Append(@, [entry |-> Head(todo[c]), verdict |-> verdict])]
  /\ todo' = [todo EXCEPT ![c] = Tail(@)]
  /\ result' = [result EXCEPT ![c] = Combine(@, verdict)]
  /\ Goto(c, IF verdict = "Handled" THEN "log" ELSE "dispatch")
  /\ UNCHANGED <<handlers, log, panic_mode, handlers_lock, error, late, reported, logged>>

NoMoreHandlers(c) ==
  /\ pc[c] = "dispatch"
  /\ todo[c] = << >>
  /\ Goto(c, "log")
  /\ UNCHANGED <<handlers, log, panic_mode, handlers_lock, error, todo, result,
                 late, calls, reported, logged>>

(* Mutant: log_error looks at the handlers too, and locks them although its  *)
(* caller's guard is still there.                                            *)
LogErrorLocks(c) ==
  LET entry == [error |-> error[c].id, result |-> result[c]] IN
  /\ pc[c] = "log"
  /\ handlers_lock = Nobody
  /\ Ring!Push(entry)
  /\ logged' = Append(logged, entry)
  /\ Goto(c, "return")
  /\ UNCHANGED <<handlers, panic_mode, handlers_lock, error, todo, result, late,
                 calls, reported>>

LogError(c) ==
  LET entry == [error |-> error[c].id, result |-> result[c]] IN
  /\ pc[c] = "log"
  /\ Ring!Push(entry)
  /\ logged' = Append(logged, entry)
  /\ Goto(c, "return")
  /\ UNCHANGED <<handlers, panic_mode, handlers_lock, error, todo, result, late,
                 calls, reported>>

Leave(c) ==
  /\ Goto(c, "idle")
  /\ error' = [error EXCEPT ![c] = NoError]
  /\ todo' = [todo EXCEPT ![c] = << >>]
  /\ result' = [result EXCEPT ![c] = "Unhandled"]
  /\ late' = [late EXCEPT ![c] = FALSE]
  /\ calls' = [calls EXCEPT ![c] = << >>]



(* handle_error returns, and with it the guard of the handlers goes *)
Return(c) ==
  /\ pc[c] = "return"
  /\ handlers_lock' = IF handlers_lock = c THEN Nobody ELSE handlers_lock
  /\ Leave(c)
  /\ UNCHANGED <<handlers, log, panic_mode, reported, logged>>

(* The panic handler of the kernel calls enter_panic_mode directly. *)
EnterPanicMode ==
  /\ panic_mode' = TRUE
  /\ UNCHANGED <<handlers, log, handlers_lock, locals, reported, logged>>

Step(c) == Gate(c) \/ LockHandlers(c) \/ (\E v \in ErrorResult : CallHandler(c, v))
           \/ NoMoreHandlers(c) \/ LogError(c) \/ Return(c)

Next == \/ \E e \in Entries : RegisterHandler(e)
        \/ \E c \in Callers, r \in Reports : Report(c, r)
        \/ \E c \in Callers : Step(c)
        \/ EnterPanicMode

Spec == Init /\ [][Next]_vars

(* Handlers return and a lock holder runs on, so that a caller inside        *)
(* handle_error always takes its next step.  The number of errors is         *)
(* bounded: no caller can be overtaken for ever at the lock.                 *)
FairSpec == Spec /\ \A c \in Callers : WF_vars(Step(c))

-----------------------------------------------------------------------------
(***************************************************************************)
(* Properties                                                              *)
(***************************************************************************)

Active(c) == pc[c] # "idle"

MatchingHandlers(c) ==
  Retain(InOrder, {e \in Entries : /\ e.source \in {NoFilter, error[c].of.source}
                                   /\ e.level \in {NoFilter, error[c].of.level}})

(* handle_error consults the handlers for the error's own source and level,  *)
(* as they were before they were packed into the code, by priority and then  *)
(* in order of registration, without a gap; it stops at the first Handled,   *)
(* and otherwise only after the last of them.  The result summarises what    *)
(* they said: Handled if one of them did, else Partial if one of them did.   *)
HandlersCalledInOrder ==
  \A c \in Callers : Active(c) =>
    LET seen == [k \in DOMAIN calls[c] |-> calls[c][k].entry]
        said == {calls[c][k].verdict : k \in DOMAIN calls[c]}
    IN /\ Len(seen) <= Len(MatchingHandlers(c))
       /\ seen = SubSeq(MatchingHandlers(c), 1, Len(seen))
       /\ \A k \in DOMAIN calls[c] :
            calls[c][k].verdict = "Handled" => k = Len(calls[c]) /\ pc[c] # "dispatch"
       /\ handlers_lock = c /\ pc[c] \in {"log", "return"} =>
            seen = MatchingHandlers(c) \/ result[c] = "Handled"
       /\ result[c] = IF "Handled" \in said THEN "Handled"
                      ELSE IF "Partial" \in said THEN "Partial" ELSE "Unhandled"

(* An error that is reported in panic mode and is not fatal reaches no       *)
(* handler, and the handlers of a fatal one only run in panic mode: the flag *)
(* is tested and set outside the lock.                                       *)
PanicModeGate ==
  \A c \in Callers : Active(c) /\ calls[c] # << >> =>
    IF error[c].of.level = Fatal THEN panic_mode ELSE ~late[c]

(* Every error is logged exactly once, with the result handle_error returns, *)
(* on every path; and the ring holds the latest of these entries, oldest     *)
(* first, however the callers interleave.                                    *)
LoggedOnce ==
  /\ \A id \in 1 .. reported :
       LET entries == {k \in DOMAIN logged : logged[k].error = id}
           open == {c \in Callers : error[c].id = id
                                      /\ pc[c] \in {"gate", "lock", "dispatch", "log"}}
       IN Cardinality(entries) + Cardinality(open) = 1
  /\ \A c \in Callers : pc[c] = "return" =>
       \E k \in DOMAIN logged :
          logged[k] = [error |-> error[c].id, result |-> result[c]]
  /\ Ring!Iter = IF Len(logged) <= Capacity THEN logged
                 ELSE SubSeq(logged, Len(logged) - Capacity + 1, Len(logged))

(* Every call of handle_error returns: whoever holds the handlers gets       *)
(* through to the end of its log entry and releases them, on all paths.      *)
ErrorsGetResult == \A c \in Callers : pc[c] = "gate" ~> pc[c] = "idle"
=============================================================================
