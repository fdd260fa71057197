------------------------------ MODULE TrapEntry ------------------------------
(***************************************************************************)
(* asm/trap_entry.asm and TrapContext (ds/context.rs): how a hart enters   *)
(* and leaves a trap.  The registers are sp, one the callee saves (s0) and *)
(* two it does not (t0, which the code uses itself, and a0, which carries  *)
(* arguments and results).  A handler may change the context, enable       *)
(* interrupts and raise exceptions, so that traps nest; the entry and the  *)
(* return code raise none.                                                 *)
(***************************************************************************)
EXTENDS Integers, Sequences

CONSTANTS
  StackTop,       \* sp outside traps, in units of CONTEXT_SIZE
  MaxPc,          \* the interrupted code is at pc 0 .. MaxPc
  Interrupt, Exception,    \* values of scause
  ReturnValue, Clobbered   \* values of registers

ASSUME ConstantsAssumption ==
  /\ StackTop \in Nat /\ MaxPc \in Nat
  /\ Interrupt \in Int /\ Exception \in Int
  /\ ReturnValue \in Int /\ Clobbered \in Int

VARIABLES
  at,             \* where the hart is
  regs,
  sie, spie,      \* bits of sstatus: interrupts enabled now, and before the trap
  sepc, scause, stval,
  memory,         \* address -> the TrapContext stored there
  interrupted     \* what each trap under way has interrupted, the newest first

vars == <<at, regs, sie, spie, sepc, scause, stval, memory, interrupted>>

Main(pc) == [code |-> "main", step |-> pc]
Entry(k) == [code |-> "entry", step |-> k]
Handler == [code |-> "handler", step |-> 0]
Leave(k) == [code |-> "return", step |-> k]

TrapContext ==
  [sp |-> 0, t0 |-> 0, a0 |-> 0, s0 |-> 0, sie |-> FALSE, spie |-> FALSE,
   sepc |-> Main(0), scause |-> 0, stval |-> 0]

Init ==
  /\ at = Main(0)
  /\ regs = [sp |-> StackTop, t0 |-> 1, a0 |-> 2, s0 |-> 3]
  /\ sie = TRUE /\ spie = FALSE
  /\ sepc = Main(0) /\ scause = 0 /\ stval = 0
  /\ memory = [a \in 0 .. StackTop |-> TrapContext]
  /\ interrupted = << >>

-----------------------------------------------------------------------------
(* What the hardware tells of a trap in stval: of an interrupt nothing, and  *)
(* of exceptions at different places different things                        *)
ValueOf(cause) == IF cause = Interrupt THEN 0 ELSE at.step + 1

(* The hardware takes a trap: an exception of the code outside or of a       *)
(* handler, or an interrupt wherever interrupts are enabled.                 *)
TakeTrap(cause) ==
  /\ cause = Interrupt => sie
  /\ cause = Exception => at.code \in {"main", "handler"}
  /\ regs.sp > 0                                        \* bound: the stack
  /\ interrupted' =
       <<[at |-> at, regs |-> regs, sie |-> sie, scause |-> cause,
          stval |-> ValueOf(cause)]>> \o interrupted
  /\ spie' = sie /\ sie' = FALSE
  /\ sepc' = at /\ scause' = cause /\ stval' = ValueOf(cause)
  /\ at' = Entry(1)
  /\ UNCHANGED <<regs, memory>>

(* The code outside traps goes on. *)
Work ==
  /\ at.code = "main" /\ at.step < MaxPc
  /\ at' = Main(at.step + 1)
  /\ UNCHANGED <<regs, sie, spie, sepc, scause, stval, memory, interrupted>>

-----------------------------------------------------------------------------
(* __trap_entry *)

(* Mutant: the handler is called before the trap's cause is saved. *)
EntryCodeCallsEarly == <<"sp", "registers", "call", "sstatus", "sepc", "scause", "stval">>

EntryCode == <<"sp", "registers", "sstatus", "sepc", "scause", "stval", "call">>

context == memory[regs.sp]

SaveRegisters == [context EXCEPT !.sp = regs.sp, !.t0 = regs.t0, !.a0 = regs.a0, !.s0 = regs.s0]

SaveSstatus == [context EXCEPT !.sie = sie, !.spie = spie]
SaveSepc == [context EXCEPT !.sepc = sepc]
SaveScause == [context EXCEPT !.scause = scause]
SaveStval == [context EXCEPT !.stval = stval]

Saved(what) ==
  CASE what = "registers" -> SaveRegisters
    [] what = "sstatus"   -> SaveSstatus
    [] what = "sepc"      -> SaveSepc
    [] what = "scause"    -> SaveScause
    [] what = "stval"     -> SaveStval
    [] OTHER              -> context

TrapEntry ==
  LET what == EntryCode[at.step] IN
  /\ at.code = "entry"
  /\ memory' = [memory EXCEPT ![regs.sp] = Saved(what)]
  /\ regs' = CASE what = "sp" -> [regs EXCEPT !.sp = @ - 1]
               [] what \in {"sstatus", "sepc", "scause", "stval"} ->
                    [regs EXCEPT !.t0 = Clobbered]
               [] what = "call" -> [regs EXCEPT !.a0 = regs.sp]
               [] OTHER -> regs
  /\ at' = IF what = "call" THEN Handler ELSE Entry(at.step + 1)
  /\ UNCHANGED <<sie, spie, sepc, scause, stval, interrupted>>

-----------------------------------------------------------------------------
(* handle_trap, as its callers may expect a Rust function to behave: it may  *)
(* use t0 and a0 and keeps s0 and sp.                                        *)
own == interrupted[1]

SetReturnValue ==
  /\ at = Handler /\ context.sepc.code = "main"
  /\ memory' = [memory EXCEPT ![regs.sp].a0 = ReturnValue]
  /\ interrupted' = [interrupted EXCEPT ![1].regs.a0 = ReturnValue]
  /\ UNCHANGED <<at, regs, sie, spie, sepc, scause, stval>>

(* Of an exception: the instruction is not to be executed again.  A handler  *)
(* is one place here and is not left this way.                               *)
AdvanceSepc ==
  /\ at = Handler /\ context.scause = Exception
  /\ context.sepc.code = "main" /\ context.sepc.step < MaxPc
  /\ memory' = [memory EXCEPT ![regs.sp].sepc.step = @ + 1]
  /\ interrupted' = [interrupted EXCEPT ![1].at.step = @ + 1]
  /\ UNCHANGED <<at, regs, sie, spie, sepc, scause, stval>>

(* restore_interrupts(true) in a handler *)
RestoreInterrupts ==
  /\ at = Handler
  /\ sie' = TRUE
  /\ UNCHANGED <<at, regs, spie, sepc, scause, stval, memory, interrupted>>

HandlerReturns ==
  /\ at = Handler
  /\ regs' = [regs EXCEPT !.t0 = Clobbered, !.a0 = Clobbered]
  /\ at' = Leave(1)
  /\ UNCHANGED <<sie, spie, sepc, scause, stval, memory, interrupted>>

-----------------------------------------------------------------------------
(* __trap_return *)

(* Mutant: sepc is restored while interrupts may be enabled. *)
ReturnCodeSepcFirst == <<"sepc", "sstatus", "registers", "sp", "add", "sret">>

ReturnCode == <<"sstatus", "sepc", "registers", "sp", "add", "sret">>

TrapReturn ==
  LET what == ReturnCode[at.step] IN
  /\ at.code = "return"
  /\ what # "sret"
  /\ regs' = CASE what \in {"sstatus", "sepc"} -> [regs EXCEPT !.t0 = Clobbered]
               [] what = "registers" ->
                    [regs EXCEPT !.t0 = context.t0, !.a0 = context.a0, !.s0 = context.s0]
               [] what = "sp"        -> [regs EXCEPT !.sp = context.sp]
               [] what = "add"       -> [regs EXCEPT !.sp = @ + 1]
  /\ sie' = IF what = "sstatus" THEN context.sie ELSE sie
  /\ spie' = IF what = "sstatus" THEN context.spie ELSE spie
  /\ sepc' = IF what = "sepc" THEN context.sepc ELSE sepc
  /\ at' = Leave(at.step + 1)
  /\ UNCHANGED <<scause, stval, memory, interrupted>>

Sret ==
  /\ at.code = "return"
  /\ ReturnCode[at.step] = "sret"
  /\ at' = sepc
  /\ sie' = spie /\ spie' = TRUE
  /\ interrupted' = Tail(interrupted)
  /\ UNCHANGED <<regs, sepc, scause, stval, memory>>

Next ==
  \/ Work
  \/ \E cause \in {Interrupt, Exception} : TakeTrap(cause)
  \/ TrapEntry
  \/ SetReturnValue \/ AdvanceSepc \/ RestoreInterrupts \/ HandlerReturns
  \/ TrapReturn \/ Sret

Spec == Init /\ [][Next]_vars

-----------------------------------------------------------------------------
(***************************************************************************)
(* Properties                                                              *)
(***************************************************************************)

Registers == [sp : 0 .. StackTop, t0 : Int, a0 : Int, s0 : Int]

Places ==
  [code : {"main"}, step : 0 .. MaxPc] \cup {Handler}
  \cup [code : {"entry"}, step : DOMAIN EntryCode]
  \cup [code : {"return"}, step : DOMAIN ReturnCode]

Contexts == [sp : 0 .. StackTop, t0 : Int, a0 : Int, s0 : Int, sie : BOOLEAN,
             spie : BOOLEAN, sepc : Places, scause : Int, stval : Int]

TypeOK ==
  /\ at \in Places
  /\ regs \in Registers
  /\ sie \in BOOLEAN /\ spie \in BOOLEAN
  /\ sepc \in Places /\ scause \in Int /\ stval \in Int
  /\ memory \in [0 .. StackTop -> Contexts]

(* A trap that returns leaves the hart as it was interrupted: every register *)
(* with its value, sp included, at the same place and with interrupts        *)
(* enabled or not as before, except for what the handler has changed in its  *)
(* context; however many traps have come in between.                         *)
ReturnExact ==
  [][interrupted # << >> /\ interrupted' = Tail(interrupted)
       => at' = own.at /\ regs' = own.regs /\ sie' = own.sie]_vars

(* The handler finds its own trap in the context: the cause, the place and   *)
(* the value it was called for, not those of a trap that came later.         *)
ContextIsOwn ==
  at = Handler =>
    context.scause = own.scause /\ context.sepc = own.at /\ context.stval = own.stval
=============================================================================
