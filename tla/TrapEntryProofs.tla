-------------------------- MODULE TrapEntryProofs --------------------------
(***************************************************************************)
(* Traps return exactly, however deeply they nest: the properties of       *)
(* TrapEntry for every size of the stack.                                  *)
(***************************************************************************)
EXTENDS TrapEntry, TLAPS

-----------------------------------------------------------------------------
(* Sequences *)

(* The domain of a sequence is 1 up to its length. *)
LEMMA SeqDomain ==
  ASSUME NEW S, NEW s \in Seq(S)
  PROVE  Len(s) \in Nat /\ DOMAIN s = 1 .. Len(s) /\ s \in [1 .. Len(s) -> S]
  OBVIOUS

(* The elements of a sequence over S are in S. *)
LEMMA SeqElement ==
  ASSUME NEW S, NEW s \in Seq(S), NEW i \in 1 .. Len(s)
  PROVE  s[i] \in S
  OBVIOUS

(* The empty sequence is the only one of length 0. *)
LEMMA SeqEmpty ==
  ASSUME NEW S
  PROVE  /\ << >> \in Seq(S) /\ Len(<< >>) = 0
         /\ \A s \in Seq(S) : s # << >> => Len(s) \in Nat \ {0}
  OBVIOUS

(* Writing one element keeps the length. *)
LEMMA SeqUpdated ==
  ASSUME NEW S, NEW s \in Seq(S), NEW i \in 1 .. Len(s), NEW e \in S
  PROVE  [s EXCEPT ![i] = e] \in Seq(S) /\ Len([s EXCEPT ![i] = e]) = Len(s)
  OBVIOUS

(* The first part of s \o t is s, the second t. *)
LEMMA ConcatParts ==
  ASSUME NEW S, NEW s \in Seq(S), NEW t \in Seq(S)
  PROVE  /\ s \o t \in Seq(S) /\ Len(s \o t) = Len(s) + Len(t)
         /\ \A i \in 1 .. Len(s) : (s \o t)[i] = s[i]
         /\ \A i \in 1 .. Len(t) : (s \o t)[Len(s) + i] = t[i]
  OBVIOUS

(* The tail is the sequence without its first element. *)
LEMMA TailParts ==
  ASSUME NEW S, NEW s \in Seq(S), s # << >>
  PROVE  /\ Head(s) \in S /\ Tail(s) \in Seq(S) /\ Len(Tail(s)) = Len(s) - 1
         /\ \A i \in 1 .. Len(s) - 1 : Tail(s)[i] = s[i + 1]
  OBVIOUS

Traps == [at : Places, regs : Registers, sie : BOOLEAN, scause : Int, stval : Int]

n == Len(interrupted)

(* The context m describes the trap t completely. *)
Holds(m, t) ==
  /\ m.sp = t.regs.sp - 1
  /\ m.t0 = t.regs.t0 /\ m.a0 = t.regs.a0 /\ m.s0 = t.regs.s0
  /\ m.sie = FALSE /\ m.spie = t.sie
  /\ m.sepc = t.at /\ m.scause = t.scause /\ m.stval = t.stval

(***************************************************************************)
(* The inductive invariant.  Traps nest only in a handler or before the    *)
(* first instruction of the return code, so the stack holds one complete   *)
(* context per outer trap, one below the other; for the newest trap it     *)
(* says how far the entry or return code has come.                         *)
(***************************************************************************)
Types ==
  /\ TypeOK
  /\ interrupted \in Seq(Traps)
  /\ n <= StackTop

Stacked == \A i \in 1 .. n : interrupted[i].regs.sp = StackTop - n + i

Nested ==
  \A i \in 1 .. n :
    /\ i < n => interrupted[i].at \in {Handler, Leave(1)}
    /\ i = n => interrupted[i].at.code = "main"

OuterHeld == \A i \in 2 .. n : Holds(memory[StackTop - n + i - 1], interrupted[i])

Outside == n = 0 => at.code = "main" /\ regs.sp = StackTop

Framed == regs.sp = own.regs.sp - 1

Hardware ==
  /\ sie = FALSE /\ spie = own.sie
  /\ sepc = own.at /\ scause = own.scause /\ stval = own.stval

Entering ==
  n > 0 /\ at.code = "entry" =>
    /\ Hardware
    /\ at.step = 1 => regs = own.regs
    /\ at.step > 1 => Framed
    /\ at.step = 2 => regs.t0 = own.regs.t0 /\ regs.a0 = own.regs.a0 /\ regs.s0 = own.regs.s0
    /\ at.step > 2 => /\ context.sp = regs.sp /\ context.t0 = own.regs.t0
                      /\ context.a0 = own.regs.a0 /\ context.s0 = own.regs.s0
    /\ at.step > 3 => context.sie = FALSE /\ context.spie = own.sie
    /\ at.step > 4 => context.sepc = own.at
    /\ at.step > 5 => context.scause = own.scause
    /\ at.step > 6 => context.stval = own.stval

Handling == n > 0 /\ at = Handler => Framed /\ Holds(context, own)

Returning ==
  n > 0 /\ at.code = "return" =>
    /\ at.step < 6 => Framed /\ Holds(context, own)
    /\ at.step > 1 => sie = FALSE /\ spie = own.sie
    /\ at.step > 2 => sepc = own.at
    /\ at.step > 3 => regs.t0 = own.regs.t0 /\ regs.a0 = own.regs.a0 /\ regs.s0 = own.regs.s0
    /\ at.step = 6 => regs.sp = own.regs.sp

Inside == n > 0 => at.code # "main"

Inv == /\ Types /\ Stacked /\ Nested /\ OuterHeld
       /\ Outside /\ Inside /\ Entering /\ Handling /\ Returning

-----------------------------------------------------------------------------
(* The instructions of the entry and the return code, by their number. *)
LEMMA CodeForms ==
  /\ DOMAIN EntryCode = 1 .. 7
  /\ EntryCode[1] = "sp" /\ EntryCode[2] = "registers" /\ EntryCode[3] = "sstatus"
  /\ EntryCode[4] = "sepc" /\ EntryCode[5] = "scause" /\ EntryCode[6] = "stval"
  /\ EntryCode[7] = "call"
  /\ DOMAIN ReturnCode = 1 .. 6
  /\ ReturnCode[1] = "sstatus" /\ ReturnCode[2] = "sepc" /\ ReturnCode[3] = "registers"
  /\ ReturnCode[4] = "sp" /\ ReturnCode[5] = "add" /\ ReturnCode[6] = "sret"
  BY DEF EntryCode, ReturnCode

(* What a place is. *)
LEMMA PlaceForms ==
  /\ \A p \in Places :
       /\ p = [code |-> p.code, step |-> p.step]
       /\ p.step \in Int
       /\ p.code \in {"main", "entry", "handler", "return"}
       /\ p.code = "main" => p.step \in 0 .. MaxPc
       /\ p.code = "handler" => p = Handler
       /\ p.code = "entry" => p.step \in 1 .. 7
       /\ p.code = "return" => p.step \in 1 .. 6
  /\ \A k \in 0 .. MaxPc : Main(k) \in Places
  /\ \A k \in 1 .. 7 : Entry(k) \in Places
  /\ \A k \in 1 .. 6 : Leave(k) \in Places
  /\ Handler \in Places
  BY CodeForms, ConstantsAssumption DEF Places, Main, Entry, Leave, Handler

(* The newest trap is a trap, and its context lies below the outer ones. *)
LEMMA OwnForms ==
  ASSUME Types, n > 0
  PROVE  /\ n \in Nat /\ own \in Traps /\ own = interrupted[1]
         /\ own.at \in Places /\ own.regs \in Registers /\ own.sie \in BOOLEAN
         /\ own.scause \in Int /\ own.stval \in Int /\ own.regs.sp \in 0 .. StackTop
  <1>1. n \in Nat /\ 1 \in 1 .. n
    BY SeqDomain DEF Types, n
  <1>2. own \in Traps
    BY <1>1, SeqElement DEF Types, n, own
  <1> QED
    BY <1>1, <1>2 DEF own, Traps, Registers

(* The state before the first trap satisfies the invariant. *)
LEMMA InitInv == Init => Inv
  <1> SUFFICES ASSUME Init PROVE Inv
    OBVIOUS
  <1>1. n = 0 /\ interrupted \in Seq(Traps)
    BY SeqEmpty DEF Init, n
  <1>2. Main(0) \in Places
    BY PlaceForms, ConstantsAssumption
  <1>3. TypeOK
    <2>1. regs \in Registers
      BY ConstantsAssumption DEF Init, Registers
    <2>2. TrapContext \in Contexts
      BY <1>2, ConstantsAssumption DEF Contexts, TrapContext
    <2>3. memory \in [0 .. StackTop -> Contexts]
      BY <2>2 DEF Init
    <2>4. at \in Places /\ sepc \in Places
      BY <1>2 DEF Init
    <2>5. sie \in BOOLEAN /\ spie \in BOOLEAN
      BY Zenon DEF Init
    <2>6. scause \in Int /\ stval \in Int
      BY DEF Init
    <2> QED
      BY <2>1, <2>3, <2>4, <2>5, <2>6 DEF TypeOK
  <1>4. Types /\ Stacked /\ Nested /\ OuterHeld
    BY <1>1, <1>3, ConstantsAssumption DEF Types, Stacked, Nested, OuterHeld
  <1>5. Outside /\ Inside /\ Entering /\ Handling /\ Returning
    BY <1>1, ConstantsAssumption
    DEF Init, Main, Outside, Inside, Entering, Handling, Returning
  <1> QED
    BY <1>4, <1>5 DEF Inv

(* A step that changes neither the stack of traps nor the contexts of the    *)
(* outer ones keeps what the invariant says of them.                         *)
LEMMA OuterTrapsKept ==
  ASSUME Inv, UNCHANGED interrupted, TypeOK',
         \A a \in 0 .. StackTop : a > StackTop - n => memory'[a] = memory[a]
  PROVE  Types' /\ Stacked' /\ Nested' /\ OuterHeld'
  <1>1. n' = n /\ n \in Nat
    BY SeqDomain DEF Inv, Types, n
  <1>2. Types' /\ Stacked' /\ Nested'
    BY <1>1 DEF Inv, Types, Stacked, Nested
  <1>3. \A i \in 2 .. n : StackTop - n + i - 1 \in 0 .. StackTop /\ StackTop - n + i - 1 > StackTop - n
    BY <1>1, ConstantsAssumption DEF Inv, Types
  <1>4. OuterHeld'
    BY <1>1, <1>3 DEF Inv, OuterHeld, Holds
  <1> QED
    BY <1>2, <1>4

-----------------------------------------------------------------------------
(* A trap that is taken finds the hart outside all traps, in a handler, or   *)
(* before the first instruction of the return code.                          *)
LEMMA TrapPlaces ==
  ASSUME Inv, NEW cause \in {Interrupt, Exception}, TakeTrap(cause)
  PROVE  \/ n = 0 /\ at.code = "main" /\ regs.sp = StackTop
         \/ n > 0 /\ at \in {Handler, Leave(1)} /\ Framed /\ Holds(context, own)
  <1>1. n \in Nat
    BY SeqDomain DEF Inv, Types, n
  <1>2. CASE n = 0
    BY <1>2 DEF Inv, Outside
  <1>3. CASE n > 0
    <2>1. at.code # "main" /\ (at.code = "handler" \/ sie)
      BY <1>3 DEF Inv, Inside, TakeTrap
    <2>2. at \in Places
      BY DEF Inv, Types, TypeOK
    <2>3. at.code # "entry"
      BY <1>3, <2>1 DEF Inv, Entering, Hardware
    <2>4. CASE at.code = "handler"
      BY <1>3, <2>2, <2>4, PlaceForms DEF Inv, Handling
    <2>5. CASE at.code = "return"
      <3>1. at.step = 1
        BY <1>3, <2>1, <2>2, <2>5, PlaceForms DEF Inv, Returning
      <3>2. at = Leave(1)
        BY <2>2, <2>5, <3>1, PlaceForms DEF Leave
      <3> QED
        BY <1>3, <2>5, <3>1, <3>2 DEF Inv, Returning
    <2> QED
      BY <2>1, <2>2, <2>3, <2>4, <2>5, PlaceForms
  <1> QED
    BY <1>1, <1>2, <1>3

(* Taking a trap keeps the invariant: the context of the trap that was the   *)
(* newest is complete, and stays where it is.                                *)
LEMMA TakeTrapInv ==
  ASSUME Inv, NEW cause \in {Interrupt, Exception}, TakeTrap(cause)
  PROVE  Inv'
  <1> DEFINE t == [at |-> at, regs |-> regs, sie |-> sie, scause |-> cause,
                   stval |-> ValueOf(cause)]
  <1>1. n \in Nat /\ n <= StackTop
    BY SeqDomain DEF Inv, Types, n
  <1>2. t \in Traps /\ cause \in Int /\ ValueOf(cause) \in Int
    <2>1. ValueOf(cause) \in Int
      <3>1. at.step \in Int
        BY PlaceForms DEF Inv, Types, TypeOK
      <3> QED
        BY <3>1 DEF ValueOf
    <2> QED
      BY <2>1, ConstantsAssumption DEF Inv, Types, TypeOK, Traps
  <1>3. <<t>> \in Seq(Traps) /\ Len(<<t>>) = 1 /\ <<t>>[1] = t
    <2> HIDE DEF t
    <2> QED
      BY <1>2
  <1>4. /\ interrupted' \in Seq(Traps) /\ n' = n + 1
        /\ \A i \in 1 .. n + 1 : interrupted'[i] = IF i <= 1 THEN <<t>>[i] ELSE interrupted[i - 1]
    <2>1. interrupted' = <<t>> \o interrupted /\ interrupted \in Seq(Traps)
      BY DEF TakeTrap, Inv, Types
    <2> HIDE DEF t
    <2>2. /\ <<t>> \o interrupted \in Seq(Traps)
          /\ Len(<<t>> \o interrupted) = Len(<<t>>) + Len(interrupted)
          /\ \A i \in 1 .. Len(<<t>>) + Len(interrupted) :
               (<<t>> \o interrupted)[i] =
                 IF i <= Len(<<t>>) THEN <<t>>[i] ELSE interrupted[i - Len(<<t>>)]
      BY <1>3, <2>1, ConcatParts
    <2>3. Len(<<t>>) + Len(interrupted) = n + 1
      BY <1>1, <1>3 DEF n
    <2> QED
      BY <1>3, <2>1, <2>2, <2>3 DEF n
  <1> HIDE DEF t
  <1>5. interrupted'[1] = t /\ \A i \in 2 .. n + 1 : interrupted'[i] = interrupted[i - 1]
    <2>1. 1 \in 1 .. n + 1 /\ \A i \in 2 .. n + 1 : i \in 1 .. n + 1 /\ ~(i <= 1)
      BY <1>1
    <2> QED
      BY <1>3, <1>4, <2>1
  <1>6. own' = t
    BY <1>5 DEF own
  <1>7. regs.sp = StackTop - n /\ regs.sp > 0
    <2>1. n > 0 => own.regs.sp = StackTop - n + 1
      BY <1>1 DEF Inv, Stacked, own
    <2>2. \/ n = 0 /\ regs.sp = StackTop
          \/ n > 0 /\ regs.sp = own.regs.sp - 1
      BY TrapPlaces DEF Framed
    <2>3. regs.sp > 0
      BY DEF TakeTrap
    <2> QED
      BY <1>1, <2>1, <2>2, <2>3, ConstantsAssumption
  <1>8. /\ t.at = at /\ t.regs = regs /\ t.sie = sie /\ t.scause = cause
        /\ t.stval = ValueOf(cause)
    BY DEF t
  <1>9. TypeOK'
    <2>1. Entry(1) \in Places
      BY PlaceForms
    <2> QED
      BY Zenon, <1>2, <2>1 DEF Inv, Types, TypeOK, TakeTrap
  <1>10. Types'
    BY <1>1, <1>4, <1>7, <1>9, ConstantsAssumption DEF Types
  <1>11. Stacked'
    <2> SUFFICES ASSUME NEW i \in 1 .. n + 1
                 PROVE  interrupted'[i].regs.sp = StackTop - (n + 1) + i
      BY <1>4 DEF Stacked
    <2>1. CASE i = 1
      BY <1>1, <1>5, <1>7, <1>8, <2>1, ConstantsAssumption
    <2>2. CASE i > 1
      <3>1. i - 1 \in 1 .. n /\ interrupted'[i] = interrupted[i - 1]
        BY <1>1, <1>5, <2>2
      <3> QED
        BY <1>1, <3>1, ConstantsAssumption DEF Inv, Stacked
    <2> QED
      BY <1>1, <2>1, <2>2
  <1>12. Nested'
    <2> SUFFICES ASSUME NEW i \in 1 .. n + 1
                 PROVE  /\ i < n + 1 => interrupted'[i].at \in {Handler, Leave(1)}
                        /\ i = n + 1 => interrupted'[i].at.code = "main"
      BY <1>4 DEF Nested
    <2>1. CASE i = 1
      BY <1>1, <1>5, <1>8, <2>1, TrapPlaces
    <2>2. CASE i > 1
      <3>1. i - 1 \in 1 .. n /\ interrupted'[i] = interrupted[i - 1]
        BY <1>1, <1>5, <2>2
      <3> QED
        BY <1>1, <3>1 DEF Inv, Nested
    <2> QED
      BY <1>1, <2>1, <2>2
  <1>13. OuterHeld'
    <2> SUFFICES ASSUME NEW i \in 2 .. n + 1
                 PROVE  Holds(memory'[StackTop - (n + 1) + i - 1], interrupted'[i])
      BY <1>4 DEF OuterHeld
    <2>0. memory' = memory
      BY DEF TakeTrap
    <2>1. i - 1 \in 1 .. n /\ interrupted'[i] = interrupted[i - 1] /\ memory' = memory
      BY <1>1, <1>5, <2>0
    <2>2. StackTop - (n + 1) + i - 1 = StackTop - n + (i - 1) - 1
      BY <1>1, <2>1, ConstantsAssumption
    <2>3. CASE i = 2
      <3>1. n > 0 /\ Holds(context, own)
        BY <1>1, <2>1, TrapPlaces
      <3>2. StackTop - (n + 1) + i - 1 = regs.sp
        BY <1>1, <1>7, <2>3, ConstantsAssumption
      <3>3. interrupted'[i] = own
        BY <2>1, <2>3 DEF own
      <3> QED
        BY <2>1, <3>1, <3>2, <3>3 DEF context
    <2>4. CASE i > 2
      <3>1. i - 1 \in 2 .. n
        BY <1>1, <2>1, <2>4
      <3> QED
        BY <2>1, <2>2, <3>1 DEF Inv, OuterHeld
    <2> QED
      BY <2>3, <2>4
  <1>14. Entering'
    BY <1>6, <1>8 DEF TakeTrap, Entry, Entering, Hardware
  <1>15. Outside' /\ Inside' /\ Handling' /\ Returning'
    BY <1>1, <1>4 DEF TakeTrap, Entry, Handler, Outside, Inside, Handling, Returning
  <1> QED
    BY <1>10, <1>11, <1>12, <1>13, <1>14, <1>15 DEF Inv

-----------------------------------------------------------------------------
(* The context of the newest trap is the lowest one. *)
LEMMA LowestContext ==
  ASSUME Inv, n > 0
  PROVE  /\ n \in Nat /\ own.regs.sp = StackTop - n + 1
         /\ Framed => regs.sp = StackTop - n
  <1>1. n \in Nat
    BY SeqDomain DEF Inv, Types, n
  <1>2. own.regs.sp = StackTop - n + 1
    BY <1>1 DEF Inv, Stacked, own
  <1> QED
    BY <1>1, <1>2, ConstantsAssumption DEF Framed

(* A handler that changes what its trap returns to, in the context and in    *)
(* what the trap has interrupted, leaves the outer traps alone.              *)
LEMMA OwnReplaced ==
  ASSUME Inv, n > 0, TypeOK', NEW t \in Traps,
         interrupted' = [interrupted EXCEPT ![1] = t],
         t.regs.sp = own.regs.sp,
         IF own.at.code = "main" THEN t.at.code = "main" ELSE t.at = own.at,
         \A a \in 0 .. StackTop : a > StackTop - n => memory'[a] = memory[a]
  PROVE  Types' /\ Stacked' /\ Nested' /\ OuterHeld' /\ n' = n /\ own' = t
  <1>1. n \in Nat /\ n <= StackTop /\ 1 \in 1 .. n
    BY SeqDomain DEF Inv, Types, n
  <1>2. /\ interrupted' \in Seq(Traps) /\ n' = n
        /\ \A j \in 1 .. n : interrupted'[j] = IF j = 1 THEN t ELSE interrupted[j]
    BY <1>1, SeqUpdated DEF Inv, Types, n
  <1>3. own' = t
    BY <1>1, <1>2 DEF own
  <1>4. Types' /\ Stacked'
    BY <1>1, <1>2 DEF Inv, Types, Stacked, own
  <1>5. Nested'
    <2> SUFFICES ASSUME NEW i \in 1 .. n
                 PROVE  /\ i < n => interrupted'[i].at \in {Handler, Leave(1)}
                        /\ i = n => interrupted'[i].at.code = "main"
      BY <1>2 DEF Nested
    <2>1. CASE i = 1
      BY <1>1, <1>2, <2>1 DEF Inv, Nested, own, Handler, Leave
    <2>2. CASE i # 1
      BY <1>1, <1>2, <2>2 DEF Inv, Nested
    <2> QED
      BY <2>1, <2>2
  <1>6. OuterHeld'
    <2> SUFFICES ASSUME NEW i \in 2 .. n
                 PROVE  Holds(memory'[StackTop - n + i - 1], interrupted'[i])
      BY <1>2 DEF OuterHeld
    <2>1. StackTop - n + i - 1 \in 0 .. StackTop /\ StackTop - n + i - 1 > StackTop - n
      BY <1>1, ConstantsAssumption
    <2>2. memory'[StackTop - n + i - 1] = memory[StackTop - n + i - 1]
      BY <2>1
    <2>3. interrupted'[i] = interrupted[i]
      BY <1>1, <1>2
    <2> QED
      BY <2>2, <2>3 DEF Inv, OuterHeld
  <1> QED
    BY <1>2, <1>3, <1>4, <1>5, <1>6

(* The handler may change the result register of its trap. *)
LEMMA SetReturnValueInv == Inv /\ SetReturnValue => Inv'
  <1> SUFFICES ASSUME Inv, SetReturnValue PROVE Inv'
    OBVIOUS
  <1>1. n \in Nat /\ n > 0 /\ Framed /\ Holds(context, own)
    <2>1. n \in Nat
      BY SeqDomain DEF Inv, Types, n
    <2> QED
      BY <2>1 DEF Inv, Outside, Handling, SetReturnValue, Handler
  <1>2. own \in Traps /\ own.regs \in Registers
    BY <1>1, OwnForms DEF Inv
  <1> DEFINE t == [own EXCEPT !.regs.a0 = ReturnValue]
  <1>3. /\ t \in Traps /\ t.regs.sp = own.regs.sp /\ t.regs.t0 = own.regs.t0
        /\ t.regs.a0 = ReturnValue /\ t.regs.s0 = own.regs.s0
        /\ t.scause = own.scause /\ t.stval = own.stval /\ t.at = own.at /\ t.sie = own.sie
    BY <1>2, ConstantsAssumption DEF Traps, Registers
  <1>4. interrupted' = [interrupted EXCEPT ![1] = t]
    BY DEF SetReturnValue, own
  <1>5. regs.sp \in 0 .. StackTop /\ memory[regs.sp] \in Contexts
    BY DEF Inv, Types, TypeOK, Registers
  <1>6. /\ memory' \in [0 .. StackTop -> Contexts]
        /\ \A a \in 0 .. StackTop : a # regs.sp => memory'[a] = memory[a]
        /\ memory'[regs.sp] = [context EXCEPT !.a0 = ReturnValue]
    BY Zenon, <1>5, ConstantsAssumption DEF SetReturnValue, Inv, Types, TypeOK, Contexts,
       context
  <1>7. UNCHANGED <<at, regs, sie, spie, sepc, scause, stval>> /\ at = Handler
    BY DEF SetReturnValue
  <1>8. TypeOK'
    BY <1>6, <1>7 DEF Inv, Types, TypeOK
  <1> HIDE DEF t
  <1>9. \A a \in 0 .. StackTop : a > StackTop - n => memory'[a] = memory[a]
    BY <1>1, <1>6, LowestContext, ConstantsAssumption
  <1>10. Types' /\ Stacked' /\ Nested' /\ OuterHeld' /\ n' = n /\ own' = t
    BY Zenon, <1>1, <1>3, <1>4, <1>8, <1>9, OwnReplaced
  <1>11. Handling'
    <2>1. Holds([context EXCEPT !.a0 = ReturnValue], t)
      BY <1>1, <1>3, <1>5 DEF Holds, context, Contexts
    <2>2. Framed'
      BY <1>1, <1>3, <1>7, <1>10 DEF Framed
    <2> QED
      BY <1>6, <1>7, <1>10, <2>1, <2>2 DEF Handling, context
  <1>12. Outside' /\ Inside' /\ Entering' /\ Returning'
    BY <1>1, <1>7, <1>10 DEF Handler, Outside, Inside, Entering, Returning
  <1> QED
    BY <1>10, <1>11, <1>12 DEF Inv

(* The handler of an exception may skip the instruction that raised it. *)
LEMMA AdvanceSepcInv == Inv /\ AdvanceSepc => Inv'
  <1> SUFFICES ASSUME Inv, AdvanceSepc PROVE Inv'
    OBVIOUS
  <1>1. n \in Nat /\ n > 0 /\ Framed /\ Holds(context, own)
    <2>1. n \in Nat
      BY SeqDomain DEF Inv, Types, n
    <2> QED
      BY <2>1 DEF Inv, Outside, Handling, AdvanceSepc, Handler
  <1>2. own \in Traps /\ own.at \in Places
    BY <1>1, OwnForms DEF Inv
  <1> DEFINE pc == [own.at EXCEPT !.step = own.at.step + 1]
  <1> DEFINE t == [own EXCEPT !.at = pc]
  <1>3. own.at.code = "main" /\ own.at.step \in 0 .. MaxPc /\ own.at.step + 1 \in 0 .. MaxPc
    <2>1. own.at.code = "main" /\ own.at.step < MaxPc
      BY <1>1 DEF AdvanceSepc, Holds
    <2> QED
      BY <1>2, <2>1, PlaceForms, ConstantsAssumption
  <1>4. pc \in Places /\ pc.code = "main"
    <2>1. own.at = [code |-> "main", step |-> own.at.step]
      BY <1>2, <1>3, PlaceForms
    <2>2. pc = Main(own.at.step + 1)
      BY <2>1 DEF Main
    <2> QED
      BY <1>3, <2>2, PlaceForms DEF Main
  <1> HIDE DEF pc
  <1>5. /\ t \in Traps /\ t.regs = own.regs /\ t.scause = own.scause
        /\ t.at = pc /\ t.sie = own.sie /\ t.stval = own.stval
    BY <1>2, <1>4 DEF Traps
  <1>6. interrupted' = [interrupted EXCEPT ![1] = t]
    BY DEF AdvanceSepc, own, pc
  <1>7. regs.sp \in 0 .. StackTop /\ memory[regs.sp] \in Contexts
    BY DEF Inv, Types, TypeOK, Registers
  <1>8. memory' = [memory EXCEPT ![regs.sp] = [context EXCEPT !.sepc = pc]]
    BY <1>1 DEF AdvanceSepc, pc, Holds, context
  <1>9. /\ memory' \in [0 .. StackTop -> Contexts]
        /\ \A a \in 0 .. StackTop : a # regs.sp => memory'[a] = memory[a]
        /\ memory'[regs.sp] = [context EXCEPT !.sepc = pc]
    BY Zenon, <1>4, <1>7, <1>8 DEF Inv, Types, TypeOK, Contexts, context
  <1>10. UNCHANGED <<at, regs, sie, spie, sepc, scause, stval>> /\ at = Handler
    BY DEF AdvanceSepc
  <1>11. TypeOK'
    BY <1>9, <1>10 DEF Inv, Types, TypeOK
  <1> HIDE DEF t
  <1>12. \A a \in 0 .. StackTop : a > StackTop - n => memory'[a] = memory[a]
    BY <1>1, <1>9, LowestContext, ConstantsAssumption
  <1>13. Types' /\ Stacked' /\ Nested' /\ OuterHeld' /\ n' = n /\ own' = t
    BY Zenon, <1>1, <1>3, <1>4, <1>5, <1>6, <1>11, <1>12, OwnReplaced
  <1>14. Handling'
    <2>1. Holds([context EXCEPT !.sepc = pc], t)
      BY <1>1, <1>5, <1>7 DEF Holds, context, Contexts
    <2>2. Framed'
      BY <1>1, <1>5, <1>10, <1>13 DEF Framed
    <2> QED
      BY <1>9, <1>10, <1>13, <2>1, <2>2 DEF Handling, context
  <1>15. Outside' /\ Inside' /\ Entering' /\ Returning'
    BY <1>1, <1>10, <1>13 DEF Handler, Outside, Inside, Entering, Returning
  <1> QED
    BY <1>13, <1>14, <1>15 DEF Inv

(* The rest of what a handler does, and the code outside, keep the invariant. *)
LEMMA HandlerInv == Inv /\ (Work \/ RestoreInterrupts \/ HandlerReturns) => Inv'
  <1> SUFFICES ASSUME Inv, Work \/ RestoreInterrupts \/ HandlerReturns PROVE Inv'
    OBVIOUS
  <1>1. UNCHANGED <<interrupted, memory>> /\ n' = n /\ own' = own
    BY DEF Work, RestoreInterrupts, HandlerReturns, n, own
  <1>2. n \in Nat
    BY SeqDomain DEF Inv, Types, n
  <1>3. at \in Places /\ regs \in Registers
    BY DEF Inv, Types, TypeOK
  <1>4. CASE Work
    <2>1. n = 0 /\ at' = Main(at.step + 1) /\ at.step + 1 \in 0 .. MaxPc
      BY <1>2, <1>3, <1>4, PlaceForms, ConstantsAssumption DEF Work, Inv, Inside
    <2>2. TypeOK'
      BY Zenon, <1>4, <2>1, PlaceForms DEF Work, Inv, Types, TypeOK
    <2>3. Outside' /\ Inside' /\ Entering' /\ Handling' /\ Returning'
      <3>1. at'.code = "main" /\ n' = 0 /\ regs' = regs /\ regs.sp = StackTop
        BY <1>1, <1>4, <2>1 DEF Work, Main, Inv, Outside
      <3> QED
        BY <3>1 DEF Outside, Inside, Entering, Handling, Returning
    <2> QED
      BY <1>1, <2>2, <2>3, OuterTrapsKept DEF Inv
  <1>5. CASE RestoreInterrupts
    <2>1. TypeOK' /\ UNCHANGED <<at, regs, spie, sepc, scause, stval>> /\ at = Handler
      BY <1>1, <1>5 DEF RestoreInterrupts, Inv, Types, TypeOK
    <2>2. Outside' /\ Inside' /\ Entering' /\ Handling' /\ Returning'
      BY <1>1, <2>1 DEF Handler, Inv, Outside, Inside, Entering, Handling, Returning,
                        Framed, context
    <2> QED
      BY <1>1, <2>1, <2>2, OuterTrapsKept DEF Inv
  <1>6. CASE HandlerReturns
    <2>1. /\ at = Handler /\ at' = Leave(1) /\ regs' \in Registers /\ regs'.sp = regs.sp
          /\ UNCHANGED <<sie, spie, sepc, scause, stval>>
      BY Zenon, <1>3, <1>6, ConstantsAssumption DEF HandlerReturns, Registers
    <2>2. TypeOK'
      BY <1>1, <2>1, PlaceForms DEF Inv, Types, TypeOK
    <2>3. n > 0 /\ Framed /\ Holds(context, own)
      BY <1>2, <2>1 DEF Inv, Outside, Handling, Handler
    <2>4. Framed' /\ context' = context
      BY Zenon, <1>1, <2>1, <2>3 DEF Framed, context
    <2>5. Returning'
      BY <1>1, <2>1, <2>3, <2>4 DEF Leave, Returning
    <2>6. Outside' /\ Inside' /\ Entering' /\ Handling'
      BY <1>1, <2>1, <2>3 DEF Leave, Handler, Outside, Inside, Entering, Handling
    <2> QED
      BY <1>1, <2>2, <2>5, <2>6, OuterTrapsKept DEF Inv
  <1> QED
    BY <1>4, <1>5, <1>6

-----------------------------------------------------------------------------
(* Each instruction of the entry code adds its part to the context. *)
LEMMA TrapEntryInv == Inv /\ TrapEntry => Inv'
  <1> SUFFICES ASSUME Inv, TrapEntry PROVE Inv'
    OBVIOUS
  <1>1. /\ at.code = "entry" /\ at.step \in 1 .. 7
        /\ UNCHANGED <<sie, spie, sepc, scause, stval, interrupted>>
    BY PlaceForms DEF TrapEntry, Inv, Types, TypeOK
  <1>2. n \in Nat /\ n > 0 /\ n' = n /\ own' = own
    <2>1. n \in Nat
      BY SeqDomain DEF Inv, Types, n
    <2>2. n' = n /\ own' = own
      BY <1>1 DEF n, own
    <2> QED
      BY <1>1, <2>1, <2>2 DEF Inv, Outside
  <1>3. own.regs \in Registers /\ own.regs.sp = StackTop - n + 1
    BY <1>2, OwnForms, LowestContext DEF Inv
  <1>4. regs \in Registers /\ regs.sp \in 0 .. StackTop /\ context \in Contexts
    BY DEF Inv, Types, TypeOK, Registers, context
  <1>5. Hardware /\ (at.step > 1 => Framed)
    BY <1>1, <1>2 DEF Inv, Entering
  <1>6. Hardware' /\ sie \in BOOLEAN /\ spie \in BOOLEAN /\ sepc \in Places
        /\ scause \in Int /\ stval \in Int
    BY <1>1, <1>2, <1>5 DEF Hardware, Inv, Types, TypeOK
  <1>7. ASSUME NEW m \in Contexts, memory' = [memory EXCEPT ![regs.sp] = m],
               at.step > 1 \/ m = context, regs' \in Registers, at' \in Places,
               at'.code # "main"
        PROVE  /\ memory'[regs.sp] = m
               /\ Types' /\ Stacked' /\ Nested' /\ OuterHeld' /\ Outside' /\ Inside'
    <2>1. /\ memory' \in [0 .. StackTop -> Contexts] /\ memory'[regs.sp] = m
          /\ \A a \in 0 .. StackTop : a # regs.sp => memory'[a] = memory[a]
      BY <1>4, <1>7 DEF Inv, Types, TypeOK
    <2>2. TypeOK'
      BY <1>1, <1>6, <1>7, <2>1 DEF TypeOK
    <2>3. \A a \in 0 .. StackTop : a > StackTop - n => memory'[a] = memory[a]
      <3>1. CASE at.step > 1
        BY <1>2, <1>5, <2>1, <3>1, LowestContext, ConstantsAssumption
      <3>2. CASE m = context
        BY <2>1, <3>2 DEF context
      <3> QED
        BY <1>7, <3>1, <3>2
    <2> QED
      BY <1>1, <1>2, <1>7, <2>1, <2>2, <2>3, OuterTrapsKept DEF Outside, Inside
  <1>8. CASE at.step = 1
    <2>1. /\ memory' = [memory EXCEPT ![regs.sp] = context]
          /\ regs' = [regs EXCEPT !.sp = @ - 1] /\ at' = Entry(2)
      BY <1>8, CodeForms DEF TrapEntry, Saved
    <2>2. regs = own.regs
      BY <1>1, <1>2, <1>8 DEF Inv, Entering
    <2>3. /\ regs' \in Registers /\ regs'.sp = own.regs.sp - 1 /\ regs'.t0 = own.regs.t0
          /\ regs'.a0 = own.regs.a0 /\ regs'.s0 = own.regs.s0
      <3>1. regs.sp \in 1 .. StackTop
        BY <1>2, <1>3, <2>2, ConstantsAssumption DEF Inv, Types
      <3> QED
        BY <1>4, <2>1, <2>2, <3>1, ConstantsAssumption DEF Registers
    <2>4. Entering'
      BY <1>2, <1>6, <2>1, <2>3 DEF Entering, Entry, Framed
    <2>5. Handling' /\ Returning'
      BY <2>1 DEF Handling, Returning, Entry, Handler
    <2>6. at' \in Places /\ at'.code # "main"
      BY <2>1, PlaceForms DEF Entry
    <2> QED
      BY Zenon, <1>4, <1>7, <2>1, <2>3, <2>4, <2>5, <2>6 DEF Inv
  <1>9. CASE at.step \in 2 .. 6
    <2> DEFINE m == Saved(EntryCode[at.step])
    <2>1. memory' = [memory EXCEPT ![regs.sp] = m]
      BY DEF TrapEntry
    <2>2. at' = Entry(at.step + 1) /\ at' \in Places /\ at'.code # "main"
      <3>1. at.step = 2 \/ at.step = 3 \/ at.step = 4 \/ at.step = 5 \/ at.step = 6
        BY <1>9
      <3>2. at' = Entry(at.step + 1)
        BY <3>1, CodeForms DEF TrapEntry
      <3>3. at.step + 1 \in 1 .. 7
        BY <1>9
      <3> QED
        BY <3>2, <3>3, PlaceForms DEF Entry
    <2>3. regs' \in Registers /\ regs'.sp = regs.sp
      <3>1. CASE at.step = 2
        BY <1>4, <3>1, CodeForms DEF TrapEntry
      <3>2. CASE at.step \in 3 .. 6
        <4>1. EntryCode[at.step] \in {"sstatus", "sepc", "scause", "stval"} /\ EntryCode[at.step] # "sp"
          BY <3>2, CodeForms
        <4>2. regs' = [regs EXCEPT !.t0 = Clobbered]
          BY <4>1 DEF TrapEntry
        <4> QED
          BY <1>4, <4>2, ConstantsAssumption DEF Registers
      <3> QED
        BY <1>9, <3>1, <3>2
    <2>4. /\ m \in Contexts
          /\ at.step = 2 => /\ m.sp = regs.sp /\ m.t0 = own.regs.t0
                            /\ m.a0 = own.regs.a0 /\ m.s0 = own.regs.s0
          /\ at.step > 2 => /\ m.sp = context.sp /\ m.t0 = context.t0
                            /\ m.a0 = context.a0 /\ m.s0 = context.s0
          /\ at.step = 3 => m.sie = FALSE /\ m.spie = own.sie
          /\ at.step > 3 => m.sie = context.sie /\ m.spie = context.spie
          /\ at.step = 4 => m.sepc = own.at
          /\ at.step > 4 => m.sepc = context.sepc
          /\ at.step = 5 => m.scause = own.scause
          /\ at.step > 5 => m.scause = context.scause
          /\ at.step = 6 => m.stval = own.stval
      <3>1. CASE at.step = 2
        <4>1. m = SaveRegisters
          BY <3>1, CodeForms DEF Saved
        <4>2. regs.t0 = own.regs.t0 /\ regs.a0 = own.regs.a0 /\ regs.s0 = own.regs.s0
          BY Zenon, <1>1, <1>2, <3>1 DEF Inv, Entering
        <4> HIDE DEF m
        <4>3. /\ m \in Contexts /\ m.sp = regs.sp /\ m.t0 = regs.t0
              /\ m.a0 = regs.a0 /\ m.s0 = regs.s0
          BY Zenon, <1>4, <4>1 DEF SaveRegisters, Contexts, Registers
        <4>4. ~(at.step > 2) /\ at.step # 3 /\ ~(at.step > 3) /\ at.step # 4
              /\ ~(at.step > 4) /\ at.step # 5 /\ ~(at.step > 5) /\ at.step # 6
          BY <3>1
        <4> QED
          BY <4>2, <4>3, <4>4, Zenon
      <3>2. CASE at.step = 3
        <4>1. m = SaveSstatus
          BY <3>2, CodeForms DEF Saved
        <4> HIDE DEF m
        <4>2. /\ m \in Contexts /\ m.sie = sie /\ m.spie = spie
              /\ m.sp = context.sp /\ m.t0 = context.t0
              /\ m.a0 = context.a0 /\ m.s0 = context.s0
          BY Zenon, <1>4, <1>6, <4>1 DEF SaveSstatus, Contexts
        <4>3. m.sie = FALSE /\ m.spie = own.sie
          BY <1>5, <4>2, Zenon DEF Hardware
        <4>4. at.step # 2 /\ ~(at.step > 3) /\ at.step # 4 /\ ~(at.step > 4)
              /\ at.step # 5 /\ ~(at.step > 5) /\ at.step # 6
          BY <3>2
        <4> QED
          BY <4>2, <4>3, <4>4, Zenon
      <3>3. CASE at.step = 4
        <4>1. m = SaveSepc
          BY <3>3, CodeForms DEF Saved
        <4> HIDE DEF m
        <4>2. /\ m \in Contexts /\ m.sepc = sepc
              /\ m.sp = context.sp /\ m.t0 = context.t0
              /\ m.a0 = context.a0 /\ m.s0 = context.s0
              /\ m.sie = context.sie /\ m.spie = context.spie
          BY <1>4, <1>6, <4>1 DEF SaveSepc, Contexts
        <4>3. m.sepc = own.at
          BY <1>5, <4>2, Zenon DEF Hardware
        <4> QED
          BY <3>3, <4>2, <4>3
      <3>4. CASE at.step = 5
        <4>1. m = SaveScause
          BY <3>4, CodeForms DEF Saved
        <4> HIDE DEF m
        <4> QED
          BY <1>4, <1>5, <1>6, <3>4, <4>1 DEF SaveScause, Contexts, Hardware
      <3>5. CASE at.step = 6
        <4>1. m = SaveStval
          BY <3>5, CodeForms DEF Saved
        <4> HIDE DEF m
        <4> QED
          BY <1>4, <1>5, <1>6, <3>5, <4>1 DEF SaveStval, Contexts, Hardware
      <3>6. at.step = 2 \/ at.step = 3 \/ at.step = 4 \/ at.step = 5 \/ at.step = 6
        BY <1>9
      <3> HIDE DEF m
      <3> QED
        BY Zenon, <3>1, <3>2, <3>3, <3>4, <3>5, <3>6
    <2> HIDE DEF m
    <2>5. /\ memory'[regs.sp] = m
          /\ Types' /\ Stacked' /\ Nested' /\ OuterHeld' /\ Outside' /\ Inside'
      <3>1. at.step > 1
        BY <1>9
      <3> QED
        BY Zenon, <1>7, <2>1, <2>2, <2>3, <2>4, <3>1
    <2>6. context' = m /\ Framed'
      BY <1>2, <1>5, <1>9, <2>3, <2>5 DEF context, Framed
    <2>7. at'.code = "entry" /\ at'.step = at.step + 1
      BY <2>2 DEF Entry
    <2>8. Entering'
      <3>1. /\ at.step > 2 => /\ context.sp = regs.sp /\ context.t0 = own.regs.t0
                              /\ context.a0 = own.regs.a0 /\ context.s0 = own.regs.s0
            /\ at.step > 3 => context.sie = FALSE /\ context.spie = own.sie
            /\ at.step > 4 => context.sepc = own.at
            /\ at.step > 5 => context.scause = own.scause
        BY <1>1, <1>2 DEF Inv, Entering
      <3> QED
        BY <1>2, <1>6, <1>9, <2>3, <2>4, <2>6, <2>7, <3>1 DEF Entering
    <2>9. Handling' /\ Returning'
      BY <2>7 DEF Handling, Returning, Handler
    <2> QED
      BY <2>5, <2>8, <2>9 DEF Inv
  <1>10. CASE at.step = 7
    <2>1. /\ memory' = [memory EXCEPT ![regs.sp] = context]
          /\ regs' = [regs EXCEPT !.a0 = regs.sp] /\ at' = Handler
      BY <1>10, CodeForms DEF TrapEntry, Saved
    <2>2. regs' \in Registers /\ regs'.sp = regs.sp
      BY <1>4, <2>1 DEF Registers
    <2>3. /\ memory'[regs.sp] = context
          /\ Types' /\ Stacked' /\ Nested' /\ OuterHeld' /\ Outside' /\ Inside'
      BY Zenon, <1>4, <1>7, <2>1, <2>2, PlaceForms DEF Handler
    <2>4. Framed' /\ context' = context
      BY <1>2, <1>5, <1>10, <2>2, <2>3 DEF context, Framed
    <2>5. Holds(context, own)
      BY <1>1, <1>2, <1>10 DEF Inv, Entering, Holds, Framed
    <2>6. Handling'
      BY <1>2, <2>4, <2>5 DEF Handling
    <2>7. Entering' /\ Returning'
      BY <2>1 DEF Entering, Returning, Handler
    <2> QED
      BY <2>3, <2>6, <2>7 DEF Inv
  <1> QED
    BY <1>1, <1>8, <1>9, <1>10

(* Each instruction of the return code restores its part of the context;     *)
(* from the first one on interrupts are disabled.                            *)
LEMMA TrapReturnInv == Inv /\ TrapReturn => Inv'
  <1> SUFFICES ASSUME Inv, TrapReturn PROVE Inv'
    OBVIOUS
  <1>1. /\ at.code = "return" /\ at.step \in 1 .. 5 /\ at' = Leave(at.step + 1)
        /\ UNCHANGED <<scause, stval, memory, interrupted>>
    BY PlaceForms, CodeForms DEF TrapReturn, Inv, Types, TypeOK
  <1>2. n \in Nat /\ n > 0 /\ n' = n /\ own' = own
    <2>1. n \in Nat
      BY SeqDomain DEF Inv, Types, n
    <2>2. n' = n /\ own' = own
      BY <1>1 DEF n, own
    <2> QED
      BY <1>1, <2>1, <2>2 DEF Inv, Outside
  <1>3. own.regs \in Registers /\ own.regs.sp = StackTop - n + 1
    BY <1>2, OwnForms, LowestContext DEF Inv
  <1>4. regs \in Registers /\ regs.sp \in 0 .. StackTop /\ context \in Contexts
    BY DEF Inv, Types, TypeOK, Registers, context
  <1>5. Framed /\ Holds(context, own)
    BY <1>1, <1>2 DEF Inv, Returning
  <1>6. at' \in Places /\ at'.code = "return" /\ at'.step = at.step + 1
    <2>1. at.step + 1 \in 1 .. 6
      BY <1>1
    <2> QED
      BY <1>1, <2>1, PlaceForms DEF Leave
  <1>7. /\ sie' \in BOOLEAN /\ spie' \in BOOLEAN /\ sepc' \in Places
        /\ at.step = 1 => sie' = FALSE /\ spie' = own.sie
        /\ at.step # 1 => sie' = sie /\ spie' = spie
        /\ at.step = 2 => sepc' = own.at
        /\ at.step # 2 => sepc' = sepc
    <2>1. /\ sie \in BOOLEAN /\ spie \in BOOLEAN /\ sepc \in Places
          /\ context.sie \in BOOLEAN /\ context.spie \in BOOLEAN /\ context.sepc \in Places
      BY <1>4 DEF Inv, Types, TypeOK, Contexts
    <2>2. /\ at.step = 1 => ReturnCode[at.step] = "sstatus"
          /\ at.step # 1 => ReturnCode[at.step] # "sstatus"
          /\ at.step = 2 => ReturnCode[at.step] = "sepc"
          /\ at.step # 2 => ReturnCode[at.step] # "sepc"
      BY <1>1, CodeForms
    <2>3. /\ sie' = IF at.step = 1 THEN context.sie ELSE sie
          /\ spie' = IF at.step = 1 THEN context.spie ELSE spie
          /\ sepc' = IF at.step = 2 THEN context.sepc ELSE sepc
      BY <2>2, Zenon DEF TrapReturn
    <2>4. context.sie = FALSE /\ context.spie = own.sie /\ context.sepc = own.at
      BY <1>5 DEF Holds
    <2> QED
      BY <2>1, <2>3, <2>4, Zenon
  <1>8. /\ regs' \in Registers
        /\ at.step < 5 => regs'.sp = regs.sp
        /\ at.step = 5 => regs'.sp = own.regs.sp
        /\ at.step = 3 => /\ regs'.t0 = own.regs.t0 /\ regs'.a0 = own.regs.a0
                          /\ regs'.s0 = own.regs.s0
        /\ at.step > 3 => regs'.t0 = regs.t0 /\ regs'.a0 = regs.a0 /\ regs'.s0 = regs.s0
    <2>1. CASE at.step \in 1 .. 2
      <3>1. ReturnCode[at.step] \in {"sstatus", "sepc"}
        BY <2>1, CodeForms
      <3>2. regs' = [regs EXCEPT !.t0 = Clobbered]
        BY <3>1 DEF TrapReturn
      <3> QED
        BY <1>4, <2>1, <3>2, ConstantsAssumption DEF Registers
    <2>2. CASE at.step = 3
      <3>1. regs' = [regs EXCEPT !.t0 = context.t0, !.a0 = context.a0, !.s0 = context.s0]
        BY <2>2, CodeForms DEF TrapReturn
      <3>2. /\ context.t0 \in Int /\ context.t0 = own.regs.t0
            /\ context.a0 \in Int /\ context.a0 = own.regs.a0
            /\ context.s0 \in Int /\ context.s0 = own.regs.s0
        BY <1>4, <1>5 DEF Contexts, Holds
      <3>3. /\ regs' \in Registers /\ regs'.sp = regs.sp /\ regs'.t0 = context.t0
            /\ regs'.a0 = context.a0 /\ regs'.s0 = context.s0
        BY Zenon, <1>4, <3>1, <3>2 DEF Registers
      <3> QED
        BY <2>2, <3>2, <3>3
    <2>3. CASE at.step = 4
      <3>1. regs' = [regs EXCEPT !.sp = context.sp]
        BY <2>3, CodeForms DEF TrapReturn
      <3>2. context.sp = regs.sp
        BY <1>5 DEF Holds, Framed
      <3>3. regs' = regs
        BY <1>4, <3>1, <3>2 DEF Registers
      <3> QED
        BY <1>4, <2>3, <3>3
    <2>4. CASE at.step = 5
      <3>1. regs' = [regs EXCEPT !.sp = regs.sp + 1]
        BY <2>4, CodeForms DEF TrapReturn
      <3>2. regs.sp + 1 = own.regs.sp /\ own.regs.sp \in 0 .. StackTop
        BY <1>3, <1>4, <1>5, ConstantsAssumption DEF Framed, Registers
      <3> QED
        BY <1>4, <2>4, <3>1, <3>2 DEF Registers
    <2>5. at.step \in 1 .. 2 \/ at.step = 3 \/ at.step = 4 \/ at.step = 5
      BY <1>1
    <2> QED
      BY <2>1, <2>2, <2>3, <2>4, <2>5
  <1>9. TypeOK'
    BY <1>1, <1>6, <1>7, <1>8 DEF Inv, Types, TypeOK
  <1>10. Types' /\ Stacked' /\ Nested' /\ OuterHeld'
    BY <1>1, <1>9, OuterTrapsKept
  <1>11. Outside' /\ Inside' /\ Entering' /\ Handling'
    BY <1>2, <1>6 DEF Outside, Inside, Entering, Handling, Handler
  <1>12. Returning'
    <2>1. /\ at.step > 1 => sie = FALSE /\ spie = own.sie
          /\ at.step > 2 => sepc = own.at
          /\ at.step > 3 => regs.t0 = own.regs.t0 /\ regs.a0 = own.regs.a0 /\ regs.s0 = own.regs.s0
      BY <1>1, <1>2 DEF Inv, Returning
    <2>2. at'.step < 6 => Framed' /\ Holds(context, own)' /\ at.step < 5
      <3> SUFFICES ASSUME at'.step < 6 PROVE Framed' /\ Holds(context, own)' /\ at.step < 5
        OBVIOUS
      <3>1. at.step < 5 /\ regs'.sp = regs.sp
        BY <1>1, <1>6, <1>8
      <3>2. context' = context
        BY <1>1, <3>1 DEF context
      <3> QED
        BY <1>2, <1>5, <3>1, <3>2 DEF Framed, Holds
    <2>3. sie' = FALSE /\ spie' = own.sie
      <3>1. at.step = 1 \/ at.step > 1
        BY <1>1
      <3> QED
        BY <1>7, <2>1, <3>1, Zenon
    <2>4. at'.step > 2 => sepc' = own.at
      <3>1. at'.step > 2 => at.step = 2 \/ (at.step # 2 /\ at.step > 2)
        BY <1>1, <1>6
      <3> QED
        BY <1>7, <2>1, <3>1, Zenon
    <2>5. at'.step > 3 => /\ regs'.t0 = own.regs.t0 /\ regs'.a0 = own.regs.a0
                          /\ regs'.s0 = own.regs.s0
      BY <1>1, <1>6, <1>8, <2>1
    <2>6. at'.step = 6 => regs'.sp = own.regs.sp
      BY <1>1, <1>6, <1>8
    <2> QED
      BY <1>2, <2>2, <2>3, <2>4, <2>5, <2>6, Zenon DEF Returning
  <1> QED
    BY <1>10, <1>11, <1>12 DEF Inv

(* When sret is reached, everything the trap has interrupted is restored. *)
LEMMA RestoredAtSret ==
  ASSUME Inv, Sret
  PROVE  /\ n \in Nat /\ n > 0
         /\ sepc = own.at /\ spie = own.sie /\ regs = own.regs
  <1>1. at.code = "return" /\ at.step = 6
    <2>1. at.code = "return" /\ at.step \in 1 .. 6 /\ ReturnCode[at.step] = "sret"
      BY PlaceForms DEF Sret, Inv, Types, TypeOK
    <2> QED
      BY <2>1, CodeForms
  <1>2. n \in Nat /\ n > 0
    <2>1. n \in Nat
      BY SeqDomain DEF Inv, Types, n
    <2> QED
      BY <1>1, <2>1 DEF Inv, Outside
  <1>3. /\ sepc = own.at /\ spie = own.sie /\ regs.sp = own.regs.sp
        /\ regs.t0 = own.regs.t0 /\ regs.a0 = own.regs.a0 /\ regs.s0 = own.regs.s0
    BY <1>1, <1>2 DEF Inv, Returning
  <1>4. regs \in Registers /\ own.regs \in Registers
    BY <1>2, OwnForms DEF Inv, Types, TypeOK
  <1>5. regs = own.regs
    BY <1>3, <1>4 DEF Registers
  <1> QED
    BY <1>2, <1>3, <1>5

(* sret keeps the invariant: the trap below finds its own context again. *)
LEMMA SretInv == Inv /\ Sret => Inv'
  <1> SUFFICES ASSUME Inv, Sret PROVE Inv'
    OBVIOUS
  <1>1. /\ n \in Nat /\ n > 0 /\ n <= StackTop
        /\ sepc = own.at /\ spie = own.sie /\ regs = own.regs
    BY RestoredAtSret DEF Inv, Types
  <1>2. /\ at' = own.at /\ sie' = own.sie /\ spie' = TRUE
        /\ UNCHANGED <<regs, sepc, scause, stval, memory>>
    BY <1>1 DEF Sret
  <1>3. /\ interrupted' \in Seq(Traps) /\ n' = n - 1
        /\ \A i \in 1 .. n - 1 : interrupted'[i] = interrupted[i + 1]
    <2>1. interrupted \in Seq(Traps) /\ interrupted # << >> /\ interrupted' = Tail(interrupted)
      BY <1>1, SeqEmpty DEF Sret, Inv, Types, n
    <2> QED
      BY <2>1, TailParts DEF n
  <1>4. own.at \in Places /\ own.sie \in BOOLEAN
    BY <1>1, OwnForms DEF Inv
  <1>5. TypeOK'
    BY <1>2, <1>4 DEF Inv, Types, TypeOK
  <1>6. Types'
    BY <1>1, <1>3, <1>5, ConstantsAssumption DEF Types
  <1>7. regs'.sp = StackTop - n + 1
    BY <1>1, <1>2, LowestContext
  <1>8. \A i \in 1 .. n - 1 : i + 1 \in 2 .. n /\ i + 1 \in 1 .. n
    BY <1>1
  <1>9. Stacked'
    <2> SUFFICES ASSUME NEW i \in 1 .. n - 1
                 PROVE  interrupted'[i].regs.sp = StackTop - (n - 1) + i
      BY <1>3 DEF Stacked
    <2>1. interrupted[i + 1].regs.sp = StackTop - n + (i + 1)
      BY <1>8 DEF Inv, Stacked
    <2> QED
      BY <1>1, <1>3, <2>1, ConstantsAssumption
  <1>10. Nested'
    <2> SUFFICES ASSUME NEW i \in 1 .. n - 1
                 PROVE  /\ i < n - 1 => interrupted'[i].at \in {Handler, Leave(1)}
                        /\ i = n - 1 => interrupted'[i].at.code = "main"
      BY <1>3 DEF Nested
    <2>1. /\ i + 1 < n => interrupted[i + 1].at \in {Handler, Leave(1)}
          /\ i + 1 = n => interrupted[i + 1].at.code = "main"
      BY <1>8 DEF Inv, Nested
    <2>2. interrupted'[i] = interrupted[i + 1]
      BY <1>3
    <2>3. (i < n - 1 => i + 1 < n) /\ (i = n - 1 => i + 1 = n)
      BY <1>1
    <2> QED
      BY <2>1, <2>2, <2>3
  <1>11. \A i \in 1 .. n - 1 : Holds(memory'[StackTop - n + i], interrupted'[i])
    <2> SUFFICES ASSUME NEW i \in 1 .. n - 1
                 PROVE  Holds(memory'[StackTop - n + i], interrupted'[i])
      OBVIOUS
    <2>1. Holds(memory[StackTop - n + (i + 1) - 1], interrupted[i + 1])
      BY <1>8 DEF Inv, OuterHeld
    <2>2. StackTop - n + (i + 1) - 1 = StackTop - n + i
      BY <1>1, ConstantsAssumption
    <2> QED
      BY <1>2, <1>3, <2>1, <2>2
  <1>12. OuterHeld'
    <2> SUFFICES ASSUME NEW i \in 2 .. n - 1
                 PROVE  Holds(memory'[StackTop - (n - 1) + i - 1], interrupted'[i])
      BY <1>3 DEF OuterHeld
    <2>1. StackTop - (n - 1) + i - 1 = StackTop - n + i /\ i \in 1 .. n - 1
      BY <1>1, ConstantsAssumption
    <2> QED
      BY <1>11, <2>1
  <1>13. Outside' /\ Inside' /\ Entering' /\ Handling' /\ Returning'
    <2>1. CASE n = 1
      <3>1. own.at.code = "main" /\ n' = 0
        BY <1>1, <1>3, <2>1 DEF Inv, Nested, own
      <3>2. regs'.sp = StackTop
        BY <1>7, <2>1, ConstantsAssumption
      <3>3. Outside'
        BY <1>2, <3>1, <3>2 DEF Outside
      <3>4. ~(n' > 0)
        BY <3>1
      <3>5. Inside' /\ Entering' /\ Handling' /\ Returning'
        BY <3>4 DEF Inside, Entering, Handling, Returning
      <3> QED
        BY <3>3, <3>5
    <2>2. CASE n > 1
      <3>1. own.at \in {Handler, Leave(1)} /\ n' > 0
        BY <1>1, <1>3, <2>2 DEF Inv, Nested, own
      <3>2. Framed' /\ Holds(context, own)'
        <4>1. 1 \in 1 .. n - 1 /\ StackTop - n + 1 = regs'.sp
          BY <1>1, <1>7, <2>2
        <4>2. Holds(memory'[regs'.sp], interrupted'[1])
          BY <1>11, <4>1
        <4>3. interrupted'[1].regs.sp = StackTop - (n - 1) + 1
          BY <1>3, <1>9, <4>1 DEF Stacked
        <4>4. regs'.sp = interrupted'[1].regs.sp - 1
          BY <1>1, <1>7, <4>3, ConstantsAssumption
        <4>5. Framed'
          BY <4>4 DEF Framed, own
        <4>6. Holds(context, own)'
          BY <4>2 DEF Holds, context, own
        <4> QED
          BY <4>5, <4>6
      <3>3. at' = Handler \/ at' = Leave(1)
        BY <1>2, <3>1
      <3>4. Outside' /\ Inside' /\ Entering'
        BY <3>1, <3>3 DEF Handler, Leave, Outside, Inside, Entering
      <3>5. Handling'
        BY <3>2 DEF Handling
      <3>6. Returning'
        <4>1. at'.code = "return" => at'.step = 1
          BY <3>3 DEF Handler, Leave
        <4> QED
          BY <3>2, <4>1 DEF Returning
      <3> QED
        BY <3>4, <3>5, <3>6
    <2> QED
      BY <1>1, <2>1, <2>2
  <1> QED
    BY <1>6, <1>9, <1>10, <1>12, <1>13 DEF Inv

-----------------------------------------------------------------------------
(* Every step keeps the invariant. *)
LEMMA NextInv == Inv /\ [Next]_vars => Inv'
  <1>1. Inv /\ Next => Inv'
    BY HandlerInv, TakeTrapInv, TrapEntryInv, SetReturnValueInv, AdvanceSepcInv,
       TrapReturnInv, SretInv
    DEF Next
  <1>2. Inv /\ UNCHANGED vars => Inv'
    <2> SUFFICES ASSUME Inv, UNCHANGED vars PROVE Inv'
      OBVIOUS
    <2>1. UNCHANGED <<at, regs, sie, spie, sepc, scause, stval, memory, interrupted>>
      BY DEF vars
    <2>2. n' = n /\ own' = own /\ context' = context
      BY <2>1 DEF n, own, context
    <2>3. Types'
      BY <2>1, <2>2 DEF Inv, Types, TypeOK
    <2>4. Stacked' /\ Nested'
      BY <2>1, <2>2 DEF Inv, Stacked, Nested
    <2>5. OuterHeld'
      BY <2>1, <2>2 DEF Inv, OuterHeld, Holds
    <2>6. Outside' /\ Inside'
      BY <2>1, <2>2 DEF Inv, Outside, Inside
    <2>7. Framed' = Framed /\ Hardware' = Hardware /\ Holds(context, own)' = Holds(context, own)
      BY <2>1, <2>2 DEF Framed, Hardware, Holds
    <2>8. Entering'
      BY <2>1, <2>2, <2>7 DEF Inv, Entering
    <2>9. Handling' /\ Returning'
      BY <2>1, <2>2, <2>7 DEF Inv, Handling, Returning
    <2> QED
      BY <2>3, <2>4, <2>5, <2>6, <2>8, <2>9 DEF Inv
  <1> QED
    BY <1>1, <1>2

(* The invariant holds in every reachable state. *)
LEMMA Invariance == Spec => []Inv
  BY InitInv, NextInv, PTL DEF Spec

(* The handler finds its own trap in the context __trap_entry has built,     *)
(* however deep the stack is and however many traps are nested in it.        *)
THEOREM HandlersSeeTheirTrap == Spec => []ContextIsOwn
  <1>1. Inv => ContextIsOwn
    <2> SUFFICES ASSUME Inv, at = Handler
                 PROVE  context.scause = own.scause /\ context.sepc = own.at /\ context.stval = own.stval
      BY DEF ContextIsOwn
    <2>1. n > 0
      <3>1. n \in Nat
        BY SeqDomain DEF Inv, Types, n
      <3> QED
        BY <3>1 DEF Inv, Outside, Handler
    <2> QED
      BY <2>1 DEF Inv, Handling, Holds
  <1> QED
    BY <1>1, Invariance, PTL

(* The only step that shortens the stack of traps is sret. *)
LEMMA OnlySretReturns ==
  ASSUME Inv, Next, interrupted # << >>, interrupted' = Tail(interrupted)
  PROVE  Sret
  <1>1. interrupted \in Seq(Traps) /\ Len(interrupted) \in Nat
    BY SeqDomain DEF Inv, Types
  <1>2. Len(interrupted') = Len(interrupted) - 1
    BY <1>1, TailParts
  <1>3. ASSUME NEW cause \in {Interrupt, Exception}, TakeTrap(cause)
        PROVE  FALSE
    <2>1. Len(interrupted') = Len(interrupted) + 1
      BY <1>1, <1>3 DEF TakeTrap
    <2> QED
      BY <1>1, <1>2, <2>1
  <1>4. SetReturnValue \/ AdvanceSepc => Len(interrupted') = Len(interrupted)
    BY <1>1 DEF SetReturnValue, AdvanceSepc
  <1>5. Work \/ TrapEntry \/ RestoreInterrupts \/ HandlerReturns \/ TrapReturn
          => interrupted' = interrupted
    BY DEF Work, TrapEntry, RestoreInterrupts, HandlerReturns, TrapReturn
  <1>6. Len(interrupted') # Len(interrupted)
    <2>1. \A k \in Nat : k - 1 # k
      OBVIOUS
    <2> QED
      BY <1>1, <1>2, <2>1, Zenon
  <1>7. ~Work /\ ~TrapEntry /\ ~RestoreInterrupts /\ ~HandlerReturns /\ ~TrapReturn
    BY <1>5, <1>6
  <1> QED
    BY <1>3, <1>4, <1>6, <1>7, Zenon DEF Next

(* A trap that returns restores the place, all registers and the interrupt   *)
(* enable of what it has interrupted, for every depth of nesting.            *)
THEOREM TrapsReturnExactly == Spec => ReturnExact
  <1> DEFINE Exact == interrupted # << >> /\ interrupted' = Tail(interrupted)
                        => at' = own.at /\ regs' = own.regs /\ sie' = own.sie
  <1>1. Inv /\ [Next]_vars => [Exact]_vars
    <2> SUFFICES ASSUME Inv, Next, interrupted # << >>, interrupted' = Tail(interrupted)
                 PROVE  at' = own.at /\ regs' = own.regs /\ sie' = own.sie
      OBVIOUS
    <2>1. Sret
      BY OnlySretReturns
    <2> QED
      BY <2>1, RestoredAtSret DEF Sret
  <1> QED
    BY <1>1, Invariance, PTL DEF Spec, ReturnExact
=============================================================================
