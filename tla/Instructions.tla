---------------------------- MODULE Instructions ----------------------------
(***************************************************************************)
(* The steps from which the kernel's routines are written.  A routine is   *)
(* the sequence of those of its steps that another hart, a trap or a       *)
(* caller can observe: locks, flags, calls, early returns and panics.      *)
(***************************************************************************)
LOCAL I(op, of) == [op |-> op, of |-> of]

Lock(m)     == I("lock", m)       \* spin until m is free; dropped on return
Need(f)     == I("need", f)       \* return an error unless flag f is set
NeedNot(f)  == I("neednot", f)    \* return an error if flag f is set
NeedOk      == I("needok", "")    \* the ? operator: pass on the callee's error
DoneIfOk    == I("doneifok", "")  \* return if the callee succeeded
Set(f)      == I("set", f)
Clear(f)    == I("clear", f)
Call(r)     == I("call", r)
ElseCall(r) == I("elsecall", r)   \* call r if the last callee failed
Expect(f)   == I("expect", f)     \* panic unless flag f is set
Cas(f)      == I("cas", f)        \* set f, which was clear; panic if it was not
Ok          == I("ok", "")        \* succeed, whatever the callee said
Fail        == I("fail", "")
Choose      == I("choose", "")    \* the outcome is not the routine's to decide
Create      == I("create", "")    \* EarlyAllocator::new
Allocate    == I("allocate", "")  \* EarlyAllocator::alloc_aligned
Release     == I("release", "")   \* EarlyAllocator::dealloc of the argument
Pass        == I("pass", "")      \* the block at hand is the argument from here on
Keep        == I("keep", "")      \* the block at hand now belongs to the kernel's data
Fetch       == I("fetch", "")     \* the argument is a block of the kernel's data
Firmware(k) == I("firmware", k)   \* a call to the firmware that may fail and return
PowerOff    == I("poweroff", "")  \* legacy shutdown, which does not return
Idle        == I("idle", "")      \* wait for an interrupt, for ever
Halt        == I("halt", "")      \* the same, with nothing left to do
Return      == I("return", "")
=============================================================================
