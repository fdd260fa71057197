----------------------------- MODULE ErrorCode -----------------------------
(***************************************************************************)
(* trap/ds/error.rs: the 32-bit error code, which packs the source, the    *)
(* level and a 16-bit number.  Sources and levels are the numbers the code *)
(* gives to the variants of its two enums.                                 *)
(***************************************************************************)
EXTENDS Integers

Sources == 0 .. 8       \* Unknown, Generic, Trap, Memory, ..., Syscall
Levels == 0 .. 4        \* Fatal, Critical, Error, Warning, Info
Numbers == {n \in Nat : n < 65536}   \* u16

UnknownSource == 0
TrapSource == 2
Fatal == 0
Critical == 1
ErrorLevel == 2

(* ErrorCode::new: the three fields do not share bits, so that | adds them. *)
NewCode(source, level, number) == source * 16777216 + level * 65536 + number

SourceOf(code) ==
  LET s == code \div 16777216 IN IF s \in 1 .. 8 THEN s ELSE UnknownSource

LevelOf(code) ==
  LET l == (code \div 65536) % 256 IN IF l \in Levels THEN l ELSE ErrorLevel

NumberOf(code) == code % 65536

IsFatal(code) == LevelOf(code) = Fatal
=============================================================================
