----------------------------- MODULE TrapCause -----------------------------
(***************************************************************************)
(* trap/ds/types.rs: the trap types, in the order of the enum (the keys of *)
(* the registry's BTreeMap), and how the bits of scause are read.          *)
(***************************************************************************)
EXTENDS Integers, Sequences

CONSTANT WordBits           \* width of usize

ASSUME WordBitsAssumption == WordBits \in Nat /\ WordBits > 4

TrapTypeOrder ==
  <<"TimerInterrupt", "ExternalInterrupt", "SoftwareInterrupt", "SystemCall",
    "InstructionPageFault", "LoadPageFault", "StorePageFault",
    "InstructionAccessFault", "LoadAccessFault", "StoreAccessFault",
    "IllegalInstruction", "Breakpoint", "InstructionMisaligned",
    "LoadMisaligned", "StoreMisaligned", "Unknown">>

TrapType == {TrapTypeOrder[i] : i \in DOMAIN TrapTypeOrder}

(* Ord for TrapType *)
Index(t) == CHOOSE i \in DOMAIN TrapTypeOrder : TrapTypeOrder[i] = t

IsInterrupt(bits) == (bits \div 2 ^ (WordBits - 1)) % 2 # 0

Code(bits) == bits % 2 ^ (WordBits - 1)

(* The arms of the two matches, by code; the codes without an arm are Unknown *)
InterruptType ==
  <<"Unknown", "SoftwareInterrupt", "Unknown", "Unknown", "Unknown",
    "TimerInterrupt", "Unknown", "Unknown", "Unknown", "ExternalInterrupt">>

ExceptionType ==
  <<"InstructionMisaligned", "InstructionAccessFault", "IllegalInstruction",
    "Breakpoint", "LoadMisaligned", "LoadAccessFault", "StoreMisaligned",
    "StoreAccessFault", "SystemCall", "SystemCall", "Unknown", "Unknown",
    "InstructionPageFault", "LoadPageFault", "Unknown", "StorePageFault">>

ToTrapType(bits) ==
  LET table == IF IsInterrupt(bits) THEN InterruptType ELSE ExceptionType
      arm == Code(bits) + 1
  IN IF arm \in DOMAIN table THEN table[arm] ELSE "Unknown"
=============================================================================
