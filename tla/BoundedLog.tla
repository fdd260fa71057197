----------------------------- MODULE BoundedLog -----------------------------
(***************************************************************************)
(* What trap/collections/ring_buffer.rs promises: a queue of at most       *)
(* Capacity items that forgets its oldest item when it is full.  ret is    *)
(* what the last call returned, NoItem standing for None and for ().       *)
(***************************************************************************)
EXTENDS Integers, Sequences

CONSTANTS Items, NoItem, Capacity

VARIABLES log, ret

Full == Len(log) = Capacity

LogInit == log = << >> /\ ret = NoItem

LogPush(i) ==
  /\ log' = Append(IF Full THEN Tail(log) ELSE log, i)
  /\ ret' = NoItem

LogPop ==
  /\ log' = IF log = << >> THEN log ELSE Tail(log)
  /\ ret' = IF log = << >> THEN NoItem ELSE log[1]

LogFront == ret' = (IF log = << >> THEN NoItem ELSE log[1]) /\ UNCHANGED log

LogBack == ret' = (IF log = << >> THEN NoItem ELSE log[Len(log)]) /\ UNCHANGED log

LogClear == log' = << >> /\ ret' = NoItem

LogNext == (\E i \in Items : LogPush(i)) \/ LogPop \/ LogFront \/ LogBack \/ LogClear

LogSpec == LogInit /\ [][LogNext]_<<log, ret>>
=============================================================================
