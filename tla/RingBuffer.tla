----------------------------- MODULE RingBuffer -----------------------------
(***************************************************************************)
(* trap/collections/ring_buffer.rs: a circular buffer in an array of       *)
(* Options.  NoItem is the None of a slot and of a result; ret is what the *)
(* last call returned.                                                     *)
(***************************************************************************)
EXTENDS Integers, Sequences

CONSTANTS
  Items,      \* the elements pushed
  NoItem,     \* None
  Capacity    \* argument of with_capacity

ASSUME CapacityAssumption == Capacity \in Nat \ {0}     \* asserted by the code
ASSUME NoItemAssumption == NoItem \notin Items

VARIABLES buffer, head, tail, count, ret

slots == <<buffer, head, tail, count>>
vars == <<buffer, head, tail, count, ret>>

Slot == 0 .. Capacity - 1

IsEmpty == count = 0
IsFull == count = Capacity

Advance(i) == (i + 1) % Capacity

WithCapacity ==
  /\ buffer = [s \in Slot |-> NoItem]
  /\ head = 0 /\ tail = 0 /\ count = 0

Init == WithCapacity /\ ret = NoItem

(* Mutant: a full buffer keeps its tail. *)
PushKeepsTail(item) ==
  /\ buffer' = [buffer EXCEPT ![head] = item]
  /\ head' = Advance(head)
  /\ count' = IF IsFull THEN count ELSE count + 1
  /\ UNCHANGED tail

Push(item) ==
  /\ buffer' = [buffer EXCEPT ![head] = item]
  /\ head' = Advance(head)
  /\ IF IsFull
     THEN tail' = Advance(tail) /\ UNCHANGED count
     ELSE count' = count + 1 /\ UNCHANGED tail

PushCall(item) == Push(item) /\ ret' = NoItem

PopEmpty ==
  /\ IsEmpty
  /\ ret' = NoItem
  /\ UNCHANGED slots

Pop ==
  /\ ~IsEmpty
  /\ ret' = buffer[tail]
  /\ buffer' = [buffer EXCEPT ![tail] = NoItem]
  /\ tail' = Advance(tail)
  /\ count' = count - 1
  /\ UNCHANGED head

Front == IF IsEmpty THEN NoItem ELSE buffer[tail]

FrontCall == ret' = Front /\ UNCHANGED slots

(* Mutant: the slot that will be written next. *)
BackAtHead == IF IsEmpty THEN NoItem ELSE buffer[head]

Back == IF IsEmpty THEN NoItem ELSE buffer[(head + Capacity - 1) % Capacity]

BackCall == ret' = Back /\ UNCHANGED slots

Clear ==
  /\ buffer' = [s \in Slot |-> NoItem]
  /\ head' = 0 /\ tail' = 0 /\ count' = 0
  /\ ret' = NoItem

(* What iter() yields: count items, starting at the tail. *)
Iter == [k \in 1 .. count |-> buffer[(tail + k - 1) % Capacity]]

Next == \/ \E item \in Items : PushCall(item)
        \/ PopEmpty \/ Pop \/ FrontCall \/ BackCall \/ Clear

Spec == Init /\ [][Next]_vars

-----------------------------------------------------------------------------
(* Types: head and tail are always valid indices, so that no access to the   *)
(* vector is out of bounds.                                                  *)
TypeOK ==
  /\ buffer \in [Slot -> Items \cup {NoItem}]
  /\ head \in Slot /\ tail \in Slot
  /\ count \in 0 .. Capacity
  /\ ret \in Items \cup {NoItem}

(* The slot s lies in the window of count slots that starts at the tail. *)
InWindow(s) == (s - tail) % Capacity < count

(* The three indices agree, although push, pop and clear maintain them       *)
(* separately: the head is count slots after the tail, and exactly the slots *)
(* of that window hold an item (pop and clear leave nothing behind, push     *)
(* never skips a slot).                                                      *)
WindowExact ==
  /\ (tail + count) % Capacity = head
  /\ \A s \in Slot : buffer[s] # NoItem <=> InWindow(s)

Log == INSTANCE BoundedLog WITH log <- Iter

(* The ring buffer is a queue that overwrites its oldest element when full:  *)
(* whatever the wrap-around, pop and front return the oldest item, back the  *)
(* newest, and iter yields the items from oldest to newest.                  *)
ImplementsBoundedLog == Log!LogSpec
=============================================================================
