-------------------------- MODULE RingBufferProofs --------------------------
(***************************************************************************)
(* The ring buffer implements the bounded log for every capacity and every *)
(* set of items.                                                           *)
(***************************************************************************)
EXTENDS RingBuffer, TLAPS

-----------------------------------------------------------------------------
(* Sequences *)

(* Sequences that agree at every index are equal. *)
LEMMA SeqExtensional ==
  ASSUME NEW S, NEW s \in Seq(S), NEW t \in Seq(S),
         Len(s) = Len(t), \A i \in 1 .. Len(s) : s[i] = t[i]
  PROVE  s = t
  OBVIOUS

(* The tail is the sequence without its first element. *)
LEMMA TailParts ==
  ASSUME NEW S, NEW s \in Seq(S), s # << >>
  PROVE  /\ Head(s) \in S /\ Tail(s) \in Seq(S) /\ Len(Tail(s)) = Len(s) - 1
         /\ \A i \in 1 .. Len(s) - 1 : Tail(s)[i] = s[i + 1]
  OBVIOUS

(* The remainder, for the values that occur: at most one turn too many. *)
Wrap(i) == IF i < 0 THEN i + Capacity ELSE IF i < Capacity THEN i ELSE i - Capacity

(* The remainder of the code's index arithmetic is one subtraction at most. *)
LEMMA RemainderWraps ==
  ASSUME NEW i \in Int, -Capacity < i, i < 2 * Capacity
  PROVE  i % Capacity = Wrap(i)
<1>1. Capacity \in Nat /\ Capacity > 0
  BY CapacityAssumption
<1>2. CASE i < 0
  BY <1>1, <1>2, Z3 DEF Wrap
<1>3. CASE 0 <= i /\ i < Capacity
  BY <1>1, <1>3, Z3 DEF Wrap
<1>4. CASE Capacity <= i
  BY <1>1, <1>4, Z3 DEF Wrap
<1>5. QED
  BY <1>1, <1>2, <1>3, <1>4

(***************************************************************************)
(* The inductive invariant is TypeOK and WindowExact, here with every      *)
(* remainder replaced by Wrap.                                             *)
(***************************************************************************)
Window ==
  /\ Wrap(tail + count) = head
  /\ \A s \in Slot : buffer[s] # NoItem <=> Wrap(s - tail) < count

(* The window the property describes with remainders is the one described   *)
(* with Wrap.                                                                *)
LEMMA WindowForms == TypeOK => (WindowExact <=> Window)
<1> SUFFICES ASSUME TypeOK PROVE WindowExact <=> Window
  OBVIOUS
<1>1. Capacity \in Nat /\ Capacity > 0
  BY CapacityAssumption
<1>2. (tail + count) % Capacity = Wrap(tail + count)
  <2>1. tail + count \in Int /\ -Capacity < tail + count /\ tail + count < 2 * Capacity
    BY <1>1 DEF TypeOK, Slot
  <2>2. QED
    BY <2>1, RemainderWraps
<1>3. \A s \in Slot : (s - tail) % Capacity = Wrap(s - tail)
  <2>1. SUFFICES ASSUME NEW s \in Slot PROVE (s - tail) % Capacity = Wrap(s - tail)
    OBVIOUS
  <2>2. s - tail \in Int /\ -Capacity < s - tail /\ s - tail < 2 * Capacity
    BY <1>1 DEF TypeOK, Slot
  <2>3. QED
    BY <2>2, RemainderWraps
<1>4. QED
  BY <1>2, <1>3 DEF WindowExact, InWindow, Window

(* The index that push and pop move on by one *)
LEMMA AdvanceWraps ==
  ASSUME NEW i \in Slot
  PROVE  Advance(i) = Wrap(i + 1) /\ Advance(i) \in Slot
<1>1. Capacity \in Nat /\ Capacity > 0
  BY CapacityAssumption
<1>2. i + 1 \in Int /\ -Capacity < i + 1 /\ i + 1 < 2 * Capacity
  BY <1>1 DEF Slot
<1>3. (i + 1) % Capacity = Wrap(i + 1)
  BY <1>2, RemainderWraps
<1>4. QED
  BY <1>1, <1>3 DEF Advance, Wrap, Slot

Inv == TypeOK /\ Window

(* with_capacity makes an empty window. *)
LEMMA InitInv == Init => Inv
<1> SUFFICES ASSUME Init PROVE Inv
  OBVIOUS
<1>1. Capacity \in Nat /\ Capacity > 0
  BY CapacityAssumption
<1>2. QED
  BY <1>1 DEF Init, WithCapacity, Inv, TypeOK, Window, Wrap, Slot

(* Every call keeps the window. *)
LEMMA NextInv == Inv /\ [Next]_vars => Inv'
<1> SUFFICES ASSUME Inv, [Next]_vars PROVE Inv'
  OBVIOUS
<1>1. Capacity \in Nat /\ Capacity > 0
  BY CapacityAssumption
<1>2. /\ buffer \in [Slot -> Items \cup {NoItem}]
      /\ head \in Slot /\ tail \in Slot /\ count \in 0 .. Capacity
      /\ ret \in Items \cup {NoItem}
  BY DEF Inv, TypeOK
<1>3. ASSUME NEW item \in Items, PushCall(item) PROVE Inv'
  <2>1. buffer' = [buffer EXCEPT ![head] = item]
    BY <1>3 DEF PushCall, Push
  <2>2. head' = Wrap(head + 1) /\ head' \in Slot
    BY <1>2, <1>3, AdvanceWraps DEF PushCall, Push
  <2>3. item # NoItem
    BY NoItemAssumption
  <2>4. \A s \in Slot : buffer'[s] = IF s = head THEN item ELSE buffer[s]
    BY <1>2, <2>1
  <2>5. CASE count = Capacity
    <3>1. tail' = Wrap(tail + 1) /\ tail' \in Slot /\ count' = count
      BY <1>2, <1>3, <2>5, AdvanceWraps DEF PushCall, Push, IsFull
    <3>2. TypeOK'
      BY <1>2, <1>3, <2>1, <2>2, <3>1 DEF TypeOK, PushCall
    <3>3. \A s \in Slot : buffer[s] # NoItem
      BY <1>1, <1>2, <2>5 DEF Inv, Window, Wrap, Slot
    <3>4. \A s \in Slot : buffer'[s] # NoItem /\ Wrap(s - tail') < count'
      BY <1>1, <1>2, <2>3, <2>4, <2>5, <3>1, <3>3 DEF Wrap, Slot
    <3>5. Wrap(tail' + count') = head'
      BY <1>1, <1>2, <2>2, <2>5, <3>1 DEF Inv, Window, Wrap, Slot
    <3>6. QED
      BY <3>2, <3>4, <3>5 DEF Inv, Window, Wrap
  <2>6. CASE count # Capacity
    <3>1. tail' = tail /\ count' = count + 1
      BY <1>3, <2>6 DEF PushCall, Push, IsFull
    <3>2. TypeOK'
      BY <1>1, <1>2, <1>3, <2>1, <2>2, <2>6, <3>1 DEF TypeOK, PushCall
    <3>3. \A s \in Slot : Wrap(s - tail) < count + 1 <=> (Wrap(s - tail) < count \/ s = head)
      BY <1>1, <1>2, <2>6 DEF Inv, Window, Wrap, Slot
    <3>4. \A s \in Slot : buffer'[s] # NoItem <=> Wrap(s - tail') < count'
      BY <2>3, <2>4, <3>1, <3>3 DEF Inv, Window
    <3>5. Wrap(tail' + count') = head'
      BY <1>1, <1>2, <2>2, <2>6, <3>1 DEF Inv, Window, Wrap, Slot
    <3>6. QED
      BY <3>2, <3>4, <3>5 DEF Inv, Window, Wrap
  <2>7. QED
    BY <2>5, <2>6
<1>4. CASE Pop
  <2>1. buffer' = [buffer EXCEPT ![tail] = NoItem] /\ head' = head /\ count' = count - 1
        /\ count # 0 /\ ret' = buffer[tail]
    BY <1>4 DEF Pop, IsEmpty
  <2>2. tail' = Wrap(tail + 1) /\ tail' \in Slot
    BY <1>2, <1>4, AdvanceWraps DEF Pop
  <2>3. TypeOK'
    BY <1>1, <1>2, <2>1, <2>2 DEF TypeOK
  <2>4. \A s \in Slot : buffer'[s] = IF s = tail THEN NoItem ELSE buffer[s]
    BY <1>2, <2>1
  <2>5. \A s \in Slot : Wrap(s - tail') < count - 1 <=> (Wrap(s - tail) < count /\ s # tail)
    BY <1>1, <1>2, <2>1, <2>2 DEF Wrap, Slot
  <2>6. \A s \in Slot : buffer'[s] # NoItem <=> Wrap(s - tail') < count'
    BY <2>1, <2>4, <2>5 DEF Inv, Window
  <2>7. Wrap(tail' + count') = head'
    BY <1>1, <1>2, <2>1, <2>2 DEF Inv, Window, Wrap, Slot
  <2>8. QED
    BY <2>3, <2>6, <2>7 DEF Inv, Window, Wrap
<1>5. CASE Clear
  BY <1>1, <1>5 DEF Clear, Inv, TypeOK, Window, Wrap, Slot
<1>6. ASSUME UNCHANGED slots, ret' \in Items \cup {NoItem} PROVE Inv'
  BY <1>6 DEF slots, Inv, TypeOK, Window, Wrap
<1>7. CASE PopEmpty
  BY <1>6, <1>7 DEF PopEmpty
<1>8. CASE FrontCall
  BY <1>2, <1>6, <1>8 DEF FrontCall, Front
<1>9. CASE BackCall
  <2>1. (head + Capacity - 1) % Capacity \in Slot
    BY <1>1, <1>2 DEF Slot
  <2>2. Back \in Items \cup {NoItem}
    BY <1>2, <2>1 DEF Back
  <2>3. QED
    BY <1>6, <1>9, <2>2 DEF BackCall
<1>10. CASE UNCHANGED vars
  BY <1>2, <1>6, <1>10 DEF vars, slots
<1>11. QED
  BY <1>3, <1>4, <1>5, <1>7, <1>8, <1>9, <1>10 DEF Next

(* The invariant holds in every reachable state. *)
LEMMA Invariance == Spec => []Inv
<1>1. QED
  BY InitInv, NextInv, PTL DEF Spec

(* head, tail and count agree and delimit exactly the slots in use, and all  *)
(* indices are inside the vector, for every capacity.                        *)
THEOREM WindowIsExact == Spec => [](TypeOK /\ WindowExact)
<1>1. Inv => TypeOK /\ WindowExact
  BY WindowForms DEF Inv
<1>2. QED
  BY <1>1, Invariance, PTL

-----------------------------------------------------------------------------
(* What iter() yields is a sequence of items, read off the window. *)
IterExact ==
  /\ Iter \in Seq(Items)
  /\ Len(Iter) = count
  /\ \A k \in 1 .. count : /\ Wrap(tail + k - 1) \in Slot
                           /\ Iter[k] = buffer[Wrap(tail + k - 1)]

(* iter visits the slots of the window, from the oldest entry on. *)
LEMMA IterReadsWindow == Inv => IterExact
<1> SUFFICES ASSUME Inv PROVE IterExact
  OBVIOUS
<1>1. Capacity \in Nat /\ Capacity > 0
  BY CapacityAssumption
<1>2. /\ buffer \in [Slot -> Items \cup {NoItem}]
      /\ tail \in Slot /\ count \in 0 .. Capacity
  BY DEF Inv, TypeOK
<1>3. \A k \in 1 .. count :
        /\ (tail + k - 1) % Capacity = Wrap(tail + k - 1)
        /\ Wrap(tail + k - 1) \in Slot
        /\ Wrap(Wrap(tail + k - 1) - tail) = k - 1
  <2>1. SUFFICES ASSUME NEW k \in 1 .. count
                 PROVE  /\ (tail + k - 1) % Capacity = Wrap(tail + k - 1)
                        /\ Wrap(tail + k - 1) \in Slot
                        /\ Wrap(Wrap(tail + k - 1) - tail) = k - 1
    OBVIOUS
  <2>2. /\ tail + k - 1 \in Int /\ -Capacity < tail + k - 1
        /\ tail + k - 1 < 2 * Capacity
    BY <1>1, <1>2 DEF Slot
  <2>3. QED
    BY <1>1, <1>2, <2>2, RemainderWraps DEF Wrap, Slot
<1>4. \A k \in 1 .. count : buffer[Wrap(tail + k - 1)] \in Items
  BY <1>2, <1>3 DEF Inv, Window
<1>5. Iter = [k \in 1 .. count |-> buffer[Wrap(tail + k - 1)]]
  BY <1>3 DEF Iter
<1>6. Iter \in [1 .. count -> Items]
  BY <1>4, <1>5
<1>7. Iter \in Seq(Items) /\ Len(Iter) = count
  BY <1>2, <1>6
<1>8. QED
  BY Zenon, <1>3, <1>5, <1>7 DEF IterExact

(* The same of the state after a step. *)
LEMMA IterReadsNextWindow == Inv' => IterExact'
  BY IterReadsWindow, PTL

(* push appends, forgetting the oldest item of a full buffer. *)
LEMMA PushAppends ==
  ASSUME Inv, Inv', NEW item \in Items, PushCall(item)
  PROVE  Log!LogPush(item)
<1>1. Capacity \in Nat /\ Capacity > 0
  BY CapacityAssumption
<1>2. /\ buffer \in [Slot -> Items \cup {NoItem}]
      /\ head \in Slot /\ tail \in Slot /\ count \in 0 .. Capacity
      /\ Wrap(tail + count) = head
  BY DEF Inv, TypeOK, Window
<1>3. /\ Iter \in Seq(Items) /\ Len(Iter) = count
      /\ \A k \in 1 .. count : Iter[k] = buffer[Wrap(tail + k - 1)]
      /\ \A k \in 1 .. count : Wrap(tail + k - 1) \in Slot
  BY IterReadsWindow DEF IterExact
<1>4. Iter' \in Seq(Items) /\ Len(Iter') = count'
      /\ \A k \in 1 .. count' : Iter'[k] = buffer'[Wrap(tail' + k - 1)]
  BY IterReadsNextWindow DEF IterExact, Wrap
<1>5. buffer' = [buffer EXCEPT ![head] = item] /\ ret' = NoItem
  BY DEF PushCall, Push
<1>6. \A s \in Slot : buffer'[s] = IF s = head THEN item ELSE buffer[s]
  BY <1>2, <1>5
<1>7. CASE count = Capacity
  <2>1. tail' = Wrap(tail + 1) /\ count' = count
    BY <1>2, <1>7, AdvanceWraps DEF PushCall, Push, IsFull
  <2>2. Iter # << >>
    BY <1>1, <1>3, <1>7
  <2>3. /\ Tail(Iter) \in Seq(Items) /\ Len(Tail(Iter)) = count - 1
        /\ \A k \in 1 .. count - 1 : Tail(Iter)[k] = Iter[k + 1]
    BY <1>3, <2>2, TailParts
  <2> DEFINE new == Append(Tail(Iter), item)
  <2>4. /\ new \in Seq(Items) /\ Len(new) = count
        /\ \A k \in 1 .. count - 1 : new[k] = Iter[k + 1]
        /\ new[count] = item
    BY <1>2, <2>3
  <2> HIDE DEF new
  <2>5. \A k \in 1 .. count : Iter'[k] = new[k]
    <3>1. SUFFICES ASSUME NEW k \in 1 .. count PROVE Iter'[k] = new[k]
      OBVIOUS
    <3>2. CASE k = count
      <4>1. Wrap(tail' + k - 1) = head
        BY <1>1, <1>2, <1>7, <2>1, <3>2 DEF Wrap, Slot
      <4>2. QED
        BY <1>2, <1>4, <1>6, <2>1, <2>4, <3>2, <4>1
    <3>3. CASE k # count
      <4>1. /\ k + 1 \in 1 .. count /\ k \in 1 .. count - 1
            /\ Wrap(tail' + k - 1) = Wrap(tail + (k + 1) - 1)
            /\ Wrap(tail + (k + 1) - 1) # head
        BY <1>1, <1>2, <1>7, <2>1, <3>3 DEF Wrap, Slot
      <4>2. Wrap(tail + (k + 1) - 1) \in Slot /\ Iter[k + 1] = buffer[Wrap(tail + (k + 1) - 1)]
        BY <1>3, <4>1
      <4>3. QED
        BY <1>4, <1>6, <2>1, <2>4, <4>1, <4>2
    <3>4. QED
      BY <3>2, <3>3
  <2>6. Iter' = new
    BY <1>4, <2>1, <2>4, <2>5, SeqExtensional
  <2>7. QED
    BY <1>3, <1>5, <1>7, <2>6 DEF Log!LogPush, Log!Full, new
<1>8. CASE count # Capacity
  <2>1. tail' = tail /\ count' = count + 1
    BY <1>8 DEF PushCall, Push, IsFull
  <2> DEFINE new == Append(Iter, item)
  <2>2. /\ new \in Seq(Items) /\ Len(new) = count + 1
        /\ \A k \in 1 .. count : new[k] = Iter[k]
        /\ new[count + 1] = item
    BY <1>2, <1>3
  <2> HIDE DEF new
  <2>3. \A k \in 1 .. count + 1 : Iter'[k] = new[k]
    <3>1. SUFFICES ASSUME NEW k \in 1 .. count + 1 PROVE Iter'[k] = new[k]
      OBVIOUS
    <3>2. CASE k = count + 1
      <4>1. Wrap(tail' + k - 1) = head
        BY <1>1, <1>2, <2>1, <3>2 DEF Slot
      <4>2. QED
        BY <1>2, <1>4, <1>6, <2>1, <2>2, <3>2, <4>1
    <3>3. CASE k # count + 1
      <4>1. k \in 1 .. count /\ Wrap(tail' + k - 1) = Wrap(tail + k - 1)
            /\ Wrap(tail + k - 1) # head
        BY <1>1, <1>2, <1>8, <2>1, <3>3 DEF Wrap, Slot
      <4>2. QED
        BY ZenonT(40), <1>3, <1>4, <1>6, <2>1, <2>2, <4>1
    <3>4. QED
      BY <3>2, <3>3
  <2>4. Iter' = new
    BY <1>4, <2>1, <2>2, <2>3, SeqExtensional
  <2>5. QED
    BY <1>3, <1>5, <1>8, <2>4 DEF Log!LogPush, Log!Full, new
<1>9. QED
  BY <1>7, <1>8

(* pop takes the oldest item. *)
LEMMA PopTakesOldest ==
  ASSUME Inv, Inv', Pop
  PROVE  Log!LogPop
<1>1. Capacity \in Nat /\ Capacity > 0
  BY CapacityAssumption
<1>2. /\ buffer \in [Slot -> Items \cup {NoItem}]
      /\ tail \in Slot /\ count \in 0 .. Capacity /\ count # 0
  BY DEF Inv, TypeOK, Pop, IsEmpty
<1>3. /\ Iter \in Seq(Items) /\ Len(Iter) = count
      /\ \A k \in 1 .. count : Iter[k] = buffer[Wrap(tail + k - 1)]
      /\ \A k \in 1 .. count : Wrap(tail + k - 1) \in Slot
  BY IterReadsWindow DEF IterExact
<1>4. Iter' \in Seq(Items) /\ Len(Iter') = count'
      /\ \A k \in 1 .. count' : Iter'[k] = buffer'[Wrap(tail' + k - 1)]
  BY IterReadsNextWindow DEF IterExact, Wrap
<1>5. /\ buffer' = [buffer EXCEPT ![tail] = NoItem] /\ ret' = buffer[tail]
      /\ count' = count - 1
  BY DEF Pop
<1>6. tail' = Wrap(tail + 1)
  BY <1>2, AdvanceWraps DEF Pop
<1>7. Iter # << >>
  BY <1>2, <1>3
<1>8. /\ Tail(Iter) \in Seq(Items) /\ Len(Tail(Iter)) = count - 1
      /\ \A k \in 1 .. count - 1 : Tail(Iter)[k] = Iter[k + 1]
  BY <1>3, <1>7, TailParts
<1>9. \A k \in 1 .. count - 1 : Iter'[k] = Tail(Iter)[k]
  <2>1. SUFFICES ASSUME NEW k \in 1 .. count - 1 PROVE Iter'[k] = Tail(Iter)[k]
    BY Zenon
  <2>2. /\ k + 1 \in 1 .. count
        /\ Wrap(tail' + k - 1) = Wrap(tail + (k + 1) - 1)
        /\ Wrap(tail + (k + 1) - 1) # tail
    BY <1>1, <1>2, <1>6 DEF Wrap, Slot
  <2>3. Wrap(tail + (k + 1) - 1) \in Slot /\ Iter[k + 1] = buffer[Wrap(tail + (k + 1) - 1)]
    BY <1>3, <2>2
  <2>4. QED
    BY <1>2, <1>4, <1>5, <1>8, <2>2, <2>3
<1>10. Iter' = Tail(Iter)
  BY <1>4, <1>5, <1>8, <1>9, SeqExtensional
<1>11. Iter[1] = buffer[tail]
  <2>1. Wrap(tail + 1 - 1) = tail
    BY <1>1, <1>2 DEF Wrap, Slot
  <2>2. QED
    BY <1>2, <1>3, <2>1
<1>12. QED
  BY <1>5, <1>7, <1>10, <1>11 DEF Log!LogPop

(* front and back return the two ends of the log. *)
LEMMA FrontAndBack ==
  ASSUME Inv
  PROVE  /\ Front = IF Iter = << >> THEN NoItem ELSE Iter[1]
         /\ Back = IF Iter = << >> THEN NoItem ELSE Iter[Len(Iter)]
<1>1. Capacity \in Nat /\ Capacity > 0
  BY CapacityAssumption
<1>2. /\ head \in Slot /\ tail \in Slot /\ count \in 0 .. Capacity
      /\ Wrap(tail + count) = head
  BY DEF Inv, TypeOK, Window
<1>3. /\ Iter \in Seq(Items) /\ Len(Iter) = count
      /\ \A k \in 1 .. count : Iter[k] = buffer[Wrap(tail + k - 1)]
  BY IterReadsWindow DEF IterExact
<1>4. Iter = << >> <=> count = 0
  BY <1>2, <1>3
<1>5. CASE count # 0
  <2>1. Wrap(tail + 1 - 1) = tail
    BY <1>1, <1>2 DEF Wrap, Slot
  <2>2. /\ head + Capacity - 1 \in Int /\ -Capacity < head + Capacity - 1
        /\ head + Capacity - 1 < 2 * Capacity
    BY <1>1, <1>2 DEF Slot
  <2>3. (head + Capacity - 1) % Capacity = Wrap(head + Capacity - 1)
    BY <2>2, RemainderWraps
  <2>4. Wrap(head + Capacity - 1) = Wrap(tail + count - 1)
    BY <1>1, <1>2, <1>5 DEF Wrap, Slot
  <2>5. QED
    BY <1>2, <1>3, <1>4, <1>5, <2>1, <2>3, <2>4 DEF Front, Back, IsEmpty
<1>6. CASE count = 0
  BY <1>4, <1>6 DEF Front, Back, IsEmpty
<1>7. QED
  BY <1>5, <1>6

(* Every call of the ring buffer is the call of the log. *)
LEMMA StepImplements ==
  Inv /\ Inv' /\ [Next]_vars => [Log!LogNext]_<<Iter, ret>>
<1> SUFFICES ASSUME Inv, Inv', [Next]_vars PROVE [Log!LogNext]_<<Iter, ret>>
  OBVIOUS
<1>1. ASSUME NEW item \in Items, PushCall(item) PROVE Log!LogNext
  BY <1>1, PushAppends DEF Log!LogNext
<1>2. CASE Pop
  BY <1>2, PopTakesOldest DEF Log!LogNext
<1>3. ASSUME UNCHANGED slots PROVE Iter' = Iter
  BY <1>3 DEF slots, Iter
<1>4. CASE PopEmpty
  <2>1. Iter = << >>
    BY <1>4, IterReadsWindow DEF IterExact, PopEmpty, IsEmpty
  <2>2. QED
    BY <1>3, <1>4, <2>1 DEF PopEmpty, Log!LogNext, Log!LogPop
<1>5. CASE FrontCall
  BY <1>3, <1>5, FrontAndBack DEF FrontCall, Log!LogNext, Log!LogFront
<1>6. CASE BackCall
  BY <1>3, <1>6, FrontAndBack DEF BackCall, Log!LogNext, Log!LogBack
<1>7. CASE Clear
  <2>1. count' = 0 /\ ret' = NoItem
    BY <1>7 DEF Clear
  <2>2. Iter' \in Seq(Items) /\ Len(Iter') = count'
    BY IterReadsNextWindow DEF IterExact
  <2>3. Iter' = << >>
    BY <2>1, <2>2
  <2>4. QED
    BY <2>1, <2>3 DEF Log!LogNext, Log!LogClear
<1>8. CASE UNCHANGED vars
  BY <1>8 DEF vars, Iter
<1>9. QED
  BY <1>1, <1>2, <1>4, <1>5, <1>6, <1>7, <1>8 DEF Next

(* The ring buffer implements the bounded log: whatever the wrap-around, its *)
(* calls return what those of a queue would that forgets its oldest item     *)
(* when full, for every capacity.                                            *)
THEOREM RingBufferImplementsLog == Spec => ImplementsBoundedLog
<1>1. Init => Log!LogInit
  <2> SUFFICES ASSUME Init PROVE Log!LogInit
    OBVIOUS
  <2>1. Iter = << >>
    BY InitInv, IterReadsWindow DEF IterExact, Init, WithCapacity
  <2>2. QED
    BY <2>1 DEF Init, Log!LogInit
<1>2. QED
  BY <1>1, Invariance, StepImplements, PTL DEF Spec, ImplementsBoundedLog, Log!LogSpec
=============================================================================
