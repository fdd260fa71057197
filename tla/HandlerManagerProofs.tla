------------------------ MODULE HandlerManagerProofs ------------------------
(***************************************************************************)
(* Proofs about HandlerManager: for any number of actors, registrations    *)
(* and priorities, the two maps of the registry agree on every handler     *)
(* whose description is its own, removals are authorised, an ended context *)
(* leaves no handler behind, and a dispatch runs over an unchanged list.   *)
(***************************************************************************)
EXTENDS HandlerManager, TLAPS

-----------------------------------------------------------------------------
(* Sequences *)

(* The domain of a sequence is 1 up to its length. *)
LEMMA SeqDomain ==
  ASSUME NEW S, NEW s \in Seq(S)
  PROVE  Len(s) \in Nat /\ DOMAIN s = 1 .. Len(s) /\ s \in [1 .. Len(s) -> S]
  OBVIOUS

(* The elements of a sequence over S are in S. *)
LEMMA SeqElement ==
  ASSUME NEW S, NEW s \in Seq(S), NEW i \in 1 .. Len(s)
  PROVE  s[i] \in S
  OBVIOUS

(* The empty sequence is the only one of length 0. *)
LEMMA SeqEmpty ==
  ASSUME NEW S
  PROVE  /\ << >> \in Seq(S) /\ Len(<< >>) = 0
         /\ \A s \in Seq(S) : s # << >> => Len(s) \in Nat \ {0}
  OBVIOUS

(* A function on 1 .. n is a sequence of length n. *)
LEMMA SeqOfFunction ==
  ASSUME NEW S, NEW n \in Nat, NEW f \in [1 .. n -> S]
  PROVE  f \in Seq(S) /\ Len(f) = n
  OBVIOUS

(* Sequences that agree at every index are equal. *)
LEMMA SeqExtensional ==
  ASSUME NEW S, NEW s \in Seq(S), NEW t \in Seq(S),
         Len(s) = Len(t), \A i \in 1 .. Len(s) : s[i] = t[i]
  PROVE  s = t
  OBVIOUS

(* The first part of s \o t is s, the second t. *)
LEMMA ConcatParts ==
  ASSUME NEW S, NEW s \in Seq(S), NEW t \in Seq(S)
  PROVE  /\ s \o t \in Seq(S) /\ Len(s \o t) = Len(s) + Len(t)
         /\ \A i \in 1 .. Len(s) : (s \o t)[i] = s[i]
         /\ \A i \in 1 .. Len(t) : (s \o t)[Len(s) + i] = t[i]
  OBVIOUS

(* The empty sequence adds nothing. *)
LEMMA ConcatEmpty ==
  ASSUME NEW S, NEW s \in Seq(S)
  PROVE  s \o << >> = s /\ << >> \o s = s
  OBVIOUS

(* Concatenation is associative. *)
LEMMA ConcatAssoc ==
  ASSUME NEW S, NEW s \in Seq(S), NEW t \in Seq(S), NEW u \in Seq(S)
  PROVE  (s \o t) \o u = s \o (t \o u)
  BY SMTT(30)

(* The tail is the sequence without its first element. *)
LEMMA TailParts ==
  ASSUME NEW S, NEW s \in Seq(S), s # << >>
  PROVE  /\ Head(s) \in S /\ Tail(s) \in Seq(S) /\ Len(Tail(s)) = Len(s) - 1
         /\ \A i \in 1 .. Len(s) - 1 : Tail(s)[i] = s[i + 1]
  OBVIOUS

(* Append adds one element at the end. *)
LEMMA AppendParts ==
  ASSUME NEW S, NEW s \in Seq(S), NEW e \in S
  PROVE  /\ Append(s, e) \in Seq(S) /\ Append(s, e) # << >> /\ Len(Append(s, e)) = Len(s) + 1
         /\ Append(s, e)[Len(s) + 1] = e /\ \A i \in 1 .. Len(s) : Append(s, e)[i] = s[i]
  OBVIOUS

(* Append is concatenation with a sequence of one element. *)
LEMMA AppendConcat ==
  ASSUME NEW S, NEW s \in Seq(S), NEW e \in S
  PROVE  Append(s, e) = s \o << e >>
  OBVIOUS

Names == {PageFault, IllegalInst} \cup {r.description : r \in Registrations}

Entry == [priority : Priorities, description : Names,
          protection : ProtectionLevel, registrar : Nat, context : Nat]

Handles == [description : Names, type : TrapType]

(* What op holds, by the label of its actor *)
Request(label) ==
  IF label = "register" THEN [kind : {"register"}, of : Registrations]
  ELSE IF label = "unregister" THEN [kind : {"unregister"}, handle : Handles, by : Requesters]
  ELSE IF label = "drop" THEN [kind : {"drop"}, context : Contexts]
  ELSE IF label = "dispatch" THEN [kind : {"dispatch"}, type : TrapType]
  ELSE {NoOp}

Label == {"idle", "register", "unregister", "drop", "dispatch"}

MapsType ==
  /\ entries \in Seq(Entry)
  /\ handlers \in [TrapType -> [Priorities -> Seq(Nat)]]
  /\ DOMAIN handle_map \subseteq Handles
  /\ handle_map \in [DOMAIN handle_map -> DOMAIN entries]

ActorsType ==
  /\ handlers_lock \in Actors \cup {Nobody} /\ handle_lock \in Actors \cup {Nobody}
  /\ pc \in [Actors -> Label]
  /\ DOMAIN op = Actors /\ op = [a \in Actors |-> op[a]]
  /\ \A a \in Actors : op[a] \in Request(pc[a])
  /\ todo \in [Actors -> Seq(Nat)] /\ calls \in [Actors -> Seq(Nat)]

(* The lists are lists of entries, each at its priority, oldest first. *)
Placed ==
  \A t \in TrapType, p \in Priorities : \A k \in DOMAIN handlers[t][p] :
    /\ handlers[t][p][k] \in DOMAIN entries
    /\ entries[handlers[t][p][k]].priority = p
Sorted ==
  \A t \in TrapType, p \in Priorities : \A j, k \in DOMAIN handlers[t][p] :
    j < k => handlers[t][p][j] < handlers[t][p][k]

(* A handle holds the name of its entry, and is what a client registered. *)
Named == \A h \in DOMAIN handle_map : entries[handle_map[h]].description = h.description
Known ==
  \A h \in DOMAIN handle_map : Sole(h.description) =>
    \/ h = Handle(IllegalInst, "IllegalInstruction")
    \/ \E r \in Registrations : h = Handle(r.description, r.type)

(* What is registered under a sole name has its handle, and back. *)
HasHandle(id, t) ==
  LET h == Handle(entries[id].description, t)
  IN h \in DOMAIN handle_map /\ handle_map[h] = id
Held ==
  \A t \in TrapType, p \in Priorities : \A k \in DOMAIN handlers[t][p] :
    Sole(entries[handlers[t][p][k]].description) => HasHandle(handlers[t][p][k], t)
Listed ==
  \A h \in DOMAIN handle_map : Sole(h.description) => Registered(handle_map[h], h.type)

Registry == MapsType /\ Placed /\ Sorted /\ Named /\ Known /\ Held /\ Listed

(* Who holds which lock, and what the call in progress relies on *)
ActorInv(a) ==
  /\ handle_lock = a <=> pc[a] \in {"register", "unregister", "drop"}
  /\ handlers_lock = a <=> pc[a] = "dispatch"
  /\ pc[a] = "register" => Handle(op[a].of.description, op[a].of.type) \notin DOMAIN handle_map
  /\ pc[a] = "unregister" => /\ op[a].handle \in DOMAIN handle_map
                             /\ CanBeUnregisteredBy(entries[handle_map[op[a].handle]], op[a].by)
  /\ pc[a] = "dispatch" => calls[a] \o todo[a] = HandlersFor(op[a].type)
  /\ pc[a] # "dispatch" => calls[a] = << >> /\ todo[a] = << >>

IInv == Registry /\ ActorsType /\ \A a \in Actors : ActorInv(a)

-----------------------------------------------------------------------------
(* Operators *)

(* What Vec::retain keeps of a list, shown below from PriorityMapProofs *)
Keeps(r, s, S) ==
  /\ r \in Seq(Nat)
  /\ \A k \in DOMAIN r : r[k] \in S /\ \E i \in DOMAIN s : s[i] = r[k]
  /\ \A i \in DOMAIN s : s[i] \in S => \E k \in DOMAIN r : r[k] = s[i]
  /\ (\A i, j \in DOMAIN s : i < j => s[i] < s[j]) =>
       \A i, j \in DOMAIN r : i < j => r[i] < r[j]
RetainKeeps == \A S : \A s \in Seq(Nat) : Keeps(Retain(s, S), s, S)

(* The order of the loops of dispatch, shown below from PriorityMapProofs *)
Ordered(s, map) ==
  /\ s \in Seq(Nat)
  /\ \A j, k \in DOMAIN s : j < k =>
       \E p, q \in Priorities : \E i \in DOMAIN map[p], m \in DOMAIN map[q] :
         /\ s[j] = map[p][i] /\ s[k] = map[q][m]
         /\ p < q \/ (p = q /\ i < m)
OrderKeeps == \A map \in [Priorities -> Seq(Nat)] : Ordered(InKeyOrder(map), map)

(* scause always stands for a trap type. *)
LEMMA CauseType == \A bits : ToTrapType(bits) \in TrapType
  <1>1. /\ {"TimerInterrupt", "ExternalInterrupt", "SoftwareInterrupt", "SystemCall",
            "InstructionPageFault", "LoadPageFault", "StorePageFault",
            "InstructionAccessFault"} \subseteq TrapType
        /\ {"LoadAccessFault", "StoreAccessFault",
            "IllegalInstruction", "Breakpoint", "InstructionMisaligned",
            "LoadMisaligned", "StoreMisaligned", "Unknown"} \subseteq TrapType
    BY DEF TrapType, TrapTypeOrder
  <1>2. \A i \in DOMAIN InterruptType : InterruptType[i] \in TrapType
    BY <1>1 DEF InterruptType
  <1>3. \A i \in DOMAIN ExceptionType : ExceptionType[i] \in TrapType
    BY <1>1 DEF ExceptionType
  <1> QED
    BY <1>1, <1>2, <1>3 DEF ToTrapType

(* A sequence with its first element moved to the end of the one before it *)
LEMMA ShiftConcat ==
  ASSUME NEW X, NEW s \in Seq(X), NEW t \in Seq(X), t # << >>
  PROVE  Append(s, Head(t)) \o Tail(t) = s \o t
  <1>1. PICK x \in X : x = Head(t)
    BY TailParts
  <1>2. /\ Tail(t) \in Seq(X) /\ Len(Tail(t)) = Len(t) - 1 /\ x = t[1]
        /\ \A i \in 1 .. Len(Tail(t)) : Tail(t)[i] = t[i + 1]
    BY <1>1, TailParts
  <1>3. Len(t) \in Nat /\ Len(t) > 0
    BY SeqEmpty, SeqDomain
  <1>4. <<x>> \in Seq(X) /\ Len(<<x>>) = 1 /\ <<x>>[1] = x
    OBVIOUS
  <1>5. <<x>> \o Tail(t) = t
    <2> DEFINE u == <<x>> \o Tail(t)
    <2>1. /\ u \in Seq(X) /\ Len(u) = 1 + (Len(t) - 1)
          /\ \A i \in 1 .. 1 + (Len(t) - 1) : u[i] = IF i <= 1 THEN <<x>>[i] ELSE Tail(t)[i - 1]
      BY <1>2, <1>4, ConcatParts
    <2> HIDE DEF u
    <2>2. Len(u) = Len(t) /\ \A i \in 1 .. Len(t) : u[i] = t[i]
      <3> SUFFICES ASSUME NEW i \in 1 .. Len(t) PROVE u[i] = t[i]
        BY <1>3, <2>1
      <3>1. CASE i = 1
        BY <1>2, <1>3, <1>4, <2>1, <3>1
      <3>2. CASE i # 1
        <4>1. i - 1 \in 1 .. Len(Tail(t)) /\ (i - 1) + 1 = i /\ ~(i <= 1) /\ i \in 1 .. 1 + (Len(t) - 1)
          BY <1>2, <1>3, <3>2
        <4> QED
          BY <1>2, <2>1, <4>1
      <3> QED
        BY <3>1, <3>2
    <2>3. u = t
      BY <2>1, <2>2, SeqExtensional
    <2> QED
      BY <2>3 DEF u
  <1>6. Append(s, x) = s \o <<x>>
    BY AppendConcat
  <1>7. (s \o <<x>>) \o Tail(t) = s \o (<<x>> \o Tail(t))
    BY <1>2, <1>4, ConcatAssoc
  <1> QED
    BY <1>1, <1>5, <1>6, <1>7

(* A handle is what it was made from. *)
LEMMA HandleFields ==
  \A d, t : Handle(d, t).description = d /\ Handle(d, t).type = t
  BY DEF Handle

(* An entry has a priority. *)
LEMMA EntryFields ==
  ASSUME MapsType, NEW id \in DOMAIN entries
  PROVE  entries[id] \in Entry /\ entries[id].priority \in Priorities
  <1>1. id \in 1 .. Len(entries)
    BY SeqDomain DEF MapsType
  <1>2. entries[id] \in Entry
    BY <1>1, SeqElement DEF MapsType
  <1> QED
    BY <1>2 DEF Entry

(* Two handles of one sole name are the same. *)
LEMMA SameName ==
  ASSUME Known, NEW g \in DOMAIN handle_map, NEW h \in DOMAIN handle_map,
         Sole(h.description), g.description = h.description
  PROVE  g = h
  <1> DEFINE default == Handle(IllegalInst, "IllegalInstruction")
  <1>1. g = default \/ \E r \in Registrations : g = Handle(r.description, r.type)
    BY DEF Known
  <1>2. h = default \/ \E r \in Registrations : h = Handle(r.description, r.type)
    BY DEF Known
  <1>3. CASE g = default /\ h = default
    BY <1>3
  <1>4. CASE g = default /\ \E r \in Registrations : h = Handle(r.description, r.type)
    BY <1>4, HandleFields DEF Sole
  <1>5. CASE h = default /\ \E r \in Registrations : g = Handle(r.description, r.type)
    BY <1>5, HandleFields DEF Sole
  <1>6. CASE /\ \E r \in Registrations : g = Handle(r.description, r.type)
             /\ \E r \in Registrations : h = Handle(r.description, r.type)
    <2>1. PICK r \in Registrations : g = Handle(r.description, r.type)
      BY <1>6
    <2>2. PICK s \in Registrations : h = Handle(s.description, s.type)
      BY <1>6
    <2>3. r.description = h.description /\ s.description = h.description
      BY <2>1, <2>2, HandleFields
    <2>4. r = s
      BY <2>3 DEF Sole
    <2> QED
      BY <2>1, <2>2, <2>4
  <1> QED
    BY <1>1, <1>2, <1>3, <1>4, <1>5, <1>6

-----------------------------------------------------------------------------
(* The registry *)

(* The two maps agree on the handlers of sole names. *)
LEMMA RegistryAgrees == Registry => SoleHandlersAgree
  <1> SUFFICES ASSUME Registry, NEW id \in DOMAIN entries, NEW t \in TrapType,
                      NEW p \in Priorities, Sole(entries[id].description)
               PROVE  LET d == entries[id].description
                          h == Handle(d, t)
                          at == {k \in DOMAIN handlers[t][p] :
                                   entries[handlers[t][p][k]].description = d}
                      IN IF h \in DOMAIN handle_map /\ entries[handle_map[h]].priority = p
                         THEN \E k \in at : at = {k} /\ handlers[t][p][k] = handle_map[h]
                         ELSE at = {}
    BY DEF SoleHandlersAgree
  <1> DEFINE d == entries[id].description
             h == Handle(d, t)
             at == {k \in DOMAIN handlers[t][p] : entries[handlers[t][p][k]].description = d}
  <1>1. \A k \in at : /\ h \in DOMAIN handle_map /\ handle_map[h] = handlers[t][p][k]
                       /\ entries[handle_map[h]].priority = p
    BY DEF Registry, Held, HasHandle, Placed
  <1>2. CASE h \in DOMAIN handle_map /\ entries[handle_map[h]].priority = p
    <2>1. h.description = d /\ h.type = t
      BY HandleFields
    <2>2. Registered(handle_map[h], t)
      BY <1>2, <2>1 DEF Registry, Listed
    <2>3. PICK k \in DOMAIN handlers[t][p] : handlers[t][p][k] = handle_map[h]
      BY <1>2, <2>2 DEF Registered
    <2>4. k \in at
      BY <1>2, <2>1, <2>3 DEF Registry, Named
    <2>5. \A j \in at : j = k
      <3> SUFFICES ASSUME NEW j \in at PROVE j = k
        OBVIOUS
      <3>1. handlers[t][p][j] = handlers[t][p][k]
        BY <1>1, <2>3
      <3>2. /\ handlers[t][p] \in Seq(Nat) /\ j \in DOMAIN handlers[t][p]
            /\ \A i, m \in DOMAIN handlers[t][p] : i < m => handlers[t][p][i] < handlers[t][p][m]
        BY DEF Registry, MapsType, Sorted
      <3>3. j \in Nat /\ k \in Nat /\ handlers[t][p][j] \in Nat
        BY <2>3, <3>2, SeqDomain, SeqElement
      <3>4. ~(j < k) /\ ~(k < j)
        BY <3>1, <3>2, <3>3
      <3> QED
        BY <3>3, <3>4
    <2> QED
      BY <1>2, <2>3, <2>4, <2>5
  <1>3. CASE ~(h \in DOMAIN handle_map /\ entries[handle_map[h]].priority = p)
    BY <1>1, <1>3
  <1> QED
    BY Zenon, <1>2, <1>3

(* Handlers and handles may be removed, if those of a sole name go together. *)
LEMMA Removal ==
  ASSUME Registry, NEW G, entries' = entries,
         handle_map' = [x \in DOMAIN handle_map \ G |-> handle_map[x]],
         handlers' \in [TrapType -> [Priorities -> Seq(Nat)]],
         \A t \in TrapType, p \in Priorities : \A k \in DOMAIN handlers'[t][p] :
           /\ \E i \in DOMAIN handlers[t][p] : handlers[t][p][i] = handlers'[t][p][k]
           /\ Sole(entries[handlers'[t][p][k]].description) =>
                Handle(entries[handlers'[t][p][k]].description, t) \notin G,
         Sorted', Listed'
  PROVE  Registry'
  <1>1. MapsType'
    BY DEF Registry, MapsType
  <1>2. Placed'
    BY DEF Registry, Placed
  <1>3. Named' /\ Known'
    BY DEF Registry, Named, Known
  <1>4. Held'
    <2> SUFFICES ASSUME NEW t \in TrapType, NEW p \in Priorities,
                        NEW k \in DOMAIN handlers'[t][p], NEW id, id = handlers'[t][p][k],
                        Sole(entries[id].description)
                 PROVE  HasHandle(id, t)'
      BY DEF Held
    <2>1. PICK i \in DOMAIN handlers[t][p] : handlers[t][p][i] = id
      OBVIOUS
    <2>2. HasHandle(id, t)
      BY <2>1 DEF Registry, Held
    <2>3. Handle(entries[id].description, t) \notin G
      OBVIOUS
    <2> QED
      BY <2>2, <2>3 DEF HasHandle
  <1> QED
    BY <1>1, <1>2, <1>3, <1>4 DEF Registry

(* unregister_for_context keeps the registry consistent, and leaves nothing  *)
(* of the context under a sole name.                                         *)
LEMMA ContextMaps ==
  ASSUME Registry, RetainKeeps, NEW a \in Actors, UnregisterForContext(a)
  PROVE  /\ Registry'
         /\ \A t \in TrapType, id \in DOMAIN entries :
              entries[id].context = op[a].context /\ Sole(entries[id].description)
                => ~Registered(id, t)'
  <1> DEFINE gone == HandlesOf(op[a].context)
  <1>1. /\ entries' = entries
        /\ handle_map' = [x \in DOMAIN handle_map \ gone |-> handle_map[x]]
        /\ handlers' = [t \in TrapType |-> [p \in Priorities |->
                         Retain(handlers[t][p], NotNamed(NamesAt(gone, p)))]]
    BY DEF UnregisterForContext
  <1>2. \A h \in gone : h \in DOMAIN handle_map /\ entries[handle_map[h]].context = op[a].context
    BY DEF HandlesOf
  <1>3. \A h \in DOMAIN handle_map : entries[handle_map[h]].context = op[a].context => h \in gone
    BY DEF HandlesOf
  <1> HIDE DEF gone
  <1>4. ASSUME NEW t \in TrapType, NEW p \in Priorities
        PROVE  /\ handlers'[t][p] \in Seq(Nat)
               /\ \A k \in DOMAIN handlers'[t][p] :
                    /\ handlers'[t][p][k] \in NotNamed(NamesAt(gone, p))
                    /\ \E i \in DOMAIN handlers[t][p] : handlers[t][p][i] = handlers'[t][p][k]
               /\ \A i \in DOMAIN handlers[t][p] :
                    handlers[t][p][i] \in NotNamed(NamesAt(gone, p)) =>
                      \E k \in DOMAIN handlers'[t][p] : handlers'[t][p][k] = handlers[t][p][i]
               /\ \A i, j \in DOMAIN handlers'[t][p] : i < j => handlers'[t][p][i] < handlers'[t][p][j]
    <2>1. handlers[t][p] \in Seq(Nat)
      BY DEF Registry, MapsType
    <2>2. \A i, j \in DOMAIN handlers[t][p] : i < j => handlers[t][p][i] < handlers[t][p][j]
      BY DEF Registry, Sorted
    <2>3. handlers'[t][p] = Retain(handlers[t][p], NotNamed(NamesAt(gone, p)))
      BY <1>1
    <2>4. Keeps(handlers'[t][p], handlers[t][p], NotNamed(NamesAt(gone, p)))
      BY <2>1, <2>3 DEF RetainKeeps
    <2> QED
      BY <2>2, <2>4 DEF Keeps
  <1>5. ASSUME NEW t \in TrapType, NEW p \in Priorities, NEW k \in DOMAIN handlers'[t][p],
               Sole(entries[handlers'[t][p][k]].description)
        PROVE  /\ Handle(entries[handlers'[t][p][k]].description, t) \notin gone
               /\ entries[handlers'[t][p][k]].context # op[a].context
    <2>0. PICK id : id = handlers'[t][p][k]
      OBVIOUS
    <2> DEFINE h == Handle(entries[id].description, t)
    <2>1. PICK i \in DOMAIN handlers[t][p] : handlers[t][p][i] = id
      BY <1>4, <2>0
    <2>2. h \in DOMAIN handle_map /\ handle_map[h] = id /\ entries[id].priority = p
      <3>1. HasHandle(id, t)
        BY <1>5, <2>0, <2>1 DEF Registry, Held
      <3>2. entries[id].priority = p
        BY <2>1 DEF Registry, Placed
      <3> QED
        BY <3>1, <3>2 DEF HasHandle
    <2>3. h \in gone => entries[id].description \in NamesAt(gone, p)
      BY <2>2 DEF NamesAt
    <2>4. entries[id].description \notin NamesAt(gone, p)
      BY <1>4, <2>0 DEF NotNamed
    <2> QED
      BY <1>3, <2>0, <2>2, <2>3, <2>4
  <1>6. handlers' \in [TrapType -> [Priorities -> Seq(Nat)]]
    BY <1>1, <1>4
  <1>7. Sorted'
    BY <1>4 DEF Sorted
  <1>8. Listed'
    <2> SUFFICES ASSUME NEW h \in DOMAIN handle_map \ gone, NEW id, id = handle_map[h],
                        Sole(h.description)
                 PROVE  Registered(id, h.type)'
      BY <1>1 DEF Listed
    <2> DEFINE p == entries[id].priority
    <2>1. id \in DOMAIN entries /\ h.type \in TrapType
      BY DEF Registry, MapsType, Handles
    <2>0. p \in Priorities
      BY <2>1, EntryFields DEF Registry
    <2>2. PICK i \in DOMAIN handlers[h.type][p] : handlers[h.type][p][i] = id
      BY DEF Registry, Listed, Registered
    <2>3. entries[id].description = h.description
      BY DEF Registry, Named
    <2>4. entries[id].description \notin NamesAt(gone, p)
      <3> SUFFICES ASSUME NEW g \in gone, entries[handle_map[g]].description = h.description
                   PROVE  FALSE
        BY <2>3 DEF NamesAt
      <3>1. g \in DOMAIN handle_map /\ g.description = h.description
        BY <1>2 DEF Registry, Named
      <3>2. g = h
        BY <3>1, SameName DEF Registry
      <3> QED
        BY <3>2
    <2>5. id \in NotNamed(NamesAt(gone, p))
      BY <2>1, <2>4 DEF NotNamed
    <2>6. \E k \in DOMAIN handlers'[h.type][p] : handlers'[h.type][p][k] = id
      BY <1>4, <2>0, <2>1, <2>2, <2>5
    <2>7. entries' = entries
      BY <1>1
    <2> QED
      BY Zenon, <2>6, <2>7 DEF Registered
  <1>9. Registry'
    <2>1. \A t \in TrapType, p \in Priorities : \A k \in DOMAIN handlers'[t][p] :
            /\ \E i \in DOMAIN handlers[t][p] : handlers[t][p][i] = handlers'[t][p][k]
            /\ Sole(entries[handlers'[t][p][k]].description) =>
                 Handle(entries[handlers'[t][p][k]].description, t) \notin gone
      BY <1>4, <1>5
    <2> QED
      BY Zenon, <1>1, <1>6, <1>7, <1>8, <2>1, Removal
  <1>10. ASSUME NEW t \in TrapType, NEW id \in DOMAIN entries,
                entries[id].context = op[a].context, Sole(entries[id].description),
                Registered(id, t)'
         PROVE  FALSE
    <2>1. entries[id].priority \in Priorities
      BY EntryFields DEF Registry
    <2>2. PICK k \in DOMAIN handlers'[t][entries[id].priority] :
            handlers'[t][entries[id].priority][k] = id
      BY Zenon, <1>1, <1>10 DEF Registered
    <2> QED
      BY <1>5, <1>10, <2>1, <2>2
  <1> QED
    BY <1>9, <1>10

(* register adds a handler and its handle. *)
LEMMA RegisterMaps ==
  ASSUME Registry, ActorsType, NEW a \in Actors, ActorInv(a), Register(a)
  PROVE  Registry'
  <1>1. PICK r \in Registrations : r = op[a].of
    BY Zenon DEF Register, BothLocks, ActorsType, Request
  <1> DEFINE new == Len(entries) + 1
             d == r.description
             h == Handle(d, r.type)
  <1>2. /\ r.type \in TrapType /\ r.priority \in Priorities /\ d \in Names
        /\ HandlerEntry(r) \in Entry
        /\ HandlerEntry(r).priority = r.priority /\ HandlerEntry(r).description = d
    BY RegistrationsAssumption DEF HandlerEntry, Entry, Names
  <1>3. h \in Handles /\ h.description = d /\ h.type = r.type
    BY <1>2 DEF Handle, Handles
  <1>4. h \notin DOMAIN handle_map
    BY ZenonT(40), <1>1 DEF Register, BothLocks, ActorInv
  <1>5. /\ entries' = Append(entries, HandlerEntry(r))
        /\ handlers' = [handlers EXCEPT ![r.type][r.priority] = Append(@, new)]
        /\ handle_map' = [x \in DOMAIN handle_map \cup {h} |->
                            IF x = h THEN new ELSE handle_map[x]]
    BY Zenon, <1>1 DEF Register
  <1> HIDE DEF h, d
  <1>6. /\ entries \in Seq(Entry) /\ Len(entries) \in Nat /\ DOMAIN entries = 1 .. Len(entries)
        /\ entries' \in Seq(Entry) /\ DOMAIN entries' = 1 .. new /\ entries'[new] = HandlerEntry(r)
        /\ \A id \in DOMAIN entries : id \in DOMAIN entries' /\ entries'[id] = entries[id]
    BY <1>2, <1>5, AppendParts, SeqDomain DEF Registry, MapsType
  <1>7. new \in Nat /\ new \notin DOMAIN entries /\ new \in DOMAIN entries'
    BY <1>6
  <1>o. PICK old : old = handlers[r.type][r.priority]
    OBVIOUS
  <1>l. PICK list : list = handlers'[r.type][r.priority]
    OBVIOUS
  <1>8. /\ old \in Seq(Nat) /\ list = Append(old, new)
        /\ \A t \in TrapType, p \in Priorities :
             t # r.type \/ p # r.priority => handlers'[t][p] = handlers[t][p]
    BY Zenon, <1>2, <1>5, <1>o, <1>l DEF Registry, MapsType
  <1>9. /\ list \in Seq(Nat) /\ Len(old) \in Nat
        /\ DOMAIN old = 1 .. Len(old) /\ DOMAIN list = 1 .. Len(old) + 1
        /\ list[Len(old) + 1] = new /\ \A k \in 1 .. Len(old) : list[k] = old[k]
    <2> HIDE DEF new
    <2>1. old \in Seq(Nat) /\ new \in Nat /\ list = Append(old, new)
      BY <1>7, <1>8
    <2>2. Len(old) \in Nat /\ DOMAIN old = 1 .. Len(old)
      BY <2>1, SeqDomain
    <2>3. list \in Seq(Nat) /\ Len(list) = Len(old) + 1 /\ DOMAIN list = 1 .. Len(list)
      BY <2>1, AppendParts, SeqDomain
    <2>4. /\ list[Len(old) + 1] = new
          /\ \A k \in 1 .. Len(old) : list[k] = old[k]
      BY <2>1, AppendParts
    <2> QED
      BY <2>2, <2>3, <2>4
  <1>10. handlers' \in [TrapType -> [Priorities -> Seq(Nat)]]
    BY Zenon, <1>2, <1>5, <1>8, <1>9, <1>o, <1>l DEF Registry, MapsType
  <1> HIDE DEF new
  (* Every element of a list is the new entry in its place, or was there. *)
  <1>11. ASSUME NEW t \in TrapType, NEW p \in Priorities, NEW k \in DOMAIN handlers'[t][p]
         PROVE  \/ /\ handlers'[t][p][k] = new /\ t = r.type /\ p = r.priority
                   /\ k = Len(old) + 1
                \/ /\ k \in DOMAIN handlers[t][p] /\ handlers'[t][p][k] = handlers[t][p][k]
                   /\ handlers[t][p][k] \in DOMAIN entries
    <2>1. CASE t = r.type /\ p = r.priority
      <3>1. k \in 1 .. Len(old) + 1 /\ handlers'[t][p] = list /\ handlers[t][p] = old
        BY Zenon, <1>9, <1>o, <1>l, <2>1
      <3>2. \A i \in 1 .. Len(old) : old[i] \in DOMAIN entries
        BY Zenon, <1>9, <2>1, <3>1 DEF Registry, Placed
      <3>3. k = Len(old) + 1 \/ k \in 1 .. Len(old)
        BY <1>9, <3>1
      <3> QED
        BY <1>9, <2>1, <3>1, <3>2, <3>3
    <2>2. CASE t # r.type \/ p # r.priority
      BY <1>8, <2>2 DEF Registry, Placed
    <2> QED
      BY <2>1, <2>2
  <1>12. MapsType'
    BY <1>3, <1>5, <1>6, <1>7, <1>10 DEF Registry, MapsType
  <1>13. Placed'
    <2> SUFFICES ASSUME NEW t \in TrapType, NEW p \in Priorities, NEW k \in DOMAIN handlers'[t][p],
                        NEW id, id = handlers'[t][p][k]
                 PROVE  id \in DOMAIN entries' /\ entries'[id].priority = p
      BY DEF Placed
    <2>1. CASE id = new /\ p = r.priority
      BY <1>2, <1>6, <1>7, <2>1
    <2>2. CASE k \in DOMAIN handlers[t][p] /\ id = handlers[t][p][k]
      BY <1>6, <2>2 DEF Registry, Placed
    <2> QED
      BY <1>11, <2>1, <2>2
  <1>14. Sorted'
    <2> SUFFICES ASSUME NEW t \in TrapType, NEW p \in Priorities,
                        NEW j \in DOMAIN handlers'[t][p], NEW k \in DOMAIN handlers'[t][p], j < k
                 PROVE  handlers'[t][p][j] < handlers'[t][p][k]
      BY DEF Sorted
    <2>1. CASE t = r.type /\ p = r.priority
      <3>1. \A i \in 1 .. Len(old) : old[i] \in 1 .. Len(entries)
        BY Zenon, <1>2, <1>6, <1>9, <1>o DEF Registry, Placed
      <3>0. handlers'[t][p] = list /\ handlers[t][p] = old
        BY <1>o, <1>l, <2>1
      <3>2. j \in 1 .. Len(old) /\ list[j] = old[j]
        BY <1>9, <3>0
      <3>3. CASE k = Len(old) + 1
        BY <1>6, <1>9, <3>0, <3>1, <3>2, <3>3 DEF new
      <3>4. CASE k \in 1 .. Len(old)
        BY Zenon, <1>9, <3>0, <3>2, <3>4 DEF Registry, Sorted
      <3> QED
        BY <1>9, <3>0, <3>3, <3>4
    <2>2. CASE t # r.type \/ p # r.priority
      BY <1>8, <2>2 DEF Registry, Sorted
    <2> QED
      BY <2>1, <2>2
  <1>15. Named'
    BY Zenon, <1>2, <1>3, <1>5, <1>6 DEF Registry, Named, MapsType
  <1>16. Known'
    BY <1>5 DEF Registry, Known, h, d
  <1>17. Held'
    <2> SUFFICES ASSUME NEW t \in TrapType, NEW p \in Priorities, NEW k \in DOMAIN handlers'[t][p],
                        NEW id, id = handlers'[t][p][k], Sole(entries'[id].description)
                 PROVE  HasHandle(id, t)'
      BY DEF Held
    <2>1. CASE id = new /\ t = r.type
      BY Zenon, <1>2, <1>5, <1>6, <2>1 DEF HasHandle, h
    <2>2. CASE /\ k \in DOMAIN handlers[t][p] /\ id = handlers[t][p][k]
               /\ handlers[t][p][k] \in DOMAIN entries
      <3>1. entries'[id] = entries[id]
        BY <1>6, <2>2
      <3>2. HasHandle(id, t)
        BY <2>2, <3>1 DEF Registry, Held
      <3> QED
        <4>1. PICK g : g = Handle(entries[id].description, t)
          OBVIOUS
        <4>2. g \in DOMAIN handle_map /\ handle_map[g] = id
          BY Zenon, <3>2, <4>1 DEF HasHandle
        <4>3. g \in DOMAIN handle_map' /\ handle_map'[g] = id
          BY Zenon, <1>4, <1>5, <4>2
        <4> QED
          BY Zenon, <3>1, <4>1, <4>3 DEF HasHandle
    <2> QED
      BY <1>11, <2>1, <2>2
  <1>18. Listed'
    <2> SUFFICES ASSUME NEW g \in DOMAIN handle_map', NEW id, id = handle_map'[g],
                        Sole(g.description)
                 PROVE  Registered(id, g.type)'
      BY DEF Listed
    <2>1. CASE g = h
      <3>1. id = new /\ entries'[id].priority = r.priority /\ g.type = r.type
        BY Zenon, <1>2, <1>3, <1>5, <1>6, <2>1
      <3> QED
        BY <1>9, <1>l, <3>1 DEF Registered
    <2>2. CASE g # h
      <3>1. g \in DOMAIN handle_map /\ id = handle_map[g] /\ id \in DOMAIN entries
        BY <1>5, <2>2 DEF Registry, MapsType
      <3>2. entries'[id] = entries[id] /\ g.type \in TrapType /\ entries[id].priority \in Priorities
        BY <1>6, <3>1, EntryFields DEF Registry, MapsType, Handles
      <3>3. PICK k \in DOMAIN handlers[g.type][entries[id].priority] :
              handlers[g.type][entries[id].priority][k] = id
        BY ZenonT(40), <3>1 DEF Registry, Listed, Registered
      <3>4. /\ k \in DOMAIN handlers'[g.type][entries[id].priority]
            /\ handlers'[g.type][entries[id].priority][k] = id
        <4>1. CASE g.type = r.type /\ entries[id].priority = r.priority
          <5>1. k \in 1 .. Len(old) /\ old[k] = id
            BY Zenon, <1>9, <1>o, <3>3, <4>1
          <5>2. k \in DOMAIN list /\ list[k] = id
            BY <1>9, <5>1
          <5> QED
            BY <1>l, <4>1, <5>2
        <4>2. CASE g.type # r.type \/ entries[id].priority # r.priority
          BY Zenon, <1>8, <3>2, <3>3, <4>2
        <4> QED
          BY Zenon, <4>1, <4>2
      <3> QED
        BY Zenon, <3>2, <3>4 DEF Registered
    <2> QED
      BY <2>1, <2>2
  <1> QED
    BY <1>12, <1>13, <1>14, <1>15, <1>16, <1>17, <1>18 DEF Registry

(* transfer_ownership changes who registered an entry, and nothing else. *)
LEMMA TransferMaps ==
  ASSUME Registry, NEW a \in Actors, NEW h \in DOMAIN handle_map, NEW id, NEW new \in NewOwners,
         TransferOwnership(a, h, id, new)
  PROVE  Registry'
  <1>1. /\ entries' = [entries EXCEPT ![handle_map[h]].registrar = new]
        /\ handlers' = handlers /\ handle_map' = handle_map
    BY DEF TransferOwnership
  <1>2. PICK i \in DOMAIN entries : i = handle_map[h]
    BY DEF Registry, MapsType
  <1>3. entries \in Seq(Entry) /\ Len(entries) \in Nat /\ DOMAIN entries = 1 .. Len(entries)
    BY SeqDomain DEF Registry, MapsType
  <1>4. DOMAIN entries' = DOMAIN entries
    BY <1>1
  <1>5. [entries[i] EXCEPT !.registrar = new] \in Entry
    <2>1. entries[i] \in Entry /\ new \in Nat
      BY EntryFields, RegistrarsAssumption DEF Registry
    <2> QED
      BY <2>1 DEF Entry
  <1>6. \A j \in DOMAIN entries :
          /\ entries'[j] \in Entry
          /\ entries'[j].priority = entries[j].priority
          /\ entries'[j].description = entries[j].description
    <2> SUFFICES ASSUME NEW j \in DOMAIN entries
                 PROVE  /\ entries'[j] \in Entry
                        /\ entries'[j].priority = entries[j].priority
                        /\ entries'[j].description = entries[j].description
      OBVIOUS
    <2>1. entries[j] \in Entry
      BY EntryFields DEF Registry
    <2>2. entries'[j] = IF j = i THEN [entries[i] EXCEPT !.registrar = new] ELSE entries[j]
      BY <1>1, <1>2
    <2> QED
      BY <1>5, <2>1, <2>2 DEF Entry
  <1>7. entries' \in Seq(Entry)
    <2>1. entries' = [j \in 1 .. Len(entries) |-> entries'[j]]
      BY Zenon, <1>1, <1>3
    <2>2. \A j \in 1 .. Len(entries) : entries'[j] \in Entry
      BY <1>3, <1>6
    <2> QED
      BY <1>3, <2>1, <2>2, SeqOfFunction
  <1>8. MapsType'
    BY <1>1, <1>4, <1>7 DEF Registry, MapsType
  <1>9. Placed' /\ Sorted'
    BY <1>1, <1>4, <1>6 DEF Registry, Placed, Sorted
  <1>10. Named' /\ Known'
    BY <1>1, <1>6 DEF Registry, MapsType, Named, Known
  <1>11. Held'
    <2> SUFFICES ASSUME NEW t \in TrapType, NEW p \in Priorities, NEW k \in DOMAIN handlers[t][p],
                        NEW j, j = handlers[t][p][k], Sole(entries'[j].description)
                 PROVE  HasHandle(j, t)'
      BY <1>1 DEF Held
    <2>1. entries'[j].description = entries[j].description
      BY Zenon, <1>6 DEF Registry, Placed
    <2>2. HasHandle(j, t)
      BY Zenon, <2>1 DEF Registry, Held
    <2> QED
      BY Zenon, <1>1, <2>1, <2>2 DEF HasHandle
  <1>12. Listed'
    <2> SUFFICES ASSUME NEW g \in DOMAIN handle_map, NEW j, j = handle_map[g], Sole(g.description)
                 PROVE  Registered(j, g.type)'
      BY <1>1 DEF Listed
    <2>1. entries'[j].priority = entries[j].priority
      BY <1>6 DEF Registry, MapsType
    <2>2. Registered(j, g.type)
      BY DEF Registry, Listed
    <2> QED
      BY Zenon, <1>1, <2>1, <2>2 DEF Registered
  <1> QED
    BY <1>8, <1>9, <1>10, <1>11, <1>12 DEF Registry

(* unregister keeps the registry consistent; what goes under a sole name is  *)
(* the entry of the handle.                                                  *)
LEMMA UnregisterMaps ==
  ASSUME Registry, RetainKeeps, ActorsType, NEW a \in Actors, ActorInv(a), Unregister(a)
  PROVE  /\ Registry'
         /\ \A t \in TrapType, id \in DOMAIN entries :
              Sole(entries[id].description) /\ Registered(id, t) /\ ~Registered(id, t)'
                => id = handle_map[op[a].handle]
  <1>1. PICK h : h = op[a].handle
    OBVIOUS
  <1>2. h \in DOMAIN handle_map
    BY Zenon, <1>1 DEF Unregister, BothLocks, ActorInv
  <1>3. PICK e : e = entries[handle_map[h]]
    OBVIOUS
  <1>4. e.description = h.description /\ e.priority \in Priorities /\ h.type \in TrapType
    BY <1>2, <1>3, EntryFields DEF Registry, MapsType, Named, Handles
  <1> DEFINE found == FoundTypes(e.description, e.priority)
             kept == NotNamed({e.description})
  <1>5. PICK t0 : t0 = CHOOSE t \in found : \A u \in found : Index(t) <= Index(u)
    OBVIOUS
  <1>6. /\ entries' = entries
        /\ handle_map' = [x \in DOMAIN handle_map \ {h} |-> handle_map[x]]
        /\ handlers' = [handlers EXCEPT ![t0][e.priority] = Retain(@, kept)]
    BY Zenon, <1>1, <1>3, <1>5 DEF Unregister
  <1>7. ASSUME Sole(h.description) PROVE t0 = h.type
    <2>1. h.type \in found
      <3>1. Registered(handle_map[h], h.type)
        BY <1>2, <1>7 DEF Registry, Listed
      <3>2. PICK k \in DOMAIN handlers[h.type][e.priority] :
              handlers[h.type][e.priority][k] = handle_map[h]
        BY Zenon, <1>3, <3>1 DEF Registered
      <3>3. Described(handlers[h.type][e.priority], e.description)
        BY Zenon, <1>3, <3>2 DEF Described
      <3> QED
        BY <1>4, <3>3 DEF FoundTypes
    <2>2. \A t \in found : t = h.type
      <3> SUFFICES ASSUME NEW t \in found PROVE t = h.type
        OBVIOUS
      <3>1. t \in TrapType /\ Described(handlers[t][e.priority], e.description)
        BY DEF FoundTypes
      <3>2. PICK k, id :
              /\ k \in DOMAIN handlers[t][e.priority] /\ id = handlers[t][e.priority][k]
              /\ entries[id].description = e.description
        BY <3>1 DEF Described
      <3>3. HasHandle(id, t)
        BY <1>4, <1>7, <3>1, <3>2 DEF Registry, Held
      <3>4. Handle(h.description, t) \in DOMAIN handle_map
        BY <1>4, <3>2, <3>3 DEF HasHandle
      <3>5. Handle(h.description, t) = h
        BY <1>2, <1>7, <3>4, HandleFields, SameName DEF Registry
      <3> QED
        BY <3>5, HandleFields
    <2>3. Index(h.type) <= Index(h.type)
      <3>1. PICK i \in DOMAIN TrapTypeOrder : TrapTypeOrder[i] = h.type
        BY <1>4 DEF TrapType
      <3>2. Index(h.type) \in DOMAIN TrapTypeOrder
        BY <3>1 DEF Index
      <3>3. Index(h.type) \in 1 .. 16
        BY <3>2 DEF TrapTypeOrder
      <3> QED
        BY <3>3
    <2> HIDE DEF found
    <2> QED
      BY <1>5, <2>1, <2>2, <2>3
  <1> HIDE DEF found, kept
  <1>8. ASSUME NEW t \in TrapType, NEW p \in Priorities
        PROVE  /\ handlers'[t][p] \in Seq(Nat)
               /\ \A k \in DOMAIN handlers'[t][p] :
                    /\ \E i \in DOMAIN handlers[t][p] : handlers[t][p][i] = handlers'[t][p][k]
                    /\ t = t0 /\ p = e.priority => handlers'[t][p][k] \in kept
               /\ \A i \in DOMAIN handlers[t][p] :
                    handlers[t][p][i] \in kept =>
                      \E k \in DOMAIN handlers'[t][p] : handlers'[t][p][k] = handlers[t][p][i]
               /\ \A i, j \in DOMAIN handlers'[t][p] : i < j => handlers'[t][p][i] < handlers'[t][p][j]
    <2>1. /\ handlers[t][p] \in Seq(Nat)
          /\ \A i, j \in DOMAIN handlers[t][p] : i < j => handlers[t][p][i] < handlers[t][p][j]
      BY DEF Registry, MapsType, Sorted
    <2>2. CASE t = t0 /\ p = e.priority
      <3>1. handlers'[t][p] = Retain(handlers[t][p], kept)
        BY <1>6, <2>2 DEF Registry, MapsType
      <3>2. Keeps(handlers'[t][p], handlers[t][p], kept)
        BY Zenon, <2>1, <3>1 DEF RetainKeeps
      <3> QED
        BY Zenon, <2>1, <3>2 DEF Keeps
    <2>3. CASE ~(t = t0 /\ p = e.priority)
      <3>1. handlers'[t][p] = handlers[t][p]
        BY <1>6, <2>3 DEF Registry, MapsType
      <3> QED
        BY Zenon, <2>1, <2>3, <3>1
    <2> QED
      BY Zenon, <2>2, <2>3
  <1>9. handlers' \in [TrapType -> [Priorities -> Seq(Nat)]]
    <2>1. handlers \in [TrapType -> [Priorities -> Seq(Nat)]]
      BY DEF Registry, MapsType
    <2>2. ASSUME NEW t \in TrapType PROVE handlers'[t] \in [Priorities -> Seq(Nat)]
      <3>1. handlers'[t] = [p \in Priorities |-> handlers'[t][p]]
        BY Zenon, <1>6, <2>1
      <3> QED
        BY <1>8, <3>1
    <2>3. handlers' = [t \in TrapType |-> handlers'[t]]
      BY Zenon, <1>6, <2>1
    <2> QED
      BY <2>2, <2>3
  <1>10. ASSUME NEW t \in TrapType, NEW p \in Priorities, NEW k \in DOMAIN handlers'[t][p],
                Sole(entries[handlers'[t][p][k]].description)
         PROVE  Handle(entries[handlers'[t][p][k]].description, t) # h
    <2>1. PICK id : id = handlers'[t][p][k]
      OBVIOUS
    <2> SUFFICES ASSUME Handle(entries[id].description, t) = h PROVE FALSE
      BY <2>1
    <2>2. PICK i \in DOMAIN handlers[t][p] : handlers[t][p][i] = id
      BY <1>8, <2>1
    <2>3. HasHandle(id, t) /\ entries[id].priority = p
      <3>1. Sole(entries[id].description)
        BY Zenon, <1>10, <2>1
      <3>2. HasHandle(id, t)
        BY Zenon, <2>2, <3>1 DEF Registry, Held
      <3>3. entries[id].priority = p
        BY Zenon, <2>2 DEF Registry, Placed
      <3> QED
        BY <3>2, <3>3
    <2>4. handle_map[h] = id /\ entries[id].description = h.description /\ t = h.type
      BY <2>3, HandleFields DEF HasHandle
    <2>5. t = t0 /\ p = e.priority
      BY Zenon, <1>3, <1>7, <1>10, <2>1, <2>3, <2>4
    <2>6. id \in kept
      BY Zenon, <1>8, <2>1, <2>5
    <2> QED
      BY <1>4, <2>4, <2>6 DEF kept, NotNamed
  <1>11. Sorted'
    BY <1>8 DEF Sorted
  <1>12. ASSUME NEW g \in DOMAIN handle_map, g # h, Sole(g.description)
         PROVE  g.description # h.description
    BY <1>2, <1>12, SameName DEF Registry
  <1>13. Listed'
    <2> SUFFICES ASSUME NEW g \in DOMAIN handle_map \ {h}, NEW id, id = handle_map[g],
                        Sole(g.description)
                 PROVE  Registered(id, g.type)'
      BY <1>6 DEF Listed
    <2>1. id \in DOMAIN entries /\ g.type \in TrapType
      BY DEF Registry, MapsType, Handles
    <2>2. PICK p \in Priorities : p = entries[id].priority
      BY <2>1, EntryFields DEF Registry
    <2>3. PICK i \in DOMAIN handlers[g.type][p] : handlers[g.type][p][i] = id
      BY Zenon, <2>2 DEF Registry, Listed, Registered
    <2>4. entries[id].description # e.description
      BY <1>4, <1>12 DEF Registry, Named
    <2>5. id \in kept
      BY <2>1, <2>4 DEF kept, NotNamed
    <2>6. \E k \in DOMAIN handlers'[g.type][p] : handlers'[g.type][p][k] = id
      BY <1>8, <2>1, <2>3, <2>5
    <2> QED
      BY Zenon, <1>6, <2>2, <2>6 DEF Registered
  <1>14. Registry'
    <2>1. \A t \in TrapType, p \in Priorities : \A k \in DOMAIN handlers'[t][p] :
            /\ \E i \in DOMAIN handlers[t][p] : handlers[t][p][i] = handlers'[t][p][k]
            /\ Sole(entries[handlers'[t][p][k]].description) =>
                 Handle(entries[handlers'[t][p][k]].description, t) \notin {h}
      <3> SUFFICES ASSUME NEW t \in TrapType, NEW p \in Priorities,
                          NEW k \in DOMAIN handlers'[t][p]
                   PROVE  /\ \E i \in DOMAIN handlers[t][p] :
                               handlers[t][p][i] = handlers'[t][p][k]
                          /\ Sole(entries[handlers'[t][p][k]].description) =>
                               Handle(entries[handlers'[t][p][k]].description, t) \notin {h}
        BY ZenonT(40)
      <3>1. \E i \in DOMAIN handlers[t][p] : handlers[t][p][i] = handlers'[t][p][k]
        BY <1>8
      <3> QED
        BY Zenon, <1>10, <3>1
    <2> QED
      BY Zenon, <1>6, <1>9, <1>11, <1>13, <2>1, Removal
  <1>15. ASSUME NEW t \in TrapType, NEW id \in DOMAIN entries, Sole(entries[id].description),
                Registered(id, t), ~Registered(id, t)'
         PROVE  id = handle_map[h]
    <2>1. PICK p \in Priorities : p = entries[id].priority
      BY EntryFields DEF Registry
    <2>2. PICK i \in DOMAIN handlers[t][p] : handlers[t][p][i] = id
      BY Zenon, <1>15, <2>1 DEF Registered
    <2>3. ~ \E k \in DOMAIN handlers'[t][p] : handlers'[t][p][k] = id
      BY Zenon, <1>6, <1>15, <2>1 DEF Registered
    <2>4. id \notin kept
      BY Zenon, <1>8, <2>2, <2>3
    <2>5. entries[id].description = h.description
      BY <1>4, <2>4 DEF kept, NotNamed
    <2>6. HasHandle(id, t)
      BY Zenon, <1>15, <2>2 DEF Registry, Held
    <2>7. Handle(h.description, t) \in DOMAIN handle_map /\ handle_map[Handle(h.description, t)] = id
      BY <2>5, <2>6 DEF HasHandle
    <2>8. Handle(h.description, t) = h
      BY Zenon, <1>2, <1>15, <2>5, <2>7, HandleFields, SameName DEF Registry
    <2> QED
      BY <2>7, <2>8
  <1> QED
    BY <1>1, <1>14, <1>15

-----------------------------------------------------------------------------
(* The actors *)

(* An actor keeps what it relies on when another acts, which needs the lock  *)
(* of whatever it changes.                                                   *)
LEMMA OtherActor ==
  ASSUME NEW b \in Actors, ActorInv(b),
         pc'[b] = pc[b], op'[b] = op[b], calls'[b] = calls[b], todo'[b] = todo[b],
         handle_lock' = b <=> handle_lock = b, handlers_lock' = b <=> handlers_lock = b,
         handle_lock = b => entries' = entries /\ handle_map' = handle_map,
         handlers_lock = b => handlers' = handlers
  PROVE  ActorInv(b)'
  <1>1. pc[b] = "dispatch" => HandlersFor(op[b].type)' = HandlersFor(op[b].type)
    BY Zenon DEF ActorInv, HandlersFor
  <1>2. pc[b] = "unregister" => entries' = entries /\ handle_map' = handle_map
    BY Zenon DEF ActorInv
  <1>3. pc[b] = "register" => handle_map' = handle_map
    BY DEF ActorInv
  <1> QED
    BY Zenon, <1>1, <1>2, <1>3 DEF ActorInv

(* What the actors hold keeps its type when one of them moves on. *)
LEMMA ActorMoves ==
  ASSUME ActorsType, NEW a \in Actors, NEW l \in Label, NEW o \in Request(l),
         pc' = [pc EXCEPT ![a] = l], op' = [op EXCEPT ![a] = o],
         handlers_lock' \in Actors \cup {Nobody}, handle_lock' \in Actors \cup {Nobody},
         todo' \in [Actors -> Seq(Nat)], calls' \in [Actors -> Seq(Nat)]
  PROVE  /\ ActorsType'
         /\ pc'[a] = l /\ op'[a] = o
         /\ \A b \in Actors \ {a} : pc'[b] = pc[b] /\ op'[b] = op[b]
  <1>1. pc' \in [Actors -> Label]
    BY DEF ActorsType
  <1>2. DOMAIN op' = Actors /\ op' = [b \in Actors |-> op'[b]]
    BY Zenon DEF ActorsType
  <1>3. pc'[a] = l /\ op'[a] = o
    BY DEF ActorsType
  <1>4. \A b \in Actors \ {a} : pc'[b] = pc[b] /\ op'[b] = op[b]
    BY DEF ActorsType
  <1>5. \A b \in Actors : op'[b] \in Request(pc'[b])
    BY <1>3, <1>4 DEF ActorsType
  <1> QED
    BY <1>1, <1>2, <1>3, <1>4, <1>5 DEF ActorsType

(* Taking the lock of handle_map, with what the call has tested under it *)
LEMMA LockActors ==
  ASSUME ActorsType, \A b \in Actors : ActorInv(b), NEW a \in Actors,
         NEW l \in {"register", "unregister", "drop"}, NEW o \in Request(l), o.kind = l,
         LockHandleMap(a, o),
         l = "register" => Handle(o.of.description, o.of.type) \notin DOMAIN handle_map,
         l = "unregister" => /\ o.handle \in DOMAIN handle_map
                             /\ CanBeUnregisteredBy(entries[handle_map[o.handle]], o.by)
  PROVE  ActorsType' /\ \A b \in Actors : ActorInv(b)'
  <1>1. /\ pc[a] = "idle" /\ pc' = [pc EXCEPT ![a] = l] /\ op' = [op EXCEPT ![a] = o]
        /\ handle_lock = Nobody /\ handle_lock' = a /\ handlers_lock' = handlers_lock
        /\ UNCHANGED <<entries, handlers, handle_map, todo, calls>>
    BY DEF LockHandleMap, Begin, maps
  <1>2. l \in Label
    BY Zenon DEF Label
  <1>3. /\ ActorsType' /\ pc'[a] = l /\ op'[a] = o
        /\ \A b \in Actors \ {a} : pc'[b] = pc[b] /\ op'[b] = op[b]
    BY Zenon, <1>1, <1>2, ActorMoves DEF ActorsType
  <1>4. ASSUME NEW b \in Actors \ {a} PROVE ActorInv(b)'
    <2>1. handle_lock # b /\ handle_lock' # b
      BY Zenon, <1>1, NobodyAssumption
    <2> QED
      BY Zenon, <1>1, <1>3, <2>1, OtherActor
  <1>5. ActorInv(a)'
    <2>1. handlers_lock # a /\ calls[a] = << >> /\ todo[a] = << >>
      BY Zenon, <1>1 DEF ActorInv
    <2> QED
      BY Zenon, <1>1, <1>3, <2>1 DEF ActorInv
  <1> QED
    BY Zenon, <1>3, <1>4, <1>5

(* Doing the work with both locks, and dropping them *)
LEMMA BothActors ==
  ASSUME ActorsType, \A b \in Actors : ActorInv(b), NEW a \in Actors,
         NEW l \in {"register", "unregister", "drop"}, BothLocks(a, l)
  PROVE  ActorsType' /\ \A b \in Actors : ActorInv(b)'
  <1>1. /\ pc[a] = l /\ pc' = [pc EXCEPT ![a] = "idle"] /\ op' = [op EXCEPT ![a] = NoOp]
        /\ handlers_lock = Nobody /\ handle_lock' = Nobody /\ handlers_lock' = handlers_lock
        /\ UNCHANGED <<todo, calls>>
    BY DEF BothLocks, Finish
  <1>2. "idle" \in Label /\ NoOp \in Request("idle")
    BY DEF Label, Request
  <1>3. /\ ActorsType' /\ pc'[a] = "idle"
        /\ \A b \in Actors \ {a} : pc'[b] = pc[b] /\ op'[b] = op[b]
    BY Zenon, <1>1, <1>2, ActorMoves DEF ActorsType
  <1>4. ASSUME NEW b \in Actors \ {a} PROVE ActorInv(b)'
    <2>1. handle_lock = a
      BY Zenon, <1>1 DEF ActorInv
    <2>2. handle_lock # b /\ handle_lock' # b /\ handlers_lock # b
      BY <1>1, <2>1, NobodyAssumption
    <2> QED
      BY <1>1, <1>3, <2>2, OtherActor
  <1>5. ActorInv(a)'
    <2>1. calls[a] = << >> /\ todo[a] = << >>
      BY Zenon, <1>1 DEF ActorInv
    <2> QED
      BY Zenon, <1>1, <1>3, <2>1, NobodyAssumption DEF ActorInv
  <1> QED
    BY Zenon, <1>3, <1>4, <1>5

(* A transfer needs the lock of handle_map too, so that no permission that   *)
(* was tested goes stale.                                                    *)
LEMMA TransferActors ==
  ASSUME ActorsType, \A b \in Actors : ActorInv(b), NEW a \in Actors,
         NEW h, NEW id, NEW new, TransferOwnership(a, h, id, new)
  PROVE  ActorsType' /\ \A b \in Actors : ActorInv(b)'
  <1>1. /\ pc[a] = "idle" /\ op' = [op EXCEPT ![a] = NoOp] /\ handle_lock = Nobody
        /\ UNCHANGED <<handlers, handle_map, handlers_lock, handle_lock, pc, todo, calls>>
    BY DEF TransferOwnership, Begin
  <1>2. op[a] = NoOp
    BY Zenon, <1>1 DEF ActorsType, Request
  <1>3. op' = op
    BY <1>1, <1>2 DEF ActorsType
  <1>4. ActorsType'
    BY Zenon, <1>1, <1>3 DEF ActorsType
  <1>5. ASSUME NEW b \in Actors PROVE ActorInv(b)'
    <2>1. handle_lock # b
      BY <1>1, NobodyAssumption
    <2> QED
      BY Zenon, <1>1, <1>3, <2>1, OtherActor
  <1> QED
    BY <1>4, <1>5

(* dispatch takes the lock of handlers, and what it finds. *)
LEMMA DispatchActors ==
  ASSUME Registry, OrderKeeps, ActorsType, \A b \in Actors : ActorInv(b), NEW a \in Actors,
         NEW scause, DispatchBegin(a, scause)
  PROVE  ActorsType' /\ \A b \in Actors : ActorInv(b)'
  <1>1. PICK t \in TrapType : t = ToTrapType(scause)
    BY CauseType
  <1> DEFINE o == [kind |-> "dispatch", type |-> t]
  <1>2. /\ pc[a] = "idle" /\ pc' = [pc EXCEPT ![a] = "dispatch"] /\ op' = [op EXCEPT ![a] = o]
        /\ handlers_lock = Nobody /\ handlers_lock' = a /\ handle_lock' = handle_lock
        /\ todo' = [todo EXCEPT ![a] = HandlersFor(t)]
        /\ UNCHANGED <<entries, handlers, handle_map, calls>>
    BY <1>1 DEF DispatchBegin, Begin, maps
  <1>3. HandlersFor(t) \in Seq(Nat)
    <2>1. handlers[t] \in [Priorities -> Seq(Nat)]
      BY DEF Registry, MapsType
    <2> QED
      BY <2>1 DEF OrderKeeps, Ordered, HandlersFor
  <1>4. /\ todo' \in [Actors -> Seq(Nat)] /\ todo'[a] = HandlersFor(t)
        /\ \A b \in Actors \ {a} : todo'[b] = todo[b]
    BY <1>2, <1>3 DEF ActorsType
  <1>5. "dispatch" \in Label /\ o \in Request("dispatch") /\ o.type = t
    BY Zenon DEF Label, Request
  <1> HIDE DEF o
  <1>6. /\ ActorsType' /\ pc'[a] = "dispatch" /\ op'[a] = o
        /\ \A b \in Actors \ {a} : pc'[b] = pc[b] /\ op'[b] = op[b]
    BY Zenon, <1>2, <1>4, <1>5, ActorMoves DEF ActorsType
  <1>7. ASSUME NEW b \in Actors \ {a} PROVE ActorInv(b)'
    <2>1. handlers_lock # b /\ handlers_lock' # b
      BY <1>2, NobodyAssumption
    <2> QED
      BY <1>2, <1>4, <1>6, <2>1, OtherActor
  <1>8. ActorInv(a)'
    <2>1. handle_lock # a /\ calls[a] = << >>
      BY Zenon, <1>2 DEF ActorInv
    <2>2. calls'[a] \o todo'[a] = HandlersFor(t)
      BY <1>2, <1>3, <1>4, <2>1, ConcatEmpty
    <2>3. HandlersFor(op[a].type)' = HandlersFor(t)
      BY <1>2, <1>5, <1>6 DEF HandlersFor
    <2> QED
      BY Zenon, <1>2, <1>6, <2>1, <2>2, <2>3 DEF ActorInv
  <1> QED
    BY <1>6, <1>7, <1>8

(* One handler after the other is called. *)
LEMMA CallActors ==
  ASSUME ActorsType, \A b \in Actors : ActorInv(b), NEW a \in Actors, CallHandler(a)
  PROVE  ActorsType' /\ \A b \in Actors : ActorInv(b)'
  <1>1. /\ pc[a] = "dispatch" /\ todo[a] # << >>
        /\ calls' = [calls EXCEPT ![a] = Append(@, Head(todo[a]))]
        /\ todo' = [todo EXCEPT ![a] = Tail(@)]
        /\ UNCHANGED <<entries, handlers, handle_map, handlers_lock, handle_lock, pc, op>>
    BY DEF CallHandler, maps
  <1>2. /\ calls[a] \in Seq(Nat) /\ todo[a] \in Seq(Nat)
        /\ calls'[a] = Append(calls[a], Head(todo[a])) /\ todo'[a] = Tail(todo[a])
        /\ \A b \in Actors \ {a} : calls'[b] = calls[b] /\ todo'[b] = todo[b]
    BY <1>1 DEF ActorsType
  <1>3. Head(todo[a]) \in Nat /\ Tail(todo[a]) \in Seq(Nat)
    BY <1>1, <1>2, TailParts
  <1>4. Append(calls[a], Head(todo[a])) \in Seq(Nat)
    BY <1>2, <1>3, AppendParts
  <1>5. ActorsType'
    BY <1>1, <1>3, <1>4 DEF ActorsType
  <1>6. ASSUME NEW b \in Actors \ {a} PROVE ActorInv(b)'
    BY Zenon, <1>1, <1>2, OtherActor
  <1>7. ActorInv(a)'
    <2>1. calls'[a] \o todo'[a] = calls[a] \o todo[a]
      <3>1. Append(calls[a], Head(todo[a])) \o Tail(todo[a]) = calls[a] \o todo[a]
        BY Zenon, <1>1, <1>2, ShiftConcat
      <3> QED
        BY Zenon, <1>2, <3>1
    <2>2. HandlersFor(op[a].type)' = HandlersFor(op[a].type)
      BY <1>1 DEF HandlersFor
    <2> QED
      BY Zenon, <1>1, <2>1, <2>2 DEF ActorInv
  <1> QED
    BY <1>5, <1>6, <1>7

(* The guard of handlers is dropped at the end. *)
LEMMA EndActors ==
  ASSUME ActorsType, \A b \in Actors : ActorInv(b), NEW a \in Actors,
         pc[a] = "dispatch", DispatchEnd(a)
  PROVE  ActorsType' /\ \A b \in Actors : ActorInv(b)'
  <1>1. /\ pc' = [pc EXCEPT ![a] = "idle"] /\ op' = [op EXCEPT ![a] = NoOp]
        /\ handlers_lock' = Nobody /\ handle_lock' = handle_lock
        /\ calls' = [calls EXCEPT ![a] = << >>] /\ todo' = [todo EXCEPT ![a] = << >>]
        /\ UNCHANGED <<entries, handlers, handle_map>>
    BY DEF DispatchEnd, Finish, maps
  <1>2. "idle" \in Label /\ NoOp \in Request("idle")
    BY DEF Label, Request
  <1>3. /\ calls' \in [Actors -> Seq(Nat)] /\ todo' \in [Actors -> Seq(Nat)]
        /\ calls'[a] = << >> /\ todo'[a] = << >>
        /\ \A b \in Actors \ {a} : calls'[b] = calls[b] /\ todo'[b] = todo[b]
    BY <1>1 DEF ActorsType
  <1>4. /\ ActorsType' /\ pc'[a] = "idle"
        /\ \A b \in Actors \ {a} : pc'[b] = pc[b] /\ op'[b] = op[b]
    BY Zenon, <1>1, <1>2, <1>3, ActorMoves DEF ActorsType
  <1>5. handlers_lock = a /\ handle_lock # a
    BY Zenon DEF ActorInv
  <1>6. ASSUME NEW b \in Actors \ {a} PROVE ActorInv(b)'
    <2>1. handlers_lock # b /\ handlers_lock' # b
      BY <1>1, <1>5, NobodyAssumption
    <2> QED
      BY <1>1, <1>3, <1>4, <2>1, OtherActor
  <1>7. ActorInv(a)'
    BY Zenon, <1>1, <1>3, <1>4, <1>5, NobodyAssumption DEF ActorInv
  <1> QED
    BY Zenon, <1>4, <1>6, <1>7

-----------------------------------------------------------------------------
(* Every step *)

(* Nothing of the registry changes. *)
LEMMA RegistryKept == ASSUME Registry, UNCHANGED maps PROVE Registry'
  <1>1. entries' = entries /\ handlers' = handlers /\ handle_map' = handle_map
    BY DEF maps
  <1>2. MapsType' /\ Placed' /\ Sorted' /\ Named' /\ Known'
    BY <1>1 DEF Registry, MapsType, Placed, Sorted, Named, Known
  <1>3. \A id, t : /\ HasHandle(id, t)' <=> HasHandle(id, t)
                   /\ Registered(id, t)' <=> Registered(id, t)
    BY Zenon, <1>1 DEF HasHandle, Registered
  <1>4. Held'
    BY Zenon, <1>1, <1>3 DEF Registry, Held
  <1>5. Listed'
    BY Zenon, <1>1, <1>3 DEF Registry, Listed
  <1> QED
    BY <1>2, <1>4, <1>5 DEF Registry

(* The work of an actor *)
LEMMA StepInv ==
  ASSUME IInv, RetainKeeps, NEW a \in Actors, Step(a)
  PROVE  IInv'
  <1> USE DEF IInv
  <1>1. CASE Register(a)
    <2>1. BothLocks(a, "register")
      BY Zenon, <1>1 DEF Register
    <2> QED
      BY <1>1, <2>1, RegisterMaps, BothActors
  <1>2. CASE Unregister(a)
    <2>1. BothLocks(a, "unregister")
      BY Zenon, <1>2 DEF Unregister
    <2> QED
      BY <1>2, <2>1, UnregisterMaps, BothActors
  <1>3. CASE UnregisterNotFound(a)
    <2>1. BothLocks(a, "unregister") /\ UNCHANGED maps
      BY <1>3 DEF UnregisterNotFound
    <2> QED
      BY <2>1, RegistryKept, BothActors
  <1>4. CASE UnregisterForContext(a)
    <2>1. BothLocks(a, "drop")
      BY <1>4 DEF UnregisterForContext
    <2> QED
      BY <1>4, <2>1, ContextMaps, BothActors
  <1>5. CASE CallHandler(a)
    <2>1. UNCHANGED maps
      BY <1>5 DEF CallHandler
    <2> QED
      BY <1>5, <2>1, RegistryKept, CallActors
  <1>6. CASE HandlerHandled(a) \/ NoneHandled(a)
    <2>1. pc[a] = "dispatch" /\ DispatchEnd(a)
      BY <1>6 DEF HandlerHandled, NoneHandled
    <2>2. UNCHANGED maps
      BY <2>1 DEF DispatchEnd
    <2> QED
      BY <2>1, <2>2, RegistryKept, EndActors
  <1> QED
    BY <1>1, <1>2, <1>3, <1>4, <1>5, <1>6 DEF Step

(* The beginnings of the operations *)
LEMMA BeginInv ==
  ASSUME IInv, OrderKeeps, NEW a \in Actors, Operation(a), ~Step(a)
  PROVE  IInv'
  <1> USE DEF IInv
  <1>1. CASE \E r \in Registrations : RegisterBegin(a, r)
    <2>1. PICK r \in Registrations : RegisterBegin(a, r)
      BY <1>1
    <2>2. PICK o : o = [kind |-> "register", of |-> r]
      BY Zenon
    <2>3. LockHandleMap(a, o) /\ Handle(r.description, r.type) \notin DOMAIN handle_map
      BY <2>1, <2>2 DEF RegisterBegin
    <2>4. o \in Request("register") /\ o.kind = "register" /\ o.of = r
      BY Zenon, <2>2 DEF Request
    <2>5. UNCHANGED maps
      BY <2>3 DEF LockHandleMap
    <2> QED
      BY Zenon, <2>3, <2>4, <2>5, RegistryKept, LockActors
  <1>2. CASE \E h \in DOMAIN handle_map, id \in Requesters : UnregisterBegin(a, h, id)
    <2>1. PICK h \in DOMAIN handle_map, id \in Requesters : UnregisterBegin(a, h, id)
      BY <1>2
    <2>2. PICK o : o = [kind |-> "unregister", handle |-> h, by |-> id]
      BY Zenon
    <2>3. LockHandleMap(a, o) /\ CanBeUnregisteredBy(entries[handle_map[h]], id)
      BY Zenon, <2>1, <2>2 DEF UnregisterBegin
    <2>4. o \in Request("unregister") /\ o.kind = "unregister" /\ o.handle = h /\ o.by = id
      BY <2>2 DEF Request, Registry, MapsType
    <2>5. UNCHANGED maps
      BY <2>3 DEF LockHandleMap
    <2> QED
      BY Zenon, <2>3, <2>4, <2>5, RegistryKept, LockActors
  <1>3. CASE \E h \in DOMAIN handle_map, id \in Requesters, new \in NewOwners :
               TransferOwnership(a, h, id, new)
    BY <1>3, TransferMaps, TransferActors
  <1>4. CASE \E c \in Contexts : DropContextBegin(a, c)
    <2>1. PICK c \in Contexts : DropContextBegin(a, c)
      BY <1>4
    <2>2. PICK o : o = [kind |-> "drop", context |-> c]
      BY Zenon
    <2>3. LockHandleMap(a, o)
      BY <2>1, <2>2 DEF DropContextBegin
    <2>4. o \in Request("drop") /\ o.kind = "drop"
      BY <2>2 DEF Request
    <2>5. UNCHANGED maps
      BY <2>3 DEF LockHandleMap
    <2> QED
      BY Zenon, <2>3, <2>4, <2>5, RegistryKept, LockActors
  <1>5. CASE \E scause \in Causes : DispatchBegin(a, scause)
    <2>1. PICK scause \in Causes : DispatchBegin(a, scause)
      BY <1>5
    <2>2. UNCHANGED maps
      BY <2>1 DEF DispatchBegin
    <2> QED
      BY <2>1, <2>2, RegistryKept, DispatchActors
  <1> QED
    BY <1>1, <1>2, <1>3, <1>4, <1>5 DEF Operation

(* The registry as initialize_trap_system leaves it *)
LEMMA InitInv == Init => IInv
  <1> SUFFICES ASSUME Init PROVE IInv
    OBVIOUS
  <1>1. /\ entries = <<DefaultEntry(PageFault), DefaultEntry(IllegalInst)>>
        /\ handlers = [t \in TrapType |-> [p \in Priorities |->
                         IF p = 10 THEN DefaultHandlers(t) ELSE << >>]]
        /\ handle_map = [h \in DefaultHandles |-> IF h.description = PageFault THEN 1 ELSE 2]
    BY DEF Init
  <1>2. /\ PageFaultTypes \subseteq TrapType /\ "IllegalInstruction" \in TrapType
        /\ "IllegalInstruction" \notin PageFaultTypes
    BY DEF TrapType, TrapTypeOrder, PageFaultTypes
  <1>3. \A d \in Names : /\ DefaultEntry(d) \in Entry /\ DefaultEntry(d).priority = 10
                          /\ DefaultEntry(d).description = d
    BY PrioritiesAssumption DEF DefaultEntry, Entry, ProtectionLevel, KERNEL, NoContext
  <1>4. PageFault \in Names /\ IllegalInst \in Names /\ PageFault # IllegalInst
    BY DEF Names, PageFault, IllegalInst
  <1>5. /\ entries \in Seq(Entry) /\ DOMAIN entries = {1, 2}
        /\ entries[1].priority = 10 /\ entries[1].description = PageFault
        /\ entries[2].priority = 10 /\ entries[2].description = IllegalInst
    BY <1>1, <1>3, <1>4
  <1>6. \A h \in DefaultHandles :
          /\ h \in Handles
          /\ \/ h.description = PageFault /\ h.type \in PageFaultTypes
             \/ h = Handle(IllegalInst, "IllegalInstruction")
    BY <1>2, <1>4, HandleFields DEF DefaultHandles, Handles, Handle
  <1>7. ASSUME NEW t \in TrapType, NEW p \in Priorities
        PROVE  /\ handlers[t][p] \in Seq(Nat)
               /\ \A k \in DOMAIN handlers[t][p] :
                    /\ p = 10 /\ k = 1
                    /\ \/ handlers[t][p][k] = 1
                       \/ handlers[t][p][k] = 2 /\ t = "IllegalInstruction"
    BY <1>1 DEF DefaultHandlers
  <1>8. MapsType
    <2>1. handlers \in [TrapType -> [Priorities -> Seq(Nat)]]
      BY <1>1, <1>7
    <2>2. DOMAIN handle_map \subseteq Handles /\ handle_map \in [DOMAIN handle_map -> DOMAIN entries]
      BY <1>1, <1>5, <1>6
    <2> QED
      BY <1>5, <2>1, <2>2 DEF MapsType
  <1>9. Placed
    BY <1>5, <1>7 DEF Placed
  <1>10. Sorted
    BY <1>7 DEF Sorted
  <1>11. Named
    BY <1>1, <1>4, <1>5, <1>6, HandleFields DEF Named
  <1>12. Known
    BY <1>1, <1>6 DEF Known, Sole
  <1>13. Held
    <2> SUFFICES ASSUME NEW t \in TrapType, NEW p \in Priorities, NEW k \in DOMAIN handlers[t][p],
                        Sole(entries[handlers[t][p][k]].description)
                 PROVE  HasHandle(handlers[t][p][k], t)
      BY DEF Held
    <2>1. handlers[t][p][k] = 2 /\ t = "IllegalInstruction"
      BY Zenon, <1>5, <1>7 DEF Sole
    <2>2. Handle(IllegalInst, t) \in DOMAIN handle_map /\ handle_map[Handle(IllegalInst, t)] = 2
      BY <1>1, <1>4, <2>1, HandleFields DEF DefaultHandles
    <2> QED
      BY <1>5, <2>1, <2>2 DEF HasHandle
  <1>14. Listed
    <2> SUFFICES ASSUME NEW h \in DOMAIN handle_map, Sole(h.description)
                 PROVE  Registered(handle_map[h], h.type)
      BY DEF Listed
    <2>1. h = Handle(IllegalInst, "IllegalInstruction")
      BY <1>1, <1>6 DEF Sole
    <2>2. handle_map[h] = 2 /\ h.type = "IllegalInstruction"
      BY <1>1, <1>4, <2>1, HandleFields
    <2>3. handlers["IllegalInstruction"][10] = <<2>>
      BY <1>1, <1>2, PrioritiesAssumption DEF DefaultHandlers
    <2> QED
      BY <1>5, <2>2, <2>3 DEF Registered
  <1>15. ActorsType
    BY NobodyAssumption DEF Init, ActorsType, Label, Request
  <1>16. \A a \in Actors : ActorInv(a)
    BY NobodyAssumption DEF Init, ActorInv
  <1> QED
    BY <1>8, <1>9, <1>10, <1>11, <1>12, <1>13, <1>14, <1>15, <1>16 DEF IInv, Registry

(* Every step preserves the invariant. *)
LEMMA NextInv == ASSUME IInv, RetainKeeps, OrderKeeps, [Next]_vars PROVE IInv'
  <1>1. CASE Next
    <2>1. PICK a \in Actors : Operation(a)
      BY <1>1 DEF Next
    <2> QED
      BY <2>1, StepInv, BeginInv
  <1>2. CASE UNCHANGED vars
    <2>1. Registry'
      BY <1>2, RegistryKept DEF IInv, vars
    <2>2. UNCHANGED <<entries, handlers, handle_map, handlers_lock, handle_lock, pc, op, todo, calls>>
      BY <1>2 DEF vars, maps, locals
    <2>3. ActorsType'
      BY <2>2 DEF IInv, ActorsType
    <2>4. \A a \in Actors : ActorInv(a)'
      BY <2>2, OtherActor DEF IInv
    <2> QED
      BY <2>1, <2>3, <2>4 DEF IInv
  <1> QED
    BY <1>1, <1>2

-----------------------------------------------------------------------------
(* The properties, from the invariant *)

(* By priority, and at one priority by age *)
LEMMA OrderedByAge ==
  ASSUME Registry, NEW t \in TrapType, NEW s, Ordered(s, handlers[t]),
         NEW j \in DOMAIN s, NEW k \in DOMAIN s, j < k
  PROVE  \/ entries[s[j]].priority < entries[s[k]].priority
         \/ entries[s[j]].priority = entries[s[k]].priority /\ s[j] < s[k]
  <1>1. PICK p \in Priorities, q \in Priorities :
          \E i \in DOMAIN handlers[t][p], m \in DOMAIN handlers[t][q] :
            /\ s[j] = handlers[t][p][i] /\ s[k] = handlers[t][q][m]
            /\ p < q \/ (p = q /\ i < m)
    BY Zenon DEF Ordered
  <1>2. PICK i \in DOMAIN handlers[t][p], m \in DOMAIN handlers[t][q] :
          /\ s[j] = handlers[t][p][i] /\ s[k] = handlers[t][q][m]
          /\ p < q \/ (p = q /\ i < m)
    BY <1>1
  <1>3. entries[s[j]].priority = p /\ entries[s[k]].priority = q
    BY <1>2 DEF Registry, Placed
  <1>4. p = q /\ i < m => s[j] < s[k]
    BY <1>2 DEF Registry, Sorted
  <1> QED
    BY <1>2, <1>3, <1>4

(* What a dispatch calls, and in which order *)
LEMMA InvDispatch == ASSUME IInv, OrderKeeps PROVE DispatchCoversType
  <1> SUFFICES ASSUME NEW a \in Actors, pc[a] = "dispatch",
                      NEW s, s = calls[a] \o todo[a]
               PROVE  /\ s = HandlersFor(op[a].type)
                      /\ \A j, k \in DOMAIN s : j < k =>
                           \/ entries[s[j]].priority < entries[s[k]].priority
                           \/ entries[s[j]].priority = entries[s[k]].priority /\ s[j] < s[k]
    BY Zenon DEF DispatchCoversType
  <1>1. PICK t \in TrapType : t = op[a].type
    BY ZenonT(40) DEF IInv, ActorsType, Request
  <1>2. s = InKeyOrder(handlers[t])
    BY Zenon, <1>1 DEF IInv, ActorInv, HandlersFor
  <1>3. handlers[t] \in [Priorities -> Seq(Nat)]
    BY DEF IInv, Registry, MapsType
  <1>4. Ordered(s, handlers[t])
    BY <1>2, <1>3 DEF OrderKeeps
  <1> QED
    BY ZenonT(40), <1>1, <1>2, <1>4, OrderedByAge DEF HandlersFor, IInv

(* Only an unregister in progress removes, and it is the holder of the lock  *)
(* who removes.                                                              *)
LEMMA InvRemoval ==
  ASSUME IInv, RetainKeeps, Next, NEW a \in Actors, NEW t \in TrapType,
         NEW id \in DOMAIN entries, handle_lock = a, pc[a] = "unregister",
         Sole(entries[id].description), Registered(id, t), ~Registered(id, t)'
  PROVE  CanBeUnregisteredBy(entries[id], op[a].by)
  <1>1. ~UNCHANGED maps
    BY DEF Registered, maps
  <1>2. PICK b \in Actors : Operation(b)
    BY DEF Next
  <1>3. handle_lock # Nobody
    BY NobodyAssumption
  <1>4. PICK l \in {"register", "unregister", "drop"} : BothLocks(b, l)
    BY ZenonT(40), <1>1, <1>2, <1>3 DEF Operation, Step, RegisterBegin, UnregisterBegin,
       TransferOwnership,
         DropContextBegin, DispatchBegin, LockHandleMap, Register, Unregister, UnregisterNotFound,
         UnregisterForContext, CallHandler, HandlerHandled, NoneHandled, DispatchEnd
  <1>5. handle_lock = b
    BY ZenonT(40), <1>4 DEF BothLocks, IInv, ActorInv
  <1>6. Unregister(a)
    BY ZenonT(40), <1>1, <1>2, <1>3, <1>5 DEF Operation, Step, RegisterBegin,
       UnregisterBegin,
         TransferOwnership, DropContextBegin, DispatchBegin, LockHandleMap, Register,
         UnregisterNotFound, UnregisterForContext, CallHandler, HandlerHandled, NoneHandled,
         BothLocks
  <1>7. id = handle_map[op[a].handle]
    BY ZenonT(40), <1>6, UnregisterMaps DEF IInv
  <1> QED
    BY Zenon, <1>7 DEF IInv, ActorInv

(* Only the end of a context takes its caller from "drop" to "idle". *)
LEMMA InvContext ==
  ASSUME IInv, RetainKeeps, Next, NEW a \in Actors, pc[a] = "drop", pc'[a] = "idle",
         NEW t \in TrapType, NEW id \in DOMAIN entries,
         entries[id].context = op[a].context, Sole(entries[id].description)
  PROVE  ~Registered(id, t)'
  <1>1. PICK b \in Actors : Operation(b)
    BY Zenon DEF Next
  <1>2. pc \in [Actors -> Label]
    BY DEF IInv, ActorsType
  <1>3. b = a
    <2> SUFFICES ASSUME b # a PROVE FALSE
      OBVIOUS
    <2>1. \/ pc' = pc \/ \E l : pc' = [pc EXCEPT ![b] = l]
      BY Zenon, <1>1 DEF Operation, Step, RegisterBegin, UnregisterBegin, TransferOwnership,
           DropContextBegin, DispatchBegin, LockHandleMap, Register, Unregister, UnregisterNotFound,
           UnregisterForContext, CallHandler, HandlerHandled, NoneHandled, DispatchEnd, BothLocks, Finish
    <2>2. pc'[a] = pc[a]
      BY <1>2, <2>1
    <2> QED
      BY Zenon, <2>2
  <1>4. UnregisterForContext(a)
    BY ZenonT(40), <1>1, <1>3 DEF Operation, Step, RegisterBegin, UnregisterBegin,
       TransferOwnership, Begin,
         DropContextBegin, DispatchBegin, LockHandleMap, Register, Unregister, UnregisterNotFound,
         CallHandler, HandlerHandled, NoneHandled, BothLocks
  <1> QED
    BY ZenonT(40), <1>4, ContextMaps DEF IInv

-----------------------------------------------------------------------------
(* The two facts about the lists, from embeddings of sequences *)

(* A subsequence keeps the order of what it keeps. *)
LEMMA EmbedsKeeps ==
  ASSUME NEW s \in Seq(Nat), NEW S, NEW r \in Seq(Nat), NEW g \in [1 .. Len(r) -> 1 .. Len(s)],
         \A j \in 1 .. Len(r) : r[j] = s[g[j]] /\ r[j] \in S,
         \A j, k \in 1 .. Len(r) : j < k => g[j] < g[k],
         \A k \in 1 .. Len(s) : s[k] \in S => \E j \in 1 .. Len(r) : g[j] = k
  PROVE  Keeps(r, s, S)
  <1>1. DOMAIN r = 1 .. Len(r) /\ DOMAIN s = 1 .. Len(s)
    BY SeqDomain
  <1>2. \A k \in DOMAIN r : r[k] \in S /\ \E i \in DOMAIN s : s[i] = r[k]
    BY <1>1
  <1>3. \A i \in DOMAIN s : s[i] \in S => \E k \in DOMAIN r : r[k] = s[i]
    <2> SUFFICES ASSUME NEW i \in DOMAIN s, s[i] \in S
                 PROVE  \E k \in DOMAIN r : r[k] = s[i]
      OBVIOUS
    <2>1. PICK j \in 1 .. Len(r) : g[j] = i
      BY <1>1
    <2> QED
      BY Zenon, <1>1, <2>1
  <1>4. (\A i, j \in DOMAIN s : i < j => s[i] < s[j]) =>
          \A i, j \in DOMAIN r : i < j => r[i] < r[j]
    <2> SUFFICES ASSUME \A i, j \in DOMAIN s : i < j => s[i] < s[j],
                        NEW i \in DOMAIN r, NEW j \in DOMAIN r, i < j
                 PROVE  r[i] < r[j]
      OBVIOUS
    <2>1. g[i] \in DOMAIN s /\ g[j] \in DOMAIN s /\ g[i] < g[j]
      BY <1>1
    <2>2. s[g[i]] < s[g[j]]
      BY Zenon, <2>1
    <2> QED
      BY <1>1, <2>2
  <1> QED
    BY <1>2, <1>3, <1>4 DEF Keeps

(* Keys and places in lexicographic order *)
LEMMA PlacesOrdered ==
  ASSUME NEW map \in [Priorities -> Seq(Nat)], NEW s \in Seq(Nat),
         NEW key \in [1 .. Len(s) -> DOMAIN map], NEW place \in [1 .. Len(s) -> Nat],
         \A j \in 1 .. Len(s) :
           place[j] \in 1 .. Len(map[key[j]]) /\ s[j] = map[key[j]][place[j]],
         \A j, k \in 1 .. Len(s) :
           j < k => key[j] < key[k] \/ (key[j] = key[k] /\ place[j] < place[k])
  PROVE  Ordered(s, map)
  <1>1. DOMAIN s = 1 .. Len(s)
    BY SeqDomain
  <1>2. \A p \in Priorities : DOMAIN map[p] = 1 .. Len(map[p])
    BY SeqDomain
  <1>3. \A j \in 1 .. Len(s) : key[j] \in Priorities /\ place[j] \in DOMAIN map[key[j]]
    BY <1>2
  <1> QED
    BY <1>1, <1>3 DEF Ordered

(***************************************************************************)
(* PriorityMapProofs is instantiated where it is needed, so that the       *)
(* proofs above do not carry it along.                                     *)
(***************************************************************************)
PM == INSTANCE PriorityMapProofs

(* Retain and InKeyOrder of PriorityMapProofs are those of this module. *)
LEMMA Lists == RetainKeeps /\ OrderKeeps
  <1>1. ASSUME NEW S, NEW s \in Seq(Nat) PROVE Keeps(Retain(s, S), s, S)
    <2>1. PM!Retain(s, S) = Retain(s, S)
      BY DEF Retain, PM!Retain
    <2>2. Retain(s, S) \in Seq(Nat) /\ \E g : PM!Embeds(g, Retain(s, S), s, S, Len(s))
      BY <2>1, PM!RetainEmbeds
    <2> QED
      BY ZenonT(40), <2>2, EmbedsKeeps DEF PM!Embeds
  <1>2. ASSUME NEW map \in [Priorities -> Seq(Nat)] PROVE Ordered(InKeyOrder(map), map)
    <2>1. PM!InKeyOrder(map) = InKeyOrder(map)
      BY DEF InKeyOrder, PM!InKeyOrder, Ascending, PM!Ascending, Cardinality, PM!Cardinality
    <2>2. PM!IsFiniteSet(Priorities)
      BY PrioritiesAssumption DEF IsFiniteSet, PM!IsFiniteSet
    <2>3. /\ InKeyOrder(map) \in Seq(Nat)
          /\ \E key, place : PM!KeyOrder(key, place, InKeyOrder(map), map)
      BY <2>1, <2>2, PrioritiesAssumption, PM!InKeyOrderPlaces
    <2> QED
      BY ZenonT(40), <2>3, PlacesOrdered DEF PM!KeyOrder
  <1> QED
    BY <1>1, <1>2 DEF RetainKeeps, OrderKeeps

(* The invariant is inductive. *)
LEMMA Invariance == Spec => []IInv
  <1>1. IInv /\ [Next]_vars => IInv'
    BY NextInv, Lists
  <1> QED
    BY <1>1, InitInv, PTL DEF Spec

(* The two maps agree on every handler of a sole description, through every  *)
(* interleaving of register, unregister, transfer_ownership,                 *)
(* unregister_for_context and dispatch.                                      *)
THEOREM MapsAgree == Spec => []SoleHandlersAgree
  <1>1. IInv => SoleHandlersAgree
    BY RegistryAgrees DEF IInv
  <1> QED
    BY <1>1, Invariance, PTL

(* A dispatch runs over the handlers of its trap type, all of them, in the   *)
(* order of their priorities and of their registration.                      *)
THEOREM DispatchCovers == Spec => []DispatchCoversType
  <1>1. IInv => DispatchCoversType
    BY InvDispatch, Lists
  <1> QED
    BY <1>1, Invariance, PTL

(* Whoever unregisters a handler of a sole description may do so when it     *)
(* goes: the permission tested at the beginning of unregister stays valid.   *)
THEOREM RemovalsAuthorised == Spec => RemovalAuthorised
  <1>1. IInv /\ [Next]_vars =>
          [\A a \in Actors, t \in TrapType, id \in DOMAIN entries :
             /\ handle_lock = a /\ pc[a] = "unregister" /\ Sole(entries[id].description)
             /\ Registered(id, t) /\ ~Registered(id, t)'
             => CanBeUnregisteredBy(entries[id], op[a].by)]_vars
    BY ZenonT(40), InvRemoval, Lists
  <1> QED
    BY <1>1, Invariance, PTL DEF Spec, RemovalAuthorised

(* The end of a context leaves none of its handlers of a sole description    *)
(* behind (unregister_for_context).                                          *)
THEOREM ContextsLeaveNothing == Spec => ContextLeavesNothing
  <1>1. IInv /\ [Next]_vars =>
          [\A a \in Actors : pc[a] = "drop" /\ pc'[a] = "idle" =>
             \A t \in TrapType, id \in DOMAIN entries :
                entries[id].context = op[a].context /\ Sole(entries[id].description)
                  => ~Registered(id, t)']_vars
    BY InvContext, Lists
  <1> QED
    BY <1>1, Invariance, PTL DEF Spec, ContextLeavesNothing
=============================================================================
