------------------------- MODULE ErrorManagerProofs -------------------------
(***************************************************************************)
(* The safety properties of ErrorManager for any number of callers, any    *)
(* handlers, priorities and errors, and every capacity of the log.  The    *)
(* facts about the ring are those of RingBufferProofs.                     *)
(***************************************************************************)
EXTENDS ErrorManager, TLAPS

-----------------------------------------------------------------------------
(* Sequences *)

(* The domain of a sequence is 1 up to its length. *)
LEMMA SeqDomain ==
  ASSUME NEW S, NEW s \in Seq(S)
  PROVE  Len(s) \in Nat /\ DOMAIN s = 1 .. Len(s) /\ s \in [1 .. Len(s) -> S]
  OBVIOUS

(* The elements of a sequence over S are in S. *)
LEMMA SeqElement ==
  ASSUME NEW S, NEW s \in Seq(S), NEW i \in 1 .. Len(s)
  PROVE  s[i] \in S
  OBVIOUS

(* The empty sequence is the only one of length 0. *)
LEMMA SeqEmpty ==
  ASSUME NEW S
  PROVE  /\ << >> \in Seq(S) /\ Len(<< >>) = 0
         /\ \A s \in Seq(S) : s # << >> => Len(s) \in Nat \ {0}
  OBVIOUS

(* A function on 1 .. n is a sequence of length n. *)
LEMMA SeqOfFunction ==
  ASSUME NEW S, NEW n \in Nat, NEW f \in [1 .. n -> S]
  PROVE  f \in Seq(S) /\ Len(f) = n
  OBVIOUS

(* Sequences that agree at every index are equal. *)
LEMMA SeqExtensional ==
  ASSUME NEW S, NEW s \in Seq(S), NEW t \in Seq(S),
         Len(s) = Len(t), \A i \in 1 .. Len(s) : s[i] = t[i]
  PROVE  s = t
  OBVIOUS

(* The first part of s \o t is s, the second t. *)
LEMMA ConcatParts ==
  ASSUME NEW S, NEW s \in Seq(S), NEW t \in Seq(S)
  PROVE  /\ s \o t \in Seq(S) /\ Len(s \o t) = Len(s) + Len(t)
         /\ \A i \in 1 .. Len(s) : (s \o t)[i] = s[i]
         /\ \A i \in 1 .. Len(t) : (s \o t)[Len(s) + i] = t[i]
  OBVIOUS

(* The empty sequence adds nothing. *)
LEMMA ConcatEmpty ==
  ASSUME NEW S, NEW s \in Seq(S)
  PROVE  s \o << >> = s /\ << >> \o s = s
  OBVIOUS

(* The elements of a slice, in order. *)
LEMMA SubSeqParts ==
  ASSUME NEW S, NEW s \in Seq(S), NEW m \in 1 .. Len(s) + 1, NEW n \in m - 1 .. Len(s)
  PROVE  /\ SubSeq(s, m, n) \in Seq(S) /\ Len(SubSeq(s, m, n)) = n - m + 1
         /\ \A i \in 1 .. n - m + 1 : SubSeq(s, m, n)[i] = s[m + i - 1]
  OBVIOUS

(* The tail is the sequence without its first element. *)
LEMMA TailParts ==
  ASSUME NEW S, NEW s \in Seq(S), s # << >>
  PROVE  /\ Head(s) \in S /\ Tail(s) \in Seq(S) /\ Len(Tail(s)) = Len(s) - 1
         /\ \A i \in 1 .. Len(s) - 1 : Tail(s)[i] = s[i + 1]
  OBVIOUS

(* Append adds one element at the end. *)
LEMMA AppendParts ==
  ASSUME NEW S, NEW s \in Seq(S), NEW e \in S
  PROVE  /\ Append(s, e) \in Seq(S) /\ Append(s, e) # << >> /\ Len(Append(s, e)) = Len(s) + 1
         /\ Append(s, e)[Len(s) + 1] = e /\ \A i \in 1 .. Len(s) : Append(s, e)[i] = s[i]
  OBVIOUS

(* The errors handle_error is called with *)
Errors == {SystemError(id, r) : id \in 1 .. MaxErrors, r \in Reports}

Call == [entry : Entries, verdict : ErrorResult]

Label == {"idle", "gate", "lock", "dispatch", "log", "return"}

TypeOK ==
  /\ handlers \in [Priorities -> Seq(Entries)]
  /\ panic_mode \in BOOLEAN
  /\ handlers_lock \in Callers \cup {Nobody}
  /\ pc \in [Callers -> Label]
  /\ error \in [Callers -> Errors \cup {NoError}]
  /\ todo \in [Callers -> Seq(Entries)]
  /\ result \in [Callers -> ErrorResult]
  /\ late \in [Callers -> BOOLEAN]
  /\ calls \in [Callers -> Seq(Call)]
  /\ reported \in 0 .. MaxErrors
  /\ logged \in Seq(LogEntry)

Seen(c) == [k \in DOMAIN calls[c] |-> calls[c][k].entry]

Said(c) == {calls[c][k].verdict : k \in DOMAIN calls[c]}

Summary(said) == IF "Handled" \in said THEN "Handled"
                 ELSE IF "Partial" \in said THEN "Partial" ELSE "Unhandled"

(***************************************************************************)
(* One caller.  Whoever holds the lock has called the first of the         *)
(* matching handlers and has the others before it; whoever does not has    *)
(* called none.  Past the gate, a fatal error finds panic mode on, and one *)
(* that was reported in panic mode is on its way to the log.               *)
(***************************************************************************)
CallerInv(c) ==
  /\ Active(c) => error[c] \in Errors /\ error[c].id <= reported
  /\ pc[c] = "dispatch" => handlers_lock = c
  /\ handlers_lock = c => /\ pc[c] \in {"dispatch", "log", "return"}
                          /\ Seen(c) \o todo[c] = MatchingHandlers(c)
                          /\ pc[c] = "dispatch" \/ todo[c] = << >> \/ result[c] = "Handled"
  /\ handlers_lock # c => calls[c] = << >> /\ todo[c] = << >>
  /\ \A k \in DOMAIN calls[c] :
       calls[c][k].verdict = "Handled" => k = Len(calls[c]) /\ pc[c] # "dispatch"
  /\ result[c] = Summary(Said(c))
  /\ Active(c) /\ late[c] => panic_mode
  /\ Active(c) /\ late[c] /\ error[c].of.level # Fatal =>
       pc[c] \notin {"lock", "dispatch"} /\ calls[c] = << >>
  /\ pc[c] \notin {"idle", "gate"} /\ error[c].of.level = Fatal => panic_mode

(* The caller c has an error that it has not logged yet. *)
Open(c) == pc[c] \in {"gate", "lock", "dispatch", "log"}

(* Every error is either open or logged, and each once. *)
LogInv ==
  /\ \A k \in DOMAIN logged : logged[k].error \in 1 .. reported
  /\ \A c, d \in Callers : Open(c) /\ Open(d) /\ error[c].id = error[d].id => c = d
  /\ \A j, k \in DOMAIN logged : logged[j].error = logged[k].error => j = k
  /\ \A c \in Callers, k \in DOMAIN logged : Open(c) => logged[k].error # error[c].id
  /\ \A id \in 1 .. reported : \/ \E c \in Callers : Open(c) /\ error[c].id = id
                               \/ \E k \in DOMAIN logged : logged[k].error = id
  /\ \A c \in Callers : pc[c] = "return" =>
       \E k \in DOMAIN logged : logged[k] = [error |-> error[c].id, result |-> result[c]]

-----------------------------------------------------------------------------
(* Operators *)

(* A sequence with its first element moved to the end of the one before it *)
LEMMA ShiftConcat ==
  ASSUME NEW X, NEW s \in Seq(X), NEW t \in Seq(X), t # << >>
  PROVE  Append(s, Head(t)) \o Tail(t) = s \o t
  <1> DEFINE u == Append(s, Head(t))
  <1>1. Head(t) \in X /\ Tail(t) \in Seq(X) /\ Len(Tail(t)) = Len(t) - 1
        /\ \A i \in 1 .. Len(Tail(t)) : Tail(t)[i] = t[i + 1]
    BY TailParts
  <1>2. /\ u \in Seq(X) /\ Len(u) = Len(s) + 1
        /\ \A i \in 1 .. Len(s) : u[i] = s[i]
        /\ u[Len(s) + 1] = t[1]
    BY <1>1, AppendParts
  <1>3. Len(s) \in Nat /\ Len(t) \in Nat /\ Len(t) > 0
    BY SeqEmpty, SeqDomain
  <1> HIDE DEF u
  <1>4. /\ u \o Tail(t) \in Seq(X) /\ Len(u \o Tail(t)) = Len(s) + Len(t)
        /\ \A i \in 1 .. Len(s) + Len(t) :
             (u \o Tail(t))[i] = IF i <= Len(s) + 1 THEN u[i] ELSE Tail(t)[i - (Len(s) + 1)]
    <2>1. Len(u) + Len(Tail(t)) = Len(s) + Len(t)
      BY <1>1, <1>2, <1>3
    <2>2. /\ u \o Tail(t) \in Seq(X) /\ Len(u \o Tail(t)) = Len(u) + Len(Tail(t))
          /\ \A i \in 1 .. Len(u) + Len(Tail(t)) :
               (u \o Tail(t))[i] = IF i <= Len(u) THEN u[i] ELSE Tail(t)[i - Len(u)]
      BY <1>1, <1>2, SMTT(30)
    <2> QED
      BY <1>2, <2>1, <2>2
  <1>5. /\ s \o t \in Seq(X) /\ Len(s \o t) = Len(s) + Len(t)
        /\ \A i \in 1 .. Len(s) + Len(t) :
             (s \o t)[i] = IF i <= Len(s) THEN s[i] ELSE t[i - Len(s)]
    BY ConcatParts
  <1>6. \A i \in 1 .. Len(s) + Len(t) : (u \o Tail(t))[i] = (s \o t)[i]
    <2> SUFFICES ASSUME NEW i \in 1 .. Len(s) + Len(t)
                 PROVE  (u \o Tail(t))[i] = (s \o t)[i]
      BY Zenon
    <2>1. CASE i <= Len(s)
      BY <1>2, <1>3, <1>4, <1>5, <2>1
    <2>2. CASE i = Len(s) + 1
      BY <1>2, <1>3, <1>4, <1>5, <2>2
    <2>3. CASE i > Len(s) + 1
      <3>1. /\ i - (Len(s) + 1) \in 1 .. Len(Tail(t))
            /\ i - (Len(s) + 1) + 1 = i - Len(s)
        BY <1>1, <1>3, <2>3
      <3>2. Tail(t)[i - (Len(s) + 1)] = t[i - Len(s)]
        BY <1>1, <3>1
      <3> QED
        BY <1>3, <1>4, <1>5, <2>3, <3>2
    <2>4. i <= Len(s) \/ i = Len(s) + 1 \/ i > Len(s) + 1
      BY <1>3
    <2> QED
      BY <2>1, <2>2, <2>3, <2>4, Zenon
  <1>7. u \o Tail(t) = s \o t
    BY <1>4, <1>5, <1>6, SeqExtensional, Zenon
  <1> QED
    BY <1>7 DEF u

(* The latest n elements of s *)
Latest(s, n) == IF Len(s) <= n THEN s ELSE SubSeq(s, Len(s) - n + 1, Len(s))

(* A longer log has one more entry at its end, and one less at the front     *)
(* when it is full.                                                          *)
LEMMA LatestAppend ==
  ASSUME NEW X, NEW s \in Seq(X), NEW e \in X, NEW n \in Nat \ {0}
  PROVE  LET w == Latest(s, n) IN
         Latest(Append(s, e), n) = Append(IF Len(w) = n THEN Tail(w) ELSE w, e)
  <1> DEFINE t == Append(s, e)
             w == Latest(s, n)
             m == Len(s)
  <1>1. /\ t \in Seq(X) /\ Len(t) = m + 1 /\ m \in Nat
        /\ \A i \in 1 .. m : t[i] = s[i]
        /\ t[m + 1] = e
    BY AppendParts, SeqDomain
  <1> HIDE DEF t
  <1>2. CASE m < n
    <2>1. w = s /\ Latest(t, n) = t
      BY <1>1, <1>2 DEF Latest
    <2> QED
      BY <1>1, <1>2, <2>1 DEF t
  <1>3. CASE m >= n
    <2>1. /\ w \in Seq(X) /\ Len(w) = n
          /\ \A i \in 1 .. n : w[i] = s[m - n + i]
      <3>1. CASE m = n
        <4>1. w = s /\ \A i \in 1 .. n : m - n + i = i
          BY <1>1, <3>1 DEF Latest
        <4> QED
          BY <3>1, <4>1
      <3>2. CASE m > n
        <4>1. w = SubSeq(s, m - n + 1, m)
          BY <1>1, <3>2 DEF Latest
        <4>2. m - n + 1 \in 1 .. m + 1 /\ m \in m - n + 1 - 1 .. m
          BY <1>1, <3>2
        <4>3. /\ w \in Seq(X)
              /\ Len(w) = IF m - n + 1 <= m THEN m - (m - n + 1) + 1 ELSE 0
              /\ \A i \in 1 .. m - (m - n + 1) + 1 : w[i] = s[m - n + 1 + i - 1]
          BY <4>1, <4>2, SubSeqParts
        <4>4. m - (m - n + 1) + 1 = n /\ m - n + 1 <= m
              /\ \A i \in 1 .. n : m - n + 1 + i - 1 = m - n + i
          BY <1>1, <3>2
        <4> QED
          BY <4>3, <4>4
      <3> QED
        BY <1>1, <1>3, <3>1, <3>2
    <2> HIDE DEF w
    <2>2. /\ Tail(w) \in Seq(X) /\ Len(Tail(w)) = n - 1
          /\ \A i \in 1 .. n - 1 : Tail(w)[i] = w[i + 1]
      <3>1. w # << >>
        BY <2>1, SeqEmpty
      <3> QED
        BY <2>1, <3>1, TailParts
    <2> DEFINE q == Append(Tail(w), e)
    <2>3. /\ q \in Seq(X) /\ Len(q) = n /\ q[n] = e
          /\ \A i \in 1 .. n - 1 : q[i] = w[i + 1]
      <3>1. /\ q \in Seq(X) /\ Len(q) = Len(Tail(w)) + 1 /\ q[Len(Tail(w)) + 1] = e
            /\ \A i \in 1 .. Len(Tail(w)) : q[i] = Tail(w)[i]
        BY <2>2, AppendParts
      <3>2. n - 1 + 1 = n
        OBVIOUS
      <3> QED
        BY <2>2, <3>1, <3>2
    <2> HIDE DEF q
    <2> DEFINE r == SubSeq(t, m + 1 - n + 1, m + 1)
    <2>4. Latest(t, n) = r
      <3>1. Len(t) = m + 1 /\ ~(m + 1 <= n)
        BY <1>1, <1>3
      <3> QED
        BY <3>1 DEF Latest
    <2>5. r \in Seq(X) /\ Len(r) = n /\ \A i \in 1 .. n : r[i] = t[m + 1 - n + i]
      <3>1. m + 1 - n + 1 \in 1 .. Len(t) + 1 /\ m + 1 \in m + 1 - n + 1 - 1 .. Len(t)
        BY <1>1, <1>3
      <3>2. /\ r \in Seq(X)
            /\ Len(r) = IF m + 1 - n + 1 <= m + 1 THEN m + 1 - (m + 1 - n + 1) + 1 ELSE 0
            /\ \A i \in 1 .. m + 1 - (m + 1 - n + 1) + 1 : r[i] = t[m + 1 - n + 1 + i - 1]
        BY <1>1, <3>1, SubSeqParts
      <3>3. m + 1 - (m + 1 - n + 1) + 1 = n /\ m + 1 - n + 1 <= m + 1
            /\ \A i \in 1 .. n : m + 1 - n + 1 + i - 1 = m + 1 - n + i
        BY <1>1, <1>3
      <3> QED
        BY <3>2, <3>3
    <2> HIDE DEF r
    <2>6. \A i \in 1 .. n : r[i] = q[i]
      <3> SUFFICES ASSUME NEW i \in 1 .. n PROVE r[i] = q[i]
        OBVIOUS
      <3>1. CASE i = n
        <4>1. m + 1 - n + i = m + 1
          BY <1>1, <3>1
        <4> QED
          BY <1>1, <2>3, <2>5, <3>1, <4>1
      <3>2. CASE i # n
        <4>1. i \in 1 .. n - 1 /\ i + 1 \in 1 .. n /\ m + 1 - n + i = m - n + (i + 1)
              /\ m + 1 - n + i \in 1 .. m
          BY <1>1, <1>3, <3>2
        <4>2. q[i] = s[m - n + (i + 1)]
          BY <2>1, <2>3, <4>1
        <4>3. r[i] = s[m + 1 - n + i]
          BY <1>1, <2>5, <4>1, Zenon
        <4> QED
          BY <4>1, <4>2, <4>3
      <3> QED
        BY <3>1, <3>2
    <2>7. r = q
      BY <2>3, <2>5, <2>6, SeqExtensional
    <2> QED
      BY <2>1, <2>4, <2>7 DEF q, t, w
  <1> QED
    BY <1>1, <1>2, <1>3

(* The source and the level survive being packed into the code. *)
LEMMA CodeFields ==
  ASSUME NEW s \in Sources, NEW l \in Levels, NEW n \in Numbers
  PROVE  SourceOf(NewCode(s, l, n)) = s /\ LevelOf(NewCode(s, l, n)) = l
  <1>1. /\ s \in Int /\ 0 <= s /\ s <= 8
        /\ l \in Int /\ 0 <= l /\ l <= 4
        /\ n \in Int /\ 0 <= n /\ n <= 65535
    BY DEF Sources, Levels, Numbers
  <1> DEFINE code == s * 16777216 + l * 65536 + n
  <1>2. code \div 16777216 = s
    BY <1>1
  <1>3. code \div 65536 = s * 256 + l
    BY <1>1
  <1>4. (s * 256 + l) % 256 = l
    BY <1>1
  <1>5. NewCode(s, l, n) = code
    BY DEF NewCode
  <1> HIDE DEF code
  <1>6. SourceOf(code) = s
    BY <1>1, <1>2 DEF SourceOf, UnknownSource
  <1>7. LevelOf(code) = l
    BY <1>1, <1>3, <1>4 DEF LevelOf, Levels
  <1> QED
    BY <1>5, <1>6, <1>7

(* What an error is made of *)
LEMMA ErrorFields ==
  ASSUME NEW e \in Errors
  PROVE  /\ e.id \in 1 .. MaxErrors /\ e.of \in Reports
         /\ e.of.source \in Sources /\ e.of.level \in Levels
         /\ SourceOf(e.code) = e.of.source /\ LevelOf(e.code) = e.of.level
         /\ IsFatal(e.code) <=> e.of.level = Fatal
  <1>1. PICK id \in 1 .. MaxErrors, r \in Reports : e = SystemError(id, r)
    BY DEF Errors
  <1>2. r.source \in Sources /\ r.level \in Levels /\ r.number \in Numbers
    BY ReportsAssumption
  <1>3. e.id = id /\ e.of = r /\ e.code = NewCode(r.source, r.level, r.number)
    BY <1>1 DEF SystemError
  <1>4. SourceOf(e.code) = r.source /\ LevelOf(e.code) = r.level
    BY <1>2, <1>3, CodeFields
  <1> QED
    BY <1>2, <1>3, <1>4 DEF IsFatal

(* No log entry is the None of an empty slot. *)
LEMMA NoEntryIsNone == NoEntry \notin LogEntry
  <1>1. \A e \in LogEntry : e.error # 0
    BY BoundsAssumption DEF LogEntry
  <1>2. NoEntry.error = 0
    BY DEF NoEntry
  <1> QED
    BY <1>1, <1>2

(* The handlers that lock selects by the code are those that match the error. *)
LEMMA MatchingByCode ==
  ASSUME NEW c, error[c] \in Errors
  PROVE  Retain(InOrder, {e \in Entries : Matches(e, error[c].code)}) = MatchingHandlers(c)
  <1>1. \A e \in Entries : Matches(e, error[c].code) <=>
          e.source \in {NoFilter, error[c].of.source} /\ e.level \in {NoFilter, error[c].of.level}
    BY ErrorFields DEF Matches
  <1>2. {e \in Entries : Matches(e, error[c].code)} =
          {e \in Entries : e.source \in {NoFilter, error[c].of.source}
                             /\ e.level \in {NoFilter, error[c].of.level}}
    BY <1>1
  <1> QED
    BY Zenon, <1>2 DEF MatchingHandlers

-----------------------------------------------------------------------------
(* A step of another caller leaves a caller's locals alone. *)
Kept(c) ==
  /\ pc'[c] = pc[c] /\ error'[c] = error[c] /\ todo'[c] = todo[c]
  /\ result'[c] = result[c] /\ late'[c] = late[c] /\ calls'[c] = calls[c]

(* What a caller relies on survives the steps of the others. *)
LEMMA CallerKept ==
  ASSUME NEW c, CallerInv(c), Kept(c), panic_mode => panic_mode',
         reported \in Nat, reported' \in Nat, reported <= reported',
         Active(c) => InOrder' = InOrder, handlers_lock' = c <=> handlers_lock = c
  PROVE  CallerInv(c)'
  <1>1. Active(c)' <=> Active(c)
    BY DEF Active, Kept
  <1>2. Seen(c)' = Seen(c) /\ Said(c)' = Said(c)
    BY DEF Seen, Said, Kept
  <1>3. Active(c) => MatchingHandlers(c)' = MatchingHandlers(c)
    BY DEF MatchingHandlers, Kept
  <1>4. (Active(c) => error[c] \in Errors /\ error[c].id <= reported)'
    <2>1. CASE Active(c)
      <3>1. error[c] \in Errors /\ error[c].id <= reported
        BY <2>1 DEF CallerInv
      <3>2. error[c].id \in Int
        BY <3>1, ErrorFields
      <3>3. error[c].id <= reported'
        BY <3>1, <3>2
      <3> QED
        BY <3>1, <3>3 DEF Kept
    <2> QED
      BY <1>1, <2>1
  <1>5. (pc[c] = "dispatch" => handlers_lock = c)'
    BY DEF CallerInv, Kept
  <1>6. (handlers_lock = c => /\ pc[c] \in {"dispatch", "log", "return"}
                              /\ Seen(c) \o todo[c] = MatchingHandlers(c)
                              /\ pc[c] = "dispatch" \/ todo[c] = << >> \/ result[c] = "Handled")'
    BY <1>2, <1>3, Zenon DEF CallerInv, Kept, Active
  <1>7. (handlers_lock # c => calls[c] = << >> /\ todo[c] = << >>)'
    BY DEF CallerInv, Kept
  <1>8. (\A k \in DOMAIN calls[c] :
           calls[c][k].verdict = "Handled" => k = Len(calls[c]) /\ pc[c] # "dispatch")'
    BY DEF CallerInv, Kept
  <1>9. (result[c] = Summary(Said(c)))'
    BY <1>2 DEF CallerInv, Kept, Summary
  <1>10. (Active(c) /\ late[c] => panic_mode)'
    BY <1>1 DEF CallerInv, Kept
  <1>11. (Active(c) /\ late[c] /\ error[c].of.level # Fatal =>
            pc[c] \notin {"lock", "dispatch"} /\ calls[c] = << >>)'
    BY <1>1 DEF CallerInv, Kept
  <1>12. (pc[c] \notin {"idle", "gate"} /\ error[c].of.level = Fatal => panic_mode)'
    BY DEF CallerInv, Kept
  <1> QED
    BY <1>4, <1>5, <1>6, <1>7, <1>8, <1>9, <1>10, <1>11, <1>12 DEF CallerInv

-----------------------------------------------------------------------------
(* Types *)

(* Initially the manager is empty and no caller is inside handle_error. *)
LEMMA InitCallers == Init => TypeOK /\ (\A c \in Callers : CallerInv(c)) /\ LogInv
  <1> SUFFICES ASSUME Init
               PROVE  TypeOK /\ (\A c \in Callers : CallerInv(c)) /\ LogInv
    OBVIOUS
  <1> USE DEF Init
  <1>1. TypeOK
    <2>1. handlers \in [Priorities -> Seq(Entries)]
      BY SeqEmpty
    <2>2. todo \in [Callers -> Seq(Entries)] /\ calls \in [Callers -> Seq(Call)]
      BY SeqEmpty
    <2>3. logged \in Seq(LogEntry)
      BY SeqEmpty
    <2>4. reported \in 0 .. MaxErrors
      BY BoundsAssumption
    <2>5. pc \in [Callers -> Label] /\ result \in [Callers -> ErrorResult]
      BY DEF Label, ErrorResult
    <2> QED
      BY <2>1, <2>2, <2>3, <2>4, <2>5, Zenon DEF TypeOK
  <1>2. ASSUME NEW c \in Callers PROVE CallerInv(c)
    <2>1. /\ pc[c] = "idle" /\ calls[c] = << >> /\ todo[c] = << >>
          /\ result[c] = "Unhandled" /\ handlers_lock # c
      BY NobodyAssumption
    <2>2. Said(c) = {} /\ DOMAIN calls[c] = {}
      BY <2>1 DEF Said
    <2> QED
      BY <2>1, <2>2 DEF CallerInv, Active, Summary
  <1>3. LogInv
    BY DEF LogInv, Open
  <1> QED
    BY <1>1, <1>2, <1>3

(* The entry that LogError writes *)
LEMMA EntryType ==
  ASSUME TypeOK, NEW c \in Callers, CallerInv(c), Active(c)
  PROVE  [error |-> error[c].id, result |-> result[c]] \in LogEntry
  <1>1. error[c].id \in 1 .. MaxErrors
    BY ErrorFields DEF CallerInv
  <1>2. result[c] \in ErrorResult
    BY DEF TypeOK
  <1> QED
    BY <1>1, <1>2 DEF LogEntry

(* What a caller reads off the map of handlers is a sequence of handlers. *)
OrderTyped == \A S : Retain(InOrder, S) \in Seq(Entries)

(* Every step keeps the types. *)
LEMMA TypeStep ==
  ASSUME TypeOK, OrderTyped, \A c \in Callers : CallerInv(c), Next
  PROVE  TypeOK'
  <1>1. ASSUME NEW e \in Entries, RegisterHandler(e) PROVE TypeOK'
    <2>1. e.priority \in Priorities
      BY EntriesAssumption
    <2>2. Append(handlers[e.priority], e) \in Seq(Entries)
      BY <2>1, AppendParts DEF TypeOK
    <2>3. handlers' \in [Priorities -> Seq(Entries)]
      BY <1>1, <2>1, <2>2 DEF RegisterHandler, TypeOK
    <2> QED
      BY <1>1, <2>3 DEF RegisterHandler, TypeOK, locals
  <1>2. ASSUME NEW c \in Callers, NEW r \in Reports, Report(c, r) PROVE TypeOK'
    <2>1. reported + 1 \in 1 .. MaxErrors /\ reported' \in 0 .. MaxErrors
      BY <1>2, BoundsAssumption DEF Report, TypeOK
    <2>2. SystemError(reported + 1, r) \in Errors
      BY <2>1 DEF Errors
    <2>3. error' \in [Callers -> Errors \cup {NoError}] /\ pc' \in [Callers -> Label]
      BY <1>2, <2>2 DEF Report, Goto, TypeOK, Label
    <2>4. late' \in [Callers -> BOOLEAN]
      BY <1>2 DEF Report, TypeOK
    <2> QED
      BY <1>2, <2>1, <2>3, <2>4 DEF Report, TypeOK
  <1>3. ASSUME NEW c \in Callers, Gate(c) PROVE TypeOK'
    <2>1. pc' \in [Callers -> Label]
      BY <1>3 DEF Gate, Goto, TypeOK, Label
    <2>2. panic_mode' \in BOOLEAN
      BY <1>3 DEF Gate, TypeOK
    <2> QED
      BY <1>3, <2>1, <2>2 DEF Gate, TypeOK
  <1>4. ASSUME NEW c \in Callers, LockHandlers(c) PROVE TypeOK'
    <2>1. Retain(InOrder, {e \in Entries : Matches(e, error[c].code)}) \in Seq(Entries)
      BY DEF OrderTyped
    <2>2. todo' \in [Callers -> Seq(Entries)]
      BY <1>4, <2>1 DEF LockHandlers, TypeOK
    <2>3. pc' \in [Callers -> Label]
      BY <1>4 DEF LockHandlers, Goto, TypeOK, Label
    <2> QED
      BY <1>4, <2>2, <2>3 DEF LockHandlers, TypeOK
  <1>5. ASSUME NEW c \in Callers, NEW v \in ErrorResult, CallHandler(c, v) PROVE TypeOK'
    <2>1. Head(todo[c]) \in Entries /\ Tail(todo[c]) \in Seq(Entries)
      BY <1>5, TailParts DEF CallHandler, TypeOK
    <2>2. [entry |-> Head(todo[c]), verdict |-> v] \in Call
      BY <2>1 DEF Call
    <2>3. Append(calls[c], [entry |-> Head(todo[c]), verdict |-> v]) \in Seq(Call)
      BY <2>2, AppendParts DEF TypeOK
    <2>4. todo' \in [Callers -> Seq(Entries)]
      BY <1>5, <2>1 DEF CallHandler, TypeOK
    <2>5. calls' \in [Callers -> Seq(Call)]
      BY <1>5, <2>3 DEF CallHandler, TypeOK
    <2>6. pc' \in [Callers -> Label] /\ result' \in [Callers -> ErrorResult]
      BY <1>5 DEF CallHandler, Goto, Combine, TypeOK, Label
    <2> QED
      BY <1>5, <2>4, <2>5, <2>6 DEF CallHandler, TypeOK
  <1>6. ASSUME NEW c \in Callers, NoMoreHandlers(c) PROVE TypeOK'
    BY <1>6 DEF NoMoreHandlers, Goto, TypeOK, Label
  <1>7. ASSUME NEW c \in Callers, LogError(c) PROVE TypeOK'
    <2>1. [error |-> error[c].id, result |-> result[c]] \in LogEntry
      BY <1>7, EntryType DEF LogError, Active
    <2>2. logged' \in Seq(LogEntry)
      BY Zenon, <1>7, <2>1, AppendParts DEF LogError, TypeOK
    <2>3. pc' \in [Callers -> Label]
      BY <1>7 DEF LogError, Goto, TypeOK, Label
    <2> QED
      BY <1>7, <2>2, <2>3 DEF LogError, TypeOK
  <1>8. ASSUME NEW c \in Callers, Return(c) PROVE TypeOK'
    <2>1. todo' \in [Callers -> Seq(Entries)] /\ calls' \in [Callers -> Seq(Call)]
      BY <1>8, SeqEmpty DEF Return, Leave, TypeOK
    <2>2. pc' \in [Callers -> Label] /\ result' \in [Callers -> ErrorResult]
      BY <1>8 DEF Return, Leave, Goto, TypeOK, Label, ErrorResult
    <2>3. error' \in [Callers -> Errors \cup {NoError}] /\ late' \in [Callers -> BOOLEAN]
      BY <1>8 DEF Return, Leave, TypeOK
    <2>4. handlers_lock' \in Callers \cup {Nobody}
      BY <1>8 DEF Return, TypeOK
    <2> QED
      BY <1>8, <2>1, <2>2, <2>3, <2>4 DEF Return, TypeOK
  <1>9. CASE EnterPanicMode
    BY <1>9 DEF EnterPanicMode, TypeOK, locals
  <1> QED
    BY <1>1, <1>2, <1>3, <1>4, <1>5, <1>6, <1>7, <1>8, <1>9 DEF Next, Step

-----------------------------------------------------------------------------
(* Callers *)

(* The steps that leave every caller's locals and the lock alone *)
LEMMA AllKept ==
  ASSUME TypeOK, TypeOK', \A c \in Callers : CallerInv(c), NEW c \in Callers,
         UNCHANGED <<locals, handlers_lock, reported>>, panic_mode => panic_mode',
         Active(c) => InOrder' = InOrder
  PROVE  CallerInv(c)'
  <1>1. Kept(c)
    BY DEF Kept, locals
  <1>2. reported \in Nat /\ reported' \in Nat /\ reported <= reported'
    BY BoundsAssumption DEF TypeOK
  <1> QED
    BY <1>1, <1>2, CallerKept

(* register_handler runs while nobody is inside handle_error. *)
LEMMA RegisterCallers ==
  ASSUME TypeOK, TypeOK', \A c \in Callers : CallerInv(c),
         NEW e \in Entries, RegisterHandler(e), NEW c \in Callers
  PROVE  CallerInv(c)'
  <1>1. ~Active(c)
    <2> SUFFICES ASSUME Active(c) PROVE FALSE
      OBVIOUS
    <2>1. error[c] \in Errors /\ error[c].id <= reported
      BY DEF CallerInv
    <2>2. error[c].id \in 1 .. MaxErrors
      BY <2>1, ErrorFields
    <2>3. reported = 0
      BY DEF RegisterHandler
    <2> QED
      BY <2>1, <2>2, <2>3, BoundsAssumption
  <1>2. UNCHANGED <<locals, handlers_lock, reported>> /\ (panic_mode => panic_mode')
    BY DEF RegisterHandler
  <1> QED
    BY <1>1, <1>2, AllKept

(* The other callers, in a step of one caller *)
LEMMA OthersKept ==
  ASSUME TypeOK, TypeOK', \A d \in Callers : CallerInv(d), NEW c \in Callers,
         NEW d \in Callers, d # c, Kept(d), panic_mode => panic_mode',
         reported <= reported', UNCHANGED handlers,
         handlers_lock' = d <=> handlers_lock = d
  PROVE  CallerInv(d)'
  <1>1. reported \in Nat /\ reported' \in Nat
    BY BoundsAssumption DEF TypeOK
  <1>2. InOrder' = InOrder
    BY DEF InOrder
  <1> QED
    BY <1>1, <1>2, CallerKept

(* The call: nothing is seen of the error yet. *)
LEMMA ReportCallers ==
  ASSUME TypeOK, TypeOK', \A d \in Callers : CallerInv(d),
         NEW c \in Callers, NEW r \in Reports, Report(c, r), NEW d \in Callers
  PROVE  CallerInv(d)'
  <1>1. CASE d # c
    <2>1. Kept(d)
      BY <1>1 DEF Report, Goto, Kept, TypeOK
    <2>2. reported <= reported' /\ UNCHANGED <<handlers, handlers_lock, panic_mode>>
      BY BoundsAssumption DEF Report, TypeOK
    <2> QED
      BY <1>1, <2>1, <2>2, OthersKept
  <1>2. CASE d = c
    <2>1. /\ pc[c] = "idle" /\ pc'[c] = "gate" /\ late'[c] = panic_mode
          /\ error'[c] = SystemError(reported + 1, r) /\ reported' = reported + 1
          /\ UNCHANGED <<handlers_lock, panic_mode, todo, result, calls>>
      BY ZenonT(40) DEF Report, Goto, TypeOK
    <2>2. error'[c] \in Errors /\ error'[c].id = reported'
      <3>1. reported + 1 \in 1 .. MaxErrors
        BY <2>1, BoundsAssumption DEF TypeOK
      <3> QED
        BY <2>1, <3>1 DEF Errors, SystemError
    <2>3. reported' \in Int
      BY BoundsAssumption DEF TypeOK
    <2>4. handlers_lock # c /\ calls[c] = << >> /\ todo[c] = << >>
      BY ZenonT(40), <2>1 DEF CallerInv
    <2>5. result'[c] = Summary(Said(c))'
      <3>1. result[c] = Summary(Said(c))
        BY ZenonT(40) DEF CallerInv
      <3>2. calls'[c] = calls[c] /\ result'[c] = result[c]
        BY <2>1, Zenon
      <3>3. Said(c)' = Said(c)
        BY <3>2, Zenon DEF Said
      <3> QED
        BY <3>1, <3>2, <3>3, Zenon
    <2>6. DOMAIN calls'[c] = {}
      BY <2>1, <2>4
    <2>7. (Active(c) => error[c] \in Errors /\ error[c].id <= reported)'
      BY <2>2, <2>3
    <2> QED
      BY ZenonT(40), <1>2, <2>1, <2>4, <2>5, <2>6, <2>7 DEF CallerInv
  <1> QED
    BY <1>1, <1>2

(* The gate: an error reported in panic mode goes to the log, unless it is   *)
(* fatal; a fatal one has turned panic mode on.                              *)
LEMMA GateCallers ==
  ASSUME TypeOK, TypeOK', \A d \in Callers : CallerInv(d),
         NEW c \in Callers, Gate(c), NEW d \in Callers
  PROVE  CallerInv(d)'
  <1>0. panic_mode => panic_mode'
    BY Zenon DEF Gate
  <1>1. CASE d # c
    <2>1. Kept(d)
      BY Zenon, <1>1 DEF Gate, Goto, Kept, TypeOK
    <2>2. reported <= reported' /\ UNCHANGED <<handlers, handlers_lock>>
      BY BoundsAssumption DEF Gate, TypeOK
    <2> QED
      BY <1>0, <1>1, <2>1, <2>2, OthersKept
  <1>2. CASE d = c
    <2>1. /\ pc[c] = "gate" /\ pc'[c] \in {"log", "lock"}
          /\ UNCHANGED <<handlers_lock, error, todo, result, calls, late, reported>>
      BY DEF Gate, Goto, TypeOK
    <2>2. error[c] \in Errors /\ error[c].id <= reported
      BY <2>1 DEF CallerInv, Active
    <2>3. handlers_lock # c /\ calls[c] = << >> /\ todo[c] = << >>
      BY Zenon, <2>1 DEF CallerInv
    <2>4. IsFatal(error[c].code) <=> error[c].of.level = Fatal
      BY <2>2, ErrorFields
    <2>5. error[c].of.level = Fatal => panic_mode'
      BY <2>4, Zenon DEF Gate
    <2>6. late[c] /\ error[c].of.level # Fatal => pc'[c] = "log"
      <3>1. late[c] => panic_mode
        BY <2>1 DEF CallerInv, Active
      <3> QED
        BY ZenonT(40), <2>4, <3>1 DEF Gate, Goto, TypeOK
    <2>7. late[c] => panic_mode'
      BY ZenonT(40), <1>0, <2>1 DEF CallerInv, Active
    <2>8. result'[c] = Summary(Said(c))'
      BY ZenonT(40), <2>1 DEF CallerInv, Summary, Said
    <2>9. DOMAIN calls'[c] = {}
      BY <2>1, <2>3
    <2> QED
      BY ZenonT(40), <1>2, <2>1, <2>2, <2>3, <2>5, <2>6, <2>7, <2>8, <2>9 DEF CallerInv
  <1> QED
    BY <1>1, <1>2

(* The lock: its new holder has all the matching handlers before it. *)
LEMMA LockCallers ==
  ASSUME TypeOK, TypeOK', \A d \in Callers : CallerInv(d),
         NEW c \in Callers, LockHandlers(c), NEW d \in Callers
  PROVE  CallerInv(d)'
  <1>1. CASE d # c
    <2>1. Kept(d)
      BY Zenon, <1>1 DEF LockHandlers, Goto, Kept, TypeOK
    <2>2. reported <= reported' /\ UNCHANGED <<handlers, panic_mode>>
      BY BoundsAssumption DEF LockHandlers, TypeOK
    <2>3. handlers_lock' = d <=> handlers_lock = d
      BY <1>1, NobodyAssumption DEF LockHandlers
    <2> QED
      BY <1>1, <2>1, <2>2, <2>3, OthersKept
  <1>2. CASE d = c
    <2>1. /\ pc[c] = "lock" /\ pc'[c] = "dispatch" /\ handlers_lock # c /\ handlers_lock' = c
          /\ todo'[c] = Retain(InOrder, {e \in Entries : Matches(e, error[c].code)})
          /\ UNCHANGED <<handlers, panic_mode, error, result, calls, late, reported>>
      BY ZenonT(40), NobodyAssumption DEF LockHandlers, Goto, TypeOK
    <2>2. error[c] \in Errors /\ error[c].id <= reported
      BY Zenon, <2>1 DEF CallerInv, Active
    <2>3. DOMAIN calls'[c] = {} /\ Seen(c)' = << >>
      <3>1. calls'[c] = << >>
        BY Zenon, <2>1 DEF CallerInv
      <3>2. Seen(c)' = [k \in 1 .. 0 |-> calls'[c][k].entry]
        BY <3>1 DEF Seen
      <3>3. Seen(c)' \in Seq(Entries) /\ Len(Seen(c)') = 0
        BY <3>2, SeqOfFunction
      <3> QED
        BY <3>1, <3>3, SeqEmpty
    <2>4. MatchingHandlers(c)' = MatchingHandlers(c)
      BY ZenonT(40), <2>1 DEF MatchingHandlers, InOrder
    <2>5. todo'[c] = MatchingHandlers(c)'
      BY Zenon, <2>1, <2>2, <2>4, MatchingByCode
    <2>6. (Seen(c) \o todo[c] = MatchingHandlers(c))'
      <3>1. todo'[c] \in Seq(Entries)
        BY DEF TypeOK
      <3>2. << >> \o todo'[c] = todo'[c]
        BY <3>1, ConcatEmpty
      <3> QED
        BY <2>3, <2>5, <3>2
    <2>7. result'[c] = Summary(Said(c))'
      BY <2>1, Zenon DEF CallerInv, Summary, Said
    <2>8. late[c] => panic_mode /\ error[c].of.level = Fatal
      BY <2>1, Zenon DEF CallerInv, Active
    <2>9. error[c].of.level = Fatal => panic_mode
      BY <2>1, Zenon DEF CallerInv
    <2> QED
      BY <1>2, <2>1, <2>2, <2>3, <2>6, <2>7, <2>8, <2>9, Zenon DEF CallerInv
  <1> QED
    BY <1>1, <1>2

(* A handler runs: the next one of those before the caller. *)
LEMMA CallCallers ==
  ASSUME TypeOK, TypeOK', \A d \in Callers : CallerInv(d),
         NEW c \in Callers, NEW v \in ErrorResult, CallHandler(c, v), NEW d \in Callers
  PROVE  CallerInv(d)'
  <1>1. CASE d # c
    <2>1. Kept(d)
      BY ZenonT(40), <1>1 DEF CallHandler, Goto, Kept, TypeOK
    <2>2. reported <= reported' /\ UNCHANGED <<handlers, handlers_lock, panic_mode>>
      BY BoundsAssumption DEF CallHandler, TypeOK
    <2> QED
      BY <1>1, <2>1, <2>2, OthersKept
  <1>2. CASE d = c
    <2> DEFINE call == [entry |-> Head(todo[c]), verdict |-> v]
    <2>1. /\ pc[c] = "dispatch" /\ todo[c] # << >>
          /\ pc'[c] = IF v = "Handled" THEN "log" ELSE "dispatch"
          /\ calls'[c] = Append(calls[c], call)
          /\ todo'[c] = Tail(todo[c])
          /\ result'[c] = Combine(result[c], v)
          /\ UNCHANGED <<handlers, handlers_lock, panic_mode, error, late, reported>>
      BY ZenonT(40) DEF CallHandler, Goto, TypeOK
    <2>2. /\ error[c] \in Errors /\ error[c].id <= reported /\ handlers_lock = c
          /\ Seen(c) \o todo[c] = MatchingHandlers(c)
      BY Zenon, <2>1 DEF CallerInv, Active
    <2>3. /\ calls[c] \in Seq(Call) /\ todo[c] \in Seq(Entries) /\ Head(todo[c]) \in Entries
          /\ call \in Call /\ call.entry = Head(todo[c]) /\ call.verdict = v
      BY <2>1, TailParts, Zenon DEF TypeOK, Call
    <2> HIDE DEF call
    <2>4. /\ Len(calls[c]) \in Nat /\ Len(calls'[c]) = Len(calls[c]) + 1
          /\ DOMAIN calls[c] = 1 .. Len(calls[c])
          /\ DOMAIN calls'[c] = 1 .. Len(calls[c]) + 1
          /\ \A k \in 1 .. Len(calls[c]) : calls'[c][k] = calls[c][k]
          /\ calls'[c][Len(calls[c]) + 1] = call
      BY <2>1, <2>3, AppendParts, SeqDomain
    <2>5. Seen(c) \in Seq(Entries) /\ Seen(c)' = Append(Seen(c), Head(todo[c]))
      <3>1. /\ Seen(c) = [k \in 1 .. Len(calls[c]) |-> calls[c][k].entry]
            /\ Seen(c)' = [k \in 1 .. Len(calls[c]) + 1 |-> calls'[c][k].entry]
        BY <2>4 DEF Seen
      <3>2. \A k \in 1 .. Len(calls[c]) : calls[c][k].entry \in Entries
        <4>1. \A k \in 1 .. Len(calls[c]) : calls[c][k] \in Call
          BY <2>3, SeqElement
        <4> QED
          BY <4>1 DEF Call
      <3>3. Seen(c) \in Seq(Entries) /\ Len(Seen(c)) = Len(calls[c])
        BY <2>4, <3>1, <3>2, SeqOfFunction
      <3> DEFINE w == Append(Seen(c), Head(todo[c]))
      <3>4. /\ w \in Seq(Entries) /\ Len(w) = Len(calls[c]) + 1
            /\ \A k \in 1 .. Len(calls[c]) : w[k] = Seen(c)[k]
            /\ w[Len(calls[c]) + 1] = Head(todo[c])
        BY <2>3, <3>3, AppendParts
      <3> HIDE DEF w
      <3>5. w = [k \in 1 .. Len(calls[c]) + 1 |-> w[k]]
        BY <3>4, SeqDomain
      <3>6. \A k \in 1 .. Len(calls[c]) + 1 : w[k] = calls'[c][k].entry
        <4> SUFFICES ASSUME NEW k \in 1 .. Len(calls[c]) + 1
                     PROVE  w[k] = calls'[c][k].entry
          OBVIOUS
        <4>1. CASE k = Len(calls[c]) + 1
          BY <2>3, <2>4, <3>4, <4>1
        <4>2. CASE k # Len(calls[c]) + 1
          <5>1. k \in 1 .. Len(calls[c])
            BY <2>4, <4>2
          <5> QED
            BY <2>4, <3>1, <3>4, <5>1, Zenon
        <4> QED
          BY <4>1, <4>2
      <3>7. Seen(c)' = w
        BY <3>1, <3>5, <3>6, Zenon
      <3> QED
        BY <3>3, <3>7 DEF w
    <2>6. (Seen(c) \o todo[c] = MatchingHandlers(c))'
      <3>1. MatchingHandlers(c)' = MatchingHandlers(c)
        BY <2>1, Zenon DEF MatchingHandlers, InOrder
      <3>2. Append(Seen(c), Head(todo[c])) \o Tail(todo[c]) = Seen(c) \o todo[c]
        BY <2>1, <2>3, <2>5, ShiftConcat, Zenon
      <3> QED
        BY <2>1, <2>2, <2>5, <3>1, <3>2, Zenon
    <2>7. \A k \in 1 .. Len(calls[c]) : calls[c][k].verdict # "Handled"
      BY <2>1, <2>4, Zenon DEF CallerInv
    <2>8. (\A k \in DOMAIN calls[c] :
             calls[c][k].verdict = "Handled" => k = Len(calls[c]) /\ pc[c] # "dispatch")'
      <3> SUFFICES ASSUME NEW k \in 1 .. Len(calls[c]) + 1, calls'[c][k].verdict = "Handled"
                   PROVE  k = Len(calls'[c]) /\ pc'[c] # "dispatch"
        BY <2>4
      <3>1. k = Len(calls[c]) + 1
        <4>1. k \in 1 .. Len(calls[c]) \/ k = Len(calls[c]) + 1
          <5>1. Len(calls[c]) \in Nat
            BY <2>4, Zenon
          <5> QED
            BY <5>1
        <4> QED
          BY <2>4, <2>7, <4>1
      <3> QED
        BY ZenonT(40), <2>1, <2>3, <2>4, <3>1
    <2>9. Said(c)' = Said(c) \cup {v}
      <3>1. /\ Said(c) = {calls[c][k].verdict : k \in 1 .. Len(calls[c])}
            /\ Said(c)' = {calls'[c][k].verdict : k \in 1 .. Len(calls[c]) + 1}
        BY <2>4 DEF Said
      <3>2. \A k : k \in 1 .. Len(calls[c]) + 1 <=> k \in 1 .. Len(calls[c]) \/ k = Len(calls[c]) + 1
        BY <2>4
      <3> QED
        BY <2>3, <2>4, <3>1, <3>2, Zenon
    <2>10. (result[c] = Summary(Said(c)))'
      <3>1. "Handled" \notin Said(c)
        BY <2>4, <2>7 DEF Said
      <3>2. result[c] = Summary(Said(c))
        BY Zenon DEF CallerInv
      <3>3. v \in {"Handled", "Partial", "Unhandled"}
        BY DEF ErrorResult
      <3> QED
        BY <2>1, <2>9, <3>1, <3>2, <3>3 DEF Summary, Combine
    <2>11. late[c] => panic_mode /\ error[c].of.level = Fatal
      BY ZenonT(40), <2>1 DEF CallerInv, Active
    <2>12. error[c].of.level = Fatal => panic_mode
      BY ZenonT(40), <2>1 DEF CallerInv
    <2>13. v = "Handled" => result'[c] = "Handled"
      BY Zenon, <2>1 DEF Combine
    <2> QED
      BY <1>2, <2>1, <2>2, <2>6, <2>8, <2>10, <2>11, <2>12, <2>13, Zenon DEF CallerInv
  <1> QED
    BY <1>1, <1>2

(* No handler is left, or the error is logged: the caller goes on with what  *)
(* it has.                                                                   *)
LEMMA OnwardCallers ==
  ASSUME TypeOK, TypeOK', \A d \in Callers : CallerInv(d),
         NEW c \in Callers, NoMoreHandlers(c) \/ LogError(c), NEW d \in Callers
  PROVE  CallerInv(d)'
  <1>0. UNCHANGED <<handlers, handlers_lock, panic_mode, error, todo, result, late, calls,
                    reported>>
    BY Zenon DEF NoMoreHandlers, LogError
  <1>1. CASE d # c
    <2>1. Kept(d)
      BY <1>0, <1>1 DEF NoMoreHandlers, LogError, Goto, Kept, TypeOK
    <2>2. reported <= reported'
      BY <1>0, BoundsAssumption DEF TypeOK
    <2> QED
      BY <1>0, <1>1, <2>1, <2>2, OthersKept
  <1>2. CASE d = c
    <2>1. \/ pc[c] = "dispatch" /\ todo[c] = << >> /\ pc'[c] = "log"
          \/ pc[c] = "log" /\ pc'[c] = "return"
      BY DEF NoMoreHandlers, LogError, Goto, TypeOK
    <2>2. Active(c) /\ Active(c)'
      BY ZenonT(40), <2>1 DEF Active
    <2>3. Seen(c)' = Seen(c) /\ Said(c)' = Said(c)
      BY ZenonT(40), <1>0 DEF Seen, Said
    <2>4. MatchingHandlers(c)' = MatchingHandlers(c)
      BY Zenon, <1>0 DEF MatchingHandlers, InOrder
    <2>5. (handlers_lock = c => /\ pc[c] \in {"dispatch", "log", "return"}
                                /\ Seen(c) \o todo[c] = MatchingHandlers(c)
                                /\ pc[c] = "dispatch" \/ todo[c] = << >> \/ result[c] = "Handled")'
      BY <1>0, <2>1, <2>3, <2>4, Zenon DEF CallerInv
    <2>6. (\A k \in DOMAIN calls[c] :
             calls[c][k].verdict = "Handled" => k = Len(calls[c]) /\ pc[c] # "dispatch")'
      BY <1>0, <2>1, Zenon DEF CallerInv
    <2>7. (result[c] = Summary(Said(c)))'
      BY <1>0, <2>3, Zenon DEF CallerInv, Summary
    <2>8. (Active(c) => error[c] \in Errors /\ error[c].id <= reported)'
      BY ZenonT(40), <1>0, <2>2 DEF CallerInv
    <2>9. (pc[c] = "dispatch" => handlers_lock = c)'
          /\ (handlers_lock # c => calls[c] = << >> /\ todo[c] = << >>)'
      BY ZenonT(40), <1>0, <2>1 DEF CallerInv
    <2>10. (Active(c) /\ late[c] => panic_mode)'
      BY ZenonT(40), <1>0, <2>2 DEF CallerInv
    <2>11. (Active(c) /\ late[c] /\ error[c].of.level # Fatal =>
              pc[c] \notin {"lock", "dispatch"} /\ calls[c] = << >>)'
      BY ZenonT(40), <1>0, <2>1, <2>2 DEF CallerInv
    <2>12. (pc[c] \notin {"idle", "gate"} /\ error[c].of.level = Fatal => panic_mode)'
      BY ZenonT(40), <1>0, <2>1 DEF CallerInv
    <2> QED
      BY <1>2, <2>5, <2>6, <2>7, <2>8, <2>9, <2>10, <2>11, <2>12, Zenon DEF CallerInv
  <1> QED
    BY <1>1, <1>2

(* handle_error returns: the guard is gone with the locals. *)
LEMMA ReturnCallers ==
  ASSUME TypeOK, TypeOK', \A d \in Callers : CallerInv(d),
         NEW c \in Callers, Return(c), NEW d \in Callers
  PROVE  CallerInv(d)'
  <1>1. CASE d # c
    <2>1. Kept(d)
      BY ZenonT(40), <1>1 DEF Return, Leave, Goto, Kept, TypeOK
    <2>2. reported <= reported' /\ UNCHANGED <<handlers, panic_mode>>
      BY BoundsAssumption DEF Return, TypeOK
    <2>3. handlers_lock' = d <=> handlers_lock = d
      BY <1>1, NobodyAssumption DEF Return
    <2> QED
      BY <1>1, <2>1, <2>2, <2>3, OthersKept
  <1>2. CASE d = c
    <2>1. /\ pc'[c] = "idle" /\ calls'[c] = << >> /\ todo'[c] = << >>
          /\ result'[c] = "Unhandled"
      BY ZenonT(40) DEF Return, Leave, Goto, TypeOK
    <2>2. handlers_lock' # c
      BY NobodyAssumption DEF Return
    <2>3. Said(c)' = {} /\ DOMAIN calls'[c] = {}
      BY <2>1 DEF Said
    <2> QED
      BY <1>2, <2>1, <2>2, <2>3, Zenon DEF CallerInv, Active, Summary
  <1> QED
    BY <1>1, <1>2

(* Every step keeps what each caller relies on. *)
LEMMA CallersStep ==
  ASSUME TypeOK, TypeOK', \A c \in Callers : CallerInv(c), Next
  PROVE  \A c \in Callers : CallerInv(c)'
  <1> SUFFICES ASSUME NEW d \in Callers PROVE CallerInv(d)'
    OBVIOUS
  <1>1. ASSUME NEW e \in Entries, RegisterHandler(e) PROVE CallerInv(d)'
    BY <1>1, RegisterCallers
  <1>2. ASSUME NEW c \in Callers, NEW r \in Reports, Report(c, r) PROVE CallerInv(d)'
    BY <1>2, ReportCallers
  <1>3. ASSUME NEW c \in Callers, Gate(c) PROVE CallerInv(d)'
    BY <1>3, GateCallers
  <1>4. ASSUME NEW c \in Callers, LockHandlers(c) PROVE CallerInv(d)'
    BY <1>4, LockCallers
  <1>5. ASSUME NEW c \in Callers, NEW v \in ErrorResult, CallHandler(c, v)
        PROVE  CallerInv(d)'
    BY <1>5, CallCallers
  <1>6. ASSUME NEW c \in Callers, NoMoreHandlers(c) \/ LogError(c) PROVE CallerInv(d)'
    BY <1>6, OnwardCallers
  <1>7. ASSUME NEW c \in Callers, Return(c) PROVE CallerInv(d)'
    BY <1>7, ReturnCallers
  <1>8. CASE EnterPanicMode
    <2>1. UNCHANGED <<locals, handlers_lock, reported, handlers>> /\ panic_mode'
      BY <1>8 DEF EnterPanicMode
    <2>2. InOrder' = InOrder
      BY <2>1 DEF InOrder
    <2> QED
      BY <2>1, <2>2, AllKept
  <1> QED
    BY <1>1, <1>2, <1>3, <1>4, <1>5, <1>6, <1>7, <1>8 DEF Next, Step

-----------------------------------------------------------------------------
(* The log *)

(* Steps that neither report nor log an error *)
LEMMA LogKept ==
  ASSUME LogInv, UNCHANGED <<logged, reported>>,
         \A c \in Callers : (Open(c)' <=> Open(c)) /\ (Open(c) => error'[c] = error[c]),
         \A c \in Callers : pc'[c] = "return" =>
            pc[c] = "return" /\ error'[c] = error[c] /\ result'[c] = result[c]
  PROVE  LogInv'
  <1>1. (\A k \in DOMAIN logged : logged[k].error \in 1 .. reported)'
    BY ZenonT(40) DEF LogInv
  <1>2. (\A c, d \in Callers : Open(c) /\ Open(d) /\ error[c].id = error[d].id => c = d)'
    <2> SUFFICES ASSUME NEW c \in Callers, NEW d \in Callers, Open(c)', Open(d)',
                        error'[c].id = error'[d].id
                 PROVE  c = d
      BY Zenon
    <2>1. Open(c) /\ Open(d) /\ error'[c] = error[c] /\ error'[d] = error[d]
      BY Zenon
    <2>2. error[c].id = error[d].id
      BY <2>1, Zenon
    <2> QED
      BY <2>1, <2>2, ZenonT(40) DEF LogInv
  <1>3. (\A j, k \in DOMAIN logged : logged[j].error = logged[k].error => j = k)'
    BY DEF LogInv
  <1>4. (\A c \in Callers, k \in DOMAIN logged : Open(c) => logged[k].error # error[c].id)'
    <2> SUFFICES ASSUME NEW c \in Callers, NEW k \in DOMAIN logged, Open(c)'
                 PROVE  logged[k].error # error'[c].id
      BY Zenon
    <2>1. Open(c) /\ error'[c] = error[c]
      BY Zenon
    <2>2. logged[k].error # error[c].id
      BY <2>1, ZenonT(40) DEF LogInv
    <2> QED
      BY <2>1, <2>2, Zenon
  <1>5. (\A id \in 1 .. reported : \/ \E c \in Callers : Open(c) /\ error[c].id = id
                                   \/ \E k \in DOMAIN logged : logged[k].error = id)'
    BY DEF LogInv
  <1>6. (\A c \in Callers : pc[c] = "return" =>
           \E k \in DOMAIN logged : logged[k] = [error |-> error[c].id, result |-> result[c]])'
    <2> SUFFICES ASSUME NEW c \in Callers, pc'[c] = "return"
                 PROVE  \E k \in DOMAIN logged :
                          logged[k] = [error |-> error'[c].id, result |-> result'[c]]
      BY Zenon
    <2>1. pc[c] = "return" /\ error'[c] = error[c] /\ result'[c] = result[c]
      BY Zenon
    <2>2. \E k \in DOMAIN logged : logged[k] = [error |-> error[c].id, result |-> result[c]]
      BY <2>1, ZenonT(40) DEF LogInv
    <2> QED
      BY <2>1, <2>2, Zenon
  <1> QED
    BY <1>1, <1>2, <1>3, <1>4, <1>5, <1>6, Zenon DEF LogInv

(* The call: the new error has a number of its own. *)
LEMMA ReportLog ==
  ASSUME TypeOK, LogInv, \A d \in Callers : CallerInv(d),
         NEW c \in Callers, NEW r \in Reports, Report(c, r)
  PROVE  LogInv'
  <1>1. /\ reported \in Nat /\ reported' = reported + 1 /\ UNCHANGED <<logged, result>>
        /\ pc[c] = "idle" /\ pc'[c] = "gate" /\ error'[c].id = reported + 1
        /\ \A d \in Callers : d # c => pc'[d] = pc[d] /\ error'[d] = error[d]
    BY BoundsAssumption DEF Report, Goto, SystemError, TypeOK
  <1>2. ~Open(c) /\ Open(c)' /\ \A d \in Callers : d # c => (Open(d)' <=> Open(d))
    BY Zenon, <1>1 DEF Open
  <1>3. \A d \in Callers : Open(d) => error[d].id \in 1 .. reported
    <2> SUFFICES ASSUME NEW d \in Callers, Open(d) PROVE error[d].id \in 1 .. reported
      OBVIOUS
    <2>1. error[d] \in Errors /\ error[d].id <= reported
      BY Zenon DEF CallerInv, Active, Open
    <2>2. error[d].id \in 1 .. MaxErrors
      BY ZenonT(40), <2>1, ErrorFields
    <2>3. error[d].id \in Nat /\ error[d].id >= 1
      BY <2>2, BoundsAssumption
    <2>4. reported \in Nat
      BY ZenonT(40), <1>1
    <2> QED
      BY <2>1, <2>3, <2>4
  <1>4. \A k \in DOMAIN logged : logged[k].error \in 1 .. reported
    BY ZenonT(40) DEF LogInv
  <1>5. \A n \in 1 .. reported : n \in 1 .. reported' /\ n # reported + 1
    BY <1>1
  <1>6. (\A k \in DOMAIN logged : logged[k].error \in 1 .. reported)'
    BY Zenon, <1>1, <1>4, <1>5
  <1>7. (\A d, e \in Callers : Open(d) /\ Open(e) /\ error[d].id = error[e].id => d = e)'
    <2> SUFFICES ASSUME NEW d \in Callers, NEW e \in Callers, Open(d)', Open(e)',
                        error'[d].id = error'[e].id
                 PROVE  d = e
      OBVIOUS
    <2>1. CASE d # c /\ e # c
      <3>1. Open(d) /\ Open(e) /\ error[d].id = error[e].id
        BY ZenonT(40), <1>1, <1>2, <2>1
      <3> QED
        BY <3>1, Zenon DEF LogInv
    <2>2. CASE d = c /\ e # c
      BY Zenon, <1>1, <1>2, <1>3, <1>5, <2>2
    <2>3. CASE d # c /\ e = c
      BY ZenonT(40), <1>1, <1>2, <1>3, <1>5, <2>3
    <2> QED
      BY <2>1, <2>2, <2>3
  <1>8. (\A j, k \in DOMAIN logged : logged[j].error = logged[k].error => j = k)'
    BY ZenonT(40), <1>1 DEF LogInv
  <1>9. (\A d \in Callers, k \in DOMAIN logged : Open(d) => logged[k].error # error[d].id)'
    <2> SUFFICES ASSUME NEW d \in Callers, NEW k \in DOMAIN logged, Open(d)'
                 PROVE  logged[k].error # error'[d].id
      BY ZenonT(40), <1>1
    <2>1. CASE d # c
      <3>1. Open(d)
        BY <1>2, <2>1, Zenon
      <3>2. error'[d] = error[d]
        BY <1>1, <2>1, Zenon
      <3>3. logged[k].error # error[d].id
        BY <3>1, ZenonT(40) DEF LogInv
      <3> QED
        BY <3>2, <3>3, Zenon
    <2>2. CASE d = c
      BY <1>1, <1>4, <1>5, <2>2
    <2> QED
      BY ZenonT(40), <2>1, <2>2
  <1>10. (\A id \in 1 .. reported : \/ \E d \in Callers : Open(d) /\ error[d].id = id
                                    \/ \E k \in DOMAIN logged : logged[k].error = id)'
    <2> SUFFICES ASSUME NEW id \in 1 .. reported + 1
                 PROVE  \/ \E d \in Callers : Open(d)' /\ error'[d].id = id
                        \/ \E k \in DOMAIN logged : logged[k].error = id
      BY <1>1
    <2>1. CASE id = reported + 1
      BY <1>1, <1>2, <2>1
    <2>2. CASE id # reported + 1
      <3>1. id \in 1 .. reported
        BY <1>1, <2>2
      <3>2. CASE \E d \in Callers : Open(d) /\ error[d].id = id
        <4>1. PICK d \in Callers : Open(d) /\ error[d].id = id
          BY <3>2
        <4>2. d # c
          BY <1>2, <4>1
        <4> QED
          BY <1>1, <1>2, <4>1, <4>2
      <3>3. CASE \E k \in DOMAIN logged : logged[k].error = id
        BY <3>3
      <3> QED
        BY ZenonT(40), <3>1, <3>2, <3>3 DEF LogInv
    <2> QED
      BY <2>1, <2>2
  <1>11. (\A d \in Callers : pc[d] = "return" =>
            \E k \in DOMAIN logged : logged[k] = [error |-> error[d].id, result |-> result[d]])'
    <2> SUFFICES ASSUME NEW d \in Callers, pc'[d] = "return"
                 PROVE  \E k \in DOMAIN logged :
                          logged[k] = [error |-> error'[d].id, result |-> result[d]]
      BY <1>1, Zenon
    <2>1. d # c /\ pc[d] = "return" /\ error'[d] = error[d]
      BY <1>1
    <2>2. \E k \in DOMAIN logged : logged[k] = [error |-> error[d].id, result |-> result[d]]
      BY <2>1, ZenonT(40) DEF LogInv
    <2> QED
      BY <2>1, <2>2, Zenon
  <1> QED
    BY <1>6, <1>7, <1>8, <1>9, <1>10, <1>11, Zenon DEF LogInv

(* The push: the error is no longer open, and the last entry is its own. *)
LEMMA LogErrorLog ==
  ASSUME TypeOK, LogInv, \A d \in Callers : CallerInv(d), NEW c \in Callers, LogError(c)
  PROVE  LogInv'
  <1> DEFINE entry == [error |-> error[c].id, result |-> result[c]]
             n == Len(logged)
  <1>1. /\ logged' = Append(logged, entry) /\ UNCHANGED <<error, result, reported>>
        /\ pc[c] = "log" /\ pc'[c] = "return"
        /\ \A d \in Callers : d # c => pc'[d] = pc[d]
    BY Zenon DEF LogError, Goto, TypeOK
  <1>2. entry \in LogEntry /\ entry.error = error[c].id
    BY <1>1, EntryType, Zenon DEF Active
  <1> HIDE DEF entry
  <1>3. n \in Nat /\ DOMAIN logged = 1 .. n /\ logged \in Seq(LogEntry)
    BY SeqDomain DEF TypeOK
  <1>4. /\ DOMAIN logged' = 1 .. n + 1 /\ logged'[n + 1] = entry
        /\ \A k \in 1 .. n : logged'[k] = logged[k]
    BY <1>1, <1>2, <1>3, AppendParts, SeqDomain
  <1> HIDE DEF n
  <1>5. \A k \in 1 .. n + 1 : k \in 1 .. n \/ k = n + 1
    BY <1>3
  <1>6. n + 1 \in 1 .. n + 1 /\ 1 .. n \subseteq 1 .. n + 1
    BY <1>3
  <1>7. Open(c) /\ ~Open(c)' /\ \A d \in Callers : d # c => (Open(d)' <=> Open(d))
    BY <1>1 DEF Open
  <1>8. error[c].id \in 1 .. reported
    <2>1. error[c] \in Errors /\ error[c].id <= reported
      BY <1>1, Zenon DEF CallerInv, Active
    <2>2. error[c].id \in 1 .. MaxErrors
      BY ZenonT(40), <2>1, ErrorFields
    <2> QED
      BY <2>1, <2>2, BoundsAssumption DEF TypeOK
  <1>9. (\A k \in DOMAIN logged : logged[k].error \in 1 .. reported)'
    <2> SUFFICES ASSUME NEW k \in 1 .. n + 1
                 PROVE  logged'[k].error \in 1 .. reported
      BY <1>1, <1>4, Zenon
    <2>1. CASE k \in 1 .. n
      <3>1. logged[k].error \in 1 .. reported
        BY <1>3, <2>1, ZenonT(40) DEF LogInv
      <3> QED
        BY <1>4, <2>1, <3>1, Zenon
    <2>2. CASE k = n + 1
      BY <1>2, <1>4, <1>8, <2>2, Zenon
    <2> QED
      BY <1>5, <2>1, <2>2, Zenon
  <1>10. (\A d, e \in Callers : Open(d) /\ Open(e) /\ error[d].id = error[e].id => d = e)'
    BY <1>1, <1>7, Zenon DEF LogInv
  <1>11. \A k \in 1 .. n : logged[k].error # error[c].id
    BY <1>3, <1>7, Zenon DEF LogInv
  <1>12. (\A j, k \in DOMAIN logged : logged[j].error = logged[k].error => j = k)'
    <2> SUFFICES ASSUME NEW j \in 1 .. n + 1, NEW k \in 1 .. n + 1,
                        logged'[j].error = logged'[k].error
                 PROVE  j = k
      BY <1>4
    <2>1. CASE j \in 1 .. n /\ k \in 1 .. n
      BY ZenonT(40), <1>3, <1>4, <2>1 DEF LogInv
    <2>2. CASE j = n + 1 /\ k \in 1 .. n
      BY Zenon, <1>2, <1>4, <1>11, <2>2
    <2>3. CASE j \in 1 .. n /\ k = n + 1
      BY <1>2, <1>4, <1>11, <2>3
    <2> QED
      BY <1>5, <2>1, <2>2, <2>3
  <1>13. (\A d \in Callers, k \in DOMAIN logged : Open(d) => logged[k].error # error[d].id)'
    <2> SUFFICES ASSUME NEW d \in Callers, NEW k \in 1 .. n + 1, Open(d)'
                 PROVE  logged'[k].error # error[d].id
      BY <1>1, <1>4, Zenon
    <2>1. d # c /\ Open(d)
      BY <1>7
    <2>2. CASE k \in 1 .. n
      BY ZenonT(40), <1>3, <1>4, <2>1, <2>2 DEF LogInv
    <2>3. CASE k = n + 1
      BY ZenonT(40), <1>2, <1>4, <1>7, <2>1, <2>3 DEF LogInv
    <2> QED
      BY <1>5, <2>2, <2>3
  <1>14. (\A id \in 1 .. reported : \/ \E d \in Callers : Open(d) /\ error[d].id = id
                                    \/ \E k \in DOMAIN logged : logged[k].error = id)'
    <2> SUFFICES ASSUME NEW id \in 1 .. reported
                 PROVE  \/ \E d \in Callers : Open(d)' /\ error[d].id = id
                        \/ \E k \in 1 .. n + 1 : logged'[k].error = id
      BY <1>1, <1>4, Zenon
    <2>1. CASE id = error[c].id
      BY ZenonT(40), <1>2, <1>4, <1>6, <2>1
    <2>2. ASSUME NEW d \in Callers, Open(d), error[d].id = id, id # error[c].id
          PROVE  Open(d)' /\ error[d].id = id
      BY <1>7, <2>2
    <2>3. ASSUME NEW k \in DOMAIN logged, logged[k].error = id
          PROVE  k \in 1 .. n + 1 /\ logged'[k].error = id
      BY <1>3, <1>4, <1>6, <2>3
    <2> QED
      BY Zenon, <2>1, <2>2, <2>3 DEF LogInv
  <1>15. (\A d \in Callers : pc[d] = "return" =>
            \E k \in DOMAIN logged : logged[k] = [error |-> error[d].id, result |-> result[d]])'
    <2> SUFFICES ASSUME NEW d \in Callers, pc'[d] = "return"
                 PROVE  \E k \in 1 .. n + 1 :
                          logged'[k] = [error |-> error[d].id, result |-> result[d]]
      BY <1>1, <1>4, Zenon
    <2>1. CASE d = c
      BY ZenonT(40), <1>4, <1>6, <2>1 DEF entry
    <2>2. CASE d # c
      <3>1. PICK k \in 1 .. n : logged[k] = [error |-> error[d].id, result |-> result[d]]
        BY <1>1, <1>3, <2>2, Zenon DEF LogInv
      <3> QED
        BY Zenon, <1>4, <1>6, <3>1
    <2> QED
      BY <2>1, <2>2
  <1> QED
    BY <1>9, <1>10, <1>12, <1>13, <1>14, <1>15, Zenon DEF LogInv

(* Every step keeps the books of the log. *)
LEMMA LogStep ==
  ASSUME TypeOK, LogInv, \A c \in Callers : CallerInv(c), Next
  PROVE  LogInv'
  <1>1. ASSUME NEW e \in Entries, RegisterHandler(e) PROVE LogInv'
    BY <1>1, LogKept DEF RegisterHandler, locals, Open
  <1>2. ASSUME NEW c \in Callers, NEW r \in Reports, Report(c, r) PROVE LogInv'
    BY <1>2, ReportLog
  <1>3. ASSUME NEW c \in Callers, Gate(c) PROVE LogInv'
    <2>1. /\ UNCHANGED <<logged, reported, error, result>>
          /\ pc[c] = "gate" /\ pc'[c] \in {"log", "lock"}
          /\ \A d \in Callers : d # c => pc'[d] = pc[d]
      BY <1>3 DEF Gate, Goto, TypeOK
    <2> QED
      BY <2>1, LogKept DEF Open
  <1>4. ASSUME NEW c \in Callers, LockHandlers(c) PROVE LogInv'
    <2>1. /\ UNCHANGED <<logged, reported, error, result>>
          /\ pc[c] = "lock" /\ pc'[c] = "dispatch"
          /\ \A d \in Callers : d # c => pc'[d] = pc[d]
      BY <1>4 DEF LockHandlers, Goto, TypeOK
    <2> QED
      BY Zenon, <2>1, LogKept DEF Open
  <1>5. ASSUME NEW c \in Callers, NEW v \in ErrorResult, CallHandler(c, v) PROVE LogInv'
    <2>1. /\ UNCHANGED <<logged, reported, error>>
          /\ pc[c] = "dispatch" /\ pc'[c] \in {"dispatch", "log"}
          /\ \A d \in Callers : d # c => pc'[d] = pc[d] /\ result'[d] = result[d]
      BY <1>5 DEF CallHandler, Goto, TypeOK
    <2> QED
      BY ZenonT(40), <2>1, LogKept DEF Open
  <1>6. ASSUME NEW c \in Callers, NoMoreHandlers(c) PROVE LogInv'
    <2>1. /\ UNCHANGED <<logged, reported, error, result>>
          /\ pc[c] = "dispatch" /\ pc'[c] = "log"
          /\ \A d \in Callers : d # c => pc'[d] = pc[d]
      BY <1>6 DEF NoMoreHandlers, Goto, TypeOK
    <2> QED
      BY <2>1, LogKept DEF Open
  <1>7. ASSUME NEW c \in Callers, LogError(c) PROVE LogInv'
    BY <1>7, LogErrorLog
  <1>8. ASSUME NEW c \in Callers, Return(c) PROVE LogInv'
    <2>1. /\ UNCHANGED <<logged, reported>>
          /\ pc[c] = "return" /\ pc'[c] = "idle"
          /\ \A d \in Callers : d # c =>
               pc'[d] = pc[d] /\ error'[d] = error[d] /\ result'[d] = result[d]
      BY <1>8 DEF Return, Leave, Goto, TypeOK
    <2> QED
      BY ZenonT(40), <2>1, LogKept DEF Open
  <1>9. CASE EnterPanicMode
    BY Zenon, <1>9, LogKept DEF EnterPanicMode, locals, Open
  <1> QED
    BY <1>1, <1>2, <1>3, <1>4, <1>5, <1>6, <1>7, <1>8, <1>9 DEF Next, Step

-----------------------------------------------------------------------------
(* What holds of the callers and of the log is preserved by every step. *)
CallersInv == TypeOK /\ (\A c \in Callers : CallerInv(c)) /\ LogInv

(* All steps together *)
LEMMA CallersInvStep ==
  ASSUME CallersInv, OrderTyped, [Next]_vars
  PROVE  CallersInv'
  <1> USE DEF CallersInv
  <1>1. CASE Next
    <2>1. TypeOK'
      BY <1>1, TypeStep
    <2>2. \A c \in Callers : CallerInv(c)'
      BY <1>1, <2>1, CallersStep
    <2>3. LogInv'
      BY <1>1, LogStep
    <2> QED
      BY <2>1, <2>2, <2>3
  <1>2. CASE UNCHANGED vars
    <2>1. TypeOK'
      BY <1>2 DEF vars, locals, TypeOK
    <2>2. ASSUME NEW c \in Callers PROVE CallerInv(c)'
      <3>1. UNCHANGED <<locals, handlers_lock, reported, handlers, panic_mode>>
        BY <1>2 DEF vars
      <3>2. InOrder' = InOrder
        BY <3>1 DEF InOrder
      <3> QED
        BY <2>1, <3>1, <3>2, AllKept
    <2>3. LogInv'
      BY Zenon, <1>2, LogKept DEF vars, locals, Open
    <2> QED
      BY <2>1, <2>2, <2>3
  <1> QED
    BY <1>1, <1>2

-----------------------------------------------------------------------------
(* What the invariants of the callers and of the log imply *)

(* The calls made are the first of the matching handlers. *)
LEMMA CallerOrder ==
  ASSUME TypeOK, OrderTyped, \A c \in Callers : CallerInv(c)
  PROVE  HandlersCalledInOrder
  <1> SUFFICES ASSUME NEW c \in Callers, Active(c)
               PROVE  /\ Len(Seen(c)) <= Len(MatchingHandlers(c))
                      /\ Seen(c) = SubSeq(MatchingHandlers(c), 1, Len(Seen(c)))
                      /\ handlers_lock = c /\ pc[c] \in {"log", "return"} =>
                           Seen(c) = MatchingHandlers(c) \/ result[c] = "Handled"
                      /\ result[c] = Summary(Said(c))
    BY Zenon DEF HandlersCalledInOrder, CallerInv, Seen, Said, Summary
  <1>1. /\ MatchingHandlers(c) \in Seq(Entries)
        /\ todo[c] \in Seq(Entries) /\ calls[c] \in Seq(Call)
    BY ZenonT(40) DEF OrderTyped, MatchingHandlers, TypeOK
  <1>2. Seen(c) \in Seq(Entries) /\ Len(Seen(c)) = Len(calls[c])
    <2>1. \A k \in 1 .. Len(calls[c]) : calls[c][k] \in Call
      BY <1>1, SeqElement
    <2>2. \A k \in 1 .. Len(calls[c]) : calls[c][k].entry \in Entries
      BY <2>1 DEF Call
    <2>3. Len(calls[c]) \in Nat /\ Seen(c) = [k \in 1 .. Len(calls[c]) |-> calls[c][k].entry]
      BY <1>1, SeqDomain DEF Seen
    <2> QED
      BY <2>2, <2>3, SeqOfFunction
  <1> DEFINE s == Seen(c)
             m == MatchingHandlers(c)
  <1>3. m = s \o (IF handlers_lock = c THEN todo[c] ELSE m)
    <2>1. CASE handlers_lock = c
      BY ZenonT(40), <2>1 DEF CallerInv
    <2>2. CASE handlers_lock # c
      <3>1. Len(calls[c]) = 0
        BY Zenon, <2>2, SeqEmpty DEF CallerInv
      <3>2. s = << >>
        BY <1>2, <3>1, SeqEmpty
      <3> QED
        BY ZenonT(40), <1>1, <2>2, <3>2, ConcatEmpty
    <2> QED
      BY <2>1, <2>2
  <1>4. handlers_lock = c /\ pc[c] \in {"log", "return"} => s = m \/ result[c] = "Handled"
    <2> SUFFICES ASSUME handlers_lock = c, pc[c] \in {"log", "return"}, result[c] # "Handled"
                 PROVE  s = m
      OBVIOUS
    <2>1. todo[c] = << >>
      BY ZenonT(40) DEF CallerInv
    <2> QED
      BY <1>2, <1>3, <2>1, ConcatEmpty
  <1>5. result[c] = Summary(Said(c))
    BY Zenon DEF CallerInv
  <1> HIDE DEF s, m
  <1>6. s \in Seq(Entries) /\ m \in Seq(Entries)
    BY <1>1, <1>2 DEF s, m
  <1>7. PICK t \in Seq(Entries) : m = s \o t
    BY <1>1, <1>3, <1>6, Zenon
  <1>8. /\ Len(s) \in Nat /\ Len(t) \in Nat /\ Len(m) = Len(s) + Len(t)
        /\ \A i \in 1 .. Len(s) + Len(t) : m[i] = IF i <= Len(s) THEN s[i] ELSE t[i - Len(s)]
    BY <1>6, <1>7, ConcatParts, SeqDomain
  <1>9. Len(s) <= Len(m)
    BY <1>8
  <1>10. s = SubSeq(m, 1, Len(s))
    <2> DEFINE q == SubSeq(m, 1, Len(s))
    <2>1. 1 \in 1 .. Len(m) + 1 /\ Len(s) \in 1 - 1 .. Len(m)
      BY <1>8
    <2>2. /\ q \in Seq(Entries)
          /\ Len(q) = IF 1 <= Len(s) THEN Len(s) - 1 + 1 ELSE 0
          /\ \A i \in 1 .. Len(s) - 1 + 1 : q[i] = m[1 + i - 1]
      BY <1>6, <2>1, SubSeqParts
    <2> HIDE DEF q
    <2>3. Len(q) = Len(s) /\ Len(s) - 1 + 1 = Len(s)
      BY <1>8, <2>2
    <2>4. \A i \in 1 .. Len(s) : q[i] = s[i]
      <3> SUFFICES ASSUME NEW i \in 1 .. Len(s) PROVE q[i] = s[i]
        OBVIOUS
      <3>1. 1 + i - 1 = i /\ i \in 1 .. Len(s) + Len(t) /\ i <= Len(s)
        BY <1>8
      <3>2. q[i] = m[i]
        BY <2>2, <2>3, <3>1
      <3> QED
        BY <1>8, <3>1, <3>2
    <2>5. s = q
      BY <1>6, <2>2, <2>3, <2>4, SeqExtensional
    <2> QED
      BY <2>5 DEF q
  <1> QED
    BY <1>4, <1>5, <1>9, <1>10, Zenon DEF s, m

(* Whoever has called a handler holds the lock, and is past the gate. *)
LEMMA CallerGate ==
  ASSUME \A c \in Callers : CallerInv(c)
  PROVE  PanicModeGate
  <1> SUFFICES ASSUME NEW c \in Callers, Active(c), calls[c] # << >>
               PROVE  IF error[c].of.level = Fatal THEN panic_mode ELSE ~late[c]
    BY DEF PanicModeGate
  <1>1. pc[c] \notin {"idle", "gate"}
    BY ZenonT(40) DEF CallerInv
  <1>2. CASE error[c].of.level = Fatal
    BY ZenonT(40), <1>1, <1>2 DEF CallerInv
  <1>3. CASE error[c].of.level # Fatal
    BY Zenon, <1>3 DEF CallerInv
  <1> QED
    BY <1>2, <1>3

(* The entries of an error, and the callers that have yet to log it *)
EntriesOf(id) == {k \in DOMAIN logged : logged[k].error = id}
OpenOf(id) == {c \in Callers : error[c].id = id
                                 /\ pc[c] \in {"gate", "lock", "dispatch", "log"}}

(* Exactly one of the two holds something, and one thing only. *)
LEMMA OneEntryOrCaller ==
  ASSUME LogInv, NEW id \in 1 .. reported
  PROVE  \/ EntriesOf(id) = {} /\ \E c : OpenOf(id) = {c}
         \/ OpenOf(id) = {} /\ \E k : EntriesOf(id) = {k}
  <1>1. CASE \E c \in Callers : Open(c) /\ error[c].id = id
    <2>1. PICK c \in Callers : Open(c) /\ error[c].id = id
      BY <1>1
    <2>2. OpenOf(id) = {c}
      <3>1. \A d \in OpenOf(id) : d = c
        BY Zenon, <2>1 DEF OpenOf, LogInv, Open
      <3>2. c \in OpenOf(id)
        BY <2>1 DEF OpenOf, Open
      <3> QED
        BY <3>1, <3>2
    <2>3. EntriesOf(id) = {}
      BY <2>1 DEF EntriesOf, LogInv
    <2> QED
      BY <2>2, <2>3
  <1>2. CASE ~ \E c \in Callers : Open(c) /\ error[c].id = id
    <2>1. PICK k \in DOMAIN logged : logged[k].error = id
      BY Zenon, <1>2 DEF LogInv
    <2>2. EntriesOf(id) = {k}
      <3>1. \A j \in EntriesOf(id) : j = k
        BY ZenonT(40), <2>1 DEF EntriesOf, LogInv
      <3>2. k \in EntriesOf(id)
        BY <2>1 DEF EntriesOf
      <3> QED
        BY <3>1, <3>2
    <2>3. OpenOf(id) = {}
      BY <1>2 DEF OpenOf, Open
    <2> QED
      BY <2>2, <2>3
  <1> QED
    BY <1>1, <1>2, Zenon

(* So that the count of them is one. *)
LEMMA OneEntry ==
  ASSUME LogInv, Cardinality({}) = 0, \A x : Cardinality({x}) = 1, NEW id \in 1 .. reported
  PROVE  Cardinality(EntriesOf(id)) + Cardinality(OpenOf(id)) = 1
  <1>1. CASE EntriesOf(id) = {} /\ \E c : OpenOf(id) = {c}
    <2>1. Cardinality(EntriesOf(id)) = 0 /\ Cardinality(OpenOf(id)) = 1
      BY <1>1, Zenon
    <2> QED
      BY <2>1
  <1>2. CASE OpenOf(id) = {} /\ \E k : EntriesOf(id) = {k}
    <2>1. Cardinality(EntriesOf(id)) = 1 /\ Cardinality(OpenOf(id)) = 0
      BY <1>2, Zenon
    <2> QED
      BY <2>1
  <1> QED
    BY ZenonT(40), <1>1, <1>2, OneEntryOrCaller

(* What remains to be shown is the content of the ring. *)
LEMMA LoggedOnceParts ==
  ASSUME LogInv, Cardinality({}) = 0, \A x : Cardinality({x}) = 1,
         Ring!Iter = Latest(logged, Capacity)
  PROVE  LoggedOnce
  <1>1. \A id \in 1 .. reported : Cardinality(EntriesOf(id)) + Cardinality(OpenOf(id)) = 1
    BY ZenonT(40), OneEntry
  <1>2. \A c \in Callers : pc[c] = "return" =>
          \E k \in DOMAIN logged : logged[k] = [error |-> error[c].id, result |-> result[c]]
    BY Zenon DEF LogInv
  <1> QED
    BY Zenon, <1>1, <1>2 DEF LoggedOnce, EntriesOf, OpenOf, Latest

-----------------------------------------------------------------------------
(***************************************************************************)
(* The ring.  RingBufferProofs, and PriorityMapProofs below, are           *)
(* instantiated where they are first needed, so that the proofs above do   *)
(* not carry them along.                                                   *)
(***************************************************************************)
RP == INSTANCE RingBufferProofs WITH
  Items <- LogEntry, NoItem <- NoEntry, ret <- NoEntry

(* The ring is a window, and iter() yields the latest entries. *)
RingInv == RP!Inv /\ Ring!Iter = Latest(logged, Capacity)

(* A push is a step of the ring that keeps iter() the end of the log. *)
LEMMA PushRing ==
  ASSUME TypeOK, RingInv, NEW entry \in LogEntry, Ring!Push(entry),
         logged' = Append(logged, entry)
  PROVE  RingInv'
  <1>1. RP!PushCall(entry)
    BY DEF RP!PushCall, RP!Push, RP!IsFull, RP!Advance, Ring!Push, Ring!IsFull, Ring!Advance
  <1>2. RP!Next
    BY <1>1 DEF RP!Next
  <1>3. RP!Inv'
    BY <1>2, RP!NextInv, CapacityAssumption, NoEntryIsNone DEF RingInv
  <1>4. RP!Log!LogPush(entry)
    BY <1>1, <1>3, RP!PushAppends, CapacityAssumption, NoEntryIsNone DEF RingInv
  <1>5. Ring!Iter' = Append(IF Len(Ring!Iter) = Capacity THEN Tail(Ring!Iter)
                            ELSE Ring!Iter, entry)
    BY <1>4, Zenon DEF RP!Log!LogPush, RP!Log!Full, Ring!Iter, RP!Iter
  <1>6. Latest(logged, Capacity)' = Append(IF Len(Ring!Iter) = Capacity THEN Tail(Ring!Iter)
                                           ELSE Ring!Iter, entry)
    BY LatestAppend, CapacityAssumption DEF RingInv, TypeOK
  <1> QED
    BY <1>3, <1>5, <1>6 DEF RingInv

(* A step that does not touch the log *)
LEMMA RingKept ==
  ASSUME RingInv, UNCHANGED <<log, logged>>
  PROVE  RingInv'
  <1>1. UNCHANGED RP!vars
    BY DEF RP!vars, log
  <1>2. RP!Inv'
    BY <1>1, RP!NextInv, CapacityAssumption, NoEntryIsNone DEF RingInv
  <1>3. Ring!Iter' = Ring!Iter
    BY DEF Ring!Iter, log
  <1> QED
    BY <1>2, <1>3 DEF RingInv, Latest

(* Every step keeps the ring. *)
LEMMA RingStep ==
  ASSUME TypeOK, RingInv, \A c \in Callers : CallerInv(c), Next
  PROVE  RingInv'
  <1>1. ASSUME NEW c \in Callers, LogError(c) PROVE RingInv'
    <2> DEFINE entry == [error |-> error[c].id, result |-> result[c]]
    <2>1. entry \in LogEntry
      BY ZenonT(40), <1>1, EntryType DEF LogError, Active
    <2>2. Ring!Push(entry) /\ logged' = Append(logged, entry)
      BY ZenonT(40), <1>1 DEF LogError
    <2> HIDE DEF entry
    <2> QED
      BY <2>1, <2>2, PushRing
  <1>2. CASE ~ \E c \in Callers : LogError(c)
    <2>1. UNCHANGED <<log, logged>>
      BY ZenonT(40), <1>2 DEF Next, Step, RegisterHandler, Report, Gate, LockHandlers,
         CallHandler,
                  NoMoreHandlers, Return, EnterPanicMode
    <2> QED
      BY <2>1, RingKept
  <1> QED
    BY <1>1, <1>2

(* At first the ring is empty. *)
LEMMA RingInit == Init => RingInv
  <1> SUFFICES ASSUME Init PROVE RingInv
    OBVIOUS
  <1>1. RP!Init
    BY DEF Init, RP!Init, RP!WithCapacity, Ring!WithCapacity, RP!Slot, Ring!Slot
  <1>2. RP!Inv
    BY <1>1, RP!InitInv, CapacityAssumption, NoEntryIsNone
  <1>3. Ring!Iter = << >> /\ logged = << >>
    BY DEF Init, Ring!Iter, Ring!WithCapacity
  <1> QED
    BY <1>2, <1>3, CapacityAssumption DEF RingInv, Latest

(* The inductive invariant *)
IInv == CallersInv /\ RingInv

(* It is preserved, given what the iteration over the handlers yields. *)
LEMMA InvStep == ASSUME IInv, OrderTyped, [Next]_vars PROVE IInv'
  <1>1. CallersInv'
    BY CallersInvStep DEF IInv
  <1>2. RingInv'
    <2>1. CASE Next
      BY <2>1, RingStep DEF IInv, CallersInv
    <2>2. CASE UNCHANGED vars
      BY <2>2, RingKept DEF IInv, CallersInv, vars
    <2> QED
      BY <2>1, <2>2
  <1> QED
    BY <1>1, <1>2 DEF IInv

-----------------------------------------------------------------------------
(* The map of handlers *)
PM == INSTANCE PriorityMapProofs

(* The operators of PriorityMapProofs are those of this module. *)
LEMMA SameOperators ==
  /\ \A S : IsFiniteSet(S) <=> PM!IsFiniteSet(S)
  /\ \A S : Cardinality(S) = PM!Cardinality(S)
  /\ \A map : InKeyOrder(map) = PM!InKeyOrder(map)
  /\ \A s, S : Retain(s, S) = PM!Retain(s, S)
  <1>1. \A S : IsFiniteSet(S) <=> PM!IsFiniteSet(S)
    BY DEF IsFiniteSet, PM!IsFiniteSet
  <1>2. \A S : Cardinality(S) = PM!Cardinality(S)
    BY DEF Cardinality, PM!Cardinality
  <1>3. \A map : InKeyOrder(map) = PM!InKeyOrder(map)
    BY DEF InKeyOrder, PM!InKeyOrder, Ascending, PM!Ascending, Cardinality, PM!Cardinality
  <1>4. \A s, S : Retain(s, S) = PM!Retain(s, S)
    BY DEF Retain, PM!Retain
  <1> QED
    BY <1>1, <1>2, <1>3, <1>4

(* The order of the loops, and what is left of it for an error, are          *)
(* sequences of handlers.                                                    *)
LEMMA OrderType ==
  ASSUME handlers \in [Priorities -> Seq(Entries)]
  PROVE  OrderTyped
  <1>1. PM!InKeyOrder(handlers) \in Seq(Entries)
    BY PrioritiesAssumption, SameOperators, PM!InKeyOrderPlaces
  <1>2. InOrder \in Seq(Entries)
    BY <1>1, SameOperators DEF InOrder
  <1>3. \A S : PM!Retain(InOrder, S) \in Seq(Entries)
    BY <1>2, PM!RetainEmbeds
  <1> QED
    BY <1>3, SameOperators DEF OrderTyped

-----------------------------------------------------------------------------
(* The invariant is inductive. *)
LEMMA Invariance == Spec => []IInv
  <1>1. Init => IInv
    BY InitCallers, RingInit DEF IInv, CallersInv
  <1>2. IInv /\ [Next]_vars => IInv'
    BY ZenonT(40), OrderType, InvStep DEF IInv, CallersInv, TypeOK
  <1> QED
    BY <1>1, <1>2, PTL DEF Spec

(* Every error reaches the handlers for its source and level in the order of *)
(* their priorities and of their registration, up to the first that handles  *)
(* it (the loops of handle_error), whatever the number of callers.           *)
THEOREM HandlersAreCalledInOrder == Spec => []HandlersCalledInOrder
  <1>1. IInv => HandlersCalledInOrder
    BY OrderType, CallerOrder DEF IInv, CallersInv, TypeOK
  <1> QED
    BY <1>1, Invariance, PTL

(* In panic mode only fatal errors reach a handler, and the handlers of a    *)
(* fatal error run in panic mode (the gate of handle_error).                 *)
THEOREM PanicModeIsGate == Spec => []PanicModeGate
  <1>1. IInv => PanicModeGate
    BY CallerGate DEF IInv, CallersInv
  <1> QED
    BY <1>1, Invariance, PTL

(* Each error is logged once with its result, and the ring holds the end of  *)
(* the log (log_error on every path of handle_error).                        *)
THEOREM ErrorsAreLoggedOnce == Spec => []LoggedOnce
  <1>1. Cardinality({}) = 0 /\ \A x : Cardinality({x}) = 1
    BY ZenonT(40), SameOperators, PM!FS_EmptySet, PM!FS_Singleton
  <1>2. IInv => LoggedOnce
    BY Zenon, <1>1, LoggedOnceParts DEF IInv, CallersInv, RingInv
  <1> QED
    BY <1>2, Invariance, PTL
=============================================================================
