------------------------- MODULE PriorityMapProofs -------------------------
(***************************************************************************)
(* What the operators of PriorityMap return, for every map, sequence and   *)
(* set.  Induction is by the least counterexample (LeastElement): the      *)
(* theorem it rests on speaks of sets, and needs no predicate as argument. *)
(***************************************************************************)
EXTENDS PriorityMap, FiniteSetTheorems, TLAPS

-----------------------------------------------------------------------------
(* Sequences *)

(* The domain of a sequence is 1 up to its length. *)
LEMMA SeqDomain ==
  ASSUME NEW S, NEW s \in Seq(S)
  PROVE  Len(s) \in Nat /\ DOMAIN s = 1 .. Len(s) /\ s \in [1 .. Len(s) -> S]
  OBVIOUS

(* The elements of a sequence over S are in S. *)
LEMMA SeqElement ==
  ASSUME NEW S, NEW s \in Seq(S), NEW i \in 1 .. Len(s)
  PROVE  s[i] \in S
  OBVIOUS

(* The empty sequence is the only one of length 0. *)
LEMMA SeqEmpty ==
  ASSUME NEW S
  PROVE  /\ << >> \in Seq(S) /\ Len(<< >>) = 0
         /\ \A s \in Seq(S) : s # << >> => Len(s) \in Nat \ {0}
  OBVIOUS

(* A function on 1 .. n is a sequence of length n. *)
LEMMA SeqOfFunction ==
  ASSUME NEW S, NEW n \in Nat, NEW f \in [1 .. n -> S]
  PROVE  f \in Seq(S) /\ Len(f) = n
  OBVIOUS

(* The first part of s \o t is s, the second t. *)
LEMMA ConcatParts ==
  ASSUME NEW S, NEW s \in Seq(S), NEW t \in Seq(S)
  PROVE  /\ s \o t \in Seq(S) /\ Len(s \o t) = Len(s) + Len(t)
         /\ \A i \in 1 .. Len(s) : (s \o t)[i] = s[i]
         /\ \A i \in 1 .. Len(t) : (s \o t)[Len(s) + i] = t[i]
  OBVIOUS

(* Append adds one element at the end. *)
LEMMA AppendParts ==
  ASSUME NEW S, NEW s \in Seq(S), NEW e \in S
  PROVE  /\ Append(s, e) \in Seq(S) /\ Append(s, e) # << >> /\ Len(Append(s, e)) = Len(s) + 1
         /\ Append(s, e)[Len(s) + 1] = e /\ \A i \in 1 .. Len(s) : Append(s, e)[i] = s[i]
  OBVIOUS

(* A set of natural numbers that is not empty has a least element. *)
LEMMA LeastElement ==
  ASSUME NEW T, T \subseteq Nat, T # {}
  PROVE  \E m \in T : \A k \in T : m <= k
  <1> DEFINE R == {p \in Nat \X Nat : p[1] < p[2]}
  <1>1. IsWellFoundedOn(R, Nat)
    BY NatLessThanWellFounded DEF OpToRel
  <1>2. PICK m \in T : \A k \in T : ~(<<k, m>> \in R)
    BY Zenon, <1>1, WFMin
  <1>3. \A k \in T : ~(k < m)
    BY Zenon, <1>2
  <1> QED
    BY <1>3

-----------------------------------------------------------------------------
(* Retain *)

(* One step of Retain *)
KeepStep(kept, s, S, i) ==
  IF i = 0 THEN << >>
  ELSE IF s[i] \in S THEN Append(kept[i - 1], s[i]) ELSE kept[i - 1]

Keep(kept, s, S, n) == [i \in 0 .. n |-> KeepStep(kept, s, S, i)]

(* The recursive function in the definition of Retain exists. *)
LEMMA KeepExists ==
  ASSUME NEW s, NEW S, NEW n \in Nat
  PROVE  \E kept : kept = Keep(kept, s, S, n)
  <1> USE DEF Keep
  <1> DEFINE P(m) == \E kept : kept = [i \in 0 .. m |-> KeepStep(kept, s, S, i)]
             T == {m \in Nat : ~P(m)}
  <1> SUFFICES ASSUME T # {} PROVE FALSE
    OBVIOUS
  <1>1. PICK m \in T : \A k \in T : m <= k
    BY Zenon, LeastElement
  <1>2. CASE m = 0
    <2> DEFINE f == [i \in 0 .. 0 |-> << >>]
    <2>1. f = [i \in 0 .. 0 |-> KeepStep(f, s, S, i)]
      BY DEF KeepStep
    <2> QED
      BY <1>2, <2>1
  <1>3. CASE m > 0
    <2>1. m \in Nat /\ m - 1 \in Nat /\ P(m - 1)
      BY <1>1, <1>3
    <2>2. PICK g : g = [i \in 0 .. m - 1 |-> KeepStep(g, s, S, i)]
      BY <2>1
    <2> DEFINE f == [i \in 0 .. m |-> IF i < m THEN g[i] ELSE KeepStep(g, s, S, m)]
    <2>3. \A i \in 0 .. m : KeepStep(f, s, S, i) = KeepStep(g, s, S, i)
      BY <2>1, <1>3 DEF KeepStep
    <2>4. \A i \in 0 .. m - 1 : g[i] = KeepStep(g, s, S, i)
      BY <2>2
    <2>5. \A i \in 0 .. m : f[i] = KeepStep(f, s, S, i)
      BY <2>1, <2>3, <2>4
    <2>6. f = [i \in 0 .. m |-> f[i]]
      OBVIOUS
    <2>7. f = [i \in 0 .. m |-> KeepStep(f, s, S, i)]
      BY <2>5
    <2> QED
      BY Zenon, <1>1, <2>7
  <1> QED
    BY <1>1, <1>2, <1>3

(* g maps the places of r to those of the elements of S among the first i    *)
(* elements of s, in order and without a gap.                                *)
Embeds(g, r, s, S, i) ==
  /\ g \in [1 .. Len(r) -> 1 .. i]
  /\ \A j \in 1 .. Len(r) : r[j] = s[g[j]] /\ r[j] \in S
  /\ \A j, k \in 1 .. Len(r) : j < k => g[j] < g[k]
  /\ \A k \in 1 .. i : s[k] \in S => \E j \in 1 .. Len(r) : g[j] = k

(* A step of Retain that keeps its element *)
LEMMA EmbedsAppend ==
  ASSUME NEW X, NEW s \in Seq(X), NEW S, NEW i \in 1 .. Len(s), s[i] \in S,
         NEW r \in Seq(X), NEW g, Embeds(g, r, s, S, i - 1)
  PROVE  \E h : Embeds(h, Append(r, s[i]), s, S, i)
  <1> DEFINE q == Append(r, s[i])
             h == [j \in 1 .. Len(r) + 1 |-> IF j = Len(r) + 1 THEN i ELSE g[j]]
  <1>1. /\ Len(r) \in Nat /\ Len(q) = Len(r) + 1
        /\ \A j \in 1 .. Len(r) : q[j] = r[j]
        /\ q[Len(r) + 1] = s[i]
    <2>1. s[i] \in X
      BY SeqElement
    <2> QED
      BY <2>1, AppendParts
  <1> HIDE DEF q
  <1>2. \A j \in 1 .. Len(r) : g[j] \in 1 .. i - 1
    BY DEF Embeds
  <1>3. i \in Nat /\ i > 0
    BY SeqDomain
  <1>4. h \in [1 .. Len(q) -> 1 .. i]
    BY <1>1, <1>2, <1>3
  <1>5. \A j \in 1 .. Len(q) : q[j] = s[h[j]] /\ q[j] \in S
    BY <1>1 DEF Embeds
  <1>6. \A j, k \in 1 .. Len(q) : j < k => h[j] < h[k]
    <2> SUFFICES ASSUME NEW j \in 1 .. Len(q), NEW k \in 1 .. Len(q), j < k
                 PROVE  h[j] < h[k]
      BY Zenon
    <2>1. j \in 1 .. Len(r) /\ h[j] = g[j]
      BY <1>1
    <2>2. CASE k = Len(r) + 1
      BY <1>2, <1>3, <2>1, <2>2
    <2>3. CASE k # Len(r) + 1
      <3>1. k \in 1 .. Len(r) /\ h[k] = g[k]
        BY <1>1, <2>3
      <3> HIDE DEF h
      <3> QED
        BY <2>1, <3>1 DEF Embeds
    <2> QED
      BY <2>2, <2>3
  <1>7. \A k \in 1 .. i : s[k] \in S => \E j \in 1 .. Len(q) : h[j] = k
    <2> SUFFICES ASSUME NEW k \in 1 .. i, s[k] \in S
                 PROVE  \E j \in 1 .. Len(q) : h[j] = k
      OBVIOUS
    <2>1. CASE k = i
      BY <1>1, <2>1
    <2>2. CASE k # i
      <3>1. PICK j \in 1 .. Len(r) : g[j] = k
        BY <1>3, <2>2 DEF Embeds
      <3> QED
        BY <1>1, <3>1
    <2> QED
      BY Zenon, <2>1, <2>2
  <1> HIDE DEF h
  <1>8. Embeds(h, q, s, S, i)
    BY <1>4, <1>5, <1>6, <1>7 DEF Embeds
  <1> QED
    BY <1>8 DEF q

(* Retain(s, S) consists of the elements of s that are in S, each as often   *)
(* and in the same order as in s.                                            *)
LEMMA RetainEmbeds ==
  ASSUME NEW X, NEW s \in Seq(X), NEW S
  PROVE  /\ Retain(s, S) \in Seq(X)
         /\ \E g : Embeds(g, Retain(s, S), s, S, Len(s))
  <1>0. Len(s) \in Nat
    BY SeqDomain
  <1>1. \E f : f = Keep(f, s, S, Len(s))
    BY Zenon, <1>0, KeepExists
  <1> DEFINE kept == CHOOSE f : f = Keep(f, s, S, Len(s))
  <1>2. Retain(s, S) = kept[Len(s)]
    BY DEF Retain, Keep, KeepStep
  <1>3. \A i \in 0 .. Len(s) : kept[i] = KeepStep(kept, s, S, i)
    <2>1. kept = Keep(kept, s, S, Len(s))
      BY <1>1
    <2> HIDE DEF kept
    <2> QED
      BY <2>1 DEF Keep
  <1> HIDE DEF kept
  <1> DEFINE P(i) == kept[i] \in Seq(X) /\ \E g : Embeds(g, kept[i], s, S, i)
             T == {i \in 0 .. Len(s) : ~P(i)}
  <1>4. T = {}
    <2> SUFFICES ASSUME T # {} PROVE FALSE
      OBVIOUS
    <2>1. PICK m \in T : \A k \in T : m <= k
      <3>1. T \subseteq Nat
        BY <1>0
      <3> HIDE DEF T
      <3> QED
        BY Zenon, <3>1, LeastElement
    <2>2. m \in 0 .. Len(s) /\ ~P(m)
      BY <2>1
    <2>3. CASE m = 0
      <3>1. kept[m] = << >>
        BY <1>3, <2>2, <2>3 DEF KeepStep
      <3>2. << >> \in Seq(X) /\ Len(<< >>) = 0
        BY SeqEmpty
      <3>3. Embeds([j \in 1 .. 0 |-> j], << >>, s, S, 0)
        BY <3>2 DEF Embeds
      <3> QED
        BY <2>2, <2>3, <3>1, <3>2, <3>3
    <2>4. CASE m > 0
      <3>1. m - 1 \in 0 .. Len(s) /\ m \in 1 .. Len(s) /\ m - 1 \notin T
        BY <1>0, <2>1, <2>2, <2>4
      <3>2. kept[m - 1] \in Seq(X) /\ \E g : Embeds(g, kept[m - 1], s, S, m - 1)
        BY <3>1
      <3>3. PICK g : Embeds(g, kept[m - 1], s, S, m - 1)
        BY <3>2
      <3>4. s[m] \in X
        BY <3>1, SeqElement
      <3>5. CASE s[m] \in S
        <4>0. kept[m] = KeepStep(kept, s, S, m) /\ m # 0
          BY <1>3, <2>2, <2>4
        <4>1. kept[m] = Append(kept[m - 1], s[m])
          BY <4>0, <3>5, Zenon DEF KeepStep
        <4>2. kept[m] \in Seq(X)
          BY <3>2, <3>4, <4>1, AppendParts
        <4>3. \E h : Embeds(h, kept[m], s, S, m)
          BY <3>1, <3>2, <3>3, <3>5, <4>1, EmbedsAppend
        <4> QED
          BY <2>2, <4>2, <4>3
      <3>6. CASE s[m] \notin S
        <4>0. kept[m] = KeepStep(kept, s, S, m) /\ m # 0
          BY <1>3, <2>2, <2>4
        <4>1. kept[m] = kept[m - 1]
          BY <4>0, <3>6, Zenon DEF KeepStep
        <4>2. \A k \in 1 .. m : k \in 1 .. m - 1 \/ k = m
          BY <3>1
        <4>3. Embeds(g, kept[m], s, S, m)
          <5> DEFINE r == kept[m]
          <5>1. Len(r) \in Nat /\ 1 .. m - 1 \subseteq 1 .. m
            BY <3>1, <3>2, <4>1, SeqDomain
          <5> QED
            BY <3>3, <3>6, <4>1, <4>2, <5>1 DEF Embeds
        <4> QED
          BY <2>2, <3>2, <4>1, <4>3
      <3> QED
        BY <3>5, <3>6
    <2> QED
      BY <1>0, <2>2, <2>3, <2>4
  <1>5. P(Len(s))
    BY <1>0, <1>4
  <1> QED
    BY <1>2, <1>5

-----------------------------------------------------------------------------
(* The loops of InKeyOrder *)

(* One turn of the outer loop, over the key whose entries are ss[i] *)
VisitStep(visited, ss, i) ==
  IF i = 0 THEN << >> ELSE visited[i - 1] \o ss[i]

(* The recursive function in the definition of InKeyOrder exists. *)
LEMMA VisitExists ==
  ASSUME NEW ss, NEW n \in Nat
  PROVE  \E visited : visited = [i \in 0 .. n |-> VisitStep(visited, ss, i)]
  <1> DEFINE P(m) == \E visited : visited = [i \in 0 .. m |-> VisitStep(visited, ss, i)]
             T == {m \in Nat : ~P(m)}
  <1> SUFFICES ASSUME T # {} PROVE FALSE
    OBVIOUS
  <1>1. PICK m \in T : \A k \in T : m <= k
    BY Zenon, LeastElement
  <1>2. CASE m = 0
    <2> DEFINE f == [i \in 0 .. 0 |-> << >>]
    <2>1. f = [i \in 0 .. 0 |-> VisitStep(f, ss, i)]
      BY DEF VisitStep
    <2> QED
      BY <1>2, <2>1
  <1>3. CASE m > 0
    <2>1. m \in Nat /\ m - 1 \in Nat /\ P(m - 1)
      BY <1>1, <1>3
    <2>2. PICK g : g = [i \in 0 .. m - 1 |-> VisitStep(g, ss, i)]
      BY <2>1
    <2> DEFINE f == [i \in 0 .. m |-> IF i < m THEN g[i] ELSE VisitStep(g, ss, m)]
    <2>3. \A i \in 0 .. m : VisitStep(f, ss, i) = VisitStep(g, ss, i)
      BY <2>1, <1>3 DEF VisitStep
    <2>4. \A i \in 0 .. m - 1 : g[i] = VisitStep(g, ss, i)
      BY <2>2
    <2>5. \A i \in 0 .. m : f[i] = VisitStep(f, ss, i)
      BY <2>1, <2>3, <2>4
    <2>6. f = [i \in 0 .. m |-> f[i]]
      OBVIOUS
    <2>7. f = [i \in 0 .. m |-> VisitStep(f, ss, i)]
      BY <2>5
    <2> QED
      BY Zenon, <1>1, <2>7
  <1> QED
    BY <1>1, <1>2, <1>3

(* Place j of r is place b[j] of the sequence ss[a[j]]; r runs through the   *)
(* first n sequences of ss in order and leaves no element out.               *)
Places(a, b, r, ss, n) ==
  /\ a \in [1 .. Len(r) -> 1 .. n] /\ b \in [1 .. Len(r) -> Nat]
  /\ \A j \in 1 .. Len(r) : b[j] \in 1 .. Len(ss[a[j]]) /\ r[j] = ss[a[j]][b[j]]
  /\ \A j, k \in 1 .. Len(r) : j < k => a[j] < a[k] \/ (a[j] = a[k] /\ b[j] < b[k])
  /\ \A i \in 1 .. n : \A k \in 1 .. Len(ss[i]) :
       \E j \in 1 .. Len(r) : a[j] = i /\ b[j] = k

(* A turn of the outer loop *)
LEMMA PlacesConcat ==
  ASSUME NEW X, NEW ss \in Seq(Seq(X)), NEW n \in 1 .. Len(ss), NEW r \in Seq(X),
         NEW a, NEW b, Places(a, b, r, ss, n - 1)
  PROVE  \E c, d : Places(c, d, r \o ss[n], ss, n)
  <1> DEFINE t == ss[n]
             q == r \o t
             c == [j \in 1 .. Len(r) + Len(t) |-> IF j <= Len(r) THEN a[j] ELSE n]
             d == [j \in 1 .. Len(r) + Len(t) |-> IF j <= Len(r) THEN b[j] ELSE j - Len(r)]
  <1>1. t \in Seq(X) /\ Len(t) \in Nat /\ Len(r) \in Nat /\ n \in Nat /\ n > 0
    BY SeqElement, SeqDomain
  <1> HIDE DEF t
  <1>2. /\ Len(q) = Len(r) + Len(t)
        /\ \A j \in 1 .. Len(r) + Len(t) : q[j] = IF j <= Len(r) THEN r[j] ELSE t[j - Len(r)]
    BY <1>1, ConcatParts
  <1> HIDE DEF q
  <1>3. \A j \in 1 .. Len(r) :
          /\ j \in 1 .. Len(q) /\ c[j] = a[j] /\ d[j] = b[j] /\ q[j] = r[j]
    BY <1>1, <1>2
  <1>4. \A j \in 1 .. Len(q) : j \notin 1 .. Len(r) =>
          /\ c[j] = n /\ d[j] = j - Len(r) /\ q[j] = t[j - Len(r)]
          /\ j - Len(r) \in 1 .. Len(t)
    BY <1>1, <1>2
  <1>5. \A j \in 1 .. Len(r) :
          /\ a[j] \in 1 .. n - 1 /\ b[j] \in Nat
          /\ b[j] \in 1 .. Len(ss[a[j]]) /\ r[j] = ss[a[j]][b[j]]
    BY DEF Places
  <1>6. c \in [1 .. Len(q) -> 1 .. n] /\ d \in [1 .. Len(q) -> Nat]
    <2>1. \A j \in 1 .. Len(q) : c[j] \in 1 .. n /\ d[j] \in Nat
      <3> SUFFICES ASSUME NEW j \in 1 .. Len(q)
                   PROVE  c[j] \in 1 .. n /\ d[j] \in Nat
        BY Zenon
      <3> HIDE DEF c, d
      <3>1. CASE j \in 1 .. Len(r)
        <4>1. c[j] = a[j] /\ a[j] \in 1 .. n - 1 /\ d[j] = b[j] /\ b[j] \in Nat
          BY <1>3, <1>5, <3>1
        <4> QED
          BY <1>1, <4>1
      <3>2. CASE j \notin 1 .. Len(r)
        <4>1. c[j] = n /\ d[j] = j - Len(r) /\ j - Len(r) \in 1 .. Len(t)
          BY Zenon, <1>4, <3>2
        <4> QED
          BY <1>1, <4>1
      <3> QED
        BY <3>1, <3>2
    <2>2. c = [j \in 1 .. Len(q) |-> c[j]] /\ d = [j \in 1 .. Len(q) |-> d[j]]
      BY <1>2
    <2> HIDE DEF c, d
    <2> QED
      BY <2>1, <2>2
  <1> HIDE DEF c, d
  <1>7. \A j \in 1 .. Len(q) : d[j] \in 1 .. Len(ss[c[j]]) /\ q[j] = ss[c[j]][d[j]]
    <2> SUFFICES ASSUME NEW j \in 1 .. Len(q)
                 PROVE  d[j] \in 1 .. Len(ss[c[j]]) /\ q[j] = ss[c[j]][d[j]]
      BY Zenon
    <2>1. CASE j \in 1 .. Len(r)
      BY Zenon, <1>3, <1>5, <2>1
    <2>2. CASE j \notin 1 .. Len(r)
      BY Zenon, <1>4, <2>2 DEF t
    <2> QED
      BY <2>1, <2>2
  <1>8. \A j, k \in 1 .. Len(q) : j < k => c[j] < c[k] \/ (c[j] = c[k] /\ d[j] < d[k])
    <2> SUFFICES ASSUME NEW j \in 1 .. Len(q), NEW k \in 1 .. Len(q), j < k
                 PROVE  c[j] < c[k] \/ (c[j] = c[k] /\ d[j] < d[k])
      OBVIOUS
    <2>1. CASE k \in 1 .. Len(r)
      <3>1. j \in 1 .. Len(r)
        BY <1>1, <2>1
      <3>2. a[j] < a[k] \/ (a[j] = a[k] /\ b[j] < b[k])
        BY <2>1, <3>1 DEF Places
      <3> QED
        BY <1>3, <2>1, <3>1, <3>2
    <2>2. CASE k \notin 1 .. Len(r) /\ j \in 1 .. Len(r)
      <3>1. c[j] = a[j] /\ a[j] \in 1 .. n - 1
        BY <1>3, <1>5, <2>2
      <3>2. c[k] = n
        BY <1>4, <2>2
      <3> QED
        BY <1>1, <3>1, <3>2
    <2>3. CASE k \notin 1 .. Len(r) /\ j \notin 1 .. Len(r)
      BY <1>1, <1>4, <2>3
    <2> QED
      BY <2>1, <2>2, <2>3
  <1>9. \A i \in 1 .. n : \A k \in 1 .. Len(ss[i]) :
          \E j \in 1 .. Len(q) : c[j] = i /\ d[j] = k
    <2> SUFFICES ASSUME NEW i \in 1 .. n, NEW k \in 1 .. Len(ss[i])
                 PROVE  \E j \in 1 .. Len(q) : c[j] = i /\ d[j] = k
      OBVIOUS
    <2>1. CASE i = n
      <3>1. k \in 1 .. Len(t)
        BY <2>1 DEF t
      <3>2. /\ Len(r) + k \in 1 .. Len(q) /\ Len(r) + k \notin 1 .. Len(r)
            /\ Len(r) + k - Len(r) = k
        <4> HIDE DEF c, d
        <4>1. k \in Nat /\ k > 0 /\ k <= Len(t)
          BY <1>1, <3>1
        <4>2. Len(q) = Len(r) + Len(t)
          BY <1>2
        <4> HIDE DEF q, t
        <4> QED
          BY <1>1, <4>1, <4>2
      <3>3. c[Len(r) + k] = i /\ d[Len(r) + k] = k
        <4>1. PICK j : j = Len(r) + k
          OBVIOUS
        <4>2. c[j] = n /\ d[j] = j - Len(r)
          BY Zenon, <1>4, <3>2, <4>1
        <4> QED
          BY <2>1, <3>2, <4>1, <4>2
      <3> QED
        BY <3>2, <3>3
    <2>2. CASE i # n
      <3>1. i \in 1 .. n - 1
        BY <1>1, <2>2
      <3>2. PICK j \in 1 .. Len(r) : a[j] = i /\ b[j] = k
        BY <3>1 DEF Places
      <3> QED
        BY Zenon, <1>3, <3>2
    <2> QED
      BY <2>1, <2>2
  <1>10. Places(c, d, q, ss, n)
    BY <1>6, <1>7, <1>8, <1>9 DEF Places
  <1> QED
    BY <1>10 DEF q, t

(* The outer loop runs through the sequences of ss one after the other. *)
LEMMA VisitPlaces ==
  ASSUME NEW X, NEW ss \in Seq(Seq(X)), NEW visited,
         \A i \in 0 .. Len(ss) : visited[i] = VisitStep(visited, ss, i)
  PROVE  LET r == visited[Len(ss)] IN r \in Seq(X) /\ \E a, b : Places(a, b, r, ss, Len(ss))
  <1>1. Len(ss) \in Nat
    BY SeqDomain
  <1>2. \A i \in 0 .. Len(ss) : visited[i] = VisitStep(visited, ss, i)
    OBVIOUS
  <1> DEFINE P(i) == visited[i] \in Seq(X) /\ \E a, b : Places(a, b, visited[i], ss, i)
             T == {i \in 0 .. Len(ss) : ~P(i)}
  <1>3. T = {}
    <2> SUFFICES ASSUME T # {} PROVE FALSE
      OBVIOUS
    <2>1. T \subseteq Nat
      BY <1>1
    <2>2. PICK m \in T : \A k \in T : m <= k
      <3> HIDE DEF T
      <3> QED
        BY Zenon, <2>1, LeastElement
    <2>3. m \in 0 .. Len(ss) /\ ~P(m)
      BY <2>2
    <2>4. CASE m = 0
      <3>1. visited[m] = << >>
        BY <1>2, <2>3, <2>4 DEF VisitStep
      <3>2. << >> \in Seq(X) /\ Len(<< >>) = 0
        BY SeqEmpty
      <3>3. Places([j \in 1 .. 0 |-> j], [j \in 1 .. 0 |-> j], << >>, ss, 0)
        BY <3>2 DEF Places
      <3> QED
        BY <2>3, <2>4, <3>1, <3>2, <3>3
    <2>5. CASE m # 0
      <3>1. m - 1 \in 0 .. Len(ss) /\ m \in 1 .. Len(ss) /\ m \in Nat
        BY <1>1, <2>3, <2>5
      <3>2. m - 1 \notin T
        <4> HIDE DEF T
        <4> QED
          BY <2>2, <3>1
      <3>3. visited[m - 1] \in Seq(X) /\ \E a, b : Places(a, b, visited[m - 1], ss, m - 1)
        BY <3>1, <3>2
      <3>4. PICK a, b : Places(a, b, visited[m - 1], ss, m - 1)
        BY <3>3
      <3>5. visited[m] = visited[m - 1] \o ss[m]
        <4>1. visited[m] = VisitStep(visited, ss, m)
          BY <1>2, <2>3
        <4> QED
          BY <2>5, <4>1, Zenon DEF VisitStep
      <3>6. ss[m] \in Seq(X)
        BY <3>1, SeqElement
      <3>7. visited[m] \in Seq(X)
        BY <3>3, <3>5, <3>6, ConcatParts
      <3>8. \E c, d : Places(c, d, visited[m - 1] \o ss[m], ss, m)
        BY <3>1, <3>3, <3>4, PlacesConcat
      <3> QED
        BY <2>3, <3>5, <3>7, <3>8
    <2> QED
      BY <2>4, <2>5
  <1>4. Len(ss) \in 0 .. Len(ss)
    BY <1>1
  <1>5. P(Len(ss))
    BY <1>3, <1>4
  <1> QED
    BY <1>5

-----------------------------------------------------------------------------
(* Ascending and InKeyOrder *)

(* keys lists the elements of S in ascending order. *)
Lists(keys, S) ==
  /\ keys \in [1 .. Cardinality(S) -> S]
  /\ \A i, j \in 1 .. Cardinality(S) : i < j => keys[i] < keys[j]

(* A finite set of natural numbers can be listed in ascending order. *)
LEMMA AscendingExists ==
  ASSUME NEW K \in SUBSET Nat, IsFiniteSet(K)
  PROVE  \E keys : Lists(keys, K)
  <1> DEFINE P(S) == \E keys : Lists(keys, S)
             Q(n) == \A S \in SUBSET Nat : IsFiniteSet(S) /\ Cardinality(S) = n => P(S)
             T == {n \in Nat : ~Q(n)}
  <1>1. T = {}
    <2> SUFFICES ASSUME T # {} PROVE FALSE
      OBVIOUS
    <2>1. PICK m \in T : \A k \in T : m <= k
      BY Zenon, LeastElement
    <2>2. PICK S \in SUBSET Nat : IsFiniteSet(S) /\ Cardinality(S) = m /\ ~P(S)
      BY <2>1
    <2>3. CASE m = 0
      <3>1. Lists([i \in 1 .. 0 |-> i], S)
        BY <2>2, <2>3 DEF Lists
      <3> QED
        BY <2>2, <3>1
    <2>4. CASE m > 0
      <3>1. S # {}
        BY <2>2, <2>4, FS_EmptySet
      <3>2. PICK x \in S : \A y \in S : x <= y
        BY Zenon, <3>1, LeastElement
      <3> DEFINE R == S \ {x}
      <3>3. IsFiniteSet(R) /\ Cardinality(R) = m - 1
        BY <2>2, <3>2, FS_RemoveElement
      <3>4. m - 1 \in Nat /\ m - 1 \notin T
        BY <2>1, <2>4
      <3>5. R \in SUBSET Nat /\ \A y \in R : x < y
        BY <3>2
      <3>6. P(R)
        BY <3>3, <3>4, <3>5
      <3>7. PICK f : Lists(f, R)
        BY <3>6
      <3> DEFINE g == [i \in 1 .. m |-> IF i = 1 THEN x ELSE f[i - 1]]
      <3>8. g[1] = x /\ \A i \in 1 .. m : i # 1 =>
              g[i] = f[i - 1] /\ i - 1 \in 1 .. m - 1 /\ f[i - 1] \in R
        <4>1. f \in [1 .. m - 1 -> R]
          BY Zenon, <3>3, <3>7 DEF Lists
        <4>2. m \in Nat
          BY <2>1
        <4> HIDE DEF R, T
        <4> QED
          BY <2>4, <4>1, <4>2
      <3>9. g \in [1 .. m -> S]
        BY <3>8
      <3> HIDE DEF g
      <3>10. \A i, j \in 1 .. m : i < j => g[i] < g[j]
        <4> SUFFICES ASSUME NEW i \in 1 .. m, NEW j \in 1 .. m, i < j
                     PROVE  g[i] < g[j]
          OBVIOUS
        <4>1. j # 1
          OBVIOUS
        <4>2. CASE i = 1
          BY Zenon, <3>5, <3>8, <4>1, <4>2
        <4>3. CASE i # 1
          <5>1. i - 1 < j - 1
            OBVIOUS
          <5>2. f[i - 1] < f[j - 1]
            BY Zenon, <3>3, <3>7, <3>8, <4>1, <4>3, <5>1 DEF Lists
          <5> QED
            BY <3>8, <4>1, <4>3, <5>2
        <4> QED
          BY <4>2, <4>3
      <3>11. Lists(g, S)
        BY <2>2, <3>9, <3>10 DEF Lists
      <3> QED
        BY <2>2, <3>11
    <2> QED
      BY <2>1, <2>3, <2>4
  <1>2. Cardinality(K) \in Nat
    BY FS_CardinalityType
  <1>3. Q(Cardinality(K))
    BY <1>1, <1>2
  <1> QED
    BY <1>3

(* Ascending(K) lists all of K. *)
LEMMA AscendingLists ==
  ASSUME NEW K \in SUBSET Nat, IsFiniteSet(K)
  PROVE  /\ Cardinality(K) \in Nat
         /\ Lists(Ascending(K), K)
         /\ \A x \in K : \E i \in 1 .. Cardinality(K) : Ascending(K)[i] = x
  <1> DEFINE n == Cardinality(K)
             keys == Ascending(K)
  <1>1. n \in Nat
    BY FS_CardinalityType
  <1>2. Lists(keys, K)
    BY AscendingExists DEF Lists, Ascending
  <1> HIDE DEF keys, n
  <1>3. keys \in [1 .. n -> K] /\ \A i, j \in 1 .. n : i < j => keys[i] < keys[j]
    BY <1>2 DEF Lists, n
  <1> DEFINE I == {keys[i] : i \in 1 .. n}
  <1>4. keys \in Bijection(1 .. n, I)
    <2>1. \A i, j \in 1 .. n : i # j => keys[i] # keys[j]
      <3> SUFFICES ASSUME NEW i \in 1 .. n, NEW j \in 1 .. n, i # j
                   PROVE  keys[i] # keys[j]
        OBVIOUS
      <3>1. keys[i] \in Nat /\ keys[j] \in Nat
        BY Zenon, <1>3
      <3>2. i < j \/ j < i
        BY <1>1
      <3> QED
        BY <1>3, <3>1, <3>2
    <2> QED
      BY <1>3, <2>1 DEF Bijection, Injection, Surjection, IsInjective
  <1>5. IsFiniteSet(1 .. n) /\ Cardinality(1 .. n) = n
    BY <1>1, FS_Interval
  <1>6. Cardinality(I) = n
    <2>1. ExistsBijection(1 .. n, I)
      BY <1>4 DEF ExistsBijection
    <2> QED
      BY <1>5, <2>1, FS_Bijection
  <1>7. I = K
    <2>1. I \subseteq K
      BY <1>3
    <2> HIDE DEF I
    <2> QED
      BY Zenon, <1>6, <2>1, FS_Subset DEF n
  <1> QED
    BY <1>1, <1>2, <1>7 DEF keys, n

(* Place j of r is entry place[j] of the key key[j]: r holds every entry of  *)
(* the map once, by ascending key, and the entries of a key in their order.  *)
KeyOrder(key, place, r, map) ==
  /\ key \in [1 .. Len(r) -> DOMAIN map] /\ place \in [1 .. Len(r) -> Nat]
  /\ \A j \in 1 .. Len(r) :
       place[j] \in 1 .. Len(map[key[j]]) /\ r[j] = map[key[j]][place[j]]
  /\ \A j, k \in 1 .. Len(r) :
       j < k => key[j] < key[k] \/ (key[j] = key[k] /\ place[j] < place[k])
  /\ \A p \in DOMAIN map : \A i \in 1 .. Len(map[p]) :
       \E j \in 1 .. Len(r) : key[j] = p /\ place[j] = i

(* InKeyOrder(map) is the order of the two loops over a BTreeMap of vectors. *)
LEMMA InKeyOrderPlaces ==
  ASSUME NEW X, NEW K \in SUBSET Nat, IsFiniteSet(K), NEW map \in [K -> Seq(X)]
  PROVE  /\ InKeyOrder(map) \in Seq(X)
         /\ \E key, place : KeyOrder(key, place, InKeyOrder(map), map)
  <1> DEFINE n == Cardinality(K)
             keys == Ascending(K)
             ss == [i \in 1 .. n |-> map[keys[i]]]
  <1>2. /\ n \in Nat /\ keys \in [1 .. n -> K]
        /\ \A i, j \in 1 .. n : i < j => keys[i] < keys[j]
        /\ \A x \in K : \E i \in 1 .. n : keys[i] = x
    BY AscendingLists DEF Lists
  <1> HIDE DEF n, keys
  <1>3. ss \in Seq(Seq(X)) /\ Len(ss) = n
    <2>1. \A i \in 1 .. n : ss[i] \in Seq(X)
      BY <1>2
    <2> QED
      BY <1>2, <2>1, SeqOfFunction
  <1>4. \A i \in 1 .. n : ss[i] = map[keys[i]]
    OBVIOUS
  <1> HIDE DEF ss
  <1> DEFINE loop(f) == [i \in 0 .. n |->
                           IF i = 0 THEN << >> ELSE f[i - 1] \o map[keys[i]]]
             visited == CHOOSE f : f = loop(f)
             r == visited[n]
  <1>1. InKeyOrder(map) = r
    BY DEF InKeyOrder, n, keys
  <1>5. r \in Seq(X) /\ \E a, b : Places(a, b, r, ss, n)
    <2>1. \A f : [i \in 0 .. n |-> VisitStep(f, ss, i)] = loop(f)
      <3>1. \A f : \A i \in 0 .. n :
              VisitStep(f, ss, i) = IF i = 0 THEN << >> ELSE f[i - 1] \o map[keys[i]]
        BY <1>2, <1>4 DEF VisitStep
      <3> QED
        BY Zenon, <3>1
    <2>2. PICK g : g = [i \in 0 .. n |-> VisitStep(g, ss, i)]
      BY Zenon, <1>2, VisitExists
    <2>3. g = loop(g)
      BY Zenon, <2>1, <2>2
    <2> HIDE DEF loop
    <2>4. visited = loop(visited)
      BY <2>3
    <2> HIDE DEF visited
    <2>5. \A i \in 0 .. n : visited[i] = VisitStep(visited, ss, i)
      <3>1. visited = [i \in 0 .. n |-> VisitStep(visited, ss, i)]
        BY <2>1, <2>4
      <3> QED
        BY Zenon, <3>1
    <2> QED
      BY <1>3, <2>5, VisitPlaces
  <1> HIDE DEF r
  <1>6. PICK a, b : Places(a, b, r, ss, n)
    BY <1>5
  <1>7. \A j \in 1 .. Len(r) : a[j] \in 1 .. n /\ keys[a[j]] \in K
    BY <1>2, <1>6 DEF Places
  <1> DEFINE key == [j \in 1 .. Len(r) |-> keys[a[j]]]
  <1>8. key \in [1 .. Len(r) -> DOMAIN map] /\ \A j \in 1 .. Len(r) : key[j] = keys[a[j]]
    BY <1>7
  <1> HIDE DEF key
  <1>9. \A j \in 1 .. Len(r) : b[j] \in 1 .. Len(map[key[j]]) /\ r[j] = map[key[j]][b[j]]
    <2>1. \A j \in 1 .. Len(r) : b[j] \in 1 .. Len(ss[a[j]]) /\ r[j] = ss[a[j]][b[j]]
      BY <1>6, Zenon DEF Places
    <2>2. \A j \in 1 .. Len(r) : ss[a[j]] = map[key[j]]
      BY <1>4, <1>7, <1>8, Zenon
    <2> QED
      BY <2>1, <2>2, Zenon
  <1>10. \A j, k \in 1 .. Len(r) :
           j < k => key[j] < key[k] \/ (key[j] = key[k] /\ b[j] < b[k])
    <2> SUFFICES ASSUME NEW j \in 1 .. Len(r), NEW k \in 1 .. Len(r), j < k
                 PROVE  key[j] < key[k] \/ (key[j] = key[k] /\ b[j] < b[k])
      OBVIOUS
    <2>1. a[j] < a[k] \/ (a[j] = a[k] /\ b[j] < b[k])
      BY <1>6 DEF Places
    <2>2. CASE a[j] < a[k]
      BY <1>2, <1>7, <1>8, <2>2
    <2>3. CASE a[j] = a[k] /\ b[j] < b[k]
      BY <1>8, <2>3
    <2> QED
      BY <2>1, <2>2, <2>3
  <1>11. \A p \in DOMAIN map : \A i \in 1 .. Len(map[p]) :
           \E j \in 1 .. Len(r) : key[j] = p /\ b[j] = i
    <2> SUFFICES ASSUME NEW p \in DOMAIN map, NEW i \in 1 .. Len(map[p])
                 PROVE  \E j \in 1 .. Len(r) : key[j] = p /\ b[j] = i
      OBVIOUS
    <2>1. PICK k \in 1 .. n : keys[k] = p
      BY <1>2
    <2>2. i \in 1 .. Len(ss[k])
      BY <1>4, <2>1
    <2>3. PICK j \in 1 .. Len(r) : a[j] = k /\ b[j] = i
      BY <1>6, <2>2 DEF Places
    <2> QED
      BY <1>8, <2>1, <2>3
  <1>12. KeyOrder(key, b, r, map)
    BY <1>6, <1>8, <1>9, <1>10, <1>11 DEF KeyOrder, Places
  <1> QED
    BY <1>1, <1>5, <1>12
=============================================================================
