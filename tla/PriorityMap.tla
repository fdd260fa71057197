---------------------------- MODULE PriorityMap ----------------------------
(***************************************************************************)
(* BTreeMap<u8, Vec<T>> of Rust's alloc library, in which both managers    *)
(* keep their handlers: a function from priorities to sequences.           *)
(***************************************************************************)
EXTENDS Integers, FiniteSets, Sequences

(* The keys of a map in the order of its iterator *)
Ascending(S) ==
  CHOOSE keys \in [1 .. Cardinality(S) -> S] :
    \A i, j \in 1 .. Cardinality(S) : i < j => keys[i] < keys[j]

(* The two nested loops over the keys and over the entries of a key *)
InKeyOrder(map) ==
  LET keys == Ascending(DOMAIN map)
      visited[i \in 0 .. Cardinality(DOMAIN map)] ==
        IF i = 0 THEN << >> ELSE visited[i - 1] \o map[keys[i]]
  IN visited[Cardinality(DOMAIN map)]

(* Vec::retain: the elements of s that are in S, in the order of s *)
Retain(s, S) ==
  LET kept[i \in 0 .. Len(s)] ==
        IF i = 0 THEN << >>
        ELSE IF s[i] \in S THEN Append(kept[i - 1], s[i]) ELSE kept[i - 1]
  IN kept[Len(s)]
=============================================================================
