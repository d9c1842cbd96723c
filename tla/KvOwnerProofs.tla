---------------------------- MODULE KvOwnerProofs ----------------------------
(***************************************************************************)
(* Proofs about imparo-kv/src/index.rs, resident.rs and pool.rs: for any   *)
(* number of conversations, slots, blocks, handles and requests the pool's *)
(* state keeps its types and the content index agrees with the lists of    *)
(* units and with the memory it speaks of; a block has one owner and a     *)
(* handle has one, no block is lost without host transfers, and the host   *)
(* gives up the last copy of a unit only once it is on disk.               *)
(***************************************************************************)
EXTENDS KvPool, FiniteSetTheorems, WellFoundedInduction, TLAPS

-----------------------------------------------------------------------------
(* Natural numbers.                                                        *)

(* A set of naturals that is not empty has a least member.                 *)
LEMMA Least ==
  ASSUME NEW T, T \subseteq Nat, T # {}
  PROVE  \E n \in T : \A m \in T : n <= m
<1> DEFINE R == OpToRel(<, Nat)
<1>1. IsWellFoundedOn(R, Nat)
  BY NatLessThanWellFounded
<1>2. \A x, y \in Nat : x < y => <<x, y>> \in R
  BY DEF OpToRel
<1> HIDE DEF R
<1>3. \E x \in T : \A y \in T : ~ (<<y, x>> \in R)
  BY <1>1, WFMin
<1>4. PICK x \in T : \A y \in T : ~ (<<y, x>> \in R)
  BY <1>3
<1>5. ASSUME NEW m \in T PROVE x <= m
  <2>1. ~(<<m, x>> \in R)
    BY <1>4
  <2>2. m \in Nat /\ x \in Nat
    OBVIOUS
  <2>3. ~(m < x)
    BY <2>1, <2>2, <1>2
  <2> QED
    BY <2>2, <2>3
<1> QED
  BY <1>5

(* A bounded one has a greatest.                                           *)
LEMMA Greatest ==
  ASSUME NEW T, T \subseteq Nat, T # {}, NEW n \in Nat, \A m \in T : m <= n
  PROVE  \E g \in T : \A m \in T : m <= g
<1> DEFINE D == {d \in Nat : \E m \in T : d = n - m}
<1>1. D # {} /\ D \subseteq Nat
  <2>1. PICK m \in T : TRUE
    OBVIOUS
  <2>2. n - m \in D
    BY <2>1
  <2> QED
    BY <2>2
<1>2. PICK d \in D : \A e \in D : d <= e
  <2> HIDE DEF D
  <2> QED
    BY <1>1, Least
<1>3. PICK g \in T : d = n - g
  BY <1>2
<1>4. ASSUME NEW m \in T PROVE m <= g
  <2>1. n - m \in D
    BY <1>4
  <2> QED
    BY <2>1, <1>2, <1>3
<1> QED
  BY <1>4

(* Induction, over a set instead of a predicate.                           *)
LEMMA SetInduction ==
  ASSUME NEW S, 0 \in S, \A n \in Nat : n \in S => n + 1 \in S
  PROVE  Nat \subseteq S
<1> SUFFICES ASSUME NEW k \in Nat \ S PROVE FALSE
  OBVIOUS
<1>1. PICK n \in Nat \ S : \A m \in Nat \ S : n <= m
  BY Least
<1>2. n # 0 /\ n - 1 \in Nat /\ n - 1 \in S
  BY <1>1
<1> QED
  BY <1>1, <1>2

(* A recursion of n steps over a set A defines a function.                 *)
LEMMA Recursion ==
  ASSUME NEW A, NEW a \in A, NEW n \in Nat, NEW G \in [1..n -> [A -> A]]
  PROVE  \E f \in [0..n -> A] : f[0] = a /\ \A i \in 1..n : f[i] = G[i][f[i - 1]]
<1> DEFINE Upto(k) == k <= n => \E f \in [0..k -> A] : f[0] = a /\ \A i \in 1..k : f[i] = G[i][f[i - 1]]
           S == {k \in Nat : Upto(k)}
<1>1. 0 \in S
  <2>1. /\ [i \in 0..0 |-> a] \in [0..0 -> A] /\ [i \in 0..0 |-> a][0] = a
        /\ \A i \in 1..0 : [j \in 0..0 |-> a][i] = G[i][[j \in 0..0 |-> a][i - 1]]
    OBVIOUS
  <2> QED
    BY <2>1
<1>2. ASSUME NEW k \in Nat, k \in S PROVE k + 1 \in S
  <2> SUFFICES ASSUME k + 1 <= n
               PROVE  \E f \in [0..k + 1 -> A] : f[0] = a /\ \A i \in 1..k + 1 : f[i] = G[i][f[i - 1]]
    OBVIOUS
  <2>1. PICK f \in [0..k -> A] : f[0] = a /\ \A i \in 1..k : f[i] = G[i][f[i - 1]]
    BY <1>2
  <2> DEFINE g == [i \in 0..k + 1 |-> IF i <= k THEN f[i] ELSE G[k + 1][f[k]]]
  <2>2. g \in [0..k + 1 -> A]
    <3>1. G[k + 1] \in [A -> A] /\ f[k] \in A
      BY <2>1
    <3> QED BY <3>1, <2>1
  <2>3. g[0] = a /\ \A i \in 1..k + 1 : g[i] = G[i][g[i - 1]]
    BY <2>1
  <2> QED
    BY <2>2, <2>3
<1> HIDE DEF S
<1>3. Nat \subseteq S
  BY <1>1, <1>2, SetInduction
<1> QED
  BY <1>3 DEF S

(* Without (the retain of the LRU and recency orders) leaves a sequence of *)
(* what it keeps, and it keeps all else.                                   *)
LEMMA WithoutIs ==
  ASSUME NEW T, NEW s \in Seq(T), NEW S
  PROVE  /\ Without(s, S) \in Seq(T \ S)
         /\ Elems(s) \ S \subseteq Elems(Without(s, S))
<1> DEFINE A == Seq(T \ S)
           Then(x, i) == IF s[i] \in S THEN x ELSE Append(x, s[i])
           G == [i \in 1..Len(s) |-> [x \in A |-> Then(x, i)]]
           kept == CHOOSE f : f = [n \in 0..Len(s) |->
                      IF n = 0 THEN <<>> ELSE IF s[n] \in S THEN f[n - 1] ELSE Append(f[n - 1], s[n])]
<1>0. Without(s, S) = kept[Len(s)]
  BY DEF Without
<1>1. \A x \in A, i \in 1..Len(s) : Then(x, i) \in A
  OBVIOUS
<1>2. <<>> \in A /\ Len(s) \in Nat
  OBVIOUS
<1> HIDE DEF A, Then
<1>3. PICK f \in [0..Len(s) -> A] : f[0] = <<>> /\ \A i \in 1..Len(s) : f[i] = G[i][f[i - 1]]
  <2>1. G \in [1..Len(s) -> [A -> A]]
    BY <1>1
  <2> HIDE DEF G
  <2>2. ASSUME NEW n \in Nat, NEW a \in A, NEW H \in [1..n -> [A -> A]]
        PROVE  \E f \in [0..n -> A] : f[0] = a /\ \A i \in 1..n : f[i] = H[i][f[i - 1]]
    BY Recursion, SMT
  <2> QED BY <2>1, <2>2, <1>2, Zenon
<1>4. \A i \in 1..Len(s) : i - 1 \in 0..Len(s) /\ f[i] = Then(f[i - 1], i)
  BY <1>3, <1>2
<1>5. f = [n \in 0..Len(s) |->
                      IF n = 0 THEN <<>> ELSE IF s[n] \in S THEN f[n - 1] ELSE Append(f[n - 1], s[n])]
  <2>1. \A n \in 0..Len(s) : f[n] = IF n = 0 THEN <<>> ELSE IF s[n] \in S THEN f[n - 1] ELSE Append(f[n - 1], s[n])
    <3> SUFFICES ASSUME NEW n \in 0..Len(s), n # 0
                 PROVE f[n] = IF s[n] \in S THEN f[n - 1] ELSE Append(f[n - 1], s[n])
      BY <1>3
    <3>1. n \in 1..Len(s)
      BY <1>2
    <3> QED BY <3>1, <1>4, Zenon DEF Then
  <2> QED BY <2>1
<1>6. kept = [n \in 0..Len(s) |->
                      IF n = 0 THEN <<>> ELSE IF s[n] \in S THEN kept[n - 1] ELSE Append(kept[n - 1], s[n])]
  BY <1>5
<1> HIDE DEF kept
<1>7. kept[0] = <<>> /\ \A n \in 1..Len(s) : kept[n] = Then(kept[n - 1], n)
  <2>1. kept[0] = <<>>
    BY <1>6, <1>2
  <2>2. ASSUME NEW n \in 1..Len(s) PROVE kept[n] = Then(kept[n - 1], n)
    <3>1. n \in 0..Len(s) /\ n # 0
      BY <1>2
    <3>2. kept[n] = IF n = 0 THEN <<>> ELSE IF s[n] \in S THEN kept[n - 1] ELSE Append(kept[n - 1], s[n])
      BY <3>1, <1>6, Zenon
    <3> QED BY <3>1, <3>2, Zenon DEF Then
  <2> QED BY <2>1, <2>2
<1>8. \A i \in Nat : i <= Len(s) => kept[i] \in A
  <2> DEFINE I == {i \in Nat : i <= Len(s) => kept[i] \in A}
  <2>1. 0 \in I
    BY <1>7, <1>2
  <2>2. ASSUME NEW i \in Nat, i \in I PROVE i + 1 \in I
    <3> SUFFICES ASSUME i + 1 <= Len(s) PROVE kept[i + 1] \in A
      OBVIOUS
    <3>1. kept[i] \in A
      BY <2>2, <1>2
    <3>2. i + 1 \in 1..Len(s) /\ (i + 1) - 1 = i
      BY <1>2
    <3> QED
      BY <3>1, <3>2, <1>1, <1>7
  <2> HIDE DEF I
  <2>3. Nat \subseteq I
    BY <2>1, <2>2, SetInduction
  <2> QED BY <2>3 DEF I
<1>9. \A i \in Nat : i <= Len(s) =>
        \A j \in 1..i : s[j] \notin S => \E k \in 1..Len(kept[i]) : kept[i][k] = s[j]
  <2> DEFINE I == {i \in Nat : i <= Len(s) =>
               \A j \in 1..i : s[j] \notin S => \E k \in 1..Len(kept[i]) : kept[i][k] = s[j]}
  <2>1. 0 \in I
    OBVIOUS
  <2>2. ASSUME NEW i \in Nat, i \in I PROVE i + 1 \in I
    <3> SUFFICES ASSUME i + 1 <= Len(s), NEW j \in 1..(i + 1), s[j] \notin S
                 PROVE  \E k \in 1..Len(kept[i + 1]) : kept[i + 1][k] = s[j]
      OBVIOUS
    <3>1. i + 1 \in 1..Len(s) /\ (i + 1) - 1 = i /\ i <= Len(s)
      BY <1>2
    <3>2. kept[i + 1] = Then(kept[i], i + 1)
      BY <3>1, <1>7
    <3>3. kept[i] \in Seq(T \ S)
      BY <3>1, <1>8 DEF A
    <3>4. CASE j = i + 1
      <4>1. kept[i + 1] = Append(kept[i], s[j])
        BY <3>2, <3>4 DEF Then
      <4>2. Len(kept[i + 1]) = Len(kept[i]) + 1 /\ kept[i + 1][Len(kept[i]) + 1] = s[j]
        BY <3>3, <4>1
      <4> QED
        BY <3>3, <4>2
    <3>5. CASE j \in 1..i
      <4>1. PICK k \in 1..Len(kept[i]) : kept[i][k] = s[j]
        BY <2>2, <3>1, <3>5
      <4>2. kept[i + 1] = kept[i] \/ kept[i + 1] = Append(kept[i], s[i + 1])
        BY <3>2 DEF Then
      <4>3. k \in 1..Len(kept[i + 1]) /\ kept[i + 1][k] = kept[i][k]
        <5> DEFINE q == kept[i]
        <5>1. q \in Seq(T) /\ s[i + 1] \in T /\ k \in 1..Len(q)
          BY <3>1, <3>3, <4>1
        <5>2. kept[i + 1] = q \/ kept[i + 1] = Append(q, s[i + 1])
          BY <4>2
        <5> HIDE DEF q
        <5>3. k \in 1..Len(Append(q, s[i + 1])) /\ Append(q, s[i + 1])[k] = q[k]
          BY <5>1
        <5>4. k \in 1..Len(kept[i + 1]) /\ kept[i + 1][k] = q[k]
          BY <5>1, <5>2, <5>3
        <5> QED BY <5>4 DEF q
      <4> QED
        BY <4>1, <4>3
    <3> QED
      BY <3>4, <3>5
  <2> HIDE DEF I
  <2>3. Nat \subseteq I
    BY <2>1, <2>2, SetInduction
  <2> QED BY <2>3 DEF I
<1>10. Without(s, S) \in Seq(T \ S)
  BY <1>0, <1>2, <1>8 DEF A
<1>11. Elems(s) \ S \subseteq Elems(Without(s, S))
  <2> SUFFICES ASSUME NEW x \in Elems(s), x \notin S PROVE x \in Elems(Without(s, S))
    OBVIOUS
  <2>1. PICK j \in 1..Len(s) : s[j] = x
    BY DEF Elems
  <2>2. PICK k \in 1..Len(kept[Len(s)]) : kept[Len(s)][k] = x
    BY <1>2, <1>9, <2>1
  <2> QED
    BY <1>0, <1>10, <2>2 DEF Elems
<1> QED
  BY <1>10, <1>11
-----------------------------------------------------------------------------
(* Streams and units.                                                      *)

(* A stream is a sequence of at most MaxPages pages, a unit one that is    *)
(* not empty.                                                              *)
LEMMA StreamIs ==
  /\ \A s : s \in Stream <=> s \in Seq(Page) /\ Len(s) <= MaxPages
  /\ \A s : s \in Unit <=> s \in Seq(Page) /\ Len(s) \in 1..MaxPages
<1>1. ASSUME NEW s PROVE s \in Unit <=> s \in Seq(Page) /\ Len(s) \in 1..MaxPages
  <2>1. ASSUME s \in Unit PROVE s \in Seq(Page) /\ Len(s) \in 1..MaxPages
    <3>1. PICK n \in 1..MaxPages : s \in [1..n -> Page]
      BY <2>1 DEF Unit
    <3>2. n \in Nat
      BY MaxPagesAssumption
    <3> QED
      BY <3>1, <3>2
  <2>2. ASSUME s \in Seq(Page), Len(s) \in 1..MaxPages PROVE s \in Unit
    <3>1. s \in [1..Len(s) -> Page]
      BY <2>2
    <3> QED
      BY <2>2, <3>1 DEF Unit
  <2> QED
    BY <2>1, <2>2
<1>2. \A s : s \in Stream <=> s \in Unit \/ s = <<>>
  BY DEF Stream
<1>3. ASSUME NEW s, s \in Seq(Page), Len(s) <= MaxPages, ~(Len(s) \in 1..MaxPages)
      PROVE s = <<>>
  <2>1. Len(s) = 0
    BY <1>3, MaxPagesAssumption
  <2> QED
    BY <1>3, <2>1
<1>4. <<>> \in Seq(Page) /\ Len(<<>>) <= MaxPages
  BY MaxPagesAssumption
<1>5. \A s : s \in Unit => Len(s) <= MaxPages
  BY <1>1, MaxPagesAssumption
<1> QED
  BY <1>1, <1>2, <1>3, <1>4, <1>5

(* The first pages of a stream, and their first pages.                     *)
LEMMA PrefixIs ==
  ASSUME NEW s \in Stream, NEW k \in 0..Len(s)
  PROVE  /\ Prefix(s, k) \in Stream /\ Len(Prefix(s, k)) = k
         /\ k > 0 => Prefix(s, k) \in Unit
         /\ \A i \in 0..k : Prefix(Prefix(s, k), i) = Prefix(s, i)
<1>1. s \in Seq(Page) /\ Len(s) <= MaxPages
  BY StreamIs
<1>2. Prefix(s, k) \in Seq(Page) /\ Len(Prefix(s, k)) = k
  BY <1>1 DEF Prefix
<1>3. \A i \in 0..k : Prefix(Prefix(s, k), i) = Prefix(s, i)
  BY <1>1, <1>2 DEF Prefix
<1> QED
  BY <1>1, <1>2, <1>3, StreamIs, MaxPagesAssumption

(* unit_ids: the units of pages m+1..n are the prefixes that end in them.  *)
LEMMA ChainIs ==
  ASSUME NEW s \in Stream, NEW m \in Nat, NEW n \in Nat, m <= n, n <= Len(s)
  PROVE  /\ Chain(s, m, n) \in Seq(Unit) /\ Len(Chain(s, m, n)) = n - m
         /\ \A i \in 1..(n - m) : Chain(s, m, n)[i] = Prefix(s, m + i)
<1>1. Len(s) \in Nat
  BY StreamIs
<1>2. \A i \in 1..(n - m) : Prefix(s, m + i) \in Unit
  <2> SUFFICES ASSUME NEW i \in 1..(n - m) PROVE Prefix(s, m + i) \in Unit
    OBVIOUS
  <2>1. m + i \in 0..Len(s) /\ m + i > 0
    BY <1>1
  <2> QED
    BY <2>1, PrefixIs
<1> QED
  BY <1>2 DEF Chain

(* lookup_prefix stops at the first unit that is not indexed.              *)
LEMMA HitsIs ==
  ASSUME NEW s \in Stream
  PROVE  /\ Hits(s) \in 0..Len(s)
         /\ \A i \in 1..Hits(s) : Prefix(s, i) \in indexed
         /\ Hits(s) < Len(s) => Prefix(s, Hits(s) + 1) \notin indexed
<1>1. Len(s) \in Nat
  BY StreamIs
<1> DEFINE M == {n \in 0..Len(s) : n = Len(s) \/ Prefix(s, n + 1) \notin indexed}
<1>2. M \subseteq Nat /\ Len(s) \in M
  BY <1>1
<1>3. PICK n \in M : \A m \in M : n <= m
  <2> HIDE DEF M
  <2> QED
    BY <1>2, Least
<1>4. ASSUME NEW i \in 1..n PROVE Prefix(s, i) \in indexed
  <2>1. i - 1 \in 0..Len(s) /\ ~(n <= i - 1) /\ i - 1 # Len(s) /\ (i - 1) + 1 = i
    BY <1>1, <1>3
  <2>2. i - 1 \notin M
    BY <2>1, <1>3
  <2> QED
    BY <2>1, <2>2
<1>5. \E k \in 0..Len(s) :
        /\ \A i \in 1..k : Prefix(s, i) \in indexed
        /\ k < Len(s) => Prefix(s, k + 1) \notin indexed
  BY <1>1, <1>3, <1>4
<1> QED
  BY <1>5, Zenon DEF Hits

(* The elements of a sequence are values of its type, finitely many.       *)
LEMMA ElemsIs ==
  ASSUME NEW T, NEW s \in Seq(T)
  PROVE  /\ Elems(s) \subseteq T
         /\ \A b : b \in Elems(s) <=> \E i \in 1..Len(s) : s[i] = b
         /\ IsFiniteSet(Elems(s))
<1>1. Elems(s) \subseteq T /\ \A b : b \in Elems(s) <=> \E i \in 1..Len(s) : s[i] = b
  BY DEF Elems
<1>2. IsFiniteSet(1..Len(s))
  BY FS_Interval
<1> DEFINE f == [i \in 1..Len(s) |-> s[i]]
<1>3. f \in Surjection(1..Len(s), Elems(s))
  BY <1>1 DEF Surjection
<1>4. IsFiniteSet(Elems(s))
  BY <1>2, <1>3, FS_Surjection
<1> QED
  BY <1>1, <1>4

(* The elements of two sequences joined.                                   *)
LEMMA ConcatElems ==
  ASSUME NEW T, NEW s \in Seq(T), NEW t \in Seq(T)
  PROVE  Elems(s \o t) = Elems(s) \cup Elems(t)
<1>1. s \o t \in Seq(T) /\ Len(s \o t) = Len(s) + Len(t)
  OBVIOUS
<1>2. \A i \in 1..Len(s \o t) : (s \o t)[i] = IF i <= Len(s) THEN s[i] ELSE t[i - Len(s)]
  OBVIOUS
<1>3. ASSUME NEW b \in Elems(s \o t) PROVE b \in Elems(s) \cup Elems(t)
  <2>1. PICK i \in 1..Len(s \o t) : (s \o t)[i] = b
    BY <1>1, ElemsIs
  <2>2. CASE i <= Len(s)
    BY <2>1, <2>2, <1>2, ElemsIs
  <2>3. CASE i > Len(s)
    <3>1. i - Len(s) \in 1..Len(t) /\ t[i - Len(s)] = b
      BY <2>1, <2>3, <1>1, <1>2
    <3> QED
      BY <3>1, ElemsIs
  <2> QED
    BY <2>2, <2>3
<1>4. ASSUME NEW b \in Elems(s) PROVE b \in Elems(s \o t)
  <2>1. PICK i \in 1..Len(s) : s[i] = b
    BY <1>4, ElemsIs
  <2>2. i \in 1..Len(s \o t) /\ (s \o t)[i] = b
    BY <2>1, <1>1, <1>2
  <2> QED
    BY <2>2, <1>1, ElemsIs
<1>5. ASSUME NEW b \in Elems(t) PROVE b \in Elems(s \o t)
  <2>1. PICK i \in 1..Len(t) : t[i] = b
    BY <1>5, ElemsIs
  <2>2. i + Len(s) \in 1..Len(s \o t) /\ (s \o t)[i + Len(s)] = b
    BY <2>1, <1>1, <1>2
  <2> QED
    BY <2>2, <1>1, ElemsIs
<1> QED
  BY <1>3, <1>4, <1>5

(* The part of a sequence after its first n members.                       *)
LEMMA RestIs ==
  ASSUME NEW T, NEW s \in Seq(T), NEW n \in 0..Len(s)
  PROVE  /\ SubSeq(s, n + 1, Len(s)) \in Seq(T)
         /\ Len(SubSeq(s, n + 1, Len(s))) = Len(s) - n
         /\ \A i \in 1..(Len(s) - n) : SubSeq(s, n + 1, Len(s))[i] = s[n + i]
<1> SUFFICES ASSUME n < Len(s)
             PROVE  /\ SubSeq(s, n + 1, Len(s)) \in Seq(T)
                    /\ Len(SubSeq(s, n + 1, Len(s))) = Len(s) - n
                    /\ \A i \in 1..(Len(s) - n) : SubSeq(s, n + 1, Len(s))[i] = s[n + i]
  OBVIOUS
<1> QED
  OBVIOUS

(* The first n elements of a sequence.                                     *)
LEMMA FirstPart ==
  ASSUME NEW T, NEW s \in Seq(T), NEW n \in 0..Len(s)
  PROVE  /\ Prefix(s, n) \in Seq(T) /\ Len(Prefix(s, n)) = n
         /\ \A i \in 1..n : Prefix(s, n)[i] = s[i]
BY DEF Prefix

(* The conversation used least recently among some of the recorded ones is *)
(* one of them.                                                            *)
LEMMA FirstIs ==
  ASSUME NEW cs, cs \subseteq Elems(recent), cs # {}, recent \in Seq(Conv)
  PROVE  First(cs) \in 1..Len(recent) /\ recent[First(cs)] \in cs
<1> DEFINE I == {i \in 1..Len(recent) : recent[i] \in cs}
<1>1. I # {} /\ I \subseteq Nat
  BY DEF Elems
<1> HIDE DEF I
<1>2. PICK i \in I : \A j \in I : i <= j
  BY <1>1, Least
<1> USE DEF I
<1>3. \A j \in 1..(i - 1) : recent[j] \notin cs
  BY <1>2
<1>4. \E k \in DOMAIN recent : recent[k] \in cs /\ \A j \in 1..(k - 1) : recent[j] \notin cs
  BY <1>2, <1>3
<1>5. First(cs) \in DOMAIN recent /\ recent[First(cs)] \in cs
  BY <1>4, Zenon DEF First
<1> QED
  BY <1>5

-----------------------------------------------------------------------------
(* What lies free.                                                         *)

(* While the device is not full the allocator has a block that nobody      *)
(* holds.                                                                  *)
LEMMA LowestFreeIs ==
  ASSUME used \subseteq Block, withheld \in Nat, ~Full
  PROVE  LowestFree \in Block \ used
<1>1. IsFiniteSet(Block) /\ Cardinality(Block) = Capacity
  <2>1. Capacity - 1 \in Int
    BY CapacityAssumption
  <2> QED
    BY <2>1, FS_Interval, CapacityAssumption DEF Block
<1>2. used # Block
  <2>1. Cardinality(used) \in Nat
    BY <1>1, FS_Subset, FS_CardinalityType
  <2> QED
    BY <2>1, <1>1, CapacityAssumption DEF Full
<1> DEFINE F == Block \ used
<1>3. F # {} /\ F \subseteq Nat
  <2>1. F # {}
    BY <1>2
  <2>2. Block \subseteq Nat
    BY CapacityAssumption DEF Block
  <2> QED
    BY <2>1, <2>2
<1>4. \E b \in F : \A d \in F : b <= d
  <2> HIDE DEF F
  <2> QED
    BY <1>3, Least
<1>5. \E b \in Block \ used : \A d \in Block \ used : b <= d
  BY <1>4
<1> QED
  BY <1>5, Zenon DEF LowestFree

(* While the fit allows another host allocation there is a handle that     *)
(* nobody holds.                                                           *)
LEMMA FreeHandleIs ==
  ASSUME hosts \subseteq Handle, Cardinality(hosts) < HostCap
  PROVE  FreeHandle \in Handle \ hosts
<1>1. IsFiniteSet(Handle) /\ Cardinality(Handle) = HostCap
  BY FS_Interval, HostCapAssumption DEF Handle
<1>2. hosts # Handle
  BY <1>1, HostCapAssumption
<1> DEFINE F == Handle \ hosts
<1>3. F # {} /\ F \subseteq Nat
  <2>1. F # {}
    BY <1>2
  <2>2. Handle \subseteq Nat
    BY HostCapAssumption DEF Handle
  <2> QED
    BY <2>1, <2>2
<1>4. \E b \in F : \A d \in F : b <= d
  <2> HIDE DEF F
  <2> QED
    BY <1>3, Least
<1>5. \E b \in Handle \ hosts : \A d \in Handle \ hosts : b <= d
  BY <1>4
<1> QED
  BY <1>5, Zenon DEF FreeHandle

(* The lowest of some slots is one of them.                                *)
LEMMA LowestIs ==
  ASSUME NEW S, S \subseteq Nat, S # {}
  PROVE  Lowest(S) \in S
<1>1. \E s \in S : \A t \in S : s <= t
  BY Least
<1> QED
  BY <1>1, Zenon DEF Lowest

-----------------------------------------------------------------------------
(* What the state is made of, and how far an operation under way has come. *)

Purpose == {"none", "switch", "choose", "tables", "fast", "tail", "fresh", "grow"}
Stage == {"free", "charge", "admit", "switch", "hostroom", "demote", "sweep", "enter",
          "probe", "choose", "tables", "alloc", "headers", "cold", "abandon"}

MemoryTyped ==
  /\ indexed \subseteq Unit
  /\ place \in [Unit -> Placement]
  /\ hosts \subseteq Handle

(* However many labels there are, only so many name anything. *)
ListsTyped ==
  /\ list \in [Conv -> Seq(Unit)]
  /\ IsFiniteSet({c \in Conv : list[c] # <<>>})

OrderTyped == lru \in Seq(Conv) /\ recent \in Seq(Conv)

ConvTyped ==
  /\ known \subseteq Conv /\ spoken \subseteq known
  /\ text \in [Conv -> Stream] /\ sealed \in [Conv -> 0..MaxPages]
  /\ tail \in [Conv -> Seq(Block)]

BooksTyped ==
  /\ used \subseteq Block
  /\ charged \subseteq Slot
  /\ withheld = Cardinality(charged) * SlotPages
  /\ Cardinality(used) + withheld <= Capacity

SlotTyped ==
  /\ occupant \in [Slot -> Conv \cup {NoConv}] /\ cur \in Slot
  /\ table \in [Slot -> Seq(Int)]

RowTyped ==
  /\ running \subseteq Conv /\ seat \in [Conv -> Slot]
  /\ work \in [Conv -> Stream]
  /\ pos \in [Conv -> Nat] /\ room \in [Conv -> Nat]
  /\ \A c \in Conv : pos[c] <= Len(work[c])

DeviceTyped ==
  /\ page \in [Block -> Stream] /\ hostPage \in [Handle -> Stream]
  /\ stored \subseteq Unit

EngTyped ==
  eng \in [at : Stage, conv : Conv \cup {NoConv}, prompt : Stream, slot : Slot,
           then : Purpose, beside : BOOLEAN, resume : Nat, need : Nat,
           out : Seq(Block), plan : SUBSET (Unit \X Int), todo : SUBSET Unit,
           drop : SUBSET Conv]

(* The moves prepared are of units that still wait where they did. *)
PlanAgrees ==
  /\ eng.plan # {} => At("demote") \/ At("probe")
  /\ At("demote") => \A m \in eng.plan : OnDevice(m[1]) /\ m[2] \in Handle
  /\ At("probe") => \A m \in eng.plan : m[1] \in HostHits /\ m[2] \in Block

EngAgrees ==
  /\ ~At("free") => eng.conv \in Conv
  /\ eng.resume <= Len(eng.prompt)
  /\ eng.out # <<>> =>
       (At("alloc") \/ At("hostroom") \/ At("demote")) /\ eng.then # "switch"
  /\ At("hostroom") \/ At("demote") => IsFiniteSet(eng.todo)
  /\ At("demote") => Cardinality(hosts) + Cardinality(eng.todo) <= HostCap
  /\ At("probe") => eng.then \in {"choose", "tables"}
  /\ At("alloc") => eng.then \in {"fast", "tail", "fresh", "grow"}
  /\ At("hostroom") \/ At("demote") => eng.then \in {"switch", "fast", "tail", "fresh", "grow"}
  /\ At("choose") =>
       LET n == Len(list[eng.conv])
       IN  n <= Len(eng.prompt) /\ list[eng.conv] = Chain(eng.prompt, 0, n)
  /\ (At("alloc") \/ At("hostroom") \/ At("demote")) /\ eng.then = "fresh"
       => Len(eng.out) + eng.need <= eng.resume

StateTyped ==
  /\ MemoryTyped /\ ListsTyped /\ OrderTyped /\ ConvTyped /\ BooksTyped /\ SlotTyped
  /\ RowTyped /\ DeviceTyped

Typed == StateTyped /\ EngTyped /\ PlanAgrees /\ EngAgrees

-----------------------------------------------------------------------------
(* The operations that several actions share.                              *)

(* Freeing blocks keeps the books.                                         *)
LEMMA BooksShrink ==
  ASSUME BooksTyped, used' \subseteq used, UNCHANGED <<charged, withheld>>
  PROVE  BooksTyped'
<1>1. IsFiniteSet(Block)
  BY FS_Interval, CapacityAssumption DEF Block
<1>2. IsFiniteSet(used)
  BY <1>1, FS_Subset DEF BooksTyped
<1>3. Cardinality(used) \in Nat /\ Cardinality(used') \in Nat
      /\ Cardinality(used') <= Cardinality(used)
  BY <1>2, FS_Subset, FS_CardinalityType
<1>4. withheld \in Nat
  <2>1. IsFiniteSet(Slot)
    BY FS_Interval, SlotsAssumption DEF Slot
  <2>2. Cardinality(charged) \in Nat
    BY <2>1, FS_Subset, FS_CardinalityType DEF BooksTyped
  <2> QED
    BY <2>2, RetainedAssumption DEF BooksTyped
<1> QED
  BY <1>3, <1>4, CapacityAssumption DEF BooksTyped

(* What is in use and what is withheld can be counted.                     *)
LEMMA BooksAre ==
  ASSUME BooksTyped
  PROVE  /\ withheld \in Nat
         /\ IsFiniteSet(used) /\ Cardinality(used) \in Nat
         /\ IsFiniteSet(charged) /\ Cardinality(charged) \in Nat
<1>1. IsFiniteSet(Block) /\ IsFiniteSet(Slot)
  BY FS_Interval, CapacityAssumption, SlotsAssumption DEF Block, Slot
<1>2. IsFiniteSet(used) /\ Cardinality(used) \in Nat
      /\ IsFiniteSet(charged) /\ Cardinality(charged) \in Nat
  BY <1>1, FS_Subset, FS_CardinalityType DEF BooksTyped
<1> QED
  BY <1>2, RetainedAssumption DEF BooksTyped

(* Taking the lowest free block while the device is not full keeps the     *)
(* books.                                                                  *)
LEMMA BooksTake ==
  ASSUME BooksTyped, ~Full, used' = used \cup {LowestFree}, UNCHANGED <<charged, withheld>>
  PROVE  BooksTyped' /\ LowestFree \in Block \ used
<1>1. withheld \in Nat /\ IsFiniteSet(used) /\ Cardinality(used) \in Nat
  BY BooksAre
<1>2. LowestFree \in Block \ used
  BY <1>1, LowestFreeIs DEF BooksTyped
<1>3. Cardinality(used') = Cardinality(used) + 1
  BY <1>1, <1>2, FS_AddElement
<1> QED
  BY <1>1, <1>2, <1>3, CapacityAssumption DEF BooksTyped, Full

(* An eviction keeps the types of the memory and takes no block.           *)
LEMMA EvictTyped ==
  ASSUME StateTyped, NEW counts, NEW blocks, Evict(counts, blocks)
  PROVE  MemoryTyped' /\ used' \subseteq used
<1>1. Nowhere \in Placement
  BY DEF Placement
<1> QED
  BY <1>1 DEF Evict, StateTyped, MemoryTyped

(* So does a departure, with the types of the lists and records.           *)
LEMMA LeaveTyped ==
  ASSUME StateTyped, NEW cs, cs \subseteq Conv, Leave(cs)
  PROVE  /\ MemoryTyped' /\ ListsTyped' /\ OrderTyped' /\ ConvTyped' /\ used' \subseteq used
         /\ occupant' \in [Slot -> Conv \cup {NoConv}]
<1>1. MemoryTyped' /\ used' \subseteq used
  BY EvictTyped DEF Leave, Forget
<1>2. ListsTyped'
  <2>1. list' = [c \in Conv |-> IF c \in cs THEN <<>> ELSE list[c]]
    BY DEF Leave, Forget
  <2>2. list' \in [Conv -> Seq(Unit)]
    BY <2>1 DEF StateTyped, ListsTyped
  <2>3. {c \in Conv : list'[c] # <<>>} \in SUBSET {c \in Conv : list[c] # <<>>}
    BY <2>1
  <2> QED
    BY <2>2, <2>3, FS_Subset DEF StateTyped, ListsTyped
<1>3. OrderTyped'
  <2>1. lru' = Without(lru, cs) /\ recent' = Without(recent, cs)
    BY DEF Leave, Forget, Drop
  <2>2. Without(lru, cs) \in Seq(Conv \ cs) /\ Without(recent, cs) \in Seq(Conv \ cs)
    BY WithoutIs DEF StateTyped, OrderTyped
  <2> QED
    BY <2>1, <2>2 DEF OrderTyped
<1>4. ConvTyped'
  BY MaxPagesAssumption DEF Leave, Drop, StateTyped, ConvTyped, Stream
<1>5. occupant' \in [Slot -> Conv \cup {NoConv}]
  BY DEF Leave, Vacate, StateTyped, SlotTyped
<1> QED
  BY <1>1, <1>2, <1>3, <1>4, <1>5

(* Moving a label to the end of an order.                                  *)
LEMMA TouchTyped ==
  ASSUME NEW s \in Seq(Conv), NEW c \in Conv
  PROVE  /\ Touch(s, c) \in Seq(Conv)
         /\ Elems(s) \cup {c} \subseteq Elems(Touch(s, c))
<1> DEFINE w == Without(s, {c})
<1>1. w \in Seq(Conv \ {c}) /\ Elems(s) \ {c} \subseteq Elems(w)
  BY WithoutIs
<1>2. Touch(s, c) = Append(w, c) /\ w \in Seq(Conv)
  BY <1>1 DEF Touch
<1> HIDE DEF w
<1>3. Touch(s, c) \in Seq(Conv)
  BY <1>2
<1>4. /\ Len(Touch(s, c)) = Len(w) + 1 /\ Touch(s, c)[Len(w) + 1] = c
      /\ \A i \in 1..Len(w) : i \in 1..(Len(w) + 1) /\ Touch(s, c)[i] = w[i]
  BY <1>2
<1>5. Elems(w) \cup {c} \subseteq Elems(Touch(s, c))
  BY <1>2, <1>4 DEF Elems
<1> QED
  BY <1>1, <1>3, <1>5

(* An operation that is over has nothing under way.                        *)
LEMMA FreeTyped ==
  ASSUME eng' = Free
  PROVE  EngTyped' /\ PlanAgrees' /\ EngAgrees'
<1>1. <<>> \in Stream /\ 0 \in Slot
  BY SlotsAssumption DEF Stream, Slot
<1>2. EngTyped'
  BY <1>1 DEF EngTyped, Free, Stage, Purpose
<1>3. PlanAgrees' /\ EngAgrees'
  BY DEF PlanAgrees, EngAgrees, Free, At
<1> QED
  BY <1>2, <1>3

(* An operation that failed has given up what it had prepared.             *)
LEMMA FailTyped ==
  ASSUME EngTyped, eng.conv \in Conv, eng.prompt \in Stream, NEW blocks, Fail(blocks)
  PROVE  EngTyped' /\ PlanAgrees' /\ EngAgrees' /\ used' \subseteq used
<1>1. 0 \in Slot /\ Len(eng.prompt) \in Nat
  BY SlotsAssumption, StreamIs DEF Slot
<1>2. EngTyped'
  <2>1. eng' = [Free EXCEPT !.at = IF eng.then = "grow" THEN "abandon" ELSE "cold",
                            !.conv = eng.conv, !.prompt = eng.prompt]
    BY DEF Fail
  <2>2. eng' = [at |-> IF eng.then = "grow" THEN "abandon" ELSE "cold", conv |-> eng.conv,
                prompt |-> eng.prompt, slot |-> 0, then |-> "none", beside |-> FALSE,
                resume |-> 0, need |-> 0, out |-> <<>>, plan |-> {}, todo |-> {}, drop |-> {}]
    BY <2>1 DEF Free
  <2> QED
    BY <2>2, <1>1 DEF EngTyped, Stage, Purpose
<1>3. PlanAgrees' /\ EngAgrees'
  BY <1>1 DEF Fail, PlanAgrees, EngAgrees, Free, At
<1> QED
  BY <1>2, <1>3 DEF Fail

(* What a prompt matches depends on the index alone.                       *)
LEMMA SameHits ==
  ASSUME UNCHANGED indexed, NEW s
  PROVE  Hits(s)' = Hits(s) /\ Matched(s)' = Matched(s)
<1>1. Hits(s)' = Hits(s)
  BY DEF Hits
<1> QED
  BY <1>1 DEF Matched

(* Steps that change counts, history and the operation under way only.     *)
LEMMA StateSame ==
  ASSUME StateTyped,
         UNCHANGED <<indexed, place, list, lru, used, hosts, convVars, recent, slotVars,
                     rowVars, deviceVars, stored>>
  PROVE  StateTyped'
BY DEF StateTyped, MemoryTyped, ListsTyped, OrderTyped, ConvTyped, BooksTyped, SlotTyped,
       RowTyped, DeviceTyped, convVars, slotVars, rowVars, deviceVars

-----------------------------------------------------------------------------
(* A request is admitted.                                                  *)

(* choose_slot chooses a slot.                                             *)
LEMMA ChosenIs ==
  ASSUME cur \in Slot, NEW c
  PROVE  Chosen(c) \subseteq Slot
<1> DEFINE own == {s \in Slot : occupant[s] = c}
           empty == {s \in Slot : occupant[s] = NoConv}
           idle == {s \in Slot : occupant[s] \notin running}
<1>1. Slot \subseteq Nat
  BY SlotsAssumption DEF Slot
<1>2. empty # {} => Lowest(empty) \in Slot
  <2>1. empty \subseteq Nat /\ empty \subseteq Slot
    BY <1>1
  <2> HIDE DEF empty
  <2> QED
    BY <2>1, LowestIs
<1>3. idle # {} => Lowest(idle) \in Slot
  <2>1. idle \subseteq Nat /\ idle \subseteq Slot
    BY <1>1
  <2> HIDE DEF idle
  <2> QED
    BY <2>1, LowestIs
<1>4. own \subseteq Slot
  OBVIOUS
<1>5. Chosen(c) = CASE own # {} -> own
        [] own = {} /\ cur \in idle -> {cur}
        [] own = {} /\ cur \notin idle /\ empty # {} -> {Lowest(empty)}
        [] own = {} /\ cur \notin idle /\ empty = {} /\ idle # {} -> {Lowest(idle)}
        [] OTHER -> {}
  BY DEF Chosen
<1> HIDE DEF own, empty, idle
<1> QED
  BY <1>2, <1>3, <1>4, <1>5

(* A request begins.                                                       *)
LEMMA BeginTyped ==
  ASSUME Typed, NEW c \in Conv, NEW p \in Stream, Begin(c, p)
  PROVE  Typed'
<1>1. PICK s \in Chosen(c) :
        eng' = [Free EXCEPT !.at = "charge", !.conv = c, !.prompt = p, !.slot = s]
  BY DEF Begin
<1>2. s \in Slot
  BY ChosenIs DEF Typed, StateTyped, SlotTyped
<1>3. StateTyped'
  BY StateSame DEF Begin, Typed, indexVars
<1>4. eng' = [at |-> "charge", conv |-> c, prompt |-> p, slot |-> s, then |-> "none",
              beside |-> FALSE, resume |-> 0, need |-> 0, out |-> <<>>, plan |-> {},
              todo |-> {}, drop |-> {}]
  BY <1>1 DEF Free
<1>5. EngTyped'
  BY <1>2, <1>4 DEF EngTyped, Stage, Purpose
<1>6. PlanAgrees' /\ EngAgrees'
  BY <1>4, StreamIs DEF PlanAgrees, EngAgrees, At
<1> QED
  BY <1>3, <1>5, <1>6 DEF Typed

(* It is charged and admitted, or waits.                                   *)
LEMMA AdmittingTyped ==
  ASSUME Typed, Admitting
  PROVE  Typed'
<1>1. ASSUME ChargeSlot PROVE Typed'
  <2>1. BooksTyped'
    <3>1. CASE NothingToCharge
      BY <1>1, <3>1 DEF ChargeSlot, Typed, StateTyped, BooksTyped
    <3>2. CASE ~NothingToCharge
      <4>1. /\ withheld' = (Cardinality(charged) + 1) * SlotPages
            /\ Cardinality(used) + withheld' <= Capacity
            /\ charged' = charged \cup {eng.slot} /\ used' = used
        BY <1>1, <3>2 DEF ChargeSlot, CanWithhold, Wanted
      <4>2. eng.slot \in Slot /\ eng.slot \notin charged
        BY <3>2 DEF NothingToCharge, Typed, EngTyped
      <4>3. Cardinality(charged') = Cardinality(charged) + 1
        BY <4>1, <4>2, BooksAre, FS_AddElement DEF Typed, StateTyped
      <4> QED
        BY <4>1, <4>2, <4>3 DEF Typed, StateTyped, BooksTyped
    <3> QED
      BY <3>1, <3>2
  <2>2. StateTyped'
    BY <1>1, <2>1 DEF ChargeSlot, Typed, StateTyped, MemoryTyped, ListsTyped, OrderTyped,
       ConvTyped, SlotTyped, RowTyped, DeviceTyped, EngTyped, indexVars, convVars, rowVars,
       deviceVars
  <2>3. EngTyped'
    BY <1>1 DEF ChargeSlot, GoTo, Typed, EngTyped, Stage
  <2>4. PlanAgrees' /\ EngAgrees'
    BY <1>1 DEF ChargeSlot, GoTo, At, Typed, EngTyped, PlanAgrees, EngAgrees
  <2> QED
    BY <2>2, <2>3, <2>4 DEF Typed
<1>2. ASSUME DoNotCharge PROVE Typed'
  <2>1. StateTyped'
    BY <1>2, StateSame DEF DoNotCharge, Typed, indexVars
  <2> QED
    BY <1>2, <2>1, FreeTyped DEF DoNotCharge, Typed
<1>3. ASSUME Admit PROVE Typed'
  <2>1. StateTyped'
    BY <1>3, StateSame DEF Admit, Typed, indexVars
  <2>2. CASE eng' = Free
    BY <2>1, <2>2, FreeTyped DEF Typed
  <2>3. CASE eng' = [eng EXCEPT !.at = "switch"] \/ eng' = [eng EXCEPT !.at = "switch", !.beside = TRUE]
    <3>1. EngTyped'
      <4>1. CASE eng' = [eng EXCEPT !.at = "switch"]
        BY <4>1 DEF Typed, EngTyped, Stage
      <4>2. CASE eng' = [eng EXCEPT !.at = "switch", !.beside = TRUE]
        BY <4>2 DEF Typed, EngTyped, Stage
      <4> QED
        BY <2>3, <4>1, <4>2
    <3>2. PlanAgrees' /\ EngAgrees'
      BY <1>3, <2>3 DEF Admit, At, Typed, EngTyped, PlanAgrees, EngAgrees
    <3> QED
      BY <2>1, <3>1, <3>2 DEF Typed
  <2> QED
    BY <1>3, <2>2, <2>3 DEF Admit
<1> QED
  BY <1>1, <1>2, <1>3 DEF Admitting

-----------------------------------------------------------------------------
(* Room is made.                                                           *)

(* A step that leaves the operation under way where no agreement is about  *)
(* the memory.                                                             *)
LEMMA EngStays ==
  ASSUME Typed, eng' = eng, ~At("demote"), ~At("probe"), ~At("choose")
  PROVE  EngTyped' /\ PlanAgrees' /\ EngAgrees'
BY DEF Typed, EngTyped, PlanAgrees, EngAgrees, At

(* What leaving does when nothing else moves but the disk.                 *)
LEMMA LeaveOnly ==
  ASSUME Typed, NEW cs, cs \subseteq Conv, Leave(cs), stored' \subseteq Unit,
         UNCHANGED <<cur, charged, withheld, rowVars, deviceVars>>
  PROVE  StateTyped'
<1>1. /\ MemoryTyped' /\ ListsTyped' /\ OrderTyped' /\ ConvTyped' /\ used' \subseteq used
      /\ occupant' \in [Slot -> Conv \cup {NoConv}]
  BY LeaveTyped DEF Typed
<1>2. BooksTyped'
  BY <1>1, BooksShrink DEF Typed, StateTyped
<1>3. SlotTyped' /\ RowTyped' /\ DeviceTyped'
  BY <1>1 DEF Typed, StateTyped, SlotTyped, RowTyped, DeviceTyped, rowVars, deviceVars
<1> QED
  BY <1>1, <1>2, <1>3 DEF StateTyped

(* The units some conversations name are finitely many.                    *)
LEMMA UnitsFinite ==
  ASSUME ListsTyped, NEW cs, cs \subseteq Conv
  PROVE  IsFiniteSet(UnitsOf(cs)) /\ UnitsOf(cs) \subseteq Unit
<1> DEFINE A == {c \in Conv : list[c] # <<>>}
           f == [c \in A \cap cs |-> Elems(list[c])]
           B == {f[c] : c \in A \cap cs}
<1>1. \A c \in Conv : Elems(list[c]) \subseteq Unit /\ IsFiniteSet(Elems(list[c]))
  BY ElemsIs DEF ListsTyped
<1>2. \A c \in Conv : list[c] = <<>> => Elems(list[c]) = {}
  BY DEF Elems
<1>3. UnitsOf(cs) = UNION B
  BY <1>2 DEF UnitsOf
<1>4. IsFiniteSet(A \cap cs)
  BY FS_Subset DEF ListsTyped
<1>5. f \in Surjection(A \cap cs, B)
  BY DEF Surjection
<1>6. \A T \in B : IsFiniteSet(T)
  BY <1>1
<1>7. UnitsOf(cs) \subseteq Unit
  BY <1>1 DEF UnitsOf
<1> HIDE DEF A, f, B
<1>8. IsFiniteSet(B)
  BY <1>4, <1>5, FS_Surjection
<1> QED
  BY <1>3, <1>6, <1>7, <1>8, FS_UNION

(* Room is made by evicting and dropping, and on the host by spilling.     *)
LEMMA RoomTyped ==
  ASSUME Typed, EvictUnreferenced \/ DropLru \/ EvictHostToDisk \/ NoHostRoom \/ Roomy
  PROVE  Typed'
<1>1. ASSUME EvictUnreferenced PROVE Typed'
  <2>1. MemoryTyped' /\ used' \subseteq used
    BY <1>1, EvictTyped DEF EvictUnreferenced, Typed
  <2>2. BooksTyped'
    BY <1>1, <2>1, BooksShrink DEF EvictUnreferenced, Typed, StateTyped, slotVars
  <2>3. StateTyped'
    BY <1>1, <2>1, <2>2 DEF EvictUnreferenced, Typed, StateTyped, ListsTyped, OrderTyped,
       ConvTyped, SlotTyped, RowTyped, DeviceTyped, convVars, slotVars, rowVars, deviceVars
  <2>4. EngTyped' /\ PlanAgrees' /\ EngAgrees'
    BY <1>1, EngStays DEF EvictUnreferenced, RoomWanted, At
  <2> QED
    BY <2>3, <2>4 DEF Typed
<1>2. ASSUME DropLru PROVE Typed'
  <2>1. PICK i \in DOMAIN lru : Leave({lru[i]})
    BY <1>2 DEF DropLru
  <2>2. {lru[i]} \subseteq Conv
    BY DEF Typed, StateTyped, OrderTyped
  <2>3. StateTyped'
    BY <1>2, <2>1, <2>2, LeaveOnly DEF DropLru, Typed, StateTyped, DeviceTyped
  <2>4. EngTyped' /\ PlanAgrees' /\ EngAgrees'
    BY <1>2, EngStays DEF DropLru, RoomWanted, At
  <2> QED
    BY <2>3, <2>4 DEF Typed
<1>3. ASSUME EvictHostToDisk PROVE Typed'
  <2> DEFINE c == recent[First(Spillable)]
  <2>1. c \in Conv
    <3>1. Spillable \subseteq Elems(recent)
      BY DEF Spillable
    <3> QED
      BY <1>3, <3>1, FirstIs DEF EvictHostToDisk, Typed, StateTyped, OrderTyped
  <2>2. stored' = stored \cup LastCopies(c) /\ Leave({c})
    BY <1>3 DEF EvictHostToDisk
  <2>3. LastCopies(c) \subseteq Unit
    BY <2>1, ElemsIs DEF LastCopies, Typed, StateTyped, ListsTyped
  <2> HIDE DEF c
  <2>4. StateTyped'
    BY <1>3, <2>1, <2>2, <2>3, LeaveOnly DEF EvictHostToDisk, Typed, StateTyped, DeviceTyped
  <2>5. EngTyped' /\ PlanAgrees' /\ EngAgrees'
    BY <1>3, EngStays DEF EvictHostToDisk, At
  <2> QED
    BY <2>4, <2>5 DEF Typed
<1>4. ASSUME NoHostRoom PROVE Typed'
  <2>1. EngTyped' /\ PlanAgrees' /\ EngAgrees' /\ used' = used
    <3>1. eng.conv \in Conv /\ eng.prompt \in Stream /\ Fail({}) /\ used' = used \ {}
      BY <1>4 DEF NoHostRoom, Fail, Typed, EngTyped, EngAgrees, At
    <3> QED
      BY <3>1, FailTyped DEF Typed
  <2>2. StateTyped'
    BY <1>4, <2>1, StateSame DEF NoHostRoom, Typed, indexVars
  <2> QED
    BY <2>1, <2>2 DEF Typed
<1>5. ASSUME Roomy PROVE Typed'
  <2>1. StateTyped'
    BY <1>5, StateSame DEF Roomy, Typed, indexVars
  <2>2. EngTyped'
    BY <1>5 DEF Roomy, GoTo, Typed, EngTyped, Stage
  <2>3. PlanAgrees' /\ EngAgrees'
    BY <1>5 DEF Roomy, GoTo, HostRoom, At, Typed, EngTyped, PlanAgrees, EngAgrees
  <2> QED
    BY <2>1, <2>2, <2>3 DEF Typed
<1> QED
  BY <1>1, <1>2, <1>3, <1>4, <1>5

(* Units are moved to the host, or the move fails.                         *)
LEMMA DemotionTyped ==
  ASSUME Typed, PrepareDemote \/ Demote \/ DemoteFails \/ DemoteIdle
  PROVE  Typed'
<1>1. ASSUME PrepareDemote PROVE Typed'
  <2>1. PICK u \in eng.todo :
          IF OnDevice(u)
          THEN /\ hosts' = hosts \cup {FreeHandle}
               /\ eng' = [eng EXCEPT !.todo = @ \ {u}, !.plan = @ \cup {<<u, FreeHandle>>}]
          ELSE /\ eng' = [eng EXCEPT !.todo = @ \ {u}]
               /\ UNCHANGED hosts
    BY <1>1 DEF PrepareDemote
  <2>2. u \in Unit /\ IsFiniteSet(eng.todo) /\ At("demote")
        /\ Cardinality(hosts) + Cardinality(eng.todo) <= HostCap
    BY <1>1 DEF PrepareDemote, Typed, EngTyped, EngAgrees
  <2>3. IsFiniteSet(eng.todo \ {u}) /\ Cardinality(eng.todo \ {u}) = Cardinality(eng.todo) - 1
    BY <2>1, <2>2, FS_RemoveElement
  <2>4. IsFiniteSet(hosts) /\ Cardinality(hosts) \in Nat /\ Cardinality(eng.todo) \in Nat
        /\ Cardinality(eng.todo \ {u}) \in Nat
    <3>1. IsFiniteSet(Handle)
      BY FS_Interval, HostCapAssumption DEF Handle
    <3> QED
      BY <2>2, <2>3, <3>1, FS_Subset, FS_CardinalityType DEF Typed, StateTyped, MemoryTyped
  <2>5. CASE OnDevice(u)
    <3>1. FreeHandle \in Handle \ hosts
      BY <2>2, <2>3, <2>4, FreeHandleIs, HostCapAssumption DEF Typed, StateTyped, MemoryTyped
    <3>2. hosts' = hosts \cup {FreeHandle}
          /\ eng' = [eng EXCEPT !.todo = @ \ {u}, !.plan = @ \cup {<<u, FreeHandle>>}]
      BY <2>1, <2>5
    <3>3. Cardinality(hosts') = Cardinality(hosts) + 1
      BY <2>4, <3>1, <3>2, FS_AddElement
    <3>4. StateTyped'
      BY <1>1, <3>1, <3>2 DEF PrepareDemote, Typed, StateTyped, MemoryTyped, ListsTyped,
         OrderTyped, ConvTyped, BooksTyped, SlotTyped, RowTyped, DeviceTyped, indexVars,
         convVars, slotVars, rowVars, deviceVars
    <3>5. EngTyped'
      <4>1. FreeHandle \in Int
        BY <3>1 DEF Handle
      <4>2. eng.plan \cup {<<u, FreeHandle>>} \in SUBSET (Unit \X Int)
            /\ eng.todo \ {u} \in SUBSET Unit
        BY <2>2, <4>1 DEF Typed, EngTyped
      <4> QED
        BY <3>2, <4>2 DEF Typed, EngTyped
    <3>6. PlanAgrees'
      <4>1. eng'.plan = eng.plan \cup {<<u, FreeHandle>>} /\ eng'.at = "demote"
            /\ UNCHANGED place
        BY <1>1, <2>2, <3>2 DEF PrepareDemote, At, Typed, EngTyped, indexVars
      <4>2. \A m \in eng'.plan : OnDevice(m[1]) /\ m[2] \in Handle
        BY <2>2, <2>5, <3>1, <4>1 DEF Typed, PlanAgrees
      <4> QED
        BY <4>1, <4>2 DEF PlanAgrees, At, OnDevice
    <3>7. EngAgrees'
      BY <1>1, <2>2, <2>3, <2>4, <3>2, <3>3 DEF At, Typed, EngTyped, EngAgrees
    <3> QED
      BY <3>4, <3>5, <3>6, <3>7 DEF Typed
  <2>6. CASE ~OnDevice(u)
    <3>1. eng' = [eng EXCEPT !.todo = @ \ {u}] /\ UNCHANGED hosts
      BY <2>1, <2>6
    <3>2. StateTyped'
      BY <1>1, <3>1, StateSame DEF PrepareDemote, Typed, indexVars
    <3>3. EngTyped'
      BY <3>1 DEF Typed, EngTyped
    <3>4. PlanAgrees'
      BY <1>1, <2>2, <3>1 DEF PrepareDemote, At, OnDevice, Typed, EngTyped, PlanAgrees, indexVars
    <3>5. EngAgrees'
      <4>1. /\ eng'.todo = eng.todo \ {u} /\ eng'.at = "demote" /\ eng'.out = eng.out
            /\ eng'.then = eng.then /\ eng'.resume = eng.resume /\ eng'.need = eng.need
            /\ eng'.conv = eng.conv /\ eng'.prompt = eng.prompt /\ hosts' = hosts
        BY <2>2, <3>1 DEF At, Typed, EngTyped
      <4>2. Cardinality(hosts') + Cardinality(eng'.todo) <= HostCap
        BY <2>2, <2>3, <2>4, <4>1, HostCapAssumption
      <4> QED
        BY <2>2, <2>3, <4>1, <4>2 DEF At, Typed, EngAgrees
    <3> QED
      BY <3>2, <3>3, <3>4, <3>5 DEF Typed
  <2> QED
    BY <2>5, <2>6
<1>2. ASSUME Demote PROVE Typed'
  <2>1. \A m \in eng.plan : m \in Unit \X Int /\ OnDevice(m[1]) /\ m[2] \in Handle
    BY <1>2 DEF Demote, Typed, EngTyped, PlanAgrees
  <2>2. MemoryTyped'
    <3>1. \A u \in Unit : Moved(u) => Host(Target(u)) \in Placement
      <4> SUFFICES ASSUME NEW u \in Unit, Moved(u) PROVE Host(Target(u)) \in Placement
        OBVIOUS
      <4>1. \E m \in eng.plan : m[1] = u
        BY DEF Moved
      <4>2. Target(u) \in Handle
        BY <4>1, <2>1, Zenon DEF Target
      <4> QED
        BY <4>2 DEF Placement
    <3> QED
      BY <1>2, <3>1 DEF Demote, Typed, StateTyped, MemoryTyped
  <2>3. BooksTyped'
    BY <1>2, BooksShrink DEF Demote, Typed, StateTyped
  <2>4. ConvTyped'
    BY <1>2 DEF Demote, Typed, StateTyped, ConvTyped
  <2>5. hostPage' \in [Handle -> Stream]
    <3>1. \A k \in Targets : page[place[(CHOOSE m \in eng.plan : m[2] = k)[1]][2]] \in Stream
      <4> SUFFICES ASSUME NEW k \in Targets
                   PROVE page[place[(CHOOSE m \in eng.plan : m[2] = k)[1]][2]] \in Stream
        OBVIOUS
      <4> DEFINE m == CHOOSE m \in eng.plan : m[2] = k
      <4>1. m \in eng.plan
        BY Zenon DEF Targets
      <4> HIDE DEF m
      <4>2. place[m[1]] \in Placement /\ OnDevice(m[1])
        BY <4>1, <2>1 DEF Typed, StateTyped, MemoryTyped
      <4>3. place[m[1]][2] \in Block
        BY <4>2 DEF Placement, OnDevice, Device, Host, Nowhere
      <4> QED
        BY <4>3 DEF m, Typed, StateTyped, DeviceTyped
    <3>2. hostPage' = CopiedToHost
      BY <1>2 DEF Demote
    <3> QED
      BY <3>1, <3>2 DEF CopiedToHost, Typed, StateTyped, DeviceTyped
  <2>6. ListsTyped' /\ OrderTyped' /\ SlotTyped' /\ RowTyped' /\ DeviceTyped'
    BY <1>2, <2>5 DEF Demote, Typed, StateTyped, ListsTyped, OrderTyped, SlotTyped, RowTyped,
       DeviceTyped, rowVars
  <2>7. StateTyped'
    BY <2>2, <2>3, <2>4, <2>6 DEF StateTyped
  <2>8. EngTyped'
    BY <1>2 DEF Demote, Typed, EngTyped, Stage
  <2>9. PlanAgrees' /\ EngAgrees'
    BY <1>2 DEF Demote, At, Typed, EngTyped, PlanAgrees, EngAgrees
  <2> QED
    BY <2>7, <2>8, <2>9 DEF Typed
<1>3. ASSUME DemoteFails PROVE Typed'
  <2>1. EngTyped' /\ PlanAgrees' /\ EngAgrees' /\ used' = used
    <3>1. eng.conv \in Conv /\ eng.prompt \in Stream /\ Fail({}) /\ used' = used \ {}
      BY <1>3 DEF DemoteFails, Fail, Typed, EngTyped, EngAgrees, At
    <3> QED
      BY <3>1, FailTyped DEF Typed
  <2>2. StateTyped'
    BY <1>3, <2>1 DEF DemoteFails, HandlesBack, Typed, StateTyped, MemoryTyped, ListsTyped,
       OrderTyped, ConvTyped, BooksTyped, SlotTyped, RowTyped, DeviceTyped, indexVars,
       convVars, slotVars, rowVars, deviceVars
  <2> QED
    BY <2>1, <2>2 DEF Typed
<1>4. ASSUME DemoteIdle PROVE Typed'
  <2> DEFINE c == recent[First(Demotable)]
  <2>1. c \in Conv
    <3>1. Demotable \subseteq Elems(recent)
      BY DEF Demotable
    <3> QED
      BY <1>4, <3>1, FirstIs DEF DemoteIdle, Typed, StateTyped, OrderTyped
  <2>2. IF Movable(c) = {}
        THEN /\ used' = used \ Elems(tail[c])
             /\ tail' = [tail EXCEPT ![c] = <<>>]
             /\ UNCHANGED eng
        ELSE /\ eng' = [eng EXCEPT !.at = "hostroom", !.todo = Movable(c), !.drop = {c}]
             /\ UNCHANGED <<used, tail>>
    BY <1>4 DEF DemoteIdle
  <2>3. IsFiniteSet(Movable(c)) /\ Movable(c) \subseteq Unit
    <3>1. IsFiniteSet(Elems(list[c])) /\ Elems(list[c]) \subseteq Unit
      BY <2>1, ElemsIs DEF Typed, StateTyped, ListsTyped
    <3>2. Movable(c) \in SUBSET Elems(list[c])
      BY DEF Movable
    <3> HIDE DEF c
    <3> QED
      BY <3>1, <3>2, FS_Subset
  <2> HIDE DEF c
  <2>4. used' \subseteq used /\ UNCHANGED <<charged, withheld>>
    BY <1>4, <2>2 DEF DemoteIdle, slotVars
  <2>5. BooksTyped'
    BY <2>4, BooksShrink DEF Typed, StateTyped
  <2>6. ConvTyped'
    <3>1. tail' \in [Conv -> Seq(Block)]
      <4>1. tail' = tail \/ tail' = [tail EXCEPT ![c] = <<>>]
        BY <2>2
      <4>2. tail \in [Conv -> Seq(Block)] /\ <<>> \in Seq(Block)
        BY DEF Typed, StateTyped, ConvTyped
      <4> QED
        BY <2>1, <4>1, <4>2
    <3> QED
      BY <1>4, <3>1 DEF DemoteIdle, Typed, StateTyped, ConvTyped
  <2>7. StateTyped'
    BY <1>4, <2>5, <2>6 DEF DemoteIdle, Typed, StateTyped, MemoryTyped, ListsTyped, OrderTyped,
       SlotTyped, RowTyped, DeviceTyped, indexVars, slotVars, rowVars, deviceVars
  <2>8. EngTyped' /\ PlanAgrees' /\ EngAgrees'
    <3>1. CASE Movable(c) = {}
      BY <1>4, <2>2, <3>1, EngStays DEF DemoteIdle, At
    <3>2. CASE Movable(c) # {}
      <4>1. eng' = [eng EXCEPT !.at = "hostroom", !.todo = Movable(c), !.drop = {c}]
        BY <2>2, <3>2
      <4>2. EngTyped'
        <5>1. Movable(c) \in SUBSET Unit /\ {c} \in SUBSET Conv
          BY <2>1, <2>3
        <5> QED
          BY <4>1, <5>1 DEF Typed, EngTyped, Stage
      <4>3. PlanAgrees' /\ EngAgrees'
        <5>1. /\ eng'.todo = Movable(c) /\ eng'.at = "hostroom" /\ eng'.out = eng.out
              /\ eng'.then = eng.then /\ eng'.resume = eng.resume /\ eng'.need = eng.need
              /\ eng'.conv = eng.conv /\ eng'.prompt = eng.prompt /\ eng'.plan = eng.plan
          BY <4>1 DEF Typed, EngTyped
        <5>2. At("alloc")
          BY <1>4 DEF DemoteIdle
        <5> QED
          BY <2>3, <5>1, <5>2 DEF At, Typed, EngTyped, PlanAgrees, EngAgrees
      <4> QED
        BY <4>2, <4>3
    <3> QED
      BY <3>1, <3>2
  <2> QED
    BY <2>7, <2>8 DEF Typed
<1> QED
  BY <1>1, <1>2, <1>3, <1>4

-----------------------------------------------------------------------------
(* Lists, seals and tables.                                                *)

(* The units of a stream are units.                                        *)
LEMMA ChainUnits ==
  ASSUME NEW s \in Stream, NEW m \in Nat, NEW n \in Nat, m <= n, n <= Len(s)
  PROVE  Elems(Chain(s, m, n)) \subseteq Unit
BY ChainIs, ElemsIs

(* There are none past its end.                                            *)
LEMMA NoChain ==
  ASSUME NEW s, NEW m \in Int, NEW n \in Int, n <= m
  PROVE  Elems(Chain(s, m, n)) = {}
BY DEF Chain, Elems

(* Giving one conversation another list.                                   *)
LEMMA ListsAfter ==
  ASSUME ListsTyped, NEW c \in Conv, NEW units \in Seq(Unit),
         list' = [list EXCEPT ![c] = units]
  PROVE  ListsTyped'
<1> DEFINE A == {d \in Conv : list[d] # <<>>}
<1>1. list' \in [Conv -> Seq(Unit)]
  BY DEF ListsTyped
<1>2. {d \in Conv : list'[d] # <<>>} \in SUBSET (A \cup {c})
  BY DEF ListsTyped
<1>3. IsFiniteSet(A \cup {c})
  BY FS_AddElement DEF ListsTyped
<1>4. IsFiniteSet({d \in Conv : list'[d] # <<>>})
  BY <1>2, <1>3, FS_Subset
<1> QED
  BY <1>1, <1>4 DEF ListsTyped

(* adopt_units and truncate keep the lists.                                *)
LEMMA AdoptTyped ==
  ASSUME ListsTyped, NEW c \in Conv, NEW units \in Seq(Unit), Adopt(c, units)
  PROVE  ListsTyped'
BY ListsAfter DEF Adopt

(* What a prompt matches is indexed, one unit a page.                      *)
LEMMA MatchedIs ==
  ASSUME NEW s \in Stream
  PROVE  /\ Chain(s, 0, Hits(s)) \in Seq(Unit) /\ Len(Chain(s, 0, Hits(s))) = Hits(s)
         /\ Hits(s) \in 0..Len(s) /\ Len(s) \in Nat
         /\ Matched(s) \subseteq Unit /\ Matched(s) \subseteq indexed
<1>1. Len(s) \in Nat /\ Hits(s) \in 0..Len(s)
  BY StreamIs, HitsIs
<1>2. /\ Chain(s, 0, Hits(s)) \in Seq(Unit) /\ Len(Chain(s, 0, Hits(s))) = Hits(s)
      /\ \A i \in 1..Hits(s) : Chain(s, 0, Hits(s))[i] = Prefix(s, i)
  <2>1. \A k \in 0..Len(s) :
          /\ Chain(s, 0, k) \in Seq(Unit) /\ Len(Chain(s, 0, k)) = k - 0
          /\ \A i \in 1..(k - 0) : Chain(s, 0, k)[i] = Prefix(s, 0 + i)
    <3> SUFFICES ASSUME NEW k \in 0..Len(s)
                 PROVE  /\ Chain(s, 0, k) \in Seq(Unit) /\ Len(Chain(s, 0, k)) = k - 0
                        /\ \A i \in 1..(k - 0) : Chain(s, 0, k)[i] = Prefix(s, 0 + i)
      OBVIOUS
    <3>1. 0 \in Nat /\ k \in Nat /\ 0 <= k /\ k <= Len(s)
      BY <1>1
    <3> QED
      BY <3>1, ChainIs
  <2>2. Hits(s) - 0 = Hits(s) /\ \A i \in 1..Hits(s) : 0 + i = i
    BY <1>1
  <2> QED
    BY <1>1, <2>1, <2>2
<1>3. Matched(s) \subseteq Unit
  BY <1>2, ElemsIs DEF Matched
<1>4. ASSUME NEW u \in Matched(s) PROVE u \in indexed
  <2>1. PICK i \in 1..Hits(s) : Chain(s, 0, Hits(s))[i] = u
    BY <1>2, <1>4, ElemsIs DEF Matched
  <2> QED
    BY <2>1, <1>2, HitsIs
<1> QED
  BY <1>1, <1>2, <1>3, <1>4

(* The units a seal names are those of the pages from m + 1 on, and each   *)
(* finds its block by its length.                                          *)
LEMMA SealedUnits ==
  ASSUME NEW s \in Stream, NEW m \in Nat, NEW k \in Nat, k > 0 => m + k <= Len(s)
  PROVE  /\ Chain(s, m, m + k) \in Seq(Unit) /\ Len(Chain(s, m, m + k)) = k
         /\ \A i \in 1..k : /\ Chain(s, m, m + k)[i] = Prefix(s, m + i)
                            /\ Prefix(s, m + i) \in Unit /\ Len(Prefix(s, m + i)) = m + i
         /\ \A u \in Elems(Chain(s, m, m + k)) :
              Len(u) - m \in 1..k /\ u = Prefix(s, m + (Len(u) - m))
         /\ \A i \in 1..k : Prefix(s, m + i) \in Elems(Chain(s, m, m + k))
<1>1. Len(s) \in Nat
  BY StreamIs
<1>2. /\ Chain(s, m, m + k) \in Seq(Unit) /\ Len(Chain(s, m, m + k)) = k
      /\ \A i \in 1..k : Chain(s, m, m + k)[i] = Prefix(s, m + i)
  <2>1. m + k \in Nat /\ m <= m + k /\ (m + k) - m = k
    OBVIOUS
  <2>2. CASE k = 0
    BY <2>1, <2>2 DEF Chain
  <2>3. CASE k > 0
    BY <2>1, <2>3, ChainIs
  <2> QED
    BY <2>2, <2>3
<1>3. \A i \in 1..k : Prefix(s, m + i) \in Unit /\ Len(Prefix(s, m + i)) = m + i
  <2> SUFFICES ASSUME NEW i \in 1..k
               PROVE Prefix(s, m + i) \in Unit /\ Len(Prefix(s, m + i)) = m + i
    OBVIOUS
  <2>1. m + i \in 0..Len(s) /\ m + i > 0
    BY <1>1
  <2> QED
    BY <2>1, PrefixIs
<1>4. ASSUME NEW u \in Elems(Chain(s, m, m + k))
      PROVE  Len(u) - m \in 1..k /\ u = Prefix(s, m + (Len(u) - m))
  <2>1. PICK i \in 1..k : Chain(s, m, m + k)[i] = u
    BY <1>2, <1>4, ElemsIs
  <2>2. u = Prefix(s, m + i) /\ Len(u) = m + i
    BY <2>1, <1>2, <1>3
  <2>3. Len(u) - m = i
    BY <2>2
  <2> QED
    BY <2>2, <2>3
<1>5. ASSUME NEW i \in 1..k PROVE Prefix(s, m + i) \in Elems(Chain(s, m, m + k))
  BY <1>2, ElemsIs
<1> QED
  BY <1>2, <1>3, <1>4, <1>5

(* seal_unit keeps the types of the memory and of the lists.               *)
LEMMA SealTyped ==
  ASSUME MemoryTyped, ListsTyped, NEW c \in Conv, NEW s \in Stream, NEW m \in Nat,
         NEW blocks \in Seq(Block), Len(blocks) > 0 => m + Len(blocks) <= Len(s),
         Seal(c, s, m, blocks), hosts' \subseteq hosts
  PROVE  MemoryTyped' /\ ListsTyped'
<1> DEFINE units == Chain(s, m, m + Len(blocks))
<1>1. Len(blocks) \in Nat
  OBVIOUS
<1>2. units \in Seq(Unit) /\ \A u \in Elems(units) : Len(u) - m \in 1..Len(blocks)
  BY <1>1, SealedUnits
<1>3. /\ list' = [list EXCEPT ![c] = @ \o units]
      /\ indexed' = indexed \cup Elems(units)
      /\ place' = [u \in Unit |->
           IF u \in Elems(units) /\ ~OnDevice(u) THEN Device(blocks[Len(u) - m]) ELSE place[u]]
  BY DEF Seal
<1> HIDE DEF units
<1>4. ListsTyped'
  <2>1. list[c] \o units \in Seq(Unit) /\ list' = [list EXCEPT ![c] = list[c] \o units]
    BY <1>2, <1>3 DEF ListsTyped
  <2> QED
    BY <2>1, ListsAfter
<1>5. indexed' \subseteq Unit
  BY <1>2, <1>3, ElemsIs DEF MemoryTyped
<1>6. place' \in [Unit -> Placement]
  <2>1. \A u \in Elems(units) : Device(blocks[Len(u) - m]) \in Placement
    <3>1. \A i \in 1..Len(blocks) : Device(blocks[i]) \in Placement
      BY DEF Placement
    <3> QED
      BY <3>1, <1>2
  <2> QED
    BY <2>1, <1>3 DEF MemoryTyped
<1> QED
  BY <1>4, <1>5, <1>6 DEF MemoryTyped

(* table_for: the places of the units and then the tail.                   *)
LEMMA TableTyped ==
  ASSUME MemoryTyped, ListsTyped, NEW c \in Conv, NEW t \in Seq(Block)
  PROVE  /\ Table(c, t) \in Seq(Int) /\ Len(Table(c, t)) = Len(list[c]) + Len(t)
         /\ \A i \in 1..Len(list[c]) : Table(c, t)[i] = place[list[c][i]][2]
         /\ \A i \in 1..Len(t) : Table(c, t)[Len(list[c]) + i] = t[i]
<1> DEFINE r == [i \in DOMAIN list[c] |-> place[list[c][i]][2]]
<1>1. list[c] \in Seq(Unit) /\ Len(list[c]) \in Nat /\ DOMAIN list[c] = 1..Len(list[c])
  BY DEF ListsTyped
<1>2. \A p \in Placement : p[2] \in Int
  BY CapacityAssumption, HostCapAssumption DEF Placement, Device, Host, Nowhere, Block, Handle
<1>3. \A i \in 1..Len(list[c]) : place[list[c][i]][2] \in Int
  BY <1>1, <1>2 DEF MemoryTyped
<1>4. r \in Seq(Int) /\ Len(r) = Len(list[c])
      /\ \A i \in 1..Len(list[c]) : r[i] = place[list[c][i]][2]
  BY <1>1, <1>3
<1>5. t \in Seq(Int)
  <2>1. Block \subseteq Int
    BY DEF Block
  <2>2. Len(t) \in Nat /\ t = [i \in 1..Len(t) |-> t[i]] /\ \A i \in 1..Len(t) : t[i] \in Block
    OBVIOUS
  <2>3. [i \in 1..Len(t) |-> t[i]] \in [1..Len(t) -> Int]
    BY <2>1, <2>2
  <2>4. t \in [1..Len(t) -> Int]
    BY <2>2, <2>3
  <2> QED
    BY <2>2, <2>4
<1>6. Table(c, t) = r \o t
  BY DEF Table
<1> HIDE DEF r
<1>7. r \o t \in Seq(Int) /\ Len(r \o t) = Len(r) + Len(t)
  <2>1. ASSUME NEW T, NEW x \in Seq(T), NEW y \in Seq(T)
        PROVE  x \o y \in Seq(T) /\ Len(x \o y) = Len(x) + Len(y)
    OBVIOUS
  <2> QED
    BY <1>4, <1>5, <2>1
<1>8. \A i \in 1..Len(list[c]) : (r \o t)[i] = r[i]
  BY <1>1, <1>4, <1>5
<1>9. \A i \in 1..Len(t) : (r \o t)[Len(list[c]) + i] = t[i]
  BY <1>1, <1>4, <1>5
<1> QED
  BY <1>4, <1>6, <1>7, <1>8, <1>9

-----------------------------------------------------------------------------
(* A begin: another conversation takes the slot, the prompt is probed.     *)

(* switch_out writes units through.                                        *)
LEMMA SwitchOutTyped ==
  ASSUME StateTyped, EngTyped, SwitchOut
  PROVE  stored' \subseteq Unit
<1>1. ASSUME active \in known PROVE Elems(Chain(text[active], 0, Len(text[active]))) \subseteq Unit
  <2>1. text[active] \in Stream
    BY <1>1 DEF StateTyped, ConvTyped
  <2>2. Len(text[active]) \in Nat /\ 0 \in Nat /\ 0 <= Len(text[active])
    BY <2>1, StreamIs
  <2> QED
    BY <2>1, <2>2, ChainUnits
<1> QED
  BY <1>1 DEF SwitchOut, StateTyped, DeviceTyped

(* The switch to another conversation.                                     *)
LEMMA SwitchTyped ==
  ASSUME Typed, SwitchShared \/ SwitchExplicit \/ Sweep
  PROVE  Typed'
<1>0. Leaving \subseteq Conv
  BY DEF Leaving, Typed, StateTyped, ConvTyped
<1>1. ASSUME SwitchShared PROVE Typed'
  <2>1. stored' \subseteq Unit
    BY <1>1, SwitchOutTyped DEF SwitchShared, Typed
  <2>2. StateTyped'
    <3>1. CASE Leaving = {}
      BY <1>1, <2>1, <3>1 DEF SwitchShared, Typed, StateTyped, MemoryTyped, ListsTyped,
         OrderTyped, ConvTyped, BooksTyped, SlotTyped, RowTyped, DeviceTyped, indexVars,
         convVars, rowVars, deviceVars
    <3>2. CASE Leaving # {}
      BY <1>0, <1>1, <2>1, <3>2, LeaveOnly DEF SwitchShared
    <3> QED
      BY <3>1, <3>2
  <2>3. EngTyped' /\ PlanAgrees' /\ EngAgrees'
    <3>1. EngTyped'
      BY <1>1 DEF SwitchShared, GoTo, Typed, EngTyped, Stage
    <3>2. PlanAgrees' /\ EngAgrees'
      BY <1>1 DEF SwitchShared, GoTo, At, Typed, EngTyped, PlanAgrees, EngAgrees
    <3> QED
      BY <3>1, <3>2
  <2> QED
    BY <2>2, <2>3 DEF Typed
<1>2. ASSUME SwitchExplicit PROVE Typed'
  <2>1. stored' \subseteq Unit
    BY <1>2, SwitchOutTyped DEF SwitchExplicit, Typed
  <2>2. StateTyped'
    BY <1>2, <2>1 DEF SwitchExplicit, Typed, StateTyped, MemoryTyped, ListsTyped,
       OrderTyped, ConvTyped, BooksTyped, SlotTyped, RowTyped, DeviceTyped, indexVars,
       convVars, slotVars, rowVars, deviceVars
  <2>3. CASE Leaving = {}
    <3>1. eng' = [eng EXCEPT !.at = "enter"]
      BY <1>2, <2>3 DEF SwitchExplicit
    <3>2. EngTyped'
      BY <3>1 DEF Typed, EngTyped, Stage
    <3>3. PlanAgrees' /\ EngAgrees'
      BY <1>2, <3>1 DEF SwitchExplicit, At, Typed, EngTyped, PlanAgrees, EngAgrees
    <3> QED
      BY <2>2, <3>2, <3>3 DEF Typed
  <2>4. CASE Leaving # {}
    <3>1. eng' = [eng EXCEPT !.at = "hostroom", !.then = "switch", !.drop = Leaving,
                   !.todo = Exclusive]
      BY <1>2, <2>4 DEF SwitchExplicit
    <3>2. IsFiniteSet(Exclusive) /\ Exclusive \in SUBSET Unit
      <4>1. IsFiniteSet(UnitsOf(Leaving)) /\ UnitsOf(Leaving) \subseteq Unit
        BY <1>0, UnitsFinite DEF Typed, StateTyped
      <4>2. Exclusive \in SUBSET UnitsOf(Leaving)
        BY DEF Exclusive
      <4> QED
        BY <4>1, <4>2, FS_Subset
    <3>3. Leaving \in SUBSET Conv
      BY <1>0
    <3>4. EngTyped'
      BY <3>1, <3>2, <3>3 DEF Typed, EngTyped, Stage, Purpose
    <3>5. PlanAgrees' /\ EngAgrees'
      <4>1. /\ eng'.todo = Exclusive /\ eng'.at = "hostroom" /\ eng'.out = eng.out
            /\ eng'.then = "switch" /\ eng'.resume = eng.resume
            /\ eng'.conv = eng.conv /\ eng'.prompt = eng.prompt /\ eng'.plan = eng.plan
        BY <3>1 DEF Typed, EngTyped
      <4>2. At("switch")
        BY <1>2 DEF SwitchExplicit
      <4> QED
        BY <3>2, <4>1, <4>2 DEF At, Typed, PlanAgrees, EngAgrees
    <3> QED
      BY <2>2, <3>4, <3>5 DEF Typed
  <2> QED
    BY <2>3, <2>4
<1>3. ASSUME Sweep PROVE Typed'
  <2>1. MemoryTyped' /\ used' \subseteq used
    BY <1>3, EvictTyped DEF Sweep, Typed
  <2>2. BooksTyped'
    BY <1>3, <2>1, BooksShrink DEF Sweep, Typed, StateTyped, slotVars
  <2>3. StateTyped'
    BY <1>3, <2>1, <2>2 DEF Sweep, Typed, StateTyped, ListsTyped, OrderTyped,
       ConvTyped, SlotTyped, RowTyped, DeviceTyped, convVars, slotVars, rowVars, deviceVars
  <2>4. EngTyped'
    BY <1>3 DEF Sweep, GoTo, Typed, EngTyped, Stage
  <2>5. PlanAgrees' /\ EngAgrees'
    BY <1>3 DEF Sweep, GoTo, At, Typed, EngTyped, PlanAgrees, EngAgrees
  <2> QED
    BY <2>3, <2>4, <2>5 DEF Typed
<1> QED
  BY <1>1, <1>2, <1>3

(* begin_to chooses the append or the general path.                        *)
LEMMA EnterTyped ==
  ASSUME Typed, EnterFast \/ EnterGeneral
  PROVE  Typed'
<1>0. recent' = Touch(recent, eng.conv) => OrderTyped' \/ lru' # lru
  <2>1. At("enter") => eng.conv \in Conv
    BY DEF Typed, EngAgrees, At
  <2>2. At("enter")
    BY DEF EnterFast, EnterGeneral
  <2> QED
    BY <2>1, <2>2, TouchTyped DEF Typed, StateTyped, OrderTyped
<1>1. StateTyped'
  BY <1>0 DEF EnterFast, EnterGeneral, Typed, StateTyped, MemoryTyped, ListsTyped,
     OrderTyped, ConvTyped, BooksTyped, SlotTyped, RowTyped, DeviceTyped, indexVars,
     convVars, slotVars, rowVars, deviceVars
<1>2. ASSUME EnterFast PROVE Typed'
  <2> DEFINE c == eng.conv
             n == Beyond(Upper(eng.prompt), sealed[c] + Len(tail[c]))
  <2>1. c \in Conv /\ At("enter")
    BY <1>2 DEF EnterFast, Typed, EngAgrees, At
  <2>2. n \in Nat
    <3>1. Len(eng.prompt) \in Nat /\ sealed[c] \in Nat /\ Len(tail[c]) \in Nat
      BY <2>1, StreamIs, MaxPagesAssumption DEF Typed, StateTyped, ConvTyped, EngTyped
    <3> QED
      BY <3>1 DEF Beyond, Upper
  <2>3. Len(text[c]) \in Nat /\ Len(text[c]) <= Len(eng.prompt)
    BY <1>2, <2>1, StreamIs DEF EnterFast, IsPrefix, Typed, StateTyped, ConvTyped
  <2>4. eng' = [eng EXCEPT !.at = "alloc", !.then = "fast", !.resume = Len(text[c]), !.need = n]
    BY <1>2 DEF EnterFast
  <2> HIDE DEF n
  <2>5. EngTyped'
    BY <2>2, <2>3, <2>4 DEF Typed, EngTyped, Stage, Purpose
  <2>6. PlanAgrees' /\ EngAgrees'
    BY <2>1, <2>3, <2>4 DEF At, Typed, EngTyped, PlanAgrees, EngAgrees
  <2> QED
    BY <1>1, <2>5, <2>6 DEF Typed
<1>3. ASSUME EnterGeneral PROVE Typed'
  <2>1. EngTyped'
    BY <1>3 DEF EnterGeneral, Typed, EngTyped, Stage, Purpose
  <2>2. PlanAgrees' /\ EngAgrees'
    BY <1>3 DEF EnterGeneral, At, Typed, EngTyped, PlanAgrees, EngAgrees
  <2> QED
    BY <1>1, <2>1, <2>2 DEF Typed
<1> QED
  BY <1>2, <1>3

(* What of a prompt waits on the host depends on the index and the places. *)
LEMMA SameHostHits ==
  ASSUME UNCHANGED <<indexed, place>>, eng'.prompt = eng.prompt
  PROVE  HostHits' = HostHits
<1>1. Matched(eng.prompt)' = Matched(eng.prompt)
  BY SameHits DEF Matched, Hits
<1> QED
  BY <1>1 DEF HostHits, OnHost

(* The probe adopts what the prompt matches.                               *)
LEMMA ProbeTyped ==
  ASSUME Typed, Probe
  PROVE  Typed'
<1> DEFINE p == eng.prompt
           c == eng.conv
           units == Chain(p, 0, Hits(p))
<1>1. c \in Conv /\ p \in Stream /\ At("probe") /\ eng.then \in {"choose", "tables"}
  BY DEF Probe, Typed, EngTyped, EngAgrees, At
<1>2. eng.plan = {} /\ eng' = [eng EXCEPT !.at = eng.then]
  BY DEF Probe, GoTo, Typed, PlanAgrees
<1>3. units \in Seq(Unit) /\ Len(units) = Hits(p) /\ Hits(p) \in 0..Len(p) /\ Len(p) \in Nat
  BY <1>1, MatchedIs
<1>4. list' = [list EXCEPT ![c] = units]
  BY DEF Probe, Adopt
<1> HIDE DEF units
<1>5. ListsTyped'
  BY <1>1, <1>3, <1>4, ListsAfter DEF Typed, StateTyped
<1>6. OrderTyped'
  BY <1>1, TouchTyped DEF Probe, Typed, StateTyped, OrderTyped
<1>7. StateTyped'
  BY <1>5, <1>6 DEF Probe, Typed, StateTyped, MemoryTyped, ConvTyped, BooksTyped, SlotTyped,
     RowTyped, DeviceTyped, convVars, slotVars, rowVars, deviceVars
<1>8. EngTyped'
  BY <1>1, <1>2 DEF Typed, EngTyped, Stage
<1>9. eng'.plan = {} /\ eng'.prompt = p /\ eng'.conv = c /\ eng'.out = eng.out
      /\ eng'.resume = eng.resume /\ eng'.at = eng.then
  BY <1>2 DEF Typed, EngTyped
<1>10. PlanAgrees'
  BY <1>1, <1>9 DEF PlanAgrees, At
<1>11. list'[c] = Chain(p, 0, Len(list'[c])) /\ Len(list'[c]) <= Len(p)
  BY <1>1, <1>3, <1>4 DEF Typed, StateTyped, ListsTyped, units
<1>12. EngAgrees'
  <2>1. eng.out = <<>>
    BY <1>1 DEF Typed, EngAgrees, At
  <2> QED
    BY <1>1, <1>9, <1>11, <2>1 DEF Typed, EngAgrees, At
<1> QED
  BY <1>7, <1>8, <1>10, <1>12 DEF Typed

(* The units it matches come back from the host, or the copy fails.        *)
LEMMA PromotionTyped ==
  ASSUME Typed, PreparePromote \/ Promote \/ PromoteFails
  PROVE  Typed'
<1>0. At("probe") /\ eng.conv \in Conv /\ eng.prompt \in Stream
      /\ HostHits \subseteq Unit /\ HostHits \subseteq indexed
  <2>1. At("probe")
    BY DEF PreparePromote, Promote, PromoteFails
  <2>2. eng.conv \in Conv /\ eng.prompt \in Stream
    BY <2>1 DEF Typed, EngTyped, EngAgrees, At
  <2>3. HostHits \subseteq Matched(eng.prompt)
    BY DEF HostHits
  <2> QED
    BY <2>1, <2>2, <2>3, MatchedIs
<1>1. ASSUME PreparePromote PROVE Typed'
  <2>1. PICK u \in Unreserved : eng' = [eng EXCEPT !.plan = @ \cup {<<u, LowestFree>>}]
    BY <1>1 DEF PreparePromote
  <2>2. BooksTyped' /\ LowestFree \in Block \ used
    BY <1>1, BooksTake DEF PreparePromote, Typed, StateTyped, slotVars
  <2>3. StateTyped'
    BY <1>1, <2>2 DEF PreparePromote, Typed, StateTyped, MemoryTyped, ListsTyped,
       OrderTyped, ConvTyped, SlotTyped, RowTyped, DeviceTyped, indexVars, convVars,
       slotVars, rowVars, deviceVars
  <2>4. u \in HostHits /\ u \in Unit /\ LowestFree \in Int /\ LowestFree \in Block
    BY <1>0, <2>1, <2>2 DEF Unreserved, Block
  <2>5. eng.plan \cup {<<u, LowestFree>>} \in SUBSET (Unit \X Int)
    BY <2>4 DEF Typed, EngTyped
  <2>6. EngTyped'
    BY <2>1, <2>5 DEF Typed, EngTyped
  <2>7. /\ eng'.plan = eng.plan \cup {<<u, LowestFree>>} /\ eng'.prompt = eng.prompt
        /\ eng'.at = "probe" /\ eng'.then = eng.then /\ eng'.out = eng.out
        /\ eng'.resume = eng.resume /\ eng'.conv = eng.conv
    BY <1>0, <2>1 DEF Typed, EngTyped, At
  <2>8. HostHits' = HostHits
    BY <1>1, <2>7, SameHostHits DEF PreparePromote, indexVars
  <2>9. PlanAgrees'
    <3>1. \A m \in eng'.plan : m[1] \in HostHits /\ m[2] \in Block
      BY <1>0, <2>4, <2>7 DEF Typed, PlanAgrees
    <3> QED
      BY <2>7, <2>8, <3>1 DEF PlanAgrees, At
  <2>10. EngAgrees'
    BY <1>0, <2>7 DEF Typed, EngAgrees, At
  <2> QED
    BY <2>3, <2>6, <2>9, <2>10 DEF Typed
<1>2. ASSUME Promote PROVE Typed'
  <2>1. \A m \in eng.plan : m \in Unit \X Int /\ m[1] \in HostHits /\ m[2] \in Block
    BY <1>0 DEF Typed, EngTyped, PlanAgrees
  <2>2. MemoryTyped'
    <3>1. \A u \in Unit : Moved(u) => Device(Target(u)) \in Placement
      <4> SUFFICES ASSUME NEW u \in Unit, Moved(u) PROVE Device(Target(u)) \in Placement
        OBVIOUS
      <4>1. \E m \in eng.plan : m[1] = u
        BY DEF Moved
      <4>2. Target(u) \in Block
        BY <4>1, <2>1, Zenon DEF Target
      <4> QED
        BY <4>2 DEF Placement
    <3> QED
      BY <1>2, <3>1 DEF Promote, Typed, StateTyped, MemoryTyped
  <2>3. page' \in [Block -> Stream]
    <3>1. \A b \in Reserved : hostPage[place[(CHOOSE m \in eng.plan : m[2] = b)[1]][2]] \in Stream
      <4> SUFFICES ASSUME NEW b \in Reserved
                   PROVE hostPage[place[(CHOOSE m \in eng.plan : m[2] = b)[1]][2]] \in Stream
        OBVIOUS
      <4> DEFINE m == CHOOSE m \in eng.plan : m[2] = b
      <4>1. m \in eng.plan
        BY Zenon DEF Reserved
      <4> HIDE DEF m
      <4>2. place[m[1]] \in Placement /\ OnHost(m[1])
        BY <1>0, <4>1, <2>1 DEF HostHits, Typed, StateTyped, MemoryTyped
      <4>3. place[m[1]][2] \in Handle
        BY <4>2 DEF Placement, OnHost, Device, Host, Nowhere
      <4> QED
        BY <4>3 DEF m, Typed, StateTyped, DeviceTyped
    <3>2. page' = [b \in Block |->
       IF b \in Reserved
       THEN hostPage[place[(CHOOSE m \in eng.plan : m[2] = b)[1]][2]] ELSE page[b]]
      BY <1>2 DEF Promote
    <3> QED
      BY <3>1, <3>2 DEF Typed, StateTyped, DeviceTyped
  <2>4. StateTyped'
    BY <1>2, <2>2, <2>3 DEF Promote, Typed, StateTyped, ListsTyped, OrderTyped, ConvTyped,
       BooksTyped, SlotTyped, RowTyped, DeviceTyped, convVars, slotVars, rowVars
  <2>5. EngTyped' /\ eng'.plan = {} /\ eng'.at = eng.at /\ eng'.then = eng.then
        /\ eng'.out = eng.out /\ eng'.resume = eng.resume /\ eng'.conv = eng.conv
        /\ eng'.prompt = eng.prompt
    BY <1>2 DEF Promote, Typed, EngTyped
  <2>6. PlanAgrees' /\ EngAgrees'
    BY <1>0, <2>5 DEF Typed, PlanAgrees, EngAgrees, At
  <2> QED
    BY <2>4, <2>5, <2>6 DEF Typed
<1>3. ASSUME PromoteFails PROVE Typed'
  <2>1. EngTyped' /\ PlanAgrees' /\ EngAgrees' /\ used' \subseteq used
    BY <1>0, <1>3, FailTyped DEF PromoteFails, Typed
  <2>2. BooksTyped'
    BY <1>3, <2>1, BooksShrink DEF PromoteFails, Typed, StateTyped, slotVars
  <2>3. StateTyped'
    BY <1>3, <2>2 DEF PromoteFails, Typed, StateTyped, MemoryTyped, ListsTyped, OrderTyped,
       ConvTyped, SlotTyped, RowTyped, DeviceTyped, indexVars, convVars, slotVars, rowVars,
       deviceVars
  <2> QED
    BY <2>1, <2>3 DEF Typed
<1> QED
  BY <1>1, <1>2, <1>3

(* The conversation stands on a resident checkpoint or on pages of the     *)
(* disk.                                                                   *)
LEMMA StandTyped ==
  ASSUME Typed, StandOnResident \/ StandOnDisk
  PROVE  Typed'
<1> DEFINE c == eng.conv
           n == Len(list[c])
<1>1. At("choose") /\ c \in Conv /\ list[c] \in Seq(Unit) /\ n \in Nat /\ n <= Len(eng.prompt)
      /\ eng.prompt \in Stream /\ Len(eng.prompt) \in Nat /\ eng.plan = {} /\ eng.out = <<>>
  <2>1. At("choose")
    BY DEF StandOnResident, StandOnDisk
  <2>2. c \in Conv /\ n <= Len(eng.prompt) /\ eng.plan = {} /\ eng.out = <<>>
    BY <2>1 DEF Typed, EngAgrees, PlanAgrees, At
  <2>3. eng.prompt \in Stream
    BY DEF Typed, EngTyped
  <2> QED
    BY <2>1, <2>2, <2>3, StreamIs DEF Typed, StateTyped, ListsTyped
<1>2. PICK k \in 0..n, d \in Nat, need \in Nat, then \in {"tail", "fresh"} :
        /\ Adopt(c, Below(k))
        /\ eng' = [eng EXCEPT !.at = "alloc", !.then = then, !.resume = d, !.need = need]
        /\ d <= Len(eng.prompt)
        /\ then = "fresh" => need <= d
  <2>1. CASE StandOnResident
    <3>1. PICK k \in 0..n :
            /\ Adopt(c, Below(k))
            /\ eng' = [eng EXCEPT !.at = "alloc", !.then = "tail", !.resume = k,
                             !.need = Upper(eng.prompt) - k]
      BY <2>1 DEF StandOnResident
    <3>2. Upper(eng.prompt) - k \in Nat /\ k \in Nat /\ k <= Len(eng.prompt)
      BY <1>1 DEF Upper
    <3> QED
      BY <3>1, <3>2
  <2>2. CASE StandOnDisk
    <3>1. PICK d \in 1..Len(eng.prompt) :
            /\ Adopt(c, Below(Lesser(d, n)))
            /\ eng' = [eng EXCEPT !.at = "alloc", !.then = "fresh", !.resume = d,
                                 !.need = d - Lesser(d, n)]
      BY <2>2 DEF StandOnDisk
    <3>2. Lesser(d, n) \in 0..n /\ d - Lesser(d, n) \in Nat /\ d \in Nat /\ d <= Len(eng.prompt)
          /\ d - Lesser(d, n) <= d
      BY <1>1 DEF Lesser
    <3> QED
      BY <3>1, <3>2
  <2> QED
    BY <2>1, <2>2
<1>3. ListsTyped'
  <2>1. Below(k) \in Seq(Unit)
    BY <1>1, FirstPart DEF Below
  <2> QED
    BY <1>1, <1>2, <2>1, AdoptTyped DEF Typed, StateTyped
<1>4. ReplaceTail /\ lru' = Touch(lru, c)
      /\ UNCHANGED <<indexed, place, hosts, known, spoken, text, sealed, recent, slotVars,
                     rowVars, deviceVars, stored>>
  BY DEF StandOnResident, StandOnDisk
<1>5. BooksTyped'
  <2>1. used' \subseteq used /\ UNCHANGED <<charged, withheld>>
    BY <1>4 DEF ReplaceTail, slotVars
  <2> QED
    BY <2>1, BooksShrink DEF Typed, StateTyped
<1>6. ConvTyped'
  <2>1. tail' = [tail EXCEPT ![c] = <<>>] /\ <<>> \in Seq(Block)
    BY <1>4 DEF ReplaceTail
  <2>2. tail' \in [Conv -> Seq(Block)]
    BY <1>1, <2>1 DEF Typed, StateTyped, ConvTyped
  <2> QED
    BY <1>4, <2>2 DEF Typed, StateTyped, ConvTyped
<1>7. OrderTyped'
  BY <1>1, <1>4, TouchTyped DEF Typed, StateTyped, OrderTyped
<1>8. StateTyped'
  BY <1>3, <1>4, <1>5, <1>6, <1>7 DEF Typed, StateTyped, MemoryTyped, SlotTyped, RowTyped,
     DeviceTyped, slotVars, rowVars, deviceVars
<1>9. EngTyped'
  <2>1. then \in Purpose
    BY DEF Purpose
  <2> QED
    BY <1>2, <2>1 DEF Typed, EngTyped, Stage
<1>10. PlanAgrees' /\ EngAgrees'
  <2>1. /\ eng'.at = "alloc" /\ eng'.then = then /\ eng'.resume = d /\ eng'.need = need
        /\ eng'.conv = c /\ eng'.out = <<>> /\ eng'.plan = {} /\ eng'.prompt = eng.prompt
    BY <1>1, <1>2 DEF Typed, EngTyped
  <2> QED
    BY <1>1, <1>2, <2>1 DEF PlanAgrees, EngAgrees, At
<1> QED
  BY <1>8, <1>9, <1>10 DEF Typed

-----------------------------------------------------------------------------
(* A begin: its blocks are allocated, filled and installed.                *)

(* Blocks are allocated, committed, rolled back.                           *)
LEMMA AllocatingTyped ==
  ASSUME Typed, AllocOne \/ Exhausted \/ CommitFails \/ FastAllocated \/ RestoreFails
  PROVE  Typed'
<1> DEFINE c == eng.conv
<1>0. At("alloc") /\ c \in Conv /\ eng.prompt \in Stream /\ eng.plan = {}
      /\ eng.out \in Seq(Block)
  BY DEF AllocOne, Exhausted, CommitFails, FastAllocated, RestoreFails, Allocated, Typed,
     EngTyped, EngAgrees, PlanAgrees, At
<1>1. ASSUME AllocOne PROVE Typed'
  <2>1. BooksTyped' /\ LowestFree \in Block \ used
    BY <1>1, BooksTake DEF AllocOne, Typed, StateTyped, slotVars
  <2>2. StateTyped'
    BY <1>1, <2>1 DEF AllocOne, Typed, StateTyped, MemoryTyped, ListsTyped, OrderTyped,
       ConvTyped, SlotTyped, RowTyped, DeviceTyped, indexVars, convVars, slotVars, rowVars,
       deviceVars
  <2>3. eng' = [eng EXCEPT !.need = eng.need - 1, !.out = Append(eng.out, LowestFree)]
        /\ eng.need > 0 /\ eng.need \in Nat
    BY <1>1 DEF AllocOne, Typed, EngTyped
  <2>4. Append(eng.out, LowestFree) \in Seq(Block) /\ eng.need - 1 \in Nat
        /\ Len(Append(eng.out, LowestFree)) = Len(eng.out) + 1 /\ Len(eng.out) \in Nat
    BY <1>0, <2>1, <2>3
  <2>5. EngTyped'
    BY <2>3, <2>4 DEF Typed, EngTyped
  <2>6. /\ eng'.at = "alloc" /\ eng'.then = eng.then /\ eng'.resume = eng.resume
        /\ eng'.need = eng.need - 1 /\ eng'.out = Append(eng.out, LowestFree)
        /\ eng'.conv = c /\ eng'.plan = {} /\ eng'.prompt = eng.prompt
    BY <1>0, <2>3 DEF Typed, EngTyped, At
  <2>7. PlanAgrees'
    BY <2>6 DEF PlanAgrees, At
  <2>8. eng.then # "switch"
    BY <1>0 DEF Typed, EngAgrees
  <2>9. EngAgrees'
    BY <1>0, <2>3, <2>4, <2>6, <2>8 DEF Typed, EngAgrees, At
  <2> QED
    BY <2>2, <2>5, <2>7, <2>9 DEF Typed
<1>2. ASSUME NEW blocks, Fail(blocks), UNCHANGED <<indexVars, lru, hosts, known, spoken, text,
             sealed, recent, slotVars, rowVars, deviceVars, stored>>,
             tail' \in [Conv -> Seq(Block)]
      PROVE  Typed'
  <2>1. EngTyped' /\ PlanAgrees' /\ EngAgrees' /\ used' \subseteq used
    BY <1>0, <1>2, FailTyped DEF Typed
  <2>2. BooksTyped'
    BY <1>2, <2>1, BooksShrink DEF Typed, StateTyped, slotVars
  <2>3. StateTyped'
    BY <1>2, <2>2 DEF Typed, StateTyped, MemoryTyped, ListsTyped, OrderTyped,
       ConvTyped, SlotTyped, RowTyped, DeviceTyped, indexVars, slotVars, rowVars,
       deviceVars
  <2> QED
    BY <2>1, <2>3 DEF Typed
<1>3. tail \in [Conv -> Seq(Block)] /\ [tail EXCEPT ![c] = @ \o eng.out] \in [Conv -> Seq(Block)]
  <2>1. tail \in [Conv -> Seq(Block)]
    BY DEF Typed, StateTyped, ConvTyped
  <2>2. tail[c] \o eng.out \in Seq(Block)
    BY <1>0, <2>1
  <2> QED
    BY <2>1, <2>2
<1>4. ASSUME Exhausted PROVE Typed'
  BY <1>2, <1>3, <1>4 DEF Exhausted, convVars
<1>5. ASSUME RestoreFails PROVE Typed'
  BY <1>2, <1>3, <1>5 DEF RestoreFails, convVars
<1>6. ASSUME CommitFails PROVE Typed'
  BY <1>2, <1>3, <1>6 DEF CommitFails
<1>7. ASSUME FastAllocated PROVE Typed'
  <2>1. StateTyped'
    BY <1>3, <1>7 DEF FastAllocated, Typed, StateTyped, MemoryTyped, ListsTyped, OrderTyped,
       ConvTyped, BooksTyped, SlotTyped, RowTyped, DeviceTyped, indexVars, slotVars, rowVars,
       deviceVars
  <2>2. eng' = [eng EXCEPT !.at = "probe", !.then = "tables", !.out = <<>>]
    BY <1>7 DEF FastAllocated
  <2>3. EngTyped'
    <3>1. <<>> \in Seq(Block)
      OBVIOUS
    <3> QED
      BY <2>2, <3>1 DEF Typed, EngTyped, Stage, Purpose
  <2>4. /\ eng'.at = "probe" /\ eng'.then = "tables" /\ eng'.resume = eng.resume
        /\ eng'.out = <<>> /\ eng'.conv = c /\ eng'.plan = {} /\ eng'.prompt = eng.prompt
    BY <1>0, <2>2 DEF Typed, EngTyped
  <2>5. PlanAgrees' /\ EngAgrees'
    BY <1>0, <2>4 DEF Typed, PlanAgrees, EngAgrees, At
  <2> QED
    BY <2>1, <2>3, <2>5 DEF Typed
<1> QED
  BY <1>1, <1>4, <1>5, <1>6, <1>7

(* The pages read from the disk are sealed.                                *)
LEMMA FreshReadTyped ==
  ASSUME Typed, FreshRead
  PROVE  Typed'
<1> DEFINE c == eng.conv
           s == eng.prompt
           out == eng.out
           first == eng.resume - Len(out)
           names(b) == {i \in DOMAIN out : out[i] = b}
<1>1. /\ At("alloc") /\ eng.then = "fresh" /\ c \in Conv /\ s \in Stream /\ eng.plan = {}
      /\ out \in Seq(Block) /\ Len(out) \in Nat /\ eng.resume \in Nat
      /\ eng.resume <= Len(s) /\ Len(s) \in Nat
      /\ first \in Nat /\ first + Len(out) = eng.resume
  <2>1. /\ At("alloc") /\ eng.then = "fresh" /\ c \in Conv /\ s \in Stream /\ eng.plan = {}
        /\ out \in Seq(Block) /\ eng.resume \in Nat /\ eng.need \in Nat
        /\ eng.resume <= Len(s) /\ Len(out) + eng.need <= eng.resume
    BY DEF FreshRead, Allocated, Typed, EngTyped, EngAgrees, PlanAgrees, At
  <2> QED
    BY <2>1, StreamIs
<1>2. MemoryTyped' /\ ListsTyped'
  <2>1. Seal(c, s, first, out) /\ hosts' \subseteq hosts
    BY DEF FreshRead
  <2> QED
    BY <1>1, <2>1, SealTyped DEF Typed, StateTyped
<1>3. BooksTyped'
  <2>1. used' \subseteq used /\ UNCHANGED <<charged, withheld>>
    BY DEF FreshRead, slotVars
  <2> QED
    BY <2>1, BooksShrink DEF Typed, StateTyped
<1>4. page' \in [Block -> Stream]
  <2>1. page' = [b \in Block |->
           IF names(b) = {} THEN page[b] ELSE Prefix(s, first + (CHOOSE i \in names(b) : TRUE))]
    BY DEF FreshRead
  <2>2. ASSUME NEW b \in Block, names(b) # {}
        PROVE  Prefix(s, first + (CHOOSE i \in names(b) : TRUE)) \in Stream
    <3> DEFINE i == CHOOSE i \in names(b) : TRUE
    <3>1. i \in names(b)
      BY <2>2
    <3>2. i \in 1..Len(out)
      BY <1>1, <3>1
    <3> HIDE DEF i
    <3>3. first + i \in 0..Len(s)
      BY <1>1, <3>2
    <3>4. Prefix(s, first + i) \in Stream
      BY <1>1, <3>3, PrefixIs
    <3> QED
      BY <3>4 DEF i
  <2> QED
    BY <2>1, <2>2 DEF Typed, StateTyped, DeviceTyped
<1>5. StateTyped'
  BY <1>2, <1>3, <1>4 DEF FreshRead, Typed, StateTyped, OrderTyped, ConvTyped, SlotTyped,
     RowTyped, DeviceTyped, convVars, slotVars, rowVars
<1>6. Upper(s) - eng.resume \in Nat
  BY <1>1 DEF Upper
<1>7. eng' = [eng EXCEPT !.then = "tail", !.need = Upper(s) - eng.resume, !.out = <<>>]
  BY DEF FreshRead
<1>8. EngTyped'
  <2>1. <<>> \in Seq(Block)
    OBVIOUS
  <2> QED
    BY <1>6, <1>7, <2>1 DEF Typed, EngTyped, Purpose
<1>9. PlanAgrees' /\ EngAgrees'
  <2>1. /\ eng'.at = "alloc" /\ eng'.then = "tail" /\ eng'.resume = eng.resume
        /\ eng'.out = <<>> /\ eng'.conv = c /\ eng'.plan = {} /\ eng'.prompt = s
    BY <1>1, <1>7 DEF Typed, EngTyped, At
  <2> QED
    BY <1>1, <2>1 DEF PlanAgrees, EngAgrees, At
<1> QED
  BY <1>5, <1>8, <1>9 DEF Typed

(* The tables are applied.                                                 *)
LEMMA InstallTyped ==
  ASSUME Typed, FastTables \/ Install
  PROVE  Typed'
<1> DEFINE c == eng.conv
<1>0. At("tables") \/ At("alloc")
  BY DEF FastTables, Install, Allocated
<1>1. c \in Conv /\ eng.prompt \in Stream /\ eng.plan = {} /\ eng.out \in Seq(Block)
      /\ eng.resume \in Nat /\ eng.resume <= Len(eng.prompt) /\ Len(eng.prompt) \in Nat
      /\ Len(eng.prompt) <= MaxPages
  BY <1>0, StreamIs DEF Typed, EngTyped, EngAgrees, PlanAgrees, At
<1>2. cur \in Slot /\ table \in [Slot -> Seq(Int)] /\ tail[c] \in Seq(Block)
  BY <1>1 DEF Typed, StateTyped, SlotTyped, ConvTyped
<1>3. ASSUME FastTables PROVE Typed'
  <2>1. Table(c, tail[c]) \in Seq(Int)
    BY <1>1, <1>2, TableTyped DEF Typed, StateTyped
  <2>2. table' \in [Slot -> Seq(Int)]
    BY <1>2, <1>3, <2>1 DEF FastTables
  <2>3. StateTyped'
    BY <1>3, <2>2 DEF FastTables, Typed, StateTyped, MemoryTyped, ListsTyped, OrderTyped,
       ConvTyped, BooksTyped, SlotTyped, RowTyped, DeviceTyped, indexVars, convVars, slotVars,
       deviceVars
  <2>4. EngTyped'
    BY <1>3 DEF FastTables, GoTo, Typed, EngTyped, Stage
  <2>5. PlanAgrees' /\ EngAgrees'
    BY <1>1, <1>3 DEF FastTables, GoTo, Typed, EngTyped, PlanAgrees, EngAgrees, At
  <2> QED
    BY <2>3, <2>4, <2>5 DEF Typed
<1>4. ASSUME Install PROVE Typed'
  <2>1. Table(c, eng.out) \in Seq(Int)
    BY <1>1, <1>2, TableTyped DEF Typed, StateTyped
  <2>2. table' \in [Slot -> Seq(Int)] /\ occupant' \in [Slot -> Conv \cup {NoConv}]
    BY <1>1, <1>2, <1>4, <2>1 DEF Install, Typed, StateTyped, SlotTyped
  <2>3. ConvTyped'
    <3>1. tail' = [tail EXCEPT ![c] = eng.out] /\ text' = [text EXCEPT ![c] = <<>>]
          /\ sealed' = [sealed EXCEPT ![c] = eng.resume]
          /\ known' = known \cup {c} /\ spoken' = spoken \ {c}
      BY <1>4 DEF Install
    <3>2. eng.resume \in 0..MaxPages /\ <<>> \in Stream
      BY <1>1, MaxPagesAssumption DEF Stream
    <3>3. tail' \in [Conv -> Seq(Block)]
      BY <1>1, <3>1 DEF Typed, StateTyped, ConvTyped
    <3> QED
      BY <1>1, <3>1, <3>2, <3>3 DEF Typed, StateTyped, ConvTyped
  <2>4. StateTyped'
    BY <1>4, <2>2, <2>3 DEF Install, Typed, StateTyped, MemoryTyped, ListsTyped, OrderTyped,
       BooksTyped, SlotTyped, RowTyped, DeviceTyped, indexVars, deviceVars
  <2>5. eng' = [eng EXCEPT !.at = "headers", !.out = <<>>]
    BY <1>4 DEF Install
  <2>6. EngTyped'
    <3>1. <<>> \in Seq(Block)
      OBVIOUS
    <3> QED
      BY <2>5, <3>1 DEF Typed, EngTyped, Stage
  <2>7. PlanAgrees' /\ EngAgrees'
    BY <1>1, <2>5 DEF Typed, EngTyped, PlanAgrees, EngAgrees, At
  <2> QED
    BY <2>4, <2>6, <2>7 DEF Typed
<1> QED
  BY <1>3, <1>4

(* The request is served, or its client is gone.                           *)
LEMMA ServeTyped ==
  ASSUME Typed, Serve \/ ServeCold \/ NotServed
  PROVE  Typed'
<1> DEFINE c == eng.conv
<1>0. At("headers") \/ At("cold")
  BY DEF Serve, ServeCold, NotServed
<1>1. c \in Conv /\ eng.prompt \in Stream /\ eng.resume \in Nat
      /\ eng.resume <= Len(eng.prompt) /\ Len(eng.prompt) \in Nat
  BY <1>0, StreamIs DEF Typed, EngTyped, EngAgrees, At
<1>2. ASSUME NotServed PROVE Typed'
  <2>1. StateTyped'
    BY <1>2, StateSame DEF NotServed, Typed, indexVars
  <2> QED
    BY <1>2, <2>1, FreeTyped DEF NotServed, Typed
<1>3. ASSUME NEW p \in Nat, p <= Len(eng.prompt), Start(p),
             UNCHANGED <<indexVars, lru, used, hosts, convVars, recent, slotVars, table,
                         deviceVars, stored>>
      PROVE  Typed'
  <2>1. Covered(c) \in Nat
    BY <1>1 DEF Covered, Typed, StateTyped, ListsTyped, ConvTyped
  <2>2. RowTyped'
    BY <1>1, <1>3, <2>1 DEF Start, Typed, StateTyped, RowTyped, SlotTyped
  <2>3. StateTyped'
    BY <1>3, <2>2 DEF Typed, StateTyped, MemoryTyped, ListsTyped, OrderTyped, ConvTyped,
       BooksTyped, SlotTyped, DeviceTyped, indexVars, convVars, slotVars, deviceVars
  <2> QED
    BY <1>3, <2>3, FreeTyped DEF Start, Typed
<1>4. ASSUME Serve PROVE Typed'
  BY <1>1, <1>3, <1>4 DEF Serve
<1>5. ASSUME ServeCold PROVE Typed'
  <2>1. 0 \in Nat /\ 0 <= Len(eng.prompt)
    BY <1>1
  <2> QED
    BY <1>3, <1>5, <2>1 DEF ServeCold
<1> QED
  BY <1>2, <1>4, <1>5

-----------------------------------------------------------------------------
(* Rows are forwarded, grow and end.                                       *)

(* Forwarding writes rows of the stream, or unknown ones.                  *)
LEMMA ForwardedTyped ==
  ASSUME DeviceTyped, NEW t \in Seq(Int), NEW s \in Stream, NEW m \in Nat, NEW n \in Nat,
         m <= n, n <= Len(s)
  PROVE  Forwarded(t, s, m, n) \in [Block -> Stream]
<1> DEFINE last == Lesser(Len(t), IF n = Len(s) THEN n + 1 ELSE n)
           at(b) == {i \in (m + 1)..last : t[i] = b}
           newest(b) == CHOOSE i \in at(b) : \A j \in at(b) : j <= i
<1>1. Len(s) \in Nat /\ Len(t) \in Nat
  BY StreamIs
<1>2. last \in Nat
  BY <1>1 DEF Lesser
<1>3. ASSUME NEW b, at(b) # {}, newest(b) <= n PROVE Prefix(s, newest(b)) \in Stream
  <2> DEFINE T == at(b)
  <2>1. T \subseteq Nat /\ T # {} /\ (\A i \in T : i <= last) /\ \A i \in T : i > 0
    <3>1. T # {}
      BY <1>3
    <3>2. T \subseteq (m + 1)..last
      OBVIOUS
    <3> HIDE DEF T, last
    <3> QED
      BY ONLY <1>2, <3>1, <3>2, m \in Nat
  <2> HIDE DEF T, last
  <2>2. \E i \in T : \A j \in T : j <= i
    BY <1>2, <2>1, Greatest
  <2> USE DEF T
  <2>3. newest(b) \in T
    BY <2>2, Zenon
  <2>4. newest(b) \in 0..Len(s)
    <3>1. newest(b) \in Nat
      BY <2>1, <2>3
    <3>2. newest(b) <= n
      BY <1>3
    <3> HIDE DEF newest
    <3> QED
      BY <1>1, <3>1, <3>2
  <2> QED
    BY <2>4, PrefixIs
<1>4. Forwarded(t, s, m, n) =
        [b \in Block |-> IF at(b) = {} THEN page[b]
                         ELSE IF newest(b) <= n THEN Prefix(s, newest(b)) ELSE Unknown]
  BY DEF Forwarded
<1>5. Unknown \in Stream
  BY DEF Unknown, Stream
<1> HIDE DEF at, newest
<1> QED
  BY <1>3, <1>4, <1>5 DEF DeviceTyped

(* A running row is forwarded.                                             *)
LEMMA ForwardTyped ==
  ASSUME Typed, NEW c \in Conv, Prefill(c) \/ \E x \in Page : Decode(c, x)
  PROVE  Typed'
<1>1. /\ c \in running /\ seat[c] \in Slot /\ work[c] \in Stream /\ pos[c] \in Nat
      /\ pos[c] <= Len(work[c]) /\ Len(work[c]) \in Nat /\ table[seat[c]] \in Seq(Int)
  BY StreamIs DEF Prefill, Decode, Typed, StateTyped, RowTyped, SlotTyped
<1>2. ASSUME Prefill(c) PROVE Typed'
  <2>1. PICK n \in pos[c]..Len(work[c]) :
          /\ page' = Forwarded(table[seat[c]], work[c], pos[c], n)
          /\ pos' = [pos EXCEPT ![c] = n]
    BY <1>2 DEF Prefill
  <2>2. page' \in [Block -> Stream]
    BY <1>1, <2>1, ForwardedTyped DEF Typed, StateTyped
  <2>3. DeviceTyped' /\ RowTyped' /\ SlotTyped'
    BY <1>1, <1>2, <2>1, <2>2 DEF Prefill, Typed, StateTyped, DeviceTyped, RowTyped, SlotTyped
  <2>4. StateTyped'
    BY <1>2, <2>3 DEF Prefill, Typed, StateTyped, MemoryTyped, ListsTyped, OrderTyped,
       ConvTyped, BooksTyped, indexVars, convVars
  <2>5. eng = Free /\ eng' = Free
    BY <1>2 DEF Prefill
  <2> QED
    BY <2>4, <2>5, FreeTyped DEF Typed
<1>3. ASSUME NEW x \in Page, Decode(c, x) PROVE Typed'
  <2>1. /\ Len(work[c]) < MaxPages /\ pos[c] = Len(work[c])
        /\ work' = [work EXCEPT ![c] = Append(work[c], x)]
        /\ pos' = [pos EXCEPT ![c] = pos[c] + 1]
        /\ page' = Forwarded(table[seat[c]], work'[c], pos[c], pos[c] + 1)
    BY <1>3 DEF Decode
  <2>2. Append(work[c], x) \in Stream /\ Len(Append(work[c], x)) = Len(work[c]) + 1
    <3>1. work[c] \in Seq(Page)
      BY <1>1, StreamIs
    <3>2. Append(work[c], x) \in Seq(Page) /\ Len(Append(work[c], x)) = Len(work[c]) + 1
      BY <3>1
    <3>3. Len(Append(work[c], x)) <= MaxPages
      BY <1>1, <2>1, <3>2, MaxPagesAssumption
    <3>4. Append(work[c], x) \in Stream
      BY <3>2, <3>3, StreamIs, Zenon
    <3> QED
      BY <3>2, <3>4
  <2>3. work'[c] = Append(work[c], x)
    BY <1>1, <2>1 DEF Typed, StateTyped, RowTyped
  <2>4. page' \in [Block -> Stream]
    <3>1. pos[c] + 1 \in Nat /\ pos[c] <= pos[c] + 1 /\ pos[c] + 1 <= Len(work'[c])
      BY <1>1, <2>1, <2>2, <2>3
    <3> QED
      BY <1>1, <2>1, <2>2, <2>3, <3>1, ForwardedTyped DEF Typed, StateTyped
  <2>5. RowTyped'
    <3>1. work' \in [Conv -> Stream] /\ pos' \in [Conv -> Nat]
      BY <1>1, <2>1, <2>2 DEF Typed, StateTyped, RowTyped
    <3>2. \A d \in Conv : pos'[d] <= Len(work'[d])
      BY <1>1, <2>1, <2>2 DEF Typed, StateTyped, RowTyped
    <3> QED
      BY <1>3, <3>1, <3>2 DEF Decode, Typed, StateTyped, RowTyped
  <2>6. DeviceTyped' /\ SlotTyped'
    BY <1>1, <1>3, <2>4 DEF Decode, Typed, StateTyped, DeviceTyped, SlotTyped
  <2>7. StateTyped'
    BY <1>3, <2>5, <2>6 DEF Decode, Typed, StateTyped, MemoryTyped, ListsTyped, OrderTyped,
       ConvTyped, BooksTyped, indexVars, convVars
  <2>8. eng = Free /\ eng' = Free
    BY <1>3 DEF Decode
  <2> QED
    BY <2>7, <2>8, FreeTyped DEF Typed
<1> QED
  BY <1>2, <1>3

(* A running row grows.                                                    *)
LEMMA GrowTyped ==
  ASSUME Typed, Grown \/ \E c \in Conv : Grow(c)
  PROVE  Typed'
<1>1. ASSUME NEW c \in Conv, Grow(c) PROVE Typed'
  <2>1. seat[c] \in Slot /\ pos[c] \in Nat /\ Covered(c) \in Nat
    BY DEF Covered, Typed, StateTyped, RowTyped, ListsTyped, ConvTyped
  <2>2. StateTyped'
    BY <1>1, <2>1 DEF Grow, Typed, StateTyped, MemoryTyped, ListsTyped, OrderTyped, ConvTyped,
       BooksTyped, SlotTyped, RowTyped, DeviceTyped, indexVars, convVars, rowVars, deviceVars
  <2>3. <<>> \in Stream /\ 0 \in Slot /\ Len(<<>>) = 0 /\ <<>> \in Seq(Block)
    BY SlotsAssumption DEF Stream, Slot
  <2>4. CASE c \in known
    <3> DEFINE n == Beyond(pos[c] + 1, Covered(c))
    <3>1. n \in Nat
      BY <2>1 DEF Beyond
    <3>2. eng' = [Free EXCEPT !.at = "alloc", !.then = "grow", !.conv = c, !.need = n]
      BY <1>1, <2>4 DEF Grow
    <3> HIDE DEF n
    <3>3. eng' = [at |-> "alloc", conv |-> c, prompt |-> <<>>, slot |-> 0, then |-> "grow",
              beside |-> FALSE, resume |-> 0, need |-> n, out |-> <<>>, plan |-> {},
              todo |-> {}, drop |-> {}]
      BY <3>2 DEF Free
    <3>4. EngTyped'
      BY <2>3, <3>1, <3>3 DEF EngTyped, Stage, Purpose
    <3>5. PlanAgrees' /\ EngAgrees'
      BY <2>3, <3>3 DEF PlanAgrees, EngAgrees, At
    <3> QED
      BY <2>2, <3>4, <3>5 DEF Typed
  <2>5. CASE c \notin known
    <3>1. eng' = [Free EXCEPT !.at = "abandon", !.conv = c]
      BY <1>1, <2>5 DEF Grow
    <3>2. eng' = [at |-> "abandon", conv |-> c, prompt |-> <<>>, slot |-> 0, then |-> "none",
              beside |-> FALSE, resume |-> 0, need |-> 0, out |-> <<>>, plan |-> {},
              todo |-> {}, drop |-> {}]
      BY <3>1 DEF Free
    <3>3. EngTyped'
      BY <2>3, <3>2 DEF EngTyped, Stage, Purpose
    <3>4. PlanAgrees' /\ EngAgrees'
      BY <2>3, <3>2 DEF PlanAgrees, EngAgrees, At
    <3> QED
      BY <2>2, <3>3, <3>4 DEF Typed
  <2> QED
    BY <2>4, <2>5
<1>2. ASSUME Grown PROVE Typed'
  <2> DEFINE c == eng.conv
             more == tail[c] \o eng.out
  <2>1. c \in Conv /\ eng.out \in Seq(Block)
    BY <1>2 DEF Grown, Allocated, Typed, EngTyped, EngAgrees, At
  <2>2. more \in Seq(Block) /\ Len(more) \in Nat /\ Len(list[c]) \in Nat /\ cur \in Slot
    <3>1. tail[c] \in Seq(Block)
      BY <2>1 DEF Typed, StateTyped, ConvTyped
    <3>2. more \in Seq(Block)
      BY <2>1, <3>1
    <3>3. Len(more) \in Nat
      <4> HIDE DEF more
      <4> QED
        BY <3>2
    <3>4. Len(list[c]) \in Nat /\ cur \in Slot
      BY <2>1 DEF Typed, StateTyped, ListsTyped, SlotTyped
    <3> QED
      BY <3>2, <3>3, <3>4
  <2>3. /\ tail' = [tail EXCEPT ![c] = more]
        /\ table' = [table EXCEPT ![cur] = Table(c, more)]
        /\ room' = [room EXCEPT ![c] = Len(list[c]) + Len(more)]
    BY <1>2 DEF Grown
  <2> HIDE DEF more
  <2>4. Table(c, more) \in Seq(Int)
    BY <2>1, <2>2, TableTyped DEF Typed, StateTyped
  <2>5. ConvTyped'
    <3>1. tail' \in [Conv -> Seq(Block)]
      BY <2>1, <2>2, <2>3 DEF Typed, StateTyped, ConvTyped
    <3> QED
      BY <1>2, <3>1 DEF Grown, Typed, StateTyped, ConvTyped
  <2>8. SlotTyped'
    <3>1. table' \in [Slot -> Seq(Int)]
      BY <2>2, <2>3, <2>4 DEF Typed, StateTyped, SlotTyped
    <3> QED
      BY <1>2, <3>1 DEF Grown, Typed, StateTyped, SlotTyped, slotVars
  <2>9. RowTyped'
    <3>1. Len(list[c]) + Len(more) \in Nat
      BY <2>2
    <3>2. room' \in [Conv -> Nat]
      BY <2>1, <2>3, <3>1 DEF Typed, StateTyped, RowTyped
    <3> QED
      BY <1>2, <3>2 DEF Grown, Typed, StateTyped, RowTyped
  <2>6. StateTyped'
    BY <1>2, <2>5, <2>8, <2>9 DEF Grown, Typed, StateTyped, MemoryTyped, ListsTyped, OrderTyped,
       BooksTyped, DeviceTyped, indexVars, slotVars, deviceVars
  <2>7. eng' = Free
    BY <1>2 DEF Grown
  <2> QED
    BY <2>6, <2>7, FreeTyped DEF Typed
<1> QED
  BY <1>1, <1>2

(* A running row stops.                                                    *)
LEMMA StopTyped ==
  ASSUME RowTyped, NEW c \in Conv, Stop(c)
  PROVE  RowTyped'
<1>1. 0 \in Slot /\ <<>> \in Stream /\ Len(<<>>) = 0
  BY SlotsAssumption DEF Slot, Stream
<1> QED
  BY <1>1 DEF Stop, RowTyped

(* Conversations are forgotten, erased and trimmed.                        *)
LEMMA ForgetTyped ==
  ASSUME Typed, GrowthFailed \/ (\E c \in Conv : Abandon(c) \/ Erase(c)) \/ Trim
  PROVE  Typed'
<1>1. ASSUME NEW c \in Conv, Leave({c}), Stop(c), cur' \in Slot, eng' = Free,
             UNCHANGED <<charged, withheld, table, deviceVars, stored>>
      PROVE  Typed'
  <2>1. /\ MemoryTyped' /\ ListsTyped' /\ OrderTyped' /\ ConvTyped' /\ used' \subseteq used
        /\ occupant' \in [Slot -> Conv \cup {NoConv}]
    BY <1>1, LeaveTyped DEF Typed
  <2>2. BooksTyped'
    BY <1>1, <2>1, BooksShrink DEF Typed, StateTyped
  <2>3. SlotTyped' /\ RowTyped' /\ DeviceTyped'
    BY <1>1, <2>1, StopTyped DEF Typed, StateTyped, SlotTyped, DeviceTyped, deviceVars
  <2> QED
    BY <1>1, <2>1, <2>2, <2>3, FreeTyped DEF Typed, StateTyped
<1>2. ASSUME GrowthFailed PROVE Typed'
  <2>1. eng.conv \in Conv /\ cur \in Slot
    BY <1>2 DEF GrowthFailed, Typed, EngAgrees, At, StateTyped, SlotTyped
  <2> QED
    BY <1>1, <1>2, <2>1 DEF GrowthFailed
<1>3. ASSUME NEW c \in Conv, Abandon(c) PROVE Typed'
  <2>1. seat[c] \in Slot
    BY DEF Typed, StateTyped, RowTyped
  <2> QED
    BY <1>1, <1>3, <2>1 DEF Abandon
<1>4. ASSUME NEW c \in Conv, Erase(c) PROVE Typed'
  <2>1. StateTyped'
    BY <1>4, LeaveOnly DEF Erase, Typed, StateTyped, DeviceTyped
  <2>2. eng' = Free
    BY <1>4 DEF Erase
  <2> QED
    BY <2>1, <2>2, FreeTyped DEF Typed
<1>5. ASSUME Trim PROVE Typed'
  <2>1. eng' = Free
    BY <1>5 DEF Trim
  <2>2. /\ MemoryTyped' /\ ListsTyped' /\ OrderTyped' /\ ConvTyped' /\ used' \subseteq used
        /\ occupant' \in [Slot -> Conv \cup {NoConv}]
    <3>1. CASE Explicit
      BY <1>5, <3>1 DEF Trim, Typed, StateTyped, MemoryTyped, ListsTyped, OrderTyped,
         ConvTyped, SlotTyped, indexVars, convVars
    <3>2. CASE ~Explicit
      <4>1. known \ Held \subseteq Conv /\ Leave(known \ Held)
        BY <1>5, <3>2 DEF Trim, Typed, StateTyped, ConvTyped
      <4> QED
        BY <4>1, LeaveTyped DEF Typed
    <3> QED
      BY <3>1, <3>2
  <2>3. SlotTyped' /\ RowTyped' /\ DeviceTyped'
    BY <1>5, <2>2 DEF Trim, Typed, StateTyped, SlotTyped, RowTyped, DeviceTyped, rowVars,
       deviceVars
  <2>4. BooksTyped'
    <3>1. charged' \in SUBSET charged /\ withheld' = Cardinality(charged') * SlotPages
      BY <1>5 DEF Trim
    <3>2. IsFiniteSet(charged) /\ Cardinality(charged) \in Nat /\ IsFiniteSet(used)
          /\ Cardinality(used) \in Nat /\ SlotPages \in Nat
      BY BooksAre, RetainedAssumption DEF Typed, StateTyped
    <3>3. Cardinality(charged') \in Nat /\ Cardinality(charged') <= Cardinality(charged)
      BY <3>1, <3>2, FS_Subset, FS_CardinalityType
    <3>4. Cardinality(used') \in Nat /\ Cardinality(used') <= Cardinality(used)
      BY <2>2, <3>2, FS_Subset, FS_CardinalityType
    <3>5. \A a, b, p \in Nat : a <= b => a * p <= b * p /\ a * p \in Nat /\ b * p \in Nat
      OBVIOUS
    <3>6. withheld' \in Nat /\ withheld \in Nat /\ withheld' <= withheld
      BY <3>1, <3>2, <3>3, <3>5 DEF Typed, StateTyped, BooksTyped
    <3> QED
      BY <2>2, <3>1, <3>2, <3>4, <3>6, CapacityAssumption DEF Typed, StateTyped, BooksTyped
  <2> QED
    BY <2>1, <2>2, <2>3, <2>4, FreeTyped DEF Typed, StateTyped
<1> QED
  BY <1>2, <1>3, <1>4, <1>5

(* A turn ends.                                                            *)
LEMMA EndTyped ==
  ASSUME Typed, NEW c \in Conv, End(c) \/ EndUnderflows(c) \/ EndUnknown(c)
  PROVE  Typed'
<1> DEFINE s == work[c]
<1>1. /\ s \in Stream /\ Len(s) \in Nat /\ Len(s) <= MaxPages /\ seat[c] \in Slot
      /\ sealed[c] \in 0..MaxPages /\ sealed[c] \in Nat /\ MaxPages \in Nat
      /\ tail[c] \in Seq(Block) /\ Len(tail[c]) \in Nat
  BY StreamIs, MaxPagesAssumption DEF Typed, StateTyped, RowTyped, ConvTyped
<1>2. /\ New(c) \in Nat /\ sealed[c] + New(c) \in 0..MaxPages
      /\ New(c) > 0 => sealed[c] + New(c) = Len(s)
  BY <1>1 DEF New, Beyond
<1>3. eng' = Free /\ Stop(c) /\ cur' = seat[c] /\ UNCHANGED <<charged, withheld, table, deviceVars>>
  BY DEF End, EndUnderflows, EndUnknown, LeaveSlot
<1>4. occupant' \in [Slot -> Conv \cup {NoConv}]
  BY <1>1 DEF End, EndUnderflows, EndUnknown, LeaveSlot, Typed, StateTyped, SlotTyped
<1>5. RowTyped' /\ SlotTyped'
  BY <1>1, <1>3, <1>4, StopTyped DEF Typed, StateTyped, SlotTyped
<1>6. ASSUME End(c) PROVE Typed'
  <2> DEFINE n == New(c)
             blocks == Prefix(tail[c], n)
             rest == SubSeq(tail[c], n + 1, Len(tail[c]))
             keep == Lesser(Len(rest), Beyond(Len(s) + 1, sealed[c] + n))
             spare == Elems(SubSeq(rest, keep + 1, Len(rest)))
  <2>1. n <= Len(tail[c]) /\ c \in known
    BY <1>6 DEF End
  <2>2. blocks \in Seq(Block) /\ Len(blocks) = n
    BY <1>1, <1>2, <2>1, FirstPart
  <2>3. rest \in Seq(Block) /\ Len(rest) = Len(tail[c]) - n /\ Len(rest) \in Nat
    BY <1>1, <1>2, <2>1, RestIs
  <2>4. keep \in 0..Len(rest)
    <3>1. Beyond(Len(s) + 1, sealed[c] + n) \in Nat
      BY <1>1, <1>2 DEF Beyond
    <3> HIDE DEF rest, n
    <3> QED
      BY <2>3, <3>1 DEF Lesser
  <2>5. Prefix(rest, keep) \in Seq(Block)
    BY <2>3, <2>4, FirstPart
  <2>6. /\ Seal(c, s, sealed[c], blocks)
        /\ used' = used \ (Duplicates(s, sealed[c], blocks) \cup spare)
        /\ hosts' = hosts \ HandlesOf(Elems(Chain(s, sealed[c], Len(s))))
        /\ tail' = [tail EXCEPT ![c] = Prefix(rest, keep)]
        /\ sealed' = [sealed EXCEPT ![c] = sealed[c] + n]
        /\ text' = [text EXCEPT ![c] = s]
        /\ spoken' = spoken \cup {c}
        /\ stored' = stored \cup Elems(Chain(s, 0, Len(s))) \/ stored' = stored
        /\ UNCHANGED <<lru, known, recent>>
    BY <1>6 DEF End
  <2> HIDE DEF n, blocks, rest, keep, spare
  <2>7. MemoryTyped' /\ ListsTyped'
    <3>1. hosts' \subseteq hosts /\ (Len(blocks) > 0 => sealed[c] + Len(blocks) <= Len(s))
      BY <1>1, <1>2, <2>2, <2>6 DEF n
    <3> QED
      BY <1>1, <2>2, <2>6, <3>1, SealTyped DEF Typed, StateTyped
  <2>8. BooksTyped'
    BY <1>3, <2>6, BooksShrink DEF Typed, StateTyped
  <2>9. ConvTyped'
    <3>1. tail' \in [Conv -> Seq(Block)]
      BY <2>5, <2>6 DEF Typed, StateTyped, ConvTyped
    <3> QED
      BY <1>1, <1>2, <2>1, <2>6, <3>1 DEF n, Typed, StateTyped, ConvTyped
  <2>10. DeviceTyped'
    <3>1. 0 \in Nat /\ 0 <= Len(s)
      BY <1>1
    <3>2. Elems(Chain(s, 0, Len(s))) \subseteq Unit
      BY <1>1, <3>1, ChainUnits
    <3> QED
      BY <1>3, <2>6, <3>2 DEF Typed, StateTyped, DeviceTyped, deviceVars
  <2>11. OrderTyped'
    BY <2>6 DEF Typed, StateTyped, OrderTyped
  <2> QED
    BY <1>3, <1>5, <2>7, <2>8, <2>9, <2>10, <2>11, FreeTyped DEF Typed, StateTyped
<1>7. ASSUME EndUnderflows(c) PROVE Typed'
  <2>1. /\ sealed' = [sealed EXCEPT ![c] = sealed[c] + Len(tail[c])]
        /\ tail' = [tail EXCEPT ![c] = <<>>] /\ New(c) > Len(tail[c])
        /\ UNCHANGED <<indexVars, lru, used, hosts, known, spoken, text, recent, stored>>
    BY <1>7 DEF EndUnderflows
  <2>2. ConvTyped'
    <3>1. sealed[c] + Len(tail[c]) \in 0..MaxPages /\ <<>> \in Seq(Block)
      BY <1>1, <1>2, <2>1
    <3>2. tail' \in [Conv -> Seq(Block)]
      BY <2>1, <3>1 DEF Typed, StateTyped, ConvTyped
    <3> QED
      BY <2>1, <3>1, <3>2 DEF Typed, StateTyped, ConvTyped
  <2>3. StateTyped'
    BY <1>3, <1>5, <2>1, <2>2 DEF Typed, StateTyped, MemoryTyped, ListsTyped, OrderTyped,
       BooksTyped, DeviceTyped, indexVars, deviceVars
  <2> QED
    BY <1>3, <2>3, FreeTyped DEF Typed
<1>8. ASSUME EndUnknown(c) PROVE Typed'
  <2>1. StateTyped'
    BY <1>3, <1>5, <1>8 DEF EndUnknown, Typed, StateTyped, MemoryTyped, ListsTyped, OrderTyped,
       BooksTyped, DeviceTyped, ConvTyped, indexVars, convVars, deviceVars
  <2> QED
    BY <1>3, <2>1, FreeTyped DEF Typed
<1> QED
  BY <1>6, <1>7, <1>8

-----------------------------------------------------------------------------
(* The pool begins empty.                                                  *)
LEMMA InitTyped == Init => Typed
<1> SUFFICES ASSUME Init PROVE Typed
  OBVIOUS
<1> USE DEF Init, InitResident
<1>1. IsFiniteSet({}) /\ Cardinality({}) = 0
  BY FS_EmptySet
<1>2. MemoryTyped
  BY DEF MemoryTyped, Placement
<1>3. ListsTyped
  <2>1. {c \in Conv : list[c] # <<>>} = {}
    OBVIOUS
  <2>2. list \in [Conv -> Seq(Unit)]
    <3>1. <<>> \in Seq(Unit)
      OBVIOUS
    <3> QED
      BY <3>1
  <2>3. IsFiniteSet({c \in Conv : list[c] # <<>>})
    BY <1>1, <2>1
  <2> QED
    BY <2>2, <2>3 DEF ListsTyped
<1>4. OrderTyped /\ ConvTyped
  BY MaxPagesAssumption DEF OrderTyped, ConvTyped, Stream
<1>5. BooksTyped
  BY <1>1, CapacityAssumption, RetainedAssumption DEF BooksTyped
<1>6. SlotTyped /\ RowTyped /\ DeviceTyped
  BY SlotsAssumption, StreamIs DEF SlotTyped, RowTyped, DeviceTyped, Slot, Stream, Unknown
<1>7. EngTyped /\ PlanAgrees /\ EngAgrees
  <2>1. <<>> \in Stream /\ 0 \in Slot /\ <<>> \in Seq(Block)
    BY SlotsAssumption DEF Stream, Slot
  <2>2. EngTyped
    BY <2>1 DEF EngTyped, Free, Stage, Purpose
  <2>3. PlanAgrees /\ EngAgrees
    BY DEF PlanAgrees, EngAgrees, Free, At
  <2> QED
    BY <2>2, <2>3
<1> QED
  BY <1>2, <1>3, <1>4, <1>5, <1>6, <1>7 DEF Typed, StateTyped

(* Every step keeps the types and the agreements.                          *)
LEMMA TypedStep == Typed /\ [Next]_vars => Typed'
<1> SUFFICES ASSUME Typed, [Next]_vars PROVE Typed'
  OBVIOUS
<1>1. CASE UNCHANGED vars
  <2>1. /\ UNCHANGED <<indexed, ref, place, list, lru, used, hosts, recent, page, hostPage>>
        /\ UNCHANGED <<known, spoken, text, sealed, tail, occupant, cur, charged, withheld>>
        /\ UNCHANGED <<running, seat, work, pos, room, table, stored, eng>>
    BY <1>1 DEF vars, indexVars, convVars, slotVars, rowVars, deviceVars
  <2>2. MemoryTyped' /\ ListsTyped' /\ OrderTyped' /\ ConvTyped'
    BY <2>1 DEF Typed, StateTyped, MemoryTyped, ListsTyped, OrderTyped, ConvTyped
  <2>3. BooksTyped' /\ SlotTyped' /\ RowTyped' /\ DeviceTyped'
    BY <2>1 DEF Typed, StateTyped, BooksTyped, SlotTyped, RowTyped, DeviceTyped
  <2>4. EngTyped' /\ PlanAgrees' /\ EngAgrees'
    BY <2>1 DEF Typed, EngTyped, PlanAgrees, EngAgrees, HostHits, Matched, Hits, OnHost,
       OnDevice, At
  <2> QED
    BY <2>2, <2>3, <2>4 DEF Typed, StateTyped
<1>2. ASSUME NEW c \in Conv, NEW p \in Stream, Begin(c, p) PROVE Typed'
  BY <1>2, BeginTyped
<1>3. CASE MakingRoom
  BY <1>3, RoomTyped, DemotionTyped DEF MakingRoom
<1>4. CASE Admitting
  BY <1>4, AdmittingTyped
<1>5. CASE Beginning
  BY <1>5, SwitchTyped, EnterTyped, ProbeTyped, PromotionTyped, StandTyped, AllocatingTyped,
     FreshReadTyped, InstallTyped, ServeTyped DEF Beginning
<1>6. CASE Grown \/ \E c \in Conv : Grow(c)
  BY <1>6, GrowTyped
<1>7. CASE GrowthFailed \/ (\E c \in Conv : Abandon(c) \/ Erase(c)) \/ Trim
  BY <1>7, ForgetTyped
<1>8. ASSUME NEW c \in Conv, Prefill(c) \/ \E x \in Page : Decode(c, x) PROVE Typed'
  BY <1>8, ForwardTyped
<1>9. ASSUME NEW c \in Conv, End(c) \/ EndUnderflows(c) \/ EndUnknown(c) PROVE Typed'
  BY <1>9, EndTyped
<1> QED
  BY <1>1, <1>2, <1>3, <1>4, <1>5, <1>6, <1>7, <1>8, <1>9 DEF Next, Engine

(* They hold always.                                                       *)
LEMMA TypedAlways == Spec => []Typed
<1>1. Init => Typed
  BY InitTyped
<1>2. Typed /\ [Next]_vars => Typed'
  BY TypedStep
<1> QED
  BY <1>1, <1>2, PTL DEF Spec

-----------------------------------------------------------------------------
(* The content index: the counts are exact, what a list names is indexed,  *)
(* and what is indexed has its rows somewhere.                             *)

Counted == ref = [u \in Unit |-> Naming(Conv, u)]
Backed == \A c \in Conv : Elems(list[c]) \subseteq indexed
Indexed == Counted /\ Backed /\ IndexedMeansPlaced

(* What holds of the lists before a step holds of them after it, so the    *)
(* lemmas about counting are about any lists.                              *)
Lists(l) == l \in [Conv -> Seq(Unit)] /\ IsFiniteSet({c \in Conv : l[c] # <<>>})
Named(l, cs, u) == UNION {{c} \X Places(l[c], u) : c \in cs}
Times(l, cs, u) == Cardinality(Named(l, cs, u))

(* What two sets are matched by shows them the same size.                  *)
LEMMA SameSize ==
  ASSUME NEW S, IsFiniteSet(S), NEW T, NEW f \in [S -> T],
         \A t \in T : \E x \in S : f[x] = t, \A x, y \in S : f[x] = f[y] => x = y
  PROVE  IsFiniteSet(T) /\ Cardinality(T) = Cardinality(S)
<1>1. f \in Injection(S, T)
  BY DEF Injection, IsInjective
<1>2. f \in Surjection(S, T)
  BY DEF Surjection
<1>3. f \in Bijection(S, T)
  BY <1>1, <1>2 DEF Bijection
<1> QED
  BY <1>3, FS_Bijection DEF ExistsBijection

(* The places a list has for a unit are finitely many, and there is none   *)
(* exactly when the list does not name it.                                 *)
LEMMA PlacesAre ==
  ASSUME NEW T, NEW s \in Seq(T), NEW u
  PROVE  /\ IsFiniteSet(Places(s, u)) /\ Occurrences(s, u) \in Nat
         /\ Occurrences(s, u) = 0 <=> u \notin Elems(s)
<1>1. Places(s, u) \in SUBSET (1..Len(s)) /\ Len(s) \in Nat
  BY DEF Places
<1>2. IsFiniteSet(1..Len(s))
  BY <1>1, FS_Interval
<1>3. IsFiniteSet(Places(s, u)) /\ Cardinality(Places(s, u)) \in Nat
  BY <1>1, <1>2, FS_Subset, FS_CardinalityType
<1>4. Places(s, u) = {} <=> u \notin Elems(s)
  BY DEF Places, Elems
<1> QED
  BY <1>3, <1>4, FS_EmptySet DEF Occurrences

(* What joins two lists has the places of both.                            *)
LEMMA OccurrencesAdd ==
  ASSUME NEW T, NEW s \in Seq(T), NEW t \in Seq(T), NEW u
  PROVE  Occurrences(s \o t, u) = Occurrences(s, u) + Occurrences(t, u)
<1> DEFINE n == Len(s)
           B == {n + i : i \in Places(t, u)}
           f == [i \in Places(t, u) |-> n + i]
<1>1. n \in Nat /\ Len(t) \in Nat /\ Len(s \o t) = n + Len(t)
  OBVIOUS
<1>2. Places(s, u) \subseteq 1..n /\ Places(t, u) \subseteq 1..Len(t)
  BY DEF Places
<1>3. Places(s \o t, u) = Places(s, u) \cup B
  <2>1. ASSUME NEW i \in Places(s \o t, u) PROVE i \in Places(s, u) \cup B
    <3>1. i \in 1..(n + Len(t)) /\ (s \o t)[i] = u
      BY <1>1 DEF Places
    <3>2. CASE i <= n
      BY <1>1, <3>1, <3>2 DEF Places
    <3>3. CASE i > n
      <4>1. i - n \in 1..Len(t) /\ t[i - n] = u /\ i = n + (i - n)
        BY <1>1, <3>1, <3>3
      <4>2. i - n \in Places(t, u)
        BY <4>1 DEF Places
      <4> QED
        BY <4>1, <4>2
    <3> QED
      BY <1>1, <3>1, <3>2, <3>3
  <2>2. ASSUME NEW i \in Places(s, u) PROVE i \in Places(s \o t, u)
    BY <1>1, <1>2 DEF Places
  <2>3. ASSUME NEW i \in Places(t, u) PROVE n + i \in Places(s \o t, u)
    <3>1. i \in 1..Len(t) /\ t[i] = u
      BY DEF Places
    <3>2. n + i \in 1..Len(s \o t) /\ (s \o t)[n + i] = u
      BY <1>1, <3>1
    <3> QED
      BY <3>2 DEF Places
  <2> QED
    BY <2>1, <2>2, <2>3
<1>4. Places(s, u) \cap B = {}
  BY <1>1, <1>2
<1>5. f \in [Places(t, u) -> B] /\ \A b \in B : \E i \in Places(t, u) : f[i] = b
  OBVIOUS
<1>6. \A i, j \in Places(t, u) : f[i] = f[j] => i = j
  <2>1. \A i, j \in Places(t, u) : n + i = n + j => i = j
    BY <1>1, <1>2
  <2> QED
    BY <2>1
<1>7. IsFiniteSet(Places(s, u)) /\ Cardinality(Places(s, u)) \in Nat
      /\ IsFiniteSet(Places(t, u)) /\ Cardinality(Places(t, u)) \in Nat
  BY PlacesAre DEF Occurrences
<1> HIDE DEF B, f, n
<1>8. IsFiniteSet(B) /\ Cardinality(B) = Cardinality(Places(t, u))
  BY <1>5, <1>6, <1>7, SameSize
<1>9. Cardinality(Places(s, u) \cap B) = 0
  BY <1>4, FS_EmptySet
<1>10. Cardinality(Places(s, u) \cup B)
         = Cardinality(Places(s, u)) + Cardinality(B) - Cardinality(Places(s, u) \cap B)
  BY <1>7, <1>8, FS_Union
<1> QED
  BY <1>3, <1>7, <1>8, <1>9, <1>10 DEF Occurrences

(* However many conversations there are, a unit is named a finite number   *)
(* of times, and none exactly when none of their lists has it.             *)
LEMMA TimesIs ==
  ASSUME NEW l, Lists(l), NEW cs, cs \subseteq Conv, NEW u
  PROVE  /\ IsFiniteSet(Named(l, cs, u)) /\ Times(l, cs, u) \in Nat
         /\ Times(l, cs, u) = 0 <=> \A c \in cs : u \notin Elems(l[c])
<1> DEFINE A == {c \in Conv : l[c] # <<>>} \cap cs
           f == [c \in A |-> {c} \X Places(l[c], u)]
           B == {f[c] : c \in A}
<1>1. \A c \in Conv : IsFiniteSet(Places(l[c], u))
  BY PlacesAre DEF Lists
<1>2. \A c \in Conv : Places(l[c], u) = {} <=> u \notin Elems(l[c])
  BY DEF Places, Elems
<1>3. \A c \in Conv : l[c] = <<>> => Places(l[c], u) = {}
  BY DEF Places
<1>4. \A p : p \in Named(l, cs, u) <=> \E c \in cs : p \in {c} \X Places(l[c], u)
  BY DEF Named
<1>5. Named(l, cs, u) = UNION B
  <2>1. \A p : p \in UNION B <=> \E c \in A : p \in {c} \X Places(l[c], u)
    OBVIOUS
  <2>2. \A c \in cs \ A : {c} \X Places(l[c], u) = {}
    BY <1>3
  <2> QED
    BY <1>4, <2>1, <2>2
<1>6. IsFiniteSet(A)
  BY FS_Intersection DEF Lists
<1>7. f \in Surjection(A, B)
  BY DEF Surjection
<1>8. \A T \in B : IsFiniteSet(T)
  <2>1. \A c \in A : IsFiniteSet({c} \X Places(l[c], u))
    BY <1>1, FS_Singleton, FS_Product
  <2> QED
    BY <2>1
<1>9. IsFiniteSet(UNION B)
  <2> HIDE DEF A, f, B
  <2>1. IsFiniteSet(B)
    BY <1>6, <1>7, FS_Surjection
  <2> QED
    BY <1>8, <2>1, FS_UNION
<1>10. Named(l, cs, u) = {} <=> \A c \in cs : u \notin Elems(l[c])
  <2>1. ASSUME NEW c \in cs PROVE {c} \X Places(l[c], u) = {} <=> Places(l[c], u) = {}
    <3>1. ASSUME NEW i \in Places(l[c], u) PROVE {c} \X Places(l[c], u) # {}
      <4>1. <<c, i>> \in {c} \X Places(l[c], u)
        OBVIOUS
      <4> QED
        BY <4>1
    <3> QED
      BY <3>1
  <2>2. Named(l, cs, u) = {} <=> \A c \in cs : {c} \X Places(l[c], u) = {}
    BY <1>4
  <2> QED
    BY <1>2, <2>1, <2>2
<1>11. IsFiniteSet(Named(l, cs, u)) /\ Cardinality(Named(l, cs, u)) \in Nat
  BY <1>5, <1>9, FS_CardinalityType
<1> QED
  BY <1>10, <1>11, FS_EmptySet DEF Times

(* The namings of two groups of conversations add up.                      *)
LEMMA TimesAdd ==
  ASSUME NEW l, Lists(l), NEW cs, NEW ds, cs \subseteq Conv, ds \subseteq Conv,
         cs \cap ds = {}, NEW u
  PROVE  Times(l, cs \cup ds, u) = Times(l, cs, u) + Times(l, ds, u)
<1>1. Named(l, cs \cup ds, u) = Named(l, cs, u) \cup Named(l, ds, u)
  BY DEF Named
<1>2. Named(l, cs, u) \cap Named(l, ds, u) = {}
  BY DEF Named
<1>3. /\ IsFiniteSet(Named(l, cs, u)) /\ IsFiniteSet(Named(l, ds, u))
      /\ Times(l, cs, u) \in Nat /\ Times(l, ds, u) \in Nat
  BY TimesIs
<1>4. Cardinality(Named(l, cs, u) \cap Named(l, ds, u)) = 0
  BY <1>2, FS_EmptySet
<1>5. Cardinality(Named(l, cs, u) \cup Named(l, ds, u))
        = Cardinality(Named(l, cs, u)) + Cardinality(Named(l, ds, u))
            - Cardinality(Named(l, cs, u) \cap Named(l, ds, u))
  BY <1>3, FS_Union
<1>6. Cardinality(Named(l, cs \cup ds, u)) = Cardinality(Named(l, cs, u) \cup Named(l, ds, u))
  BY <1>1, Zenon
<1> QED
  BY <1>3, <1>4, <1>5, <1>6 DEF Times

(* One conversation names a unit as often as its list has it.              *)
LEMMA TimesOne ==
  ASSUME NEW l, Lists(l), NEW c \in Conv, NEW u
  PROVE  Times(l, {c}, u) = Occurrences(l[c], u)
<1> DEFINE P == Places(l[c], u)
           f == [i \in P |-> <<c, i>>]
<1>1. IsFiniteSet(P)
  BY PlacesAre DEF Lists
<1>2. Named(l, {c}, u) = {c} \X P
  BY DEF Named
<1>3. f \in [P -> {c} \X P] /\ \A p \in {c} \X P : \E i \in P : f[i] = p
  OBVIOUS
<1>4. \A i, j \in P : f[i] = f[j] => i = j
  OBVIOUS
<1>5. Cardinality({c} \X P) = Cardinality(P)
  <2> HIDE DEF P, f
  <2> QED
    BY <1>1, <1>3, <1>4, SameSize
<1> QED
  BY <1>2, <1>5 DEF Times, Occurrences

(* Giving one conversation another list changes the naming by what the two *)
(* lists have.                                                             *)
LEMMA TimesReplaced ==
  ASSUME NEW l, Lists(l), NEW c \in Conv, NEW units \in Seq(Unit),
         Lists([l EXCEPT ![c] = units]), NEW u
  PROVE  Times([l EXCEPT ![c] = units], Conv, u)
           = Times(l, Conv, u) + Occurrences(units, u) - Occurrences(l[c], u)
<1> DEFINE rest == Conv \ {c}
           k == [l EXCEPT ![c] = units]
<1>1. {c} \subseteq Conv /\ rest \subseteq Conv /\ {c} \cap rest = {} /\ {c} \cup rest = Conv
  OBVIOUS
<1>2. k[c] = units /\ \A d \in rest : k[d] = l[d]
  BY DEF Lists
<1> HIDE DEF rest, k
<1>3. Times(l, Conv, u) = Times(l, {c}, u) + Times(l, rest, u)
  BY <1>1, TimesAdd
<1>4. Lists(k)
  BY DEF k
<1>5. Times(k, Conv, u) = Times(k, {c}, u) + Times(k, rest, u)
  BY <1>1, <1>4, TimesAdd
<1>6. Times(k, rest, u) = Times(l, rest, u)
  <2>1. {{d} \X Places(k[d], u) : d \in rest} = {{d} \X Places(l[d], u) : d \in rest}
    BY <1>2
  <2> QED
    BY <2>1 DEF Times, Named
<1>7. Times(l, {c}, u) = Occurrences(l[c], u) /\ Times(k, {c}, u) = Occurrences(units, u)
  BY <1>2, <1>4, TimesOne
<1>8. Occurrences(l[c], u) \in Nat /\ Occurrences(units, u) \in Nat /\ Times(l, rest, u) \in Nat
  <2>1. l[c] \in Seq(Unit)
    BY DEF Lists
  <2> QED
    BY <1>1, <2>1, TimesIs, PlacesAre
<1> QED
  BY <1>3, <1>5, <1>6, <1>7, <1>8 DEF k

(* Being on the device or on the host is being somewhere.                  *)
LEMMA Somewhere ==
  /\ \A b : Device(b) # Nowhere
  /\ \A k : Host(k) # Nowhere
  /\ \A u : OnDevice(u) \/ OnHost(u) => place[u] # Nowhere
BY DEF Device, Host, Nowhere, OnDevice, OnHost

(* The lists before a step and after it are lists.                         *)
LEMMA ListsAre == (ListsTyped <=> Lists(list)) /\ (ListsTyped' <=> Lists(list'))
BY DEF ListsTyped, Lists

(* The counts, as times the lists name a unit.                             *)
LEMMA CountedIs ==
  /\ Counted <=> ref = [u \in Unit |-> Times(list, Conv, u)]
  /\ Counted' <=> ref' = [u \in Unit |-> Times(list', Conv, u)]
BY DEF Counted, Naming, Times, Named

(* A step that leaves the index, the counts and the lists, and keeps every *)
(* unit with rows somewhere, keeps the index true.                         *)
LEMMA MoveKeeps ==
  ASSUME Indexed, UNCHANGED <<indexed, ref, list>>,
         \A u \in Unit : place'[u] = Nowhere <=> place[u] = Nowhere
  PROVE  Indexed'
BY CountedIs DEF Indexed, Backed, IndexedMeansPlaced

(* adopt_units, of units the index has.                                    *)
LEMMA AdoptKeeps ==
  ASSUME ListsTyped, Indexed, NEW c \in Conv, NEW units \in Seq(Unit), Adopt(c, units),
         Elems(units) \subseteq indexed, UNCHANGED <<indexed, place>>
  PROVE  Indexed'
<1>1. list' = [list EXCEPT ![c] = units]
  BY DEF Adopt
<1>2. ListsTyped'
  BY <1>1, ListsAfter
<1>3. Counted'
  <2>1. ASSUME NEW u \in Unit
        PROVE  ref[u] + Occurrences(units, u) - Occurrences(list[c], u) = Times(list', Conv, u)
    <3>1. Lists(list) /\ Lists([list EXCEPT ![c] = units])
      BY <1>1, <1>2, ListsAre
    <3>2. ref[u] = Times(list, Conv, u)
      BY CountedIs DEF Indexed
    <3>3. Times([list EXCEPT ![c] = units], Conv, u)
            = Times(list, Conv, u) + Occurrences(units, u) - Occurrences(list[c], u)
      BY <3>1, TimesReplaced
    <3>4. Times(list', Conv, u) = Times([list EXCEPT ![c] = units], Conv, u)
      BY <1>1
    <3> QED
      BY <3>2, <3>3, <3>4
  <2>2. ref' = [u \in Unit |-> Times(list', Conv, u)]
    BY <2>1 DEF Adopt
  <2> QED
    BY <2>2, CountedIs
<1>4. Backed'
  BY <1>1 DEF Indexed, Backed, ListsTyped
<1> QED
  BY <1>3, <1>4 DEF Indexed, IndexedMeansPlaced

(* What goes because nobody names it is in no list.                        *)
LEMMA EvictKeeps ==
  ASSUME ListsTyped, Counted, Backed, IndexedMeansPlaced,
         NEW l, Lists(l), \A c \in Conv : Elems(l[c]) \subseteq Elems(list[c]),
         NEW counts, counts = [u \in Unit |-> Times(l, Conv, u)],
         NEW blocks, Evict(counts, blocks), list' = l, ref' = counts, indexed \subseteq Unit
  PROVE  Indexed'
<1>1. Counted'
  BY CountedIs
<1>2. ASSUME NEW u \in Evictable(counts), NEW c \in Conv PROVE u \notin Elems(l[c])
  BY <1>2, TimesIs DEF Evictable
<1>3. Backed'
  BY <1>2 DEF Backed, Evict
<1>4. IndexedMeansPlaced'
  BY DEF Evict, IndexedMeansPlaced, Evictable
<1> QED
  BY <1>1, <1>3, <1>4 DEF Indexed

(* Evicting what the counts say nobody names keeps the index true.         *)
LEMMA SweepKeeps ==
  ASSUME StateTyped, Indexed, NEW blocks, Evict(ref, blocks), UNCHANGED <<ref, list>>
  PROVE  Indexed'
<1>1. Lists(list) /\ ListsTyped /\ indexed \subseteq Unit
  BY ListsAre DEF StateTyped, MemoryTyped
<1>2. ref = [u \in Unit |-> Times(list, Conv, u)]
  BY CountedIs DEF Indexed
<1> QED
  BY <1>1, <1>2, EvictKeeps DEF Indexed

(* forget, of any group of conversations.                                  *)
LEMMA ForgetKeeps ==
  ASSUME StateTyped, Indexed, NEW cs, cs \subseteq Conv, NEW blocks, Forget(cs, blocks)
  PROVE  Indexed'
<1> DEFINE l == [c \in Conv |-> IF c \in cs THEN <<>> ELSE list[c]]
<1>1. list' = l
  BY DEF Forget
<1>2. Lists(list) /\ ListsTyped /\ indexed \subseteq Unit
  BY ListsAre DEF StateTyped, MemoryTyped
<1>3. Lists(l)
  <2>1. l \in [Conv -> Seq(Unit)]
    BY <1>2 DEF Lists
  <2>2. {c \in Conv : l[c] # <<>>} \in SUBSET {c \in Conv : list[c] # <<>>}
    OBVIOUS
  <2> HIDE DEF l
  <2> QED
    BY <1>2, <2>1, <2>2, FS_Subset DEF Lists
<1>4. ASSUME NEW u \in Unit PROVE ref[u] - Naming(cs, u) = Times(l, Conv, u)
  <2>1. ref[u] = Times(list, Conv, u)
    BY CountedIs DEF Indexed
  <2>2. Naming(cs, u) = Times(list, cs, u)
    BY DEF Naming, Times, Named
  <2> DEFINE rest == Conv \ cs
  <2>3. rest \subseteq Conv /\ cs \cap rest = {} /\ cs \cup rest = Conv
    OBVIOUS
  <2>4. (\A c \in rest : l[c] = list[c]) /\ \A c \in cs : l[c] = <<>>
    OBVIOUS
  <2> HIDE DEF rest, l
  <2>5. Times(list, Conv, u) = Times(list, cs, u) + Times(list, rest, u)
    BY <1>2, <2>3, TimesAdd
  <2>6. Times(l, Conv, u) = Times(l, cs, u) + Times(l, rest, u)
    BY <1>3, <2>3, TimesAdd
  <2>7. Times(l, cs, u) = 0
    BY <1>3, <2>4, TimesIs DEF Elems
  <2>8. Times(l, rest, u) = Times(list, rest, u)
    <3>1. {{c} \X Places(l[c], u) : c \in rest} = {{c} \X Places(list[c], u) : c \in rest}
      BY <2>4
    <3> QED
      BY <3>1 DEF Times, Named
  <2>9. Times(list, cs, u) \in Nat /\ Times(list, rest, u) \in Nat
    BY <1>2, <2>3, TimesIs
  <2> QED
    BY <2>1, <2>2, <2>5, <2>6, <2>7, <2>8, <2>9
<1>5. \A c \in Conv : Elems(l[c]) \subseteq Elems(list[c])
  BY DEF Elems
<1>6. ref' = [u \in Unit |-> Times(l, Conv, u)]
  BY <1>4 DEF Forget
<1>7. Evict(ref', blocks)
  BY DEF Forget
<1> HIDE DEF l
<1> QED
  BY <1>1, <1>2, <1>3, <1>5, <1>6, <1>7, EvictKeeps DEF Indexed

(* seal_unit, of a run of a stream's units.                                *)
LEMMA SealKeeps ==
  ASSUME MemoryTyped, ListsTyped, Indexed, NEW c \in Conv, NEW s \in Stream, NEW m \in Nat,
         NEW blocks \in Seq(Block), Len(blocks) > 0 => m + Len(blocks) <= Len(s),
         Seal(c, s, m, blocks)
  PROVE  Indexed'
<1> DEFINE units == Chain(s, m, m + Len(blocks))
<1>1. units \in Seq(Unit)
  BY SealedUnits
<1>2. /\ list' = [list EXCEPT ![c] = @ \o units]
      /\ ref' = [u \in Unit |-> ref[u] + Occurrences(units, u)]
      /\ indexed' = indexed \cup Elems(units)
      /\ place' = [u \in Unit |->
           IF u \in Elems(units) /\ ~OnDevice(u) THEN Device(blocks[Len(u) - m]) ELSE place[u]]
  BY DEF Seal
<1> HIDE DEF units
<1>3. list[c] \in Seq(Unit) /\ list[c] \o units \in Seq(Unit)
      /\ Elems(list[c] \o units) = Elems(list[c]) \cup Elems(units)
  BY <1>1, ConcatElems DEF ListsTyped
<1>4. list' = [list EXCEPT ![c] = list[c] \o units]
  BY <1>2
<1>5. ListsTyped'
  BY <1>3, <1>4, ListsAfter
<1>6. Counted'
  <2>1. ASSUME NEW u \in Unit PROVE ref[u] + Occurrences(units, u) = Times(list', Conv, u)
    <3>1. Lists(list) /\ Lists([list EXCEPT ![c] = list[c] \o units])
      BY <1>4, <1>5, ListsAre
    <3>2. ref[u] = Times(list, Conv, u) /\ Times(list, Conv, u) \in Nat
      BY <3>1, CountedIs, TimesIs DEF Indexed
    <3>3. Occurrences(list[c] \o units, u) = Occurrences(list[c], u) + Occurrences(units, u)
      BY <1>1, <1>3, OccurrencesAdd
    <3>4. Occurrences(list[c], u) \in Nat /\ Occurrences(units, u) \in Nat
      BY <1>1, <1>3, PlacesAre
    <3>5. Times(list', Conv, u)
            = Times(list, Conv, u) + Occurrences(list[c] \o units, u) - Occurrences(list[c], u)
      BY <1>3, <1>4, <3>1, TimesReplaced
    <3> QED
      BY <3>2, <3>3, <3>4, <3>5
  <2>2. ref' = [u \in Unit |-> Times(list', Conv, u)]
    BY <1>2, <2>1
  <2> QED
    BY <2>2, CountedIs
<1>7. Backed'
  BY <1>2, <1>3 DEF Indexed, Backed, ListsTyped
<1>8. IndexedMeansPlaced'
  <2>1. ASSUME NEW u \in Unit PROVE u \in indexed' <=> place'[u] # Nowhere
    <3>1. u \in indexed <=> place[u] # Nowhere
      BY DEF Indexed, IndexedMeansPlaced
    <3> QED
      BY <1>2, <3>1, Somewhere
  <2> QED
    BY <2>1 DEF IndexedMeansPlaced
<1> QED
  BY <1>6, <1>7, <1>8 DEF Indexed

-----------------------------------------------------------------------------
(* Every operation keeps the index true.                                   *)

(* Most of the actions do not touch it.                                    *)
LEMMA IndexSame ==
  ASSUME Indexed, UNCHANGED indexVars
  PROVE  Indexed'
BY MoveKeeps DEF indexVars

(* The departure of conversations keeps the index true.                    *)
LEMMA IndexLeave ==
  ASSUME Typed, Indexed, NEW cs, cs \subseteq Conv, Leave(cs)
  PROVE  Indexed'
BY ForgetKeeps DEF Leave, Typed

(* So does making room.                                                    *)
LEMMA IndexRoom ==
  ASSUME Typed, Indexed, MakingRoom
  PROVE  Indexed'
<1>1. CASE EvictUnreferenced
  BY <1>1, SweepKeeps DEF EvictUnreferenced, Typed
<1>2. CASE DropLru
  <2>1. PICK i \in DOMAIN lru : Leave({lru[i]})
    BY <1>2 DEF DropLru
  <2>2. {lru[i]} \subseteq Conv
    BY DEF Typed, StateTyped, OrderTyped
  <2> QED
    BY <2>1, <2>2, IndexLeave
<1>3. CASE EvictHostToDisk
  <2> DEFINE c == recent[First(Spillable)]
  <2>1. Spillable # {} /\ Leave({c})
    BY <1>3 DEF EvictHostToDisk
  <2>2. Spillable \subseteq Elems(recent) /\ recent \in Seq(Conv)
    BY DEF Spillable, Typed, StateTyped, OrderTyped
  <2>3. c \in Conv
    BY <2>1, <2>2, FirstIs
  <2> QED
    BY <2>1, <2>3, IndexLeave
<1>4. CASE Demote
  <2>1. \A u \in Unit : Moved(u) => OnDevice(u)
    BY <1>4 DEF Demote, Moved, Typed, PlanAgrees, At
  <2>2. /\ place' = [u \in Unit |-> IF Moved(u) THEN Host(Target(u)) ELSE place[u]]
        /\ UNCHANGED <<indexed, ref, list>>
    BY <1>4 DEF Demote
  <2> QED
    BY <2>1, <2>2, Somewhere, MoveKeeps
<1>5. CASE NoHostRoom \/ Roomy \/ PrepareDemote \/ DemoteFails \/ DemoteIdle
  BY <1>5, IndexSame DEF NoHostRoom, Roomy, PrepareDemote, DemoteFails, DemoteIdle
<1> QED
  BY <1>1, <1>2, <1>3, <1>4, <1>5 DEF MakingRoom

(* So does cutting the list to where the conversation stands.              *)
LEMMA IndexStand ==
  ASSUME Typed, Indexed, StandOnResident \/ StandOnDisk
  PROVE  Indexed'
<1> DEFINE c == eng.conv
           n == Len(list[c])
<1>1. c \in Conv /\ list[c] \in Seq(Unit) /\ n \in Nat /\ Len(eng.prompt) \in Nat
  <2>1. At("choose") /\ c \in Conv /\ eng.prompt \in Stream
    BY DEF StandOnResident, StandOnDisk, Typed, EngAgrees, EngTyped, At
  <2> QED
    BY <2>1, StreamIs DEF Typed, StateTyped, ListsTyped
<1>2. PICK k \in 0..n : Adopt(c, Below(k))
  <2>1. CASE StandOnResident
    BY <2>1 DEF StandOnResident
  <2>2. CASE StandOnDisk
    <3>1. PICK d \in 1..Len(eng.prompt) : Adopt(c, Below(Lesser(d, n)))
      BY <2>2 DEF StandOnDisk
    <3>2. Lesser(d, n) \in 0..n
      BY <1>1 DEF Lesser
    <3> QED
      BY <3>1, <3>2
  <2> QED
    BY <2>1, <2>2
<1>3. Below(k) \in Seq(Unit) /\ Len(Below(k)) = k /\ \A i \in 1..k : Below(k)[i] = list[c][i]
  BY <1>1, FirstPart DEF Below
<1>4. Elems(Below(k)) \subseteq Elems(list[c])
  <2> DEFINE b == Below(k)
  <2>1. b \in Seq(Unit) /\ Len(b) = k /\ \A i \in 1..k : b[i] = list[c][i]
    BY <1>3
  <2> HIDE DEF b
  <2>2. Elems(b) \subseteq Elems(list[c])
    BY <1>1, <2>1 DEF Elems
  <2> QED
    BY <2>2 DEF b
<1>5. Elems(Below(k)) \subseteq indexed
  BY <1>1, <1>4 DEF Indexed, Backed
<1>6. UNCHANGED <<indexed, place>>
  BY DEF StandOnResident, StandOnDisk
<1> QED
  BY <1>1, <1>2, <1>3, <1>5, <1>6, AdoptKeeps DEF Typed, StateTyped

(* So does every step of a begin.                                          *)
LEMMA IndexBeginning ==
  ASSUME Typed, Indexed, Beginning
  PROVE  Indexed'
<1>1. CASE SwitchShared
  <2>1. CASE Leaving = {}
    BY <1>1, <2>1, IndexSame DEF SwitchShared
  <2>2. CASE Leaving # {}
    BY <1>1, <2>2, IndexLeave DEF SwitchShared, Leaving, Typed, StateTyped, ConvTyped
  <2> QED
    BY <2>1, <2>2
<1>2. CASE Sweep
  BY <1>2, SweepKeeps DEF Sweep, Typed
<1>3. CASE Probe
  <2> DEFINE units == Chain(eng.prompt, 0, Hits(eng.prompt))
  <2>1. eng.conv \in Conv /\ eng.prompt \in Stream
    BY <1>3 DEF Probe, Typed, EngAgrees, EngTyped, At
  <2>2. units \in Seq(Unit) /\ Elems(units) \subseteq indexed
    BY <2>1, MatchedIs DEF Matched
  <2>3. Adopt(eng.conv, units) /\ UNCHANGED <<indexed, place>>
    BY <1>3 DEF Probe
  <2> HIDE DEF units
  <2> QED
    BY <2>1, <2>2, <2>3, AdoptKeeps DEF Typed, StateTyped
<1>4. CASE Promote
  <2>1. \A u \in Unit : Moved(u) => OnHost(u)
    <3>1. \A m \in eng.plan : m[1] \in HostHits
      BY <1>4 DEF Promote, Typed, PlanAgrees, At
    <3> QED
      BY <3>1 DEF Moved, HostHits
  <2>2. /\ place' = [u \in Unit |-> IF Moved(u) THEN Device(Target(u)) ELSE place[u]]
        /\ UNCHANGED <<indexed, ref, list>>
    BY <1>4 DEF Promote
  <2> QED
    BY <2>1, <2>2, Somewhere, MoveKeeps
<1>5. CASE StandOnResident \/ StandOnDisk
  BY <1>5, IndexStand
<1>6. CASE FreshRead
  <2> DEFINE s == eng.prompt
             out == eng.out
             first == eng.resume - Len(out)
  <2>1. /\ eng.conv \in Conv /\ s \in Stream /\ out \in Seq(Block) /\ eng.resume \in Nat
        /\ eng.resume <= Len(s) /\ Len(out) + eng.need <= eng.resume /\ eng.need \in Nat
    BY <1>6 DEF FreshRead, Allocated, Typed, EngTyped, EngAgrees, At
  <2>2. first \in Nat /\ first + Len(out) <= Len(s)
    BY <2>1, StreamIs
  <2>3. Seal(eng.conv, s, first, out)
    BY <1>6 DEF FreshRead
  <2> QED
    BY <2>1, <2>2, <2>3, SealKeeps DEF Typed, StateTyped
<1>7. CASE SwitchExplicit \/ EnterFast \/ EnterGeneral \/ PreparePromote \/ PromoteFails
           \/ AllocOne \/ Exhausted \/ CommitFails \/ FastAllocated \/ RestoreFails
           \/ FastTables \/ Install \/ Serve \/ ServeCold \/ NotServed
  BY <1>7, IndexSame DEF SwitchExplicit, EnterFast, EnterGeneral, PreparePromote, PromoteFails,
     AllocOne, Exhausted, CommitFails, FastAllocated, RestoreFails, FastTables, Install, Serve,
     ServeCold, NotServed
<1> QED
  BY <1>1, <1>2, <1>3, <1>4, <1>5, <1>6, <1>7 DEF Beginning

(* So does the seal at the end of a turn.                                  *)
LEMMA IndexEnd ==
  ASSUME Typed, Indexed, NEW c \in Conv, End(c)
  PROVE  Indexed'
<1> DEFINE s == work[c]
           n == New(c)
           blocks == Prefix(tail[c], n)
<1>1. /\ s \in Stream /\ Len(s) \in Nat /\ sealed[c] \in Nat
      /\ tail[c] \in Seq(Block) /\ Len(tail[c]) \in Nat
  BY StreamIs, MaxPagesAssumption DEF Typed, StateTyped, RowTyped, ConvTyped
<1>2. n \in Nat /\ n <= Len(tail[c]) /\ (n > 0 => sealed[c] + n <= Len(s))
  BY <1>1 DEF End, New, Beyond
<1>3. blocks \in Seq(Block) /\ Len(blocks) = n
  BY <1>1, <1>2, FirstPart
<1>4. Seal(c, s, sealed[c], blocks)
  BY DEF End
<1> HIDE DEF n, blocks
<1> QED
  BY <1>1, <1>2, <1>3, <1>4, SealKeeps DEF Typed, StateTyped

(* The index stays true whatever step is taken.                            *)
LEMMA IndexStep ==
  ASSUME Typed, Indexed, [Next]_vars
  PROVE  Indexed'
<1>1. CASE UNCHANGED vars
  BY <1>1, IndexSame DEF vars
<1>2. ASSUME NEW c \in Conv, NEW p \in Stream, Begin(c, p) PROVE Indexed'
  BY <1>2, IndexSame DEF Begin
<1>3. CASE MakingRoom
  BY <1>3, IndexRoom
<1>4. CASE Admitting
  BY <1>4, IndexSame DEF Admitting, ChargeSlot, DoNotCharge, Admit
<1>5. CASE Beginning
  BY <1>5, IndexBeginning
<1>6. CASE Grown
  BY <1>6, IndexSame DEF Grown
<1>7. CASE GrowthFailed
  <2>1. {eng.conv} \subseteq Conv /\ Leave({eng.conv})
    BY <1>7 DEF GrowthFailed, Typed, EngAgrees, At
  <2> QED
    BY <2>1, IndexLeave
<1>8. ASSUME NEW c \in Conv, Abandon(c) \/ Erase(c) PROVE Indexed'
  BY <1>8, IndexLeave DEF Abandon, Erase
<1>9. CASE Trim
  <2>1. CASE Explicit
    BY <1>9, <2>1, IndexSame DEF Trim
  <2>2. CASE ~Explicit
    BY <1>9, <2>2, IndexLeave DEF Trim, Typed, StateTyped, ConvTyped
  <2> QED
    BY <2>1, <2>2
<1>10. ASSUME NEW c \in Conv,
              Prefill(c) \/ Grow(c) \/ EndUnderflows(c) \/ EndUnknown(c)
                \/ \E x \in Page : Decode(c, x)
       PROVE  Indexed'
  BY <1>10, IndexSame DEF Prefill, Grow, EndUnderflows, EndUnknown, Decode
<1>11. ASSUME NEW c \in Conv, End(c) PROVE Indexed'
  BY <1>11, IndexEnd
<1> QED
  BY <1>1, <1>2, <1>3, <1>4, <1>5, <1>6, <1>7, <1>8, <1>9, <1>10, <1>11 DEF Next, Engine

(* The index begins empty.                                                 *)
LEMMA IndexInit == Init => Indexed
<1> SUFFICES ASSUME Init PROVE Indexed
  OBVIOUS
<1> USE DEF Init, InitResident
<1>1. Lists(list)
  BY InitTyped, ListsAre DEF Typed, StateTyped
<1>2. \A c \in Conv : Elems(list[c]) = {}
  BY DEF Elems
<1>3. \A u \in Unit : Times(list, Conv, u) = 0
  BY <1>1, <1>2, TimesIs
<1>4. Counted
  BY <1>3, CountedIs
<1> QED
  BY <1>2, <1>4 DEF Indexed, Backed, IndexedMeansPlaced

(* Whatever the pool does, the counts are exact, the lists name units that *)
(* are indexed, and the units indexed are the units that lie somewhere.    *)
LEMMA IndexAlways == Spec => [](Typed /\ Indexed)
<1>1. Init => Typed /\ Indexed
  BY InitTyped, IndexInit
<1>2. Typed /\ Indexed /\ [Next]_vars => Typed' /\ Indexed'
  BY TypedStep, IndexStep
<1> QED
  BY <1>1, <1>2, PTL DEF Spec

(* The content index agrees with the lists and with the memory, for any    *)
(* number of conversations and any memory (resident.rs, index.rs).         *)
THEOREM IndexTrue == Spec => []IndexExact
<1>1. Typed /\ Indexed => IndexExact
  BY DEF Indexed, Counted, IndexExact, RefcountExact
<1> QED
  BY <1>1, IndexAlways, PTL

-----------------------------------------------------------------------------
(* The type invariant, for every value of the constants.                   *)

TablesTyped == \A s \in Slot : Elems(table[s]) \subseteq Block \cup Handle

(* A block table names blocks and handles.                                 *)
LEMMA TableElems ==
  ASSUME Typed, Indexed, NEW c \in Conv, NEW t \in Seq(Block)
  PROVE  Elems(Table(c, t)) \subseteq Block \cup Handle
<1> DEFINE T == Table(c, t)
           n == Len(list[c])
<1>1. /\ T \in Seq(Int) /\ Len(T) = n + Len(t) /\ n \in Nat /\ Len(t) \in Nat
      /\ \A i \in 1..n : T[i] = place[list[c][i]][2]
      /\ \A i \in 1..Len(t) : T[n + i] = t[i]
      /\ list[c] \in Seq(Unit)
  <2>1. MemoryTyped /\ ListsTyped
    BY DEF Typed, StateTyped
  <2>2. /\ T \in Seq(Int) /\ Len(T) = n + Len(t)
        /\ \A i \in 1..n : T[i] = place[list[c][i]][2]
        /\ \A i \in 1..Len(t) : T[n + i] = t[i]
    <3>1. /\ Table(c, t) \in Seq(Int) /\ Len(Table(c, t)) = Len(list[c]) + Len(t)
          /\ \A i \in 1..Len(list[c]) : Table(c, t)[i] = place[list[c][i]][2]
          /\ \A i \in 1..Len(t) : Table(c, t)[Len(list[c]) + i] = t[i]
      BY ONLY <2>1, TableTyped, c \in Conv, t \in Seq(Block)
    <3> QED
      BY ONLY <3>1
  <2>3. list[c] \in Seq(Unit)
    BY <2>1 DEF ListsTyped
  <2>4. n \in Nat /\ Len(t) \in Nat
    BY <2>3
  <2> QED
    BY ONLY <2>2, <2>3, <2>4
<1>2. ASSUME NEW i \in 1..n PROVE place[list[c][i]][2] \in Block \cup Handle
  <2> DEFINE u == list[c][i]
  <2>1. u \in Unit /\ u \in Elems(list[c])
    BY <1>1 DEF Elems
  <2>2. u \in indexed
    BY <2>1 DEF Indexed, Backed
  <2>3. place[u] \in Placement /\ place[u] # Nowhere
    BY <2>1, <2>2 DEF Indexed, IndexedMeansPlaced, Typed, StateTyped, MemoryTyped
  <2> HIDE DEF u
  <2>4. (\E b \in Block : place[u] = <<"device", b>>) \/ \E k \in Handle : place[u] = <<"host", k>>
    BY <2>3 DEF Placement, Device, Host
  <2>5. place[u][2] \in Block \cup Handle
    BY <2>4
  <2> QED
    BY <2>5 DEF u
<1> HIDE DEF T, n
<1>3. ASSUME NEW i \in 1..Len(T) PROVE T[i] \in Block \cup Handle
  <2>1. CASE i <= n
    <3>1. i \in 1..n
      BY <1>1, <2>1
    <3>2. T[i] = place[list[c][i]][2]
      BY <1>1, <3>1
    <3>3. place[list[c][i]][2] \in Block \cup Handle
      BY <1>2, <3>1
    <3> QED
      BY <3>2, <3>3
  <2>2. CASE i > n
    <3>1. i - n \in 1..Len(t) /\ i = n + (i - n)
      BY <1>1, <2>2
    <3>2. T[i] = t[i - n]
      BY <1>1, <3>1
    <3> QED
      BY <3>1, <3>2
  <2> QED
    BY <1>1, <2>1, <2>2
<1>4. Elems(T) \subseteq Block \cup Handle
  BY <1>1, <1>3 DEF Elems
<1> QED
  BY <1>4 DEF T

(* Every table keeps doing so.                                             *)
LEMMA TablesStep ==
  ASSUME Typed, Indexed, TablesTyped, [Next]_vars
  PROVE  TablesTyped'
<1>1. ASSUME NEW c \in Conv, NEW t \in Seq(Block), table' = [table EXCEPT ![cur] = Table(c, t)]
      PROVE  TablesTyped'
  <2>1. Elems(Table(c, t)) \subseteq Block \cup Handle
    BY TableElems
  <2>2. table \in [Slot -> Seq(Int)]
    BY DEF Typed, StateTyped, SlotTyped
  <2> QED
    BY <1>1, <2>1, <2>2 DEF TablesTyped
<1>2. CASE UNCHANGED table
  BY <1>2 DEF TablesTyped
<1>3. CASE FastTables
  <2>1. eng.conv \in Conv /\ tail[eng.conv] \in Seq(Block)
    BY <1>3 DEF FastTables, Typed, StateTyped, ConvTyped, EngAgrees, At
  <2> QED
    BY <1>1, <1>3, <2>1 DEF FastTables
<1>4. CASE Install
  <2>1. eng.conv \in Conv /\ eng.out \in Seq(Block)
    BY <1>4 DEF Install, Allocated, Typed, EngAgrees, EngTyped, At
  <2> QED
    BY <1>1, <1>4, <2>1 DEF Install
<1>5. CASE Grown
  <2>1. eng.conv \in Conv /\ tail[eng.conv] \o eng.out \in Seq(Block)
    BY <1>5 DEF Grown, Allocated, Typed, StateTyped, ConvTyped, EngAgrees, EngTyped, At
  <2> QED
    BY <1>1, <1>5, <2>1 DEF Grown
<1>6. CASE UNCHANGED vars
  BY <1>2, <1>6 DEF vars, rowVars
<1>7. CASE MakingRoom
  BY <1>2, <1>7 DEF MakingRoom, EvictUnreferenced, DropLru, EvictHostToDisk, NoHostRoom, Roomy,
     PrepareDemote, Demote, DemoteFails, DemoteIdle, rowVars
<1>8. CASE Admitting
  BY <1>2, <1>8 DEF Admitting, ChargeSlot, DoNotCharge, Admit, rowVars
<1>9. CASE SwitchShared \/ SwitchExplicit \/ Sweep \/ EnterFast \/ EnterGeneral \/ Probe
           \/ PreparePromote \/ Promote \/ PromoteFails \/ StandOnResident \/ StandOnDisk
           \/ AllocOne \/ Exhausted \/ CommitFails \/ FastAllocated \/ FreshRead \/ RestoreFails
           \/ Serve \/ ServeCold \/ NotServed
  BY <1>2, <1>9 DEF SwitchShared, SwitchExplicit, Sweep, EnterFast, EnterGeneral, Probe,
     PreparePromote, Promote, PromoteFails, StandOnResident, StandOnDisk, AllocOne, Exhausted,
     CommitFails, FastAllocated, FreshRead, RestoreFails, Serve, ServeCold, NotServed, rowVars
<1>10. CASE GrowthFailed \/ Trim
  BY <1>2, <1>10 DEF GrowthFailed, Trim, rowVars
<1>11. ASSUME NEW c \in Conv, NEW p \in Stream, Begin(c, p) PROVE TablesTyped'
  BY <1>2, <1>11 DEF Begin, rowVars
<1>12. ASSUME NEW c \in Conv,
              Prefill(c) \/ Grow(c) \/ End(c) \/ EndUnderflows(c) \/ EndUnknown(c) \/ Abandon(c)
                \/ Erase(c) \/ \E x \in Page : Decode(c, x)
       PROVE  TablesTyped'
  BY <1>2, <1>12 DEF Prefill, Grow, End, EndUnderflows, EndUnknown, Abandon, Erase, Decode,
     rowVars
<1> QED
  BY <1>3, <1>4, <1>5, <1>6, <1>7, <1>8, <1>9, <1>10, <1>11, <1>12 DEF Next, Engine, Beginning

(* The pool's type invariant: what the books, the records, the tables and  *)
(* the memory are made of, and that the blocks allocated and the blocks    *)
(* withheld for the slots together never exceed the device (pool.rs,       *)
(* set_withheld_units and alloc_units).                                    *)
THEOREM PoolTyped == Spec => []TypeOK
<1>1. Init => TablesTyped
  BY DEF Init, TablesTyped, Elems
<1>2. Typed /\ Indexed /\ TablesTyped => TypeOK
  <2> SUFFICES ASSUME Typed, Indexed, TablesTyped PROVE TypeOK
    OBVIOUS
  <2>1. ref \in [Unit -> Nat]
    <3>1. \A u \in Unit : Times(list, Conv, u) \in Nat
      BY TimesIs, ListsAre DEF Typed, StateTyped
    <3> QED
      BY <3>1, CountedIs DEF Indexed
  <2>2. \A c \in Conv : Elems(list[c]) \subseteq Unit /\ Elems(tail[c]) \subseteq Block
    BY ElemsIs DEF Typed, StateTyped, ListsTyped, ConvTyped
  <2>3. Elems(lru) \subseteq Conv /\ Elems(recent) \subseteq Conv
    BY ElemsIs DEF Typed, StateTyped, OrderTyped
  <2>4. \A c \in Conv : text[c] \in Stream /\ work[c] \in Stream
                        /\ pos[c] \in 0..Len(work[c]) /\ sealed[c] \in 0..MaxPages
                        /\ room[c] \in Nat
    <3>1. \A c \in Conv : Len(work[c]) \in Nat
      BY StreamIs DEF Typed, StateTyped, RowTyped
    <3> QED
      BY <3>1 DEF Typed, StateTyped, RowTyped, ConvTyped
  <2>5. /\ indexed \subseteq Unit /\ place \in [Unit -> Placement] /\ hosts \subseteq Handle
        /\ used \subseteq Block
        /\ withheld = Cardinality(charged) * SlotPages
        /\ Cardinality(used) + withheld <= Capacity
        /\ known \subseteq Conv /\ spoken \subseteq known /\ running \subseteq Conv
        /\ occupant \in [Slot -> Conv \cup {NoConv}] /\ cur \in Slot /\ charged \subseteq Slot
        /\ (\A b \in Block : page[b] \in Stream) /\ (\A k \in Handle : hostPage[k] \in Stream)
        /\ stored \subseteq Unit
    BY DEF Typed, StateTyped, MemoryTyped, ConvTyped, BooksTyped, SlotTyped, RowTyped, DeviceTyped
  <2> QED
    BY <2>1, <2>2, <2>3, <2>4, <2>5 DEF TypeOK, TablesTyped
<1>3. Typed /\ Indexed /\ TablesTyped /\ [Next]_vars => Typed' /\ Indexed' /\ TablesTyped'
  BY TypedStep, IndexStep, TablesStep
<1> QED
  BY <1>1, <1>2, <1>3, InitTyped, IndexInit, PTL DEF Spec

-----------------------------------------------------------------------------
(* One owner.  A block is a unit's, a tail's, or taken for the request at  *)
(* hand, once, and it is in use.                                           *)

Once(s) == \A i, j \in DOMAIN s : s[i] = s[j] => i = j
Taken == Elems(eng.out) \cup Promised

UnitsApart ==
  /\ \A u, v \in Unit : OnDevice(u) /\ OnDevice(v) /\ place[u][2] = place[v][2] => u = v
  /\ \A u \in Unit : OnDevice(u) => place[u][2] \in used \ (TailsOf(Conv) \cup Taken)

TailsApart ==
  /\ \A c \in Conv : Once(tail[c]) /\ Elems(tail[c]) \subseteq used \ Taken
  /\ \A c, d \in Conv : c # d => Elems(tail[c]) \cap Elems(tail[d]) = {}

(* A unit is moved once, and to a place of its own.                        *)
TakenApart ==
  /\ Once(eng.out) /\ Taken \subseteq used
  /\ \A m, n \in eng.plan : m # n => m[1] # n[1] /\ m[2] # n[2]
  /\ At("demote") => \A m \in eng.plan : m[1] \notin eng.todo

OneOwner == UnitsApart /\ TailsApart /\ TakenApart

(* The same of the host's handles.                                         *)
Moving == IF At("demote") THEN Targets ELSE {}

OneHolder ==
  /\ \A u, v \in Unit : OnHost(u) /\ OnHost(v) /\ place[u][2] = place[v][2] => u = v
  /\ \A u \in Unit : OnHost(u) => place[u][2] \in hosts \ Moving
  /\ Moving \subseteq hosts

(* Nothing is owned that was not before.                                   *)
LEMMA OwnersShrink ==
  ASSUME OneOwner,
         \A u \in Unit : OnDevice(u)' => OnDevice(u) /\ place'[u] = place[u],
         \A c \in Conv : tail'[c] = tail[c] \/ tail'[c] = <<>>,
         eng'.out = eng.out \/ eng'.out = <<>>,
         Taken' \subseteq Taken,
         eng'.plan \subseteq eng.plan,
         (At("demote"))' => eng'.plan = {} \/ (At("demote") /\ eng'.todo \subseteq eng.todo),
         \A u \in Unit : OnDevice(u)' => place[u][2] \in used',
         \A c \in Conv : Elems(tail'[c]) \subseteq used',
         Taken' \subseteq used'
  PROVE  OneOwner'
<1>1. \A c \in Conv : Elems(tail'[c]) \subseteq Elems(tail[c])
  BY DEF Elems
<1>2. TailsOf(Conv)' \subseteq TailsOf(Conv)
  BY <1>1 DEF TailsOf
<1>3. UnitsApart'
  BY <1>2 DEF OneOwner, UnitsApart
<1>4. TailsApart'
  <2>1. \A c \in Conv : Once(tail'[c])
    BY DEF OneOwner, TailsApart, Once
  <2>2. \A c \in Conv : Elems(tail'[c]) \subseteq used' \ Taken'
    BY <1>1 DEF OneOwner, TailsApart
  <2>3. \A c, d \in Conv : c # d => Elems(tail'[c]) \cap Elems(tail'[d]) = {}
    BY <1>1 DEF OneOwner, TailsApart
  <2> QED
    BY <2>1, <2>2, <2>3 DEF TailsApart
<1>5. TakenApart'
  <2>1. Once(eng'.out)
    BY DEF OneOwner, TakenApart, Once
  <2>2. \A m, n \in eng'.plan : m # n => m[1] # n[1] /\ m[2] # n[2]
    BY DEF OneOwner, TakenApart
  <2>3. (At("demote"))' => \A m \in eng'.plan : m[1] \notin eng'.todo
    BY DEF OneOwner, TakenApart
  <2> QED
    BY <2>1, <2>2, <2>3 DEF TakenApart
<1> QED
  BY <1>3, <1>4, <1>5 DEF OneOwner

(* What the request at hand has taken it keeps or gives up.                *)
TakesNothing ==
  /\ eng'.out = eng.out \/ eng'.out = <<>>
  /\ Taken' \subseteq Taken
  /\ eng'.plan \subseteq eng.plan
  /\ (At("demote"))' => eng'.plan = {} \/ (At("demote") /\ eng'.todo \subseteq eng.todo)

(* When nothing more is under way, or the same.                            *)
LEMMA TakesNothingThen ==
  /\ eng' = eng => TakesNothing
  /\ eng'.out = <<>> /\ eng'.plan = {} => TakesNothing
<1>1. ASSUME eng' = eng PROVE TakesNothing
  BY <1>1 DEF TakesNothing, Taken, Promised, Reserved, At
<1>2. ASSUME eng'.out = <<>>, eng'.plan = {} PROVE TakesNothing
  <2>1. Elems(eng'.out) = {}
    BY <1>2 DEF Elems
  <2>2. Promised' = {}
    BY <1>2 DEF Promised, Reserved
  <2>3. Taken' = {}
    BY <2>1, <2>2 DEF Taken
  <2>4. Taken' \subseteq Taken
    BY <2>3
  <2>5. eng'.plan \subseteq eng.plan
    BY <1>2
  <2> QED
    BY <1>2, <2>4, <2>5 DEF TakesNothing
<1> QED
  BY <1>1, <1>2

(* Evicting by any counts, and freeing the tails of these conversations.   *)
LEMMA EvictOwners ==
  ASSUME Typed, OneOwner, TakesNothing, NEW counts, NEW cs, cs \subseteq Conv,
         NEW blocks, blocks = TailsOf(cs), Evict(counts, blocks),
         tail' = [c \in Conv |-> IF c \in cs THEN <<>> ELSE tail[c]]
  PROVE  OneOwner'
<1> DEFINE gone == Evictable(counts)
<1>1. gone \subseteq Unit
  BY DEF Evictable, Typed, StateTyped, MemoryTyped
<1>2. /\ place' = [u \in Unit |-> IF u \in gone THEN Nowhere ELSE place[u]]
      /\ used' = used \ (BlocksOf(gone) \cup TailsOf(cs))
  BY DEF Evict
<1> HIDE DEF gone
<1>3. \A u \in Unit : OnDevice(u)' => u \notin gone /\ OnDevice(u) /\ place'[u] = place[u]
  BY <1>2 DEF OnDevice, Nowhere
<1>4. \A b : b \in BlocksOf(gone) => \E u \in gone : OnDevice(u) /\ b = place[u][2]
  BY DEF BlocksOf
<1>5. TailsOf(cs) \subseteq TailsOf(Conv)
  BY DEF TailsOf
<1>6. \A u \in Unit : OnDevice(u)' => place[u][2] \in used'
  BY <1>1, <1>2, <1>3, <1>4, <1>5 DEF OneOwner, UnitsApart
<1>7. ASSUME NEW c \in Conv PROVE Elems(tail'[c]) \subseteq used'
  <2>1. CASE c \in cs
    BY <2>1 DEF Elems
  <2>2. CASE c \notin cs
    <3>1. tail'[c] = tail[c]
      BY <2>2
    <3>2. Elems(tail[c]) \cap BlocksOf(gone) = {}
      BY <1>1, <1>4 DEF OneOwner, UnitsApart, TailsOf
    <3>3. Elems(tail[c]) \cap TailsOf(cs) = {}
      BY <2>2 DEF OneOwner, TailsApart, TailsOf
    <3>4. Elems(tail[c]) \subseteq used
      BY DEF OneOwner, TailsApart
    <3> QED
      BY <1>2, <3>1, <3>2, <3>3, <3>4
  <2> QED
    BY <2>1, <2>2
<1>8. Taken' \subseteq used'
  <2>1. Taken \subseteq used
    BY DEF OneOwner, TakenApart
  <2>2. Taken \cap BlocksOf(gone) = {}
    BY <1>1, <1>4 DEF OneOwner, UnitsApart
  <2>3. Taken \cap TailsOf(cs) = {}
    BY DEF OneOwner, TailsApart, TailsOf
  <2> QED
    BY <1>2, <2>1, <2>2, <2>3 DEF TakesNothing
<1>9. \A c \in Conv : tail'[c] = tail[c] \/ tail'[c] = <<>>
  OBVIOUS
<1> QED
  BY <1>3, <1>6, <1>7, <1>8, <1>9, OwnersShrink DEF TakesNothing

(* The same of the handles, which only shrink.                             *)
LEMMA EvictHolders ==
  ASSUME Typed, OneHolder, NEW counts, NEW blocks, Evict(counts, blocks),
         (At("demote"))' => At("demote") /\ eng'.plan = eng.plan
  PROVE  OneHolder'
<1> DEFINE gone == Evictable(counts)
<1>1. gone \subseteq Unit
  BY DEF Evictable, Typed, StateTyped, MemoryTyped
<1>2. /\ place' = [u \in Unit |-> IF u \in gone THEN Nowhere ELSE place[u]]
      /\ hosts' = hosts \ HandlesOf(gone)
  BY DEF Evict
<1> HIDE DEF gone
<1>3. \A u \in Unit : OnHost(u)' => u \notin gone /\ OnHost(u) /\ place'[u] = place[u]
  BY <1>2 DEF OnHost, Nowhere
<1>4. \A k : k \in HandlesOf(gone) => \E u \in gone : OnHost(u) /\ k = place[u][2]
  BY DEF HandlesOf
<1>5. Moving' \subseteq Moving
  BY DEF Moving, Targets
<1>6. \A u \in Unit : OnHost(u)' => place'[u][2] \in hosts' \ Moving'
  BY <1>1, <1>2, <1>3, <1>4, <1>5 DEF OneHolder
<1>7. Moving' \subseteq hosts'
  BY <1>1, <1>2, <1>4, <1>5 DEF OneHolder
<1> QED
  BY <1>3, <1>6, <1>7 DEF OneHolder

(* The conversations leave, whatever the operation they leave for.         *)
LEMMA LeaveApart ==
  ASSUME Typed, OneOwner, OneHolder, TakesNothing, NEW cs, cs \subseteq Conv, Leave(cs),
         (At("demote"))' => At("demote") /\ eng'.plan = eng.plan
  PROVE  OneOwner' /\ OneHolder'
<1>1. Evict(ref', TailsOf(cs)) /\ tail' = [c \in Conv |-> IF c \in cs THEN <<>> ELSE tail[c]]
  BY DEF Leave, Forget, Drop
<1> QED
  BY <1>1, EvictOwners, EvictHolders

(* Steps that move nothing and allocate nothing.                           *)
LEMMA StillApart ==
  ASSUME OneOwner, OneHolder, TakesNothing, UNCHANGED <<place, used, hosts, tail>>,
         (At("demote"))' => eng'.plan = {} \/ (At("demote") /\ eng'.plan = eng.plan)
  PROVE  OneOwner' /\ OneHolder'
<1>1. Moving' \subseteq Moving
  BY DEF Moving, Targets
<1>2. OneHolder'
  BY <1>1 DEF OneHolder, OnHost
<1>3. \A u \in Unit : (OnDevice(u)' <=> OnDevice(u)) /\ place'[u] = place[u]
  BY DEF OnDevice
<1>4. /\ \A u \in Unit : OnDevice(u)' => place[u][2] \in used'
      /\ \A c \in Conv : Elems(tail'[c]) \subseteq used'
      /\ Taken' \subseteq used'
  BY <1>3 DEF OneOwner, UnitsApart, TailsApart, TakenApart, TakesNothing
<1> QED
  BY <1>2, <1>3, <1>4, OwnersShrink DEF TakesNothing

(* A step that prepares no move takes nothing.                             *)
LEMMA NoMoves ==
  ASSUME eng'.out = eng.out \/ eng'.out = <<>>, eng'.plan = {}
  PROVE  TakesNothing
<1>1. Promised' = {}
  BY DEF Promised, Reserved
<1>2. Elems(eng'.out) \subseteq Elems(eng.out)
  BY DEF Elems
<1>3. Taken' \subseteq Taken
  BY <1>1, <1>2 DEF Taken
<1> QED
  BY <1>3 DEF TakesNothing

(* The steps that only look, decide, record and serve.                     *)
LEMMA LookingApart ==
  ASSUME Typed, OneOwner, OneHolder,
         \/ \E c \in Conv, p \in Stream : Begin(c, p)
         \/ Admitting \/ SwitchExplicit \/ EnterFast \/ EnterGeneral \/ Probe \/ Roomy
         \/ FastTables \/ Serve \/ ServeCold \/ NotServed
         \/ \E c \in Conv : Prefill(c) \/ Grow(c) \/ EndUnknown(c)
         \/ \E c \in Conv, x \in Page : Decode(c, x)
         \/ UNCHANGED vars
  PROVE  OneOwner' /\ OneHolder'
<1> USE DEF indexVars, convVars
<1>1. CASE \/ \E c \in Conv : Prefill(c) \/ EndUnknown(c)
           \/ \E c \in Conv, x \in Page : Decode(c, x)
           \/ UNCHANGED vars
  <2>1. eng' = eng /\ UNCHANGED <<place, used, hosts, tail>>
    BY <1>1 DEF Prefill, Decode, EndUnknown, vars
  <2>2. (At("demote"))' => At("demote") /\ eng'.plan = eng.plan
    BY <2>1 DEF At
  <2> QED
    BY <2>1, <2>2, StillApart, TakesNothingThen
<1>2. CASE (\E c \in Conv, p \in Stream : Begin(c, p)) \/ Serve \/ ServeCold \/ NotServed
           \/ \E c \in Conv : Grow(c)
  <2>1. eng'.out = <<>> /\ eng'.plan = {} /\ UNCHANGED <<place, used, hosts, tail>>
    <3>1. CASE Serve \/ ServeCold \/ NotServed
      BY <3>1 DEF Serve, ServeCold, NotServed, Start, Free
    <3>2. ASSUME NEW c \in Conv, NEW p \in Stream, Begin(c, p)
          PROVE  eng'.out = <<>> /\ eng'.plan = {} /\ UNCHANGED <<place, used, hosts, tail>>
      BY <3>2 DEF Begin, Free
    <3>3. ASSUME NEW c \in Conv, Grow(c)
          PROVE  eng'.out = <<>> /\ eng'.plan = {} /\ UNCHANGED <<place, used, hosts, tail>>
      <4>1. CASE c \in known
        BY <3>3, <4>1 DEF Grow, Free
      <4>2. CASE c \notin known
        BY <3>3, <4>2 DEF Grow, Free
      <4> QED
        BY <4>1, <4>2
    <3> QED
      BY <1>2, <3>1, <3>2, <3>3
  <2> QED
    BY <2>1, StillApart, TakesNothingThen
<1>3. CASE Admitting \/ SwitchExplicit \/ EnterFast \/ EnterGeneral \/ Roomy \/ FastTables
  <2>1. eng.plan = {}
    BY <1>3 DEF Admitting, ChargeSlot, DoNotCharge, Admit, SwitchExplicit, EnterFast,
       EnterGeneral, Roomy, FastTables, At, Typed, PlanAgrees
  <2>2. UNCHANGED <<place, used, hosts, tail>>
    BY <1>3 DEF Admitting, ChargeSlot, DoNotCharge, Admit, SwitchExplicit, EnterFast,
       EnterGeneral, Roomy, FastTables
  <2>3. (eng'.out = eng.out \/ eng'.out = <<>>) /\ eng'.plan = {}
    <3>1. EngTyped
      BY DEF Typed
    <3>2. CASE ChargeSlot \/ Roomy \/ FastTables
      BY <3>1, <3>2, <2>1 DEF ChargeSlot, Roomy, FastTables, GoTo, EngTyped
    <3>3. CASE DoNotCharge \/ Admit
      <4>1. \/ eng' = Free \/ eng' = [eng EXCEPT !.at = "switch"]
            \/ eng' = [eng EXCEPT !.at = "switch", !.beside = TRUE]
        BY <3>3 DEF DoNotCharge, Admit
      <4>2. CASE eng' = Free
        BY <4>2 DEF Free
      <4>3. CASE eng' = [eng EXCEPT !.at = "switch"]
        BY <3>1, <2>1, <4>3 DEF EngTyped
      <4>4. CASE eng' = [eng EXCEPT !.at = "switch", !.beside = TRUE]
        BY <3>1, <2>1, <4>4 DEF EngTyped
      <4> QED
        BY <4>1, <4>2, <4>3, <4>4
    <3>4. CASE SwitchExplicit
      BY <3>1, <3>4, <2>1 DEF SwitchExplicit, EngTyped
    <3>5. CASE EnterFast \/ EnterGeneral
      BY <3>1, <3>5, <2>1 DEF EnterFast, EnterGeneral, EngTyped
    <3> QED
      BY <1>3, <3>2, <3>3, <3>4, <3>5 DEF Admitting
  <2> QED
    BY <2>2, <2>3, StillApart, NoMoves
<1>4. CASE Probe
  <2>1. eng.plan = {}
    BY <1>4 DEF Probe, Typed, PlanAgrees
  <2>2. eng'.out = eng.out /\ eng'.plan = {}
    BY <1>4, <2>1 DEF Probe, GoTo, Typed, EngTyped
  <2>3. UNCHANGED <<place, used, hosts, tail>>
    BY <1>4 DEF Probe
  <2> QED
    BY <2>2, <2>3, StillApart, NoMoves
<1> QED
  BY <1>1, <1>2, <1>3, <1>4

(* The steps conversations leave by.                                       *)
LEMMA LeavingApart ==
  ASSUME Typed, OneOwner, OneHolder,
         \/ DropLru \/ SwitchShared \/ EvictHostToDisk \/ GrowthFailed \/ Trim
         \/ \E c \in Conv : Abandon(c) \/ Erase(c)
  PROVE  OneOwner' /\ OneHolder'
<1>1. known \subseteq Conv /\ Elems(lru) \subseteq Conv /\ lru \in Seq(Conv)
      /\ recent \in Seq(Conv)
  BY ElemsIs DEF Typed, StateTyped, ConvTyped, OrderTyped
<1>2. CASE DropLru
  <2>1. PICK i \in DOMAIN lru : Leave({lru[i]})
    BY <1>2 DEF DropLru
  <2>2. {lru[i]} \subseteq Conv
    BY <1>1, <2>1
  <2>3. eng' = eng /\ ((At("demote"))' => At("demote") /\ eng'.plan = eng.plan)
    BY <1>2 DEF DropLru, At
  <2> QED
    BY <2>1, <2>2, <2>3, LeaveApart, TakesNothingThen
<1>3. CASE SwitchShared
  <2>1. eng.plan = {} /\ eng'.out = eng.out /\ eng'.plan = {} /\ ~(At("demote"))'
    BY <1>3 DEF SwitchShared, GoTo, At, Typed, EngTyped, PlanAgrees
  <2>2. TakesNothing
    BY <2>1, NoMoves
  <2>3. CASE Leaving = {}
    <3>1. UNCHANGED <<place, used, hosts, tail>>
      BY <1>3, <2>3 DEF SwitchShared, indexVars, convVars
    <3> QED
      BY <2>1, <2>2, <3>1, StillApart
  <2>4. CASE Leaving # {}
    <3>1. Leave(Leaving) /\ Leaving \subseteq Conv
      BY <1>1, <1>3, <2>4 DEF SwitchShared, Leaving
    <3> QED
      BY <2>1, <2>2, <3>1, LeaveApart
  <2> QED
    BY <2>3, <2>4
<1>4. CASE EvictHostToDisk
  <2> DEFINE c == recent[First(Spillable)]
  <2>1. Spillable \subseteq Elems(recent) /\ Spillable # {}
    BY <1>4 DEF EvictHostToDisk, Spillable
  <2>2. c \in Conv
    BY <1>1, <2>1, FirstIs
  <2>3. Leave({c}) /\ eng' = eng
    BY <1>4 DEF EvictHostToDisk
  <2>4. (At("demote"))' => At("demote") /\ eng'.plan = eng.plan
    BY <2>3 DEF At
  <2> QED
    BY <2>2, <2>3, <2>4, LeaveApart, TakesNothingThen
<1>5. CASE GrowthFailed
  <2>1. eng.conv \in Conv /\ Leave({eng.conv}) /\ eng' = Free
    BY <1>5 DEF GrowthFailed, At, Typed, EngAgrees
  <2>2. eng'.out = <<>> /\ eng'.plan = {} /\ ~(At("demote"))'
    BY <2>1 DEF Free, At
  <2> QED
    BY <2>1, <2>2, LeaveApart, TakesNothingThen
<1>6. CASE Trim
  <2>1. eng' = eng /\ ((At("demote"))' => At("demote") /\ eng'.plan = eng.plan)
    BY <1>6 DEF Trim, At
  <2>2. CASE Explicit
    <3>1. UNCHANGED <<place, used, hosts, tail>>
      BY <1>6, <2>2 DEF Trim, indexVars, convVars
    <3> QED
      BY <2>1, <3>1, StillApart, TakesNothingThen
  <2>3. CASE ~Explicit
    <3>1. Leave(known \ Held) /\ known \ Held \subseteq Conv
      BY <1>1, <1>6, <2>3 DEF Trim
    <3> QED
      BY <2>1, <3>1, LeaveApart, TakesNothingThen
  <2> QED
    BY <2>2, <2>3
<1>7. ASSUME NEW c \in Conv, Abandon(c) \/ Erase(c) PROVE OneOwner' /\ OneHolder'
  <2>1. Leave({c}) /\ eng' = eng
    BY <1>7 DEF Abandon, Erase
  <2>2. (At("demote"))' => At("demote") /\ eng'.plan = eng.plan
    BY <2>1 DEF At
  <2> QED
    BY <2>1, <2>2, LeaveApart, TakesNothingThen
<1> QED
  BY <1>2, <1>3, <1>4, <1>5, <1>6, <1>7

(* The steps that evict what nobody names.                                 *)
LEMMA EvictingApart ==
  ASSUME Typed, OneOwner, OneHolder, EvictUnreferenced \/ Sweep
  PROVE  OneOwner' /\ OneHolder'
<1>1. Evict(ref, {}) /\ tail' = tail
  BY DEF EvictUnreferenced, Sweep, convVars
<1>2. tail' = [c \in Conv |-> IF c \in {} THEN <<>> ELSE tail[c]] /\ TailsOf({}) = {}
  BY <1>1 DEF Typed, StateTyped, ConvTyped, TailsOf
<1>3. TakesNothing /\ ~(At("demote"))'
  <2>1. CASE EvictUnreferenced
    BY <2>1, TakesNothingThen DEF EvictUnreferenced, RoomWanted, At
  <2>2. CASE Sweep
    BY <2>2, NoMoves DEF Sweep, GoTo, At, Typed, EngTyped, PlanAgrees
  <2> QED
    BY <2>1, <2>2
<1>4. OneOwner'
  BY <1>1, <1>2, <1>3, EvictOwners
<1>5. OneHolder'
  BY <1>1, <1>3, EvictHolders
<1> QED
  BY <1>4, <1>5

(* An operation that fails gives up what it took.                          *)
LEMMA FailApart ==
  ASSUME OneOwner, NEW blocks, blocks \cap (used \ Taken) = {}, Fail(blocks),
         UNCHANGED <<place, tail>>
  PROVE  OneOwner'
<1>1. eng'.out = <<>> /\ eng'.plan = {} /\ ~(At("demote"))' /\ used' = used \ blocks
  BY DEF Fail, Free, At
<1>2. Taken' = {} /\ TakesNothing
  <2>1. Elems(eng'.out) = {} /\ Promised' = {}
    BY <1>1 DEF Elems, Promised, Reserved
  <2> QED
    BY <1>1, <2>1, NoMoves DEF Taken
<1>3. \A u \in Unit : (OnDevice(u)' <=> OnDevice(u)) /\ place'[u] = place[u]
  BY DEF OnDevice
<1>4. \A u \in Unit : OnDevice(u)' => place[u][2] \in used'
  BY <1>1, <1>3 DEF OneOwner, UnitsApart
<1>5. \A c \in Conv : Elems(tail'[c]) \subseteq used'
  BY <1>1 DEF OneOwner, TailsApart
<1>6. Taken' \subseteq used' /\ \A c \in Conv : tail'[c] = tail[c]
  BY <1>2
<1>7. Taken' \subseteq Taken
  BY <1>2
<1>8. eng'.plan \subseteq eng.plan /\ ((At("demote"))' => eng'.plan = {})
  BY <1>1
<1> QED
  BY <1>1, <1>3, <1>4, <1>5, <1>6, <1>7, <1>8, OwnersShrink

(* So do the handles while none is moving.                                 *)
LEMMA SameHolders ==
  ASSUME OneHolder, UNCHANGED <<place, hosts>>, ~(At("demote"))'
  PROVE  OneHolder'
<1>1. Moving' = {}
  BY DEF Moving
<1> QED
  BY <1>1 DEF OneHolder, OnHost

(* Every way an operation fails.                                           *)
LEMMA FailingApart ==
  ASSUME Typed, OneOwner, OneHolder,
         NoHostRoom \/ DemoteFails \/ PromoteFails \/ Exhausted \/ RestoreFails
         \/ (CommitFails /\ eng.then # "fast")
  PROVE  OneOwner' /\ OneHolder'
<1>1. UNCHANGED <<place, tail>> /\ \E blocks : Fail(blocks) /\ blocks \subseteq Taken
  <2>1. CASE NoHostRoom \/ DemoteFails
    BY <2>1 DEF NoHostRoom, DemoteFails, indexVars, convVars
  <2>2. CASE PromoteFails
    <3>1. Fail(Reserved) /\ Reserved \subseteq Taken /\ UNCHANGED <<place, tail>>
      BY <2>2 DEF PromoteFails, indexVars, convVars, Taken, Promised
    <3> QED
      BY <3>1
  <2>3. CASE Exhausted \/ RestoreFails \/ (CommitFails /\ eng.then # "fast")
    <3>1. Fail(Elems(eng.out)) /\ Elems(eng.out) \subseteq Taken /\ UNCHANGED <<place, tail>>
      BY <2>3 DEF Exhausted, RestoreFails, CommitFails, indexVars, convVars, Taken
    <3> QED
      BY <3>1
  <2> QED
    BY <2>1, <2>2, <2>3
<1>2. PICK blocks : Fail(blocks) /\ blocks \subseteq Taken
  BY <1>1
<1>3. OneOwner'
  BY <1>1, <1>2, FailApart
<1>4. ~(At("demote"))'
  BY <1>2 DEF Fail, Free, At
<1>5. CASE ~DemoteFails
  <2>1. hosts' = hosts
    BY <1>5 DEF NoHostRoom, PromoteFails, Exhausted, RestoreFails, CommitFails
  <2> QED
    BY <1>1, <1>3, <1>4, <2>1, SameHolders
<1>6. CASE DemoteFails
  <2>1. hosts' = hosts \ Moving /\ Moving' = {}
    BY <1>4, <1>6 DEF DemoteFails, HandlesBack, Moving
  <2>2. OneHolder'
    BY <1>1, <2>1 DEF OneHolder, OnHost
  <2> QED
    BY <1>3, <2>2
<1> QED
  BY <1>5, <1>6

(* A tail is given up.                                                     *)
LEMMA TailGone ==
  ASSUME Typed, OneOwner, NEW c \in Conv, tail' = [tail EXCEPT ![c] = <<>>], UNCHANGED place,
         TakesNothing, used' = used \/ used' = used \ Elems(tail[c])
  PROVE  OneOwner'
<1>1. \A d \in Conv : tail'[d] = IF d = c THEN <<>> ELSE tail[d]
  BY DEF Typed, StateTyped, ConvTyped
<1>2. \A u \in Unit : (OnDevice(u)' <=> OnDevice(u)) /\ place'[u] = place[u]
  BY DEF OnDevice
<1>3. \A u \in Unit : OnDevice(u)' => place[u][2] \in used'
  BY <1>2 DEF OneOwner, UnitsApart, TailsOf
<1>4. \A d \in Conv : Elems(tail'[d]) \subseteq used'
  <2>1. Elems(<<>>) = {}
    BY DEF Elems
  <2> QED
    BY <1>1, <2>1 DEF OneOwner, TailsApart
<1>5. Taken' \subseteq used'
  BY DEF OneOwner, TakenApart, TailsApart, TakesNothing
<1> QED
  BY <1>1, <1>2, <1>3, <1>4, <1>5, OwnersShrink DEF TakesNothing

(* The steps that give a tail up.                                          *)
LEMMA GivingApart ==
  ASSUME Typed, OneOwner, OneHolder,
         \/ StandOnResident \/ StandOnDisk \/ DemoteIdle
         \/ \E c \in Conv : EndUnderflows(c)
  PROVE  OneOwner' /\ OneHolder'
<1>1. CASE StandOnResident \/ StandOnDisk
  <2>1. eng.conv \in Conv /\ eng.plan = {} /\ eng \in [at : Stage, conv : Conv \cup {NoConv},
           prompt : Stream, slot : Slot,
           then : Purpose, beside : BOOLEAN, resume : Nat, need : Nat,
           out : Seq(Block), plan : SUBSET (Unit \X Int), todo : SUBSET Unit,
           drop : SUBSET Conv]
    BY <1>1 DEF StandOnResident, StandOnDisk, At, Typed, EngAgrees, PlanAgrees, EngTyped
  <2>2. ReplaceTail /\ UNCHANGED <<place, hosts>>
    BY <1>1 DEF StandOnResident, StandOnDisk
  <2>3. eng'.at = "alloc" /\ eng'.out = eng.out /\ eng'.plan = {}
    BY <1>1, <2>1 DEF StandOnResident, StandOnDisk
  <2>4. TakesNothing /\ ~(At("demote"))'
    BY <2>3, NoMoves DEF At
  <2> QED
    BY <2>1, <2>2, <2>4, TailGone, SameHolders DEF ReplaceTail
<1>2. CASE DemoteIdle
  <2> DEFINE c == recent[First(Demotable)]
  <2>1. c \in Conv
    <3>1. Demotable \subseteq Elems(recent) /\ Demotable # {}
      BY <1>2 DEF DemoteIdle, Demotable
    <3> QED
      BY <3>1, FirstIs DEF Typed, StateTyped, OrderTyped
  <2>2. eng.plan = {} /\ At("alloc") /\ UNCHANGED <<place, hosts>>
    BY <1>2 DEF DemoteIdle, At, Typed, PlanAgrees, indexVars
  <2>3. CASE Movable(c) = {}
    <3>1. /\ used' = used \ Elems(tail[c])
          /\ tail' = [tail EXCEPT ![c] = <<>>]
          /\ eng' = eng
      BY <1>2, <2>3 DEF DemoteIdle
    <3>2. TakesNothing /\ ~(At("demote"))'
      BY <2>2, <3>1, TakesNothingThen DEF At
    <3> QED
      BY <2>1, <2>2, <3>1, <3>2, TailGone, SameHolders
  <2>4. CASE Movable(c) # {}
    <3>1. /\ eng' = [eng EXCEPT !.at = "hostroom", !.todo = Movable(c), !.drop = {c}]
          /\ UNCHANGED <<used, tail>>
      BY <1>2, <2>4 DEF DemoteIdle
    <3>2. eng'.plan = {} /\ eng'.out = eng.out /\ ~(At("demote"))'
      BY <2>2, <3>1 DEF At, Typed, EngTyped
    <3> QED
      BY <2>2, <3>1, <3>2, StillApart, NoMoves
  <2> QED
    BY <2>3, <2>4
<1>3. ASSUME NEW c \in Conv, EndUnderflows(c) PROVE OneOwner' /\ OneHolder'
  <2>1. /\ tail' = [tail EXCEPT ![c] = <<>>] /\ eng' = eng /\ eng = Free
        /\ UNCHANGED <<place, used, hosts>>
    BY <1>3 DEF EndUnderflows, indexVars
  <2>2. ~(At("demote"))'
    BY <2>1 DEF At, Free
  <2> QED
    BY <2>1, <2>2, TailGone, TakesNothingThen, SameHolders
<1> QED
  BY <1>1, <1>2, <1>3

(* Where a prepared move takes a unit.                                     *)
LEMMA TargetIs ==
  ASSUME NEW u, Moved(u)
  PROVE  <<u, Target(u)>> \in {<<m[1], m[2]>> : m \in eng.plan} /\ Target(u) \in Targets
<1>1. \E m \in eng.plan : m[1] = u
  BY DEF Moved
<1> DEFINE m == CHOOSE m \in eng.plan : m[1] = u
<1>2. m \in eng.plan /\ m[1] = u
  BY <1>1
<1>3. Target(u) = m[2]
  BY DEF Target
<1> QED
  BY <1>2, <1>3 DEF Targets

(* Two units are moved to two places.                                      *)
LEMMA TargetsApart ==
  ASSUME OneOwner, NEW u, NEW v, Moved(u), Moved(v), Target(u) = Target(v)
  PROVE  u = v
<1>1. PICK m \in eng.plan : <<u, Target(u)>> = <<m[1], m[2]>>
  BY TargetIs
<1>2. PICK n \in eng.plan : <<v, Target(v)>> = <<n[1], n[2]>>
  BY TargetIs
<1>3. m[1] = u /\ n[1] = v /\ m[2] = n[2]
  BY <1>1, <1>2
<1> QED
  BY <1>3 DEF OneOwner, TakenApart

(* The units moved to the host leave their blocks and take their handles.  *)
LEMMA DemoteApart ==
  ASSUME Typed, OneOwner, OneHolder, Demote
  PROVE  OneOwner' /\ OneHolder'
<1>1. /\ At("demote")
      /\ place' = [u \in Unit |-> IF Moved(u) THEN Host(Target(u)) ELSE place[u]]
      /\ used' = used \ (BlocksOf({m[1] : m \in eng.plan}) \cup TailsOf(eng.drop))
      /\ tail' = [c \in Conv |-> IF c \in eng.drop THEN <<>> ELSE tail[c]]
      /\ UNCHANGED hosts
  BY DEF Demote
<1>2. eng'.out = eng.out /\ eng'.plan = {} /\ eng'.at \in {"sweep", "alloc"}
  BY DEF Demote, Typed, EngTyped
<1>3. TakesNothing /\ ~(At("demote"))' /\ Moving' = {} /\ Moving = Targets
  BY <1>1, <1>2, NoMoves DEF At, Moving
<1>4. \A u \in Unit : OnDevice(u)' => ~Moved(u) /\ OnDevice(u) /\ place'[u] = place[u]
  BY <1>1 DEF OnDevice, Host
<1>5. OneOwner'
  <2>1. \A b : b \in BlocksOf({m[1] : m \in eng.plan})
               => \E u \in Unit : Moved(u) /\ OnDevice(u) /\ b = place[u][2]
    BY <1>1 DEF BlocksOf, Moved, Typed, EngTyped
  <2>2. eng.drop \subseteq Conv /\ TailsOf(eng.drop) \subseteq TailsOf(Conv)
    BY DEF Typed, EngTyped, TailsOf
  <2>3. \A u \in Unit : OnDevice(u)' => place[u][2] \in used'
    BY <1>1, <1>4, <2>1, <2>2 DEF OneOwner, UnitsApart
  <2>4. ASSUME NEW c \in Conv PROVE Elems(tail'[c]) \subseteq used'
    <3>1. CASE c \in eng.drop
      BY <1>1, <3>1 DEF Elems
    <3>2. CASE c \notin eng.drop
      <4>1. tail'[c] = tail[c]
        BY <1>1, <3>2
      <4>2. Elems(tail[c]) \cap BlocksOf({m[1] : m \in eng.plan}) = {}
        BY <2>1 DEF OneOwner, UnitsApart, TailsOf
      <4>3. Elems(tail[c]) \cap TailsOf(eng.drop) = {}
        BY <2>2, <3>2 DEF OneOwner, TailsApart, TailsOf
      <4>4. Elems(tail[c]) \subseteq used
        BY DEF OneOwner, TailsApart
      <4> QED
        BY <1>1, <4>1, <4>2, <4>3, <4>4
    <3> QED
      BY <3>1, <3>2
  <2>5. Taken' \subseteq used'
    <3>1. Taken \cap BlocksOf({m[1] : m \in eng.plan}) = {} /\ Taken \subseteq used
      BY <2>1 DEF OneOwner, UnitsApart, TakenApart
    <3>2. Taken \cap TailsOf(eng.drop) = {}
      BY <2>2 DEF OneOwner, TailsApart, TailsOf
    <3> QED
      BY <1>1, <1>3, <3>1, <3>2 DEF TakesNothing
  <2>6. \A c \in Conv : tail'[c] = tail[c] \/ tail'[c] = <<>>
    BY <1>1
  <2> QED
    BY <1>2, <1>3, <1>4, <2>3, <2>4, <2>5, <2>6, OwnersShrink DEF TakesNothing
<1>6. OneHolder'
  <2>1. \A u \in Unit : OnHost(u)' => \/ Moved(u) /\ place'[u][2] = Target(u)
                                      \/ ~Moved(u) /\ OnHost(u) /\ place'[u] = place[u]
    BY <1>1 DEF OnHost, Host
  <2>2. \A u \in Unit : Moved(u) => Target(u) \in Moving
    BY <1>3, TargetIs
  <2>3. \A u, v \in Unit : OnHost(u)' /\ OnHost(v)' /\ place'[u][2] = place'[v][2] => u = v
    BY <2>1, <2>2, TargetsApart DEF OneHolder
  <2>4. \A u \in Unit : OnHost(u)' => place'[u][2] \in hosts' \ Moving'
    BY <1>1, <1>3, <2>1, <2>2 DEF OneHolder
  <2> QED
    BY <1>3, <2>3, <2>4 DEF OneHolder
<1> QED
  BY <1>5, <1>6

(* A handle is taken for a unit that goes to the host.                     *)
LEMMA PrepareDemoteApart ==
  ASSUME Typed, OneOwner, OneHolder, PrepareDemote
  PROVE  OneOwner' /\ OneHolder'
<1>1. PICK u \in eng.todo :
        IF OnDevice(u)
        THEN /\ hosts' = hosts \cup {FreeHandle}
             /\ eng' = [eng EXCEPT !.todo = @ \ {u}, !.plan = @ \cup {<<u, FreeHandle>>}]
        ELSE /\ eng' = [eng EXCEPT !.todo = @ \ {u}]
             /\ UNCHANGED hosts
  BY DEF PrepareDemote
<1>2. At("demote") /\ UNCHANGED <<place, used, tail>>
  BY DEF PrepareDemote, indexVars, convVars
<1>3. EngTyped
  BY DEF Typed
<1>4. Promised = {} /\ eng'.out = eng.out /\ eng'.at = "demote" /\ eng'.todo = eng.todo \ {u}
  BY <1>1, <1>2, <1>3 DEF Promised, At, EngTyped
<1>5. Taken' = Taken
  BY <1>4 DEF Taken, Promised, At, Elems
<1>6. CASE ~OnDevice(u)
  <2>1. eng'.plan = eng.plan /\ hosts' = hosts
    BY <1>1, <1>3, <1>6 DEF EngTyped
  <2>2. TakesNothing
    BY <1>2, <1>4, <1>5, <2>1 DEF TakesNothing
  <2> QED
    BY <1>2, <2>1, <2>2, StillApart
<1>7. CASE OnDevice(u)
  <2>1. eng'.plan = eng.plan \cup {<<u, FreeHandle>>} /\ hosts' = hosts \cup {FreeHandle}
    BY <1>1, <1>3, <1>7 DEF EngTyped
  <2>2. FreeHandle \notin hosts
    <3>1. Cardinality(hosts) + Cardinality(eng.todo) <= HostCap /\ IsFiniteSet(eng.todo)
      BY <1>2 DEF Typed, EngAgrees
    <3>2. Cardinality(eng.todo) \in Nat /\ Cardinality(eng.todo) # 0
      BY <3>1, FS_CardinalityType, FS_EmptySet
    <3>3. hosts \subseteq Handle
      BY DEF Typed, StateTyped, MemoryTyped
    <3>4. IsFiniteSet(Handle)
      BY FS_Interval, HostCapAssumption DEF Handle
    <3>5. Cardinality(hosts) \in Nat
      BY <3>3, <3>4, FS_Subset, FS_CardinalityType
    <3>6. Cardinality(hosts) < HostCap
      BY <3>1, <3>2, <3>5, HostCapAssumption
    <3> QED
      BY <3>3, <3>6, FreeHandleIs
  <2>3. Moving = Targets /\ Moving' = Targets \cup {FreeHandle}
    <3>1. <<u, FreeHandle>>[2] = FreeHandle
      OBVIOUS
    <3>2. Targets' = Targets \cup {FreeHandle}
      BY <2>1, <3>1, Zenon DEF Targets
    <3> QED
      BY <1>2, <1>4, <3>2 DEF Moving, At
  <2>4. OneHolder'
    BY <1>2, <2>1, <2>2, <2>3 DEF OneHolder, OnHost
  <2>5. TakenApart'
    <3>1. \A m \in eng.plan : m[1] # u /\ m[2] # FreeHandle /\ m[1] \notin eng.todo
      BY <1>2, <2>2, <2>3 DEF OneOwner, TakenApart, OneHolder, Targets
    <3>2. \A m, n \in eng'.plan : m # n => m[1] # n[1] /\ m[2] # n[2]
      BY <2>1, <3>1 DEF OneOwner, TakenApart
    <3>3. \A m \in eng'.plan : m[1] \notin eng'.todo
      BY <1>4, <2>1, <3>1
    <3>4. Once(eng'.out) /\ Taken' \subseteq used'
      BY <1>2, <1>4, <1>5 DEF OneOwner, TakenApart, Once
    <3> QED
      BY <3>2, <3>3, <3>4 DEF TakenApart
  <2>6. UnitsApart' /\ TailsApart'
    <3>1. TailsOf(Conv)' = TailsOf(Conv)
      BY <1>2 DEF TailsOf
    <3>2. UnitsApart'
      BY <1>2, <1>5, <3>1 DEF OneOwner, UnitsApart, OnDevice
    <3>3. TailsApart'
      BY <1>2, <1>5 DEF OneOwner, TailsApart, Once
    <3> QED
      BY <3>2, <3>3
  <2> QED
    BY <2>4, <2>5, <2>6 DEF OneOwner
<1> QED
  BY <1>6, <1>7

(* A block nobody held is taken.                                           *)
LEMMA TakeApart ==
  ASSUME OneOwner, NEW b, b \notin used, used' = used \cup {b}, Taken' = Taken \cup {b},
         UNCHANGED <<place, tail>>, TakenApart'
  PROVE  OneOwner'
<1>1. TailsOf(Conv)' = TailsOf(Conv)
  BY DEF TailsOf
<1>2. UnitsApart'
  BY <1>1 DEF OneOwner, UnitsApart, OnDevice
<1>3. TailsApart'
  BY DEF OneOwner, TailsApart, Once
<1> QED
  BY <1>2, <1>3 DEF OneOwner

(* A block is reserved for a unit, or allocated for the request.           *)
LEMMA TakingApart ==
  ASSUME Typed, OneOwner, OneHolder, PreparePromote \/ AllocOne
  PROVE  OneOwner' /\ OneHolder'
<1>1. ~Full /\ used' = used \cup {LowestFree} /\ UNCHANGED <<place, tail, hosts>>
  BY DEF PreparePromote, AllocOne, indexVars, convVars
<1>2. LowestFree \notin used
  <2>1. BooksTyped
    BY DEF Typed, StateTyped
  <2>2. used \subseteq Block /\ withheld \in Nat
    BY <2>1, BooksAre DEF BooksTyped
  <2> QED
    BY <1>1, <2>2, LowestFreeIs
<1>3. EngTyped
  BY DEF Typed
<1>4. Once(eng.out) /\ Taken \subseteq used
      /\ \A m, n \in eng.plan : m # n => m[1] # n[1] /\ m[2] # n[2]
  BY DEF OneOwner, TakenApart
<1>5. CASE PreparePromote
  <2>1. PICK u \in Unreserved : eng' = [eng EXCEPT !.plan = @ \cup {<<u, LowestFree>>}]
    BY <1>5 DEF PreparePromote
  <2>2. /\ eng'.plan = eng.plan \cup {<<u, LowestFree>>} /\ eng'.out = eng.out
        /\ At("probe") /\ (At("probe"))' /\ ~At("demote") /\ ~(At("demote"))'
    BY <1>3, <1>5, <2>1 DEF PreparePromote, At, EngTyped
  <2>3. Promised' = Promised \cup {LowestFree}
    <3>1. <<u, LowestFree>>[2] = LowestFree
      OBVIOUS
    <3>2. Reserved' = Reserved \cup {LowestFree}
      BY <2>2, <3>1, Zenon DEF Reserved
    <3> QED
      BY <2>2, <3>2 DEF Promised
  <2>4. Taken' = Taken \cup {LowestFree}
    BY <2>2, <2>3 DEF Taken, Elems
  <2>5. \A m \in eng.plan : m[1] # u /\ m[2] # LowestFree
    BY <1>2, <1>4, <2>2 DEF Unreserved, Moved, Taken, Promised, Reserved
  <2>6. \A m, n \in eng'.plan : m # n => m[1] # n[1] /\ m[2] # n[2]
    BY <1>4, <2>2, <2>5
  <2>7. TakenApart'
    BY <1>1, <1>4, <2>2, <2>4, <2>6 DEF TakenApart, Once
  <2> QED
    BY <1>1, <1>2, <2>2, <2>4, <2>7, TakeApart, SameHolders
<1>6. CASE AllocOne
  <2>1. /\ eng'.plan = eng.plan /\ eng'.out = Append(eng.out, LowestFree)
        /\ At("alloc") /\ (At("alloc"))'
    BY <1>3, <1>6 DEF AllocOne, At, EngTyped
  <2>2. Promised = {} /\ Promised' = {} /\ ~(At("demote"))'
    BY <2>1 DEF Promised, At
  <2>3. eng.out \in Seq(Block)
    BY <1>3 DEF EngTyped
  <2>4. Elems(eng'.out) = Elems(eng.out) \cup {LowestFree}
    BY <2>1, <2>3 DEF Elems
  <2>5. Taken' = Taken \cup {LowestFree} /\ LowestFree \notin Elems(eng.out)
    BY <1>2, <1>4, <2>2, <2>4 DEF Taken
  <2>6. Once(eng'.out)
    BY <1>4, <2>1, <2>3, <2>5 DEF Once, Elems
  <2>7. TakenApart'
    BY <1>1, <1>4, <2>1, <2>2, <2>5, <2>6 DEF TakenApart
  <2> QED
    BY <1>1, <1>2, <2>2, <2>5, <2>7, TakeApart, SameHolders
<1> QED
  BY <1>5, <1>6

(* Two sequences that share nothing, joined.                               *)
LEMMA OnceJoined ==
  ASSUME NEW T, NEW s \in Seq(T), NEW t \in Seq(T), Once(s), Once(t),
         Elems(s) \cap Elems(t) = {}
  PROVE  Once(s \o t)
<1>1. \A i \in DOMAIN (s \o t) : i \in 1..(Len(s) + Len(t))
  OBVIOUS
<1>2. \A i \in 1..Len(s) : (s \o t)[i] = s[i] /\ s[i] \in Elems(s)
  BY DEF Elems
<1>3. \A i \in 1..(Len(s) + Len(t)) : i > Len(s) =>
        (s \o t)[i] = t[i - Len(s)] /\ i - Len(s) \in 1..Len(t) /\ t[i - Len(s)] \in Elems(t)
  BY DEF Elems
<1> SUFFICES ASSUME NEW i \in DOMAIN (s \o t), NEW j \in DOMAIN (s \o t),
                    (s \o t)[i] = (s \o t)[j]
             PROVE  i = j
  BY DEF Once
<1>4. i \in Nat /\ j \in Nat /\ Len(s) \in Nat
  BY <1>1
<1>5. CASE i <= Len(s) /\ j <= Len(s)
  BY <1>1, <1>2, <1>5 DEF Once
<1>6. CASE i > Len(s) /\ j > Len(s)
  <2>1. i - Len(s) = j - Len(s)
    BY <1>1, <1>3, <1>6 DEF Once
  <2> QED
    BY <1>4, <2>1
<1>7. CASE (i <= Len(s) /\ j > Len(s)) \/ (i > Len(s) /\ j <= Len(s))
  BY <1>1, <1>2, <1>3, <1>4, <1>7
<1> QED
  BY <1>4, <1>5, <1>6, <1>7

(* The blocks taken for a conversation become its tail.                    *)
LEMMA TailTakes ==
  ASSUME Typed, OneOwner, NEW c \in Conv, NEW t, Once(t),
         Elems(t) \subseteq Elems(tail[c]) \cup Elems(eng.out),
         tail' = [tail EXCEPT ![c] = t], UNCHANGED <<place, used>>,
         eng'.out = <<>>, eng'.plan = {}, ~(At("demote"))'
  PROVE  OneOwner'
<1>1. \A d \in Conv : tail'[d] = IF d = c THEN t ELSE tail[d]
  BY DEF Typed, StateTyped, ConvTyped
<1>2. Taken' = {}
  BY DEF Taken, Promised, Reserved, Elems
<1>3. TailsOf(Conv)' \subseteq TailsOf(Conv) \cup Taken
  BY <1>1 DEF TailsOf, Taken
<1>4. UnitsApart'
  BY <1>2, <1>3 DEF OneOwner, UnitsApart, OnDevice
<1>5. TailsApart'
  <2>1. ASSUME NEW d \in Conv PROVE Once(tail'[d]) /\ Elems(tail'[d]) \subseteq used' \ Taken'
    BY <1>1, <1>2 DEF OneOwner, TailsApart, TakenApart, Taken
  <2>2. ASSUME NEW d \in Conv, NEW e \in Conv, d # e
        PROVE  Elems(tail'[d]) \cap Elems(tail'[e]) = {}
    BY <1>1, <2>2 DEF OneOwner, TailsApart, Taken
  <2> QED
    BY <2>1, <2>2 DEF TailsApart
<1>6. TakenApart'
  BY <1>2 DEF TakenApart, Once
<1> QED
  BY <1>4, <1>5, <1>6 DEF OneOwner

(* The steps that install what was allocated.                              *)
LEMMA TailingApart ==
  ASSUME Typed, OneOwner, OneHolder,
         (CommitFails /\ eng.then = "fast") \/ FastAllocated \/ Grown \/ Install
  PROVE  OneOwner' /\ OneHolder'
<1> DEFINE c == eng.conv
<1>1. At("alloc") /\ EngTyped /\ eng.plan = {} /\ c \in Conv
  BY DEF CommitFails, FastAllocated, Grown, Install, Allocated, At, Typed, PlanAgrees, EngAgrees
<1>2. UNCHANGED <<place, hosts>>
  BY DEF CommitFails, FastAllocated, Grown, Install, indexVars
<1>3. used' = used
  <2>1. CASE CommitFails /\ eng.then = "fast"
    BY <2>1 DEF CommitFails, Fail, Typed, StateTyped, BooksTyped
  <2> QED
    BY <2>1 DEF FastAllocated, Grown, Install
<1>4. eng'.out = <<>> /\ eng'.plan = {} /\ ~(At("demote"))'
  <2>1. CASE CommitFails /\ eng.then = "fast"
    BY <2>1 DEF CommitFails, Fail, Free, At
  <2>2. CASE FastAllocated
    BY <1>1, <2>2 DEF FastAllocated, EngTyped, At
  <2>3. CASE Install
    BY <1>1, <2>3 DEF Install, EngTyped, At
  <2>4. CASE Grown
    BY <2>4 DEF Grown, Free, At
  <2> QED
    BY <2>1, <2>2, <2>3, <2>4
<1>5. eng.out \in Seq(Block) /\ tail[c] \in Seq(Block)
  BY <1>1 DEF EngTyped, Typed, StateTyped, ConvTyped
<1>6. Once(eng.out) /\ Once(tail[c] \o eng.out)
  <2>1. Once(eng.out) /\ Once(tail[c]) /\ Elems(tail[c]) \cap Elems(eng.out) = {}
    BY <1>1 DEF OneOwner, TakenApart, TailsApart, Taken
  <2> QED
    BY <1>5, <2>1, OnceJoined
<1>7. Elems(tail[c] \o eng.out) = Elems(tail[c]) \cup Elems(eng.out)
  BY <1>5, ConcatElems
<1>8. CASE Install
  <2>1. tail' = [tail EXCEPT ![c] = eng.out]
    BY <1>8 DEF Install
  <2> QED
    BY <1>1, <1>2, <1>3, <1>4, <1>6, <2>1, TailTakes, SameHolders
<1>9. CASE ~Install
  <2>1. tail' = [tail EXCEPT ![c] = tail[c] \o eng.out]
    BY <1>9 DEF CommitFails, FastAllocated, Grown
  <2> QED
    BY <1>1, <1>2, <1>3, <1>4, <1>6, <1>7, <2>1, TailTakes, SameHolders
<1> QED
  BY <1>8, <1>9

(* The units moved to the device take their blocks and leave their handles. *)
LEMMA PromoteApart ==
  ASSUME Typed, OneOwner, OneHolder, Promote
  PROVE  OneOwner' /\ OneHolder'
<1>1. /\ At("probe") /\ Unreserved = {}
      /\ place' = [u \in Unit |-> IF Moved(u) THEN Device(Target(u)) ELSE place[u]]
      /\ hosts' = hosts \ HandlesOf(HostHits)
      /\ UNCHANGED <<used, tail>>
  BY DEF Promote, convVars
<1>2. eng'.out = eng.out /\ eng'.plan = {} /\ ~(At("demote"))' /\ ~At("demote")
  BY <1>1 DEF Promote, At, Typed, EngTyped
<1>3. Promised' = {} /\ Promised = Targets /\ Taken' = Elems(eng.out)
  BY <1>1, <1>2 DEF Promised, Reserved, Targets, Taken, Elems
<1>4. \A u \in HostHits : OnHost(u) /\ Moved(u)
  BY <1>1 DEF Unreserved, HostHits
<1>5. \A u \in Unit : OnDevice(u)' => \/ Moved(u) /\ place'[u][2] = Target(u)
                                      \/ ~Moved(u) /\ OnDevice(u) /\ place'[u] = place[u]
  BY <1>1 DEF OnDevice, Device
<1>6. \A u \in Unit : Moved(u) => Target(u) \in Promised
  BY <1>3, TargetIs
<1>7. TailsOf(Conv)' = TailsOf(Conv)
  BY <1>1 DEF TailsOf
(* No block was reserved that had been taken already. *)
<1>8. eng.out = <<>>
  BY <1>1 DEF Typed, EngAgrees, At
<1>9. Taken' = {} /\ Taken = Promised
  BY <1>3, <1>8 DEF Taken, Elems
<1>10. UnitsApart'
  <2>1. \A u, v \in Unit : OnDevice(u)' /\ OnDevice(v)' /\ place'[u][2] = place'[v][2] => u = v
    BY <1>5, <1>6, <1>9, TargetsApart DEF OneOwner, UnitsApart
  <2>2. Promised \subseteq used
    BY <1>9 DEF OneOwner, TakenApart
  <2>3. Promised \cap TailsOf(Conv) = {}
    BY <1>9 DEF OneOwner, TailsApart, TailsOf
  <2>4. \A u \in Unit : OnDevice(u)' => place'[u][2] \in used' \ (TailsOf(Conv)' \cup Taken')
    BY <1>1, <1>5, <1>6, <1>7, <1>9, <2>2, <2>3 DEF OneOwner, UnitsApart
  <2> QED
    BY <2>1, <2>4 DEF UnitsApart
<1>11. TailsApart'
  BY <1>1, <1>9 DEF OneOwner, TailsApart, Once
<1>12. TakenApart'
  BY <1>2, <1>8, <1>9 DEF TakenApart, Once
<1>13. OneHolder'
  <2>1. \A u \in Unit : OnHost(u)' => ~Moved(u) /\ OnHost(u) /\ place'[u] = place[u]
    BY <1>1 DEF OnHost, Device
  <2>2. Moving = {} /\ Moving' = {}
    BY <1>2 DEF Moving
  <2>3. \A k : k \in HandlesOf(HostHits) => \E v \in HostHits : OnHost(v) /\ k = place[v][2]
    BY DEF HandlesOf
  <2>4. HostHits \subseteq Unit
    BY MatchedIs DEF HostHits, Typed, EngTyped
  <2>5. \A u \in Unit : OnHost(u)' => place'[u][2] \in hosts'
    BY <1>1, <1>4, <2>1, <2>2, <2>3, <2>4 DEF OneHolder
  <2> QED
    BY <2>1, <2>2, <2>5 DEF OneHolder
<1> QED
  BY <1>10, <1>11, <1>12, <1>13 DEF OneOwner

(* Sealing: the units not yet on the device take the blocks, and the       *)
(* duplicates of the others are freed with what is given back beside.      *)
LEMMA SealPlaces ==
  ASSUME NEW c, NEW s \in Stream, NEW m \in Nat, NEW blocks \in Seq(Block),
         Len(blocks) > 0 => m + Len(blocks) <= Len(s), Seal(c, s, m, blocks)
  PROVE  \A u \in Unit :
           \/ u \notin Elems(Chain(s, m, m + Len(blocks))) /\ place'[u] = place[u]
           \/ OnDevice(u) /\ place'[u] = place[u]
           \/ ~OnDevice(u) /\ \E i \in 1..Len(blocks) :
                u = Prefix(s, m + i) /\ place'[u] = Device(blocks[i])
<1> DEFINE units == Chain(s, m, m + Len(blocks))
<1>1. Len(blocks) \in Nat
  OBVIOUS
<1>2. \A u \in Elems(units) : Len(u) - m \in 1..Len(blocks) /\ u = Prefix(s, m + (Len(u) - m))
  BY <1>1, SealedUnits
<1>3. place' = [u \in Unit |->
        IF u \in Elems(units) /\ ~OnDevice(u) THEN Device(blocks[Len(u) - m]) ELSE place[u]]
  BY DEF Seal
<1> QED
  BY <1>2, <1>3

(* The units then lie apart.                                               *)
LEMMA SealUnits ==
  ASSUME UnitsApart, NEW c, NEW s \in Stream, NEW m \in Nat, NEW blocks \in Seq(Block),
         Len(blocks) > 0 => m + Len(blocks) <= Len(s), Seal(c, s, m, blocks),
         Once(blocks), Elems(blocks) \subseteq used,
         Elems(blocks) \subseteq TailsOf(Conv) \cup Taken,
         NEW spare, spare \subseteq TailsOf(Conv) \cup Taken, spare \cap Elems(blocks) = {},
         used' = used \ (Duplicates(s, m, blocks) \cup spare),
         TailsOf(Conv)' \cup Taken' \subseteq (TailsOf(Conv) \cup Taken) \ Elems(blocks)
  PROVE  UnitsApart'
<1>0. \A u \in Unit :
        \/ u \notin Elems(Chain(s, m, m + Len(blocks))) /\ place'[u] = place[u]
        \/ OnDevice(u) /\ place'[u] = place[u]
        \/ ~OnDevice(u) /\ \E i \in 1..Len(blocks) :
             u = Prefix(s, m + i) /\ place'[u] = Device(blocks[i])
  BY ONLY SealPlaces, s \in Stream, m \in Nat, blocks \in Seq(Block),
          Len(blocks) > 0 => m + Len(blocks) <= Len(s), Seal(c, s, m, blocks)
<1> DEFINE Took(u, i) == ~OnDevice(u) /\ u = Prefix(s, m + i) /\ place'[u] = Device(blocks[i])
           Stood(u) == OnDevice(u) /\ place'[u] = place[u]
<1>1. \A u \in Unit : OnDevice(u)' => Stood(u) \/ \E i \in 1..Len(blocks) : Took(u, i)
  BY <1>0 DEF OnDevice
<1>2. \A b : b \in Duplicates(s, m, blocks) =>
        \E i \in 1..Len(blocks) : OnDevice(Prefix(s, m + i)) /\ b = blocks[i]
  BY DEF Duplicates
<1>3. ASSUME NEW u \in Unit, NEW i \in 1..Len(blocks), Took(u, i)
      PROVE  /\ place'[u][2] = blocks[i] /\ blocks[i] \in Elems(blocks)
             /\ blocks[i] \notin Duplicates(s, m, blocks)
  <2>1. place'[u][2] = blocks[i]
    BY <1>3 DEF Device
  <2>2. blocks[i] \in Elems(blocks)
    BY DEF Elems
  <2>3. ASSUME NEW j \in 1..Len(blocks), OnDevice(Prefix(s, m + j)), blocks[i] = blocks[j]
        PROVE  FALSE
    <3>1. i = j
      BY <2>3 DEF Once
    <3> QED
      BY <1>3, <2>3, <3>1
  <2> QED
    BY <1>2, <2>1, <2>2, <2>3
<1>4. \A u \in Unit : Stood(u) => place'[u][2] \in used \ (TailsOf(Conv) \cup Taken)
  BY DEF UnitsApart
<1>5. Elems(blocks) \cap (used \ (TailsOf(Conv) \cup Taken)) = {}
  OBVIOUS
<1>6. \A b : b \in Duplicates(s, m, blocks) => b \in Elems(blocks)
  BY <1>2 DEF Elems
<1> HIDE DEF Took, Stood
<1>7. ASSUME NEW u \in Unit, NEW v \in Unit, OnDevice(u)', OnDevice(v)',
             place'[u][2] = place'[v][2]
      PROVE  u = v
  <2>1. CASE Stood(u) /\ Stood(v)
    BY <1>7, <2>1 DEF Stood, UnitsApart
  <2>2. CASE Stood(u) /\ \E i \in 1..Len(blocks) : Took(v, i)
    BY <1>3, <1>4, <1>5, <1>7, <2>2
  <2>3. CASE Stood(v) /\ \E i \in 1..Len(blocks) : Took(u, i)
    BY <1>3, <1>4, <1>5, <1>7, <2>3
  <2>4. ASSUME NEW i \in 1..Len(blocks), NEW j \in 1..Len(blocks), Took(u, i), Took(v, j)
        PROVE  u = v
    <3>1. i = j
      BY <1>3, <1>7, <2>4 DEF Once
    <3> QED
      BY <2>4, <3>1 DEF Took
  <2> QED
    BY <1>1, <1>7, <2>1, <2>2, <2>3, <2>4
<1>8. ASSUME NEW u \in Unit, OnDevice(u)'
      PROVE  place'[u][2] \in used' \ (TailsOf(Conv)' \cup Taken')
  <2>1. CASE Stood(u)
    BY <1>4, <1>5, <1>6, <2>1
  <2>2. ASSUME NEW i \in 1..Len(blocks), Took(u, i)
        PROVE  place'[u][2] \in used' \ (TailsOf(Conv)' \cup Taken')
    BY <1>3, <2>2
  <2> QED
    BY <1>1, <1>8, <2>1, <2>2
<1> QED
  BY <1>7, <1>8 DEF UnitsApart

(* Nothing goes to the host by it.                                         *)
LEMMA SealHolders ==
  ASSUME NEW c, NEW s \in Stream, NEW m \in Nat, NEW blocks \in Seq(Block),
         Len(blocks) > 0 => m + Len(blocks) <= Len(s), Seal(c, s, m, blocks)
  PROVE  \A u \in Unit : OnHost(u)' => /\ OnHost(u) /\ place'[u] = place[u]
                                       /\ u \notin Elems(Chain(s, m, m + Len(blocks)))
<1>1. \A u \in Unit :
        \/ u \notin Elems(Chain(s, m, m + Len(blocks))) /\ place'[u] = place[u]
        \/ OnDevice(u) /\ place'[u] = place[u]
        \/ ~OnDevice(u) /\ \E i \in 1..Len(blocks) :
             u = Prefix(s, m + i) /\ place'[u] = Device(blocks[i])
  BY SealPlaces
<1>2. \A u \in Elems(Chain(s, m, m + Len(blocks))) :
        \E i \in 1..Len(blocks) : u = Prefix(s, m + i)
  <2>1. Len(blocks) \in Nat
    OBVIOUS
  <2>2. \A u \in Elems(Chain(s, m, m + Len(blocks))) :
          Len(u) - m \in 1..Len(blocks) /\ u = Prefix(s, m + (Len(u) - m))
    BY <2>1, SealedUnits
  <2> QED
    BY <2>2
<1>3. ASSUME NEW u \in Unit, OnHost(u)'
      PROVE  place'[u] = place[u] /\ u \notin Elems(Chain(s, m, m + Len(blocks)))
  BY <1>1, <1>3 DEF OnDevice, OnHost, Device
<1> QED
  BY <1>3 DEF OnHost

(* What begin reads from the disk is sealed.                               *)
LEMMA FreshReadApart ==
  ASSUME Typed, OneOwner, OneHolder, FreshRead
  PROVE  OneOwner' /\ OneHolder'
<1> DEFINE first == eng.resume - Len(eng.out)
<1>1. At("alloc") /\ EngTyped /\ eng.plan = {} /\ eng.need = 0 /\ eng.then = "fresh"
  BY DEF FreshRead, Allocated, At, Typed, PlanAgrees
<1>2. /\ eng.out \in Seq(Block) /\ eng.prompt \in Stream /\ Len(eng.prompt) \in Nat
      /\ Len(eng.out) \in Nat /\ first \in Nat /\ first + Len(eng.out) <= Len(eng.prompt)
  <2>1. eng.out \in Seq(Block) /\ eng.prompt \in Stream /\ eng.resume \in Nat
    BY <1>1 DEF EngTyped
  <2>2. Len(eng.out) <= eng.resume /\ eng.resume <= Len(eng.prompt)
    BY <1>1, <2>1 DEF Typed, EngAgrees
  <2> QED
    BY <2>1, <2>2, StreamIs
<1>3. /\ Seal(eng.conv, eng.prompt, first, eng.out)
      /\ used' = used \ (Duplicates(eng.prompt, first, eng.out) \cup {})
      /\ UNCHANGED <<tail, hosts>>
  BY DEF FreshRead, convVars
<1>4. eng'.out = <<>> /\ eng'.plan = {} /\ ~(At("demote"))'
  BY <1>1 DEF FreshRead, EngTyped, At
<1>5. Taken = Elems(eng.out) /\ Taken' = {} /\ TailsOf(Conv)' = TailsOf(Conv)
  BY <1>1, <1>3, <1>4 DEF Taken, Promised, Reserved, Elems, At, TailsOf
<1>6. /\ Once(eng.out) /\ Elems(eng.out) \subseteq used
      /\ Elems(eng.out) \subseteq TailsOf(Conv) \cup Taken
      /\ TailsOf(Conv)' \cup Taken' \subseteq (TailsOf(Conv) \cup Taken) \ Elems(eng.out)
  BY <1>5 DEF OneOwner, TakenApart, TailsApart, TailsOf
<1> HIDE DEF first
<1>7. UnitsApart'
  <2> DEFINE none == {}
  <2>1. /\ none \subseteq TailsOf(Conv) \cup Taken /\ none \cap Elems(eng.out) = {}
        /\ used' = used \ (Duplicates(eng.prompt, first, eng.out) \cup none)
    BY <1>3
  <2>2. UnitsApart
    BY DEF OneOwner
  <2> HIDE DEF none
  <2> QED
    BY <1>2, <1>3, <1>6, <2>1, <2>2, SealUnits
<1>8. TailsApart'
  <2>1. Duplicates(eng.prompt, first, eng.out) \subseteq Elems(eng.out)
    BY DEF Duplicates, Elems
  <2> QED
    BY <1>3, <1>5, <2>1 DEF OneOwner, TailsApart, Once
<1>9. TakenApart'
  BY <1>4, <1>5 DEF TakenApart, Once
<1>10. OneHolder'
  <2>1. Moving' = {}
    BY <1>4 DEF Moving
  <2>2. \A u \in Unit : OnHost(u)' => OnHost(u) /\ place'[u] = place[u]
    BY <1>2, <1>3, SealHolders
  <2> QED
    BY <1>3, <2>1, <2>2 DEF OneHolder
<1> QED
  BY <1>7, <1>8, <1>9, <1>10 DEF OneOwner

(* A tail cut in three: what is sealed, what is kept, what is given back.  *)
Rest(t, n) == SubSeq(t, n + 1, Len(t))
Parted(t, a, b, d) ==
  /\ Once(a) /\ Once(b)
  /\ Elems(t) = Elems(a) \cup Elems(b) \cup Elems(d)
  /\ Elems(a) \cap Elems(b) = {}
  /\ Elems(d) \cap (Elems(a) \cup Elems(b)) = {}

(* The three parts share nothing.                                          *)
LEMMA TailCut ==
  ASSUME NEW t \in Seq(Block), Once(t), NEW n \in 0..Len(t), NEW keep \in 0..(Len(t) - n)
  PROVE  Parted(t, Prefix(t, n), Prefix(Rest(t, n), keep), Rest(Rest(t, n), keep))
<1> DEFINE rest == Rest(t, n)
           a == Prefix(t, n)
           b == Prefix(rest, keep)
           d == Rest(rest, keep)
<1>1. a \in Seq(Block) /\ Len(a) = n /\ \A i \in 1..n : a[i] = t[i]
  BY FirstPart
<1>2. /\ rest \in Seq(Block) /\ Len(rest) = Len(t) - n
      /\ \A i \in 1..(Len(t) - n) : rest[i] = t[n + i]
  BY RestIs DEF Rest
<1> HIDE DEF rest
<1>3. b \in Seq(Block) /\ Len(b) = keep /\ \A i \in 1..keep : b[i] = rest[i]
  BY <1>2, FirstPart
<1>4. /\ d \in Seq(Block) /\ Len(d) = Len(t) - n - keep
      /\ \A i \in 1..(Len(t) - n - keep) : d[i] = rest[keep + i]
  <2>1. keep \in 0..Len(rest) /\ Len(rest) = Len(t) - n
    BY <1>2
  <2>2. /\ d \in Seq(Block) /\ Len(d) = Len(rest) - keep
        /\ \A i \in 1..(Len(rest) - keep) : d[i] = rest[keep + i]
    BY <1>2, <2>1, RestIs DEF Rest
  <2> HIDE DEF d
  <2> QED
    BY <2>1, <2>2
<1>5. n \in Nat /\ keep \in Nat /\ Len(t) \in Nat /\ n <= Len(t) /\ keep <= Len(t) - n
  BY <1>2
<1> HIDE DEF a, b, d
<1>6. /\ \A i \in 1..keep : b[i] = t[n + i] /\ n + i \in DOMAIN t
      /\ \A i \in 1..(Len(t) - n - keep) : d[i] = t[n + keep + i] /\ n + keep + i \in DOMAIN t
      /\ \A i \in 1..n : i \in DOMAIN t
  <2>1. DOMAIN t = 1..Len(t)
    OBVIOUS
  <2>2. \A i \in 1..keep : i \in 1..(Len(t) - n) /\ n + i \in 1..Len(t)
    BY <1>5
  <2>3. \A i \in 1..(Len(t) - n - keep) :
          keep + i \in 1..(Len(t) - n) /\ n + (keep + i) = n + keep + i /\ n + keep + i \in 1..Len(t)
    BY <1>5
  <2>4. \A i \in 1..n : i \in 1..Len(t)
    BY <1>5
  <2>5. \A i \in 1..keep : b[i] = t[n + i]
    BY <1>2, <1>3, <2>2
  <2>6. \A i \in 1..(Len(t) - n - keep) : d[i] = t[n + keep + i]
    BY <1>2, <1>4, <2>3
  <2> QED
    BY <2>1, <2>2, <2>3, <2>4, <2>5, <2>6
<1>7. Once(a) /\ Once(b)
  BY <1>1, <1>3, <1>5, <1>6 DEF Once
<1>8. /\ \A x : x \in Elems(a) <=> \E i \in 1..n : x = t[i]
      /\ \A x : x \in Elems(b) <=> \E i \in 1..keep : x = t[n + i]
      /\ \A x : x \in Elems(d) <=> \E i \in 1..(Len(t) - n - keep) : x = t[n + keep + i]
      /\ \A x : x \in Elems(t) <=> \E i \in 1..Len(t) : x = t[i]
  <2>1. \A x : x \in Elems(a) <=> \E i \in 1..n : x = t[i]
    <3>1. \A x : x \in Elems(a) <=> \E i \in 1..n : a[i] = x
      BY <1>1, ElemsIs
    <3> QED
      BY <1>1, <3>1
  <2>2. \A x : x \in Elems(b) <=> \E i \in 1..keep : x = t[n + i]
    <3>1. \A x : x \in Elems(b) <=> \E i \in 1..keep : b[i] = x
      BY <1>3, ElemsIs
    <3> QED
      BY <1>6, <3>1
  <2>3. \A x : x \in Elems(d) <=> \E i \in 1..(Len(t) - n - keep) : x = t[n + keep + i]
    <3>1. \A x : x \in Elems(d) <=> \E i \in 1..(Len(t) - n - keep) : d[i] = x
      BY <1>4, ElemsIs
    <3> QED
      BY <1>6, <3>1
  <2>4. \A x : x \in Elems(t) <=> \E i \in 1..Len(t) : x = t[i]
    BY ElemsIs
  <2> QED
    BY <2>1, <2>2, <2>3, <2>4
<1>9. Elems(a) \cup Elems(b) \cup Elems(d) \subseteq Elems(t)
  BY <1>5, <1>8
<1>10. ASSUME NEW i \in 1..Len(t) PROVE t[i] \in Elems(a) \cup Elems(b) \cup Elems(d)
  <2>1. CASE i <= n
    BY <1>5, <1>8, <2>1
  <2>2. CASE i > n /\ i <= n + keep
    <3>1. i - n \in 1..keep /\ n + (i - n) = i
      BY <1>5, <2>2
    <3> QED
      BY <1>8, <3>1
  <2>3. CASE i > n + keep
    <3>1. i - n - keep \in 1..(Len(t) - n - keep) /\ n + keep + (i - n - keep) = i
      BY <1>5, <2>3
    <3> QED
      BY <1>8, <3>1
  <2> QED
    BY <1>5, <2>1, <2>2, <2>3
<1>11. Elems(t) = Elems(a) \cup Elems(b) \cup Elems(d)
  BY <1>8, <1>9, <1>10
<1>12. Elems(a) \cap Elems(b) = {}
  <2>1. ASSUME NEW i \in 1..n, NEW j \in 1..keep, t[i] = t[n + j] PROVE FALSE
    <3>1. i = n + j
      BY <1>6, <2>1 DEF Once
    <3> QED
      BY <1>5, <3>1
  <2> SUFFICES ASSUME NEW x \in Elems(a), x \in Elems(b) PROVE FALSE
    OBVIOUS
  <2>2. PICK i \in 1..n : x = t[i]
    BY <1>8
  <2>3. PICK j \in 1..keep : x = t[n + j]
    BY <1>8
  <2> QED
    BY <2>1, <2>2, <2>3
<1>13. Elems(d) \cap (Elems(a) \cup Elems(b)) = {}
  <2>1. ASSUME NEW i \in 1..n, NEW j \in 1..(Len(t) - n - keep), t[i] = t[n + keep + j]
        PROVE  FALSE
    <3>1. i = n + keep + j
      BY <1>6, <2>1 DEF Once
    <3> QED
      BY <1>5, <3>1
  <2>2. ASSUME NEW i \in 1..keep, NEW j \in 1..(Len(t) - n - keep), t[n + i] = t[n + keep + j]
        PROVE  FALSE
    <3>1. n + i = n + keep + j
      BY <1>6, <2>2 DEF Once
    <3> QED
      BY <1>5, <3>1
  <2> SUFFICES ASSUME NEW x \in Elems(d), x \in Elems(a) \cup Elems(b) PROVE FALSE
    OBVIOUS
  <2>3. PICK j \in 1..(Len(t) - n - keep) : x = t[n + keep + j]
    BY <1>8
  <2>4. CASE x \in Elems(a)
    <3>1. PICK i \in 1..n : x = t[i]
      BY <1>8, <2>4
    <3> QED
      BY <2>1, <2>3, <3>1
  <2>5. CASE x \in Elems(b)
    <3>1. PICK i \in 1..keep : x = t[n + i]
      BY <1>8, <2>5
    <3> QED
      BY <2>2, <2>3, <3>1
  <2> QED
    BY <2>4, <2>5
<1> QED
  BY <1>7, <1>11, <1>12, <1>13 DEF Parted, a, b, d, rest

(* How much of a turn is new, and which of the tail it leaves.             *)
LEMMA NewIs ==
  ASSUME Typed, NEW c \in Conv
  PROVE  /\ New(c) \in Nat /\ Len(work[c]) \in Nat /\ sealed[c] \in Nat
         /\ New(c) > 0 => sealed[c] + New(c) = Len(work[c])
         /\ New(c) = 0 => Len(work[c]) <= sealed[c]
         /\ work[c] \in Stream /\ tail[c] \in Seq(Block) /\ Len(tail[c]) \in Nat
<1>1. /\ work[c] \in Stream /\ sealed[c] \in Nat /\ tail[c] \in Seq(Block)
  BY MaxPagesAssumption DEF Typed, StateTyped, RowTyped, ConvTyped
<1>2. Len(work[c]) \in Nat /\ Len(tail[c]) \in Nat
  BY <1>1, StreamIs
<1> QED
  BY <1>1, <1>2 DEF New, Beyond

(* Beyond and Lesser of numbers.                                           *)
LEMMA BeyondIs ==
  ASSUME NEW m \in Nat, NEW n \in Nat
  PROVE  Beyond(m, n) \in Nat /\ Lesser(m, n) \in 0..m /\ Lesser(m, n) <= n
BY DEF Beyond, Lesser

(* What a turn gives to each: sealed, kept, and given back.                *)
LEMMA EndCut ==
  ASSUME Typed, OneOwner, NEW c \in Conv, End(c)
  PROVE  \E blocks, kept, spare :
           /\ blocks \in Seq(Block) /\ kept \in Seq(Block)
           /\ blocks = Prefix(tail[c], New(c)) /\ Len(blocks) = New(c)
           /\ Len(kept) = Lesser(Len(tail[c]) - New(c),
                                 Beyond(Len(work[c]) + 1, sealed[c] + New(c)))
           /\ Once(blocks) /\ Once(kept)
           /\ Elems(tail[c]) = Elems(blocks) \cup Elems(kept) \cup spare
           /\ Elems(blocks) \cap Elems(kept) = {}
           /\ spare \cap (Elems(blocks) \cup Elems(kept)) = {}
           /\ Seal(c, work[c], sealed[c], blocks)
           /\ used' = used \ (Duplicates(work[c], sealed[c], blocks) \cup spare)
           /\ tail' = [tail EXCEPT ![c] = kept]
           /\ \A i \in 1..New(c) : blocks[i] = tail[c][i]
           /\ \A i \in 1..Len(kept) : kept[i] = tail[c][New(c) + i]
<1> DEFINE n == New(c)
           rest == Rest(tail[c], n)
           keep == Lesser(Len(rest), Beyond(Len(work[c]) + 1, sealed[c] + n))
           blocks == Prefix(tail[c], n)
           kept == Prefix(rest, keep)
           spare == Elems(Rest(rest, keep))
<1>1. n \in Nat /\ tail[c] \in Seq(Block) /\ Len(tail[c]) \in Nat /\ Len(work[c]) \in Nat
      /\ sealed[c] \in Nat
  BY NewIs
<1>2. /\ n <= Len(tail[c])
      /\ Seal(c, work[c], sealed[c], blocks)
      /\ used' = used \ (Duplicates(work[c], sealed[c], blocks) \cup spare)
      /\ tail' = [tail EXCEPT ![c] = kept]
  BY DEF End, Rest
<1>3. Once(tail[c])
  BY DEF OneOwner, TailsApart
<1> HIDE DEF n
<1>4. /\ rest \in Seq(Block) /\ Len(rest) = Len(tail[c]) - n
      /\ \A i \in 1..(Len(tail[c]) - n) : rest[i] = tail[c][n + i]
  <2>1. tail[c] \in Seq(Block) /\ n \in 0..Len(tail[c])
    BY <1>1, <1>2
  <2>2. /\ SubSeq(tail[c], n + 1, Len(tail[c])) \in Seq(Block)
        /\ Len(SubSeq(tail[c], n + 1, Len(tail[c]))) = Len(tail[c]) - n
        /\ \A i \in 1..(Len(tail[c]) - n) :
             SubSeq(tail[c], n + 1, Len(tail[c]))[i] = tail[c][n + i]
    BY ONLY <2>1, RestIs
  <2> QED
    BY ONLY <2>2 DEF rest, Rest
<1> HIDE DEF rest
<1>5. keep \in 0..Len(rest)
  <2>1. Len(rest) \in Nat
    BY <1>4
  <2>2. Len(work[c]) + 1 \in Nat /\ sealed[c] + n \in Nat
    BY <1>1
  <2>3. Beyond(Len(work[c]) + 1, sealed[c] + n) \in Nat
    BY <2>2, BeyondIs
  <2> QED
    BY <2>1, <2>3, BeyondIs
<1> HIDE DEF keep
<1>6. /\ blocks \in Seq(Block) /\ Len(blocks) = n /\ kept \in Seq(Block) /\ Len(kept) = keep
      /\ Once(blocks) /\ Once(kept)
      /\ Elems(tail[c]) = Elems(blocks) \cup Elems(kept) \cup spare
      /\ Elems(blocks) \cap Elems(kept) = {}
      /\ spare \cap (Elems(blocks) \cup Elems(kept)) = {}
  <2>1. n \in 0..Len(tail[c]) /\ keep \in 0..(Len(tail[c]) - n)
    BY <1>1, <1>2, <1>4, <1>5
  <2>2. blocks \in Seq(Block) /\ Len(blocks) = n
    BY <1>1, <2>1, FirstPart
  <2>3. kept \in Seq(Block) /\ Len(kept) = keep
    BY <1>4, <1>5, FirstPart
  <2>4. Parted(tail[c], blocks, kept, Rest(rest, keep))
    BY <1>1, <1>3, <2>1, TailCut DEF rest
  <2> QED
    BY <2>2, <2>3, <2>4 DEF Parted
<1>7. /\ \A i \in 1..n : blocks[i] = tail[c][i]
      /\ \A i \in 1..keep : kept[i] = rest[i]
  <2>1. n \in 0..Len(tail[c])
    BY <1>1, <1>2
  <2> QED
    BY <1>1, <1>4, <1>5, <2>1, FirstPart
<1>8. /\ \A i \in 1..Len(kept) : kept[i] = tail[c][n + i]
      /\ Len(kept) = Lesser(Len(tail[c]) - n, Beyond(Len(work[c]) + 1, sealed[c] + n))
  BY <1>4, <1>5, <1>6, <1>7 DEF keep
<1>9. blocks = Prefix(tail[c], n)
  OBVIOUS
<1> HIDE DEF blocks, kept, spare
<1> WITNESS blocks, kept, spare
<1> QED
  BY <1>2, <1>6, <1>7, <1>8, <1>9 DEF n

(* At the end of a turn its tail is sealed, kept and given back.           *)
LEMMA EndApart ==
  ASSUME Typed, OneOwner, OneHolder, NEW c \in Conv, End(c)
  PROVE  OneOwner' /\ OneHolder'
<1>1. PICK blocks, kept, spare :
           /\ blocks \in Seq(Block) /\ kept \in Seq(Block)
           /\ blocks = Prefix(tail[c], New(c)) /\ Len(blocks) = New(c)
           /\ Len(kept) = Lesser(Len(tail[c]) - New(c),
                                 Beyond(Len(work[c]) + 1, sealed[c] + New(c)))
           /\ Once(blocks) /\ Once(kept)
           /\ Elems(tail[c]) = Elems(blocks) \cup Elems(kept) \cup spare
           /\ Elems(blocks) \cap Elems(kept) = {}
           /\ spare \cap (Elems(blocks) \cup Elems(kept)) = {}
           /\ Seal(c, work[c], sealed[c], blocks)
           /\ used' = used \ (Duplicates(work[c], sealed[c], blocks) \cup spare)
           /\ tail' = [tail EXCEPT ![c] = kept]
           /\ \A i \in 1..New(c) : blocks[i] = tail[c][i]
           /\ \A i \in 1..Len(kept) : kept[i] = tail[c][New(c) + i]
  BY EndCut
<1>2. /\ eng = Free /\ eng' = Free
      /\ hosts' = hosts \ HandlesOf(Elems(Chain(work[c], sealed[c], Len(work[c]))))
  BY DEF End
<1>3. /\ Taken = {} /\ Taken' = {} /\ Moving = {} /\ Moving' = {}
      /\ eng'.out = <<>> /\ eng'.plan = {} /\ ~(At("demote"))'
  BY <1>2 DEF Free, Taken, Promised, Reserved, Moving, At, Elems
<1>4. \A d \in Conv : tail'[d] = IF d = c THEN kept ELSE tail[d]
  BY <1>1 DEF Typed, StateTyped, ConvTyped
<1>5. /\ work[c] \in Stream /\ sealed[c] \in Nat /\ New(c) \in Nat /\ Len(work[c]) \in Nat
      /\ New(c) > 0 => sealed[c] + New(c) = Len(work[c])
      /\ New(c) = 0 => Len(work[c]) <= sealed[c]
  BY NewIs
<1>6. Len(blocks) > 0 => sealed[c] + Len(blocks) <= Len(work[c])
  BY <1>1, <1>5
<1>7. /\ Elems(tail[c]) \subseteq used
      /\ \A d \in Conv : d # c => Elems(tail[d]) \cap Elems(tail[c]) = {}
  BY DEF OneOwner, TailsApart
<1>8. Elems(tail[c]) \subseteq TailsOf(Conv)
  BY DEF TailsOf
<1>9. TailsOf(Conv)' \subseteq TailsOf(Conv) \ Elems(blocks)
  <2>1. ASSUME NEW d \in Conv PROVE Elems(tail'[d]) \subseteq TailsOf(Conv) \ Elems(blocks)
    <3>1. CASE d = c
      BY <1>1, <1>4, <1>8, <3>1
    <3>2. CASE d # c
      <4>1. Elems(tail[d]) \subseteq TailsOf(Conv)
        BY DEF TailsOf
      <4> QED
        BY <1>1, <1>4, <1>7, <3>2, <4>1
    <3> QED
      BY <3>1, <3>2
  <2> QED
    BY <2>1 DEF TailsOf
<1>10. UnitsApart'
  <2>1. /\ Elems(blocks) \subseteq used
        /\ Elems(blocks) \subseteq TailsOf(Conv) \cup Taken
        /\ spare \subseteq TailsOf(Conv) \cup Taken /\ spare \cap Elems(blocks) = {}
        /\ TailsOf(Conv)' \cup Taken' \subseteq (TailsOf(Conv) \cup Taken) \ Elems(blocks)
    BY <1>1, <1>3, <1>7, <1>8, <1>9
  <2>2. UnitsApart
    BY DEF OneOwner
  <2> QED
    BY <1>1, <1>5, <1>6, <2>1, <2>2, SealUnits
<1>11. TailsApart'
  <2>1. Duplicates(work[c], sealed[c], blocks) \subseteq Elems(blocks)
    BY DEF Duplicates, Elems
  <2>2. ASSUME NEW d \in Conv PROVE Once(tail'[d]) /\ Elems(tail'[d]) \subseteq used' \ Taken'
    <3>1. CASE d = c
      BY <1>1, <1>3, <1>4, <1>7, <2>1, <3>1
    <3>2. CASE d # c
      <4>1. Once(tail[d]) /\ Elems(tail[d]) \subseteq used
        BY DEF OneOwner, TailsApart
      <4> QED
        BY <1>1, <1>3, <1>4, <1>7, <2>1, <3>2, <4>1
    <3> QED
      BY <3>1, <3>2
  <2>3. ASSUME NEW d \in Conv, NEW e \in Conv, d # e
        PROVE  Elems(tail'[d]) \cap Elems(tail'[e]) = {}
    <3>1. Elems(tail[d]) \cap Elems(tail[e]) = {}
      BY <2>3 DEF OneOwner, TailsApart
    <3>2. Elems(kept) \subseteq Elems(tail[c])
      BY <1>1
    <3> QED
      BY <1>4, <2>3, <3>1, <3>2
  <2> QED
    BY <2>2, <2>3 DEF TailsApart
<1>12. TakenApart'
  BY <1>3 DEF TakenApart, Once
<1>13. OneHolder'
  <2> DEFINE units == Chain(work[c], sealed[c], sealed[c] + Len(blocks))
             gone == Elems(Chain(work[c], sealed[c], Len(work[c])))
  <2>1. gone \subseteq Elems(units)
    <3>1. CASE New(c) > 0
      BY <1>1, <1>5, <3>1
    <3>2. CASE New(c) = 0
      BY <1>5, <3>2, NoChain
    <3> QED
      BY <1>5, <3>1, <3>2
  <2>2. \A u \in Unit : OnHost(u)' => OnHost(u) /\ place'[u] = place[u] /\ u \notin Elems(units)
    BY <1>1, <1>5, <1>6, SealHolders
  <2>3. \A k : k \in HandlesOf(gone) => \E u \in gone : OnHost(u) /\ k = place[u][2]
    BY DEF HandlesOf
  <2>4. gone \subseteq Unit
    <3>1. CASE sealed[c] <= Len(work[c])
      BY <1>5, <3>1, ChainUnits
    <3>2. CASE ~(sealed[c] <= Len(work[c]))
      BY <1>5, <3>2, NoChain
    <3> QED
      BY <3>1, <3>2
  <2> HIDE DEF units, gone
  <2>5. hosts' = hosts \ HandlesOf(gone)
    BY <1>2 DEF gone
  <2>6. \A u \in Unit : OnHost(u)' => place'[u][2] \in hosts'
    BY <2>1, <2>2, <2>3, <2>4, <2>5 DEF OneHolder
  <2> QED
    BY <1>3, <2>2, <2>6 DEF OneHolder
<1> QED
  BY <1>10, <1>11, <1>12, <1>13 DEF OneOwner

(* Every step keeps the owners apart.                                      *)
LEMMA OwnersStep ==
  ASSUME Typed, OneOwner, OneHolder, [Next]_vars
  PROVE  OneOwner' /\ OneHolder'
<1>1. CASE MakingRoom
  BY <1>1, LookingApart, LeavingApart, EvictingApart, FailingApart, DemoteApart,
     PrepareDemoteApart, GivingApart DEF MakingRoom
<1>2. CASE Admitting
  BY <1>2, LookingApart
<1>3. CASE Beginning
  <2>1. CASE SwitchShared \/ Sweep
    BY <2>1, LeavingApart, EvictingApart
  <2>2. CASE SwitchExplicit \/ EnterFast \/ EnterGeneral \/ Probe \/ FastTables \/ Serve
             \/ ServeCold \/ NotServed
    BY <2>2, LookingApart
  <2>3. CASE PreparePromote \/ AllocOne
    BY <2>3, TakingApart
  <2>4. CASE Promote \/ FreshRead
    BY <2>4, PromoteApart, FreshReadApart
  <2>5. CASE PromoteFails \/ Exhausted \/ RestoreFails \/ (CommitFails /\ eng.then # "fast")
    BY <2>5, FailingApart
  <2>6. CASE (CommitFails /\ eng.then = "fast") \/ FastAllocated \/ Install
    BY <2>6, TailingApart
  <2>7. CASE StandOnResident \/ StandOnDisk
    BY <2>7, GivingApart
  <2> QED
    BY <1>3, <2>1, <2>2, <2>3, <2>4, <2>5, <2>6, <2>7 DEF Beginning
<1>4. CASE Grown \/ GrowthFailed
  BY <1>4, TailingApart, LeavingApart
<1>5. CASE \E c \in Conv, p \in Stream : Begin(c, p)
  BY <1>5, LookingApart
<1>6. CASE \E c \in Conv : Prefill(c) \/ Grow(c)
  BY <1>6, LookingApart
<1>7. CASE \E c \in Conv : End(c) \/ EndUnderflows(c) \/ EndUnknown(c) \/ Abandon(c)
  BY <1>7, EndApart, GivingApart, LookingApart, LeavingApart
<1>8. CASE \E c \in Conv, x \in Page : Decode(c, x)
  BY <1>8, LookingApart
<1>9. CASE \E c \in Conv : Erase(c)
  BY <1>9, LeavingApart
<1>10. CASE Trim \/ UNCHANGED vars
  BY <1>10, LeavingApart, LookingApart
<1> QED
  BY <1>1, <1>2, <1>3, <1>4, <1>5, <1>6, <1>7, <1>8, <1>9, <1>10 DEF Next, Engine

(* The pool begins with nothing owned.                                     *)
LEMMA OwnersInit == Init => OneOwner /\ OneHolder
<1> SUFFICES ASSUME Init PROVE OneOwner /\ OneHolder
  OBVIOUS
<1>1. /\ \A u \in Unit : ~OnDevice(u) /\ ~OnHost(u)
      /\ \A c \in Conv : tail[c] = <<>>
      /\ eng.out = <<>> /\ eng.plan = {} /\ ~At("demote")
  BY DEF Init, InitResident, OnDevice, OnHost, Nowhere, Free, At
<1>2. Taken = {} /\ Moving = {} /\ Elems(<<>>) = {} /\ Once(<<>>)
  BY <1>1 DEF Taken, Promised, Reserved, Moving, Elems, Once
<1>3. UnitsApart /\ TailsApart /\ TakenApart
  BY <1>1, <1>2 DEF UnitsApart, TailsApart, TakenApart
<1>4. OneHolder
  BY <1>1, <1>2 DEF OneHolder
<1> QED
  BY <1>3, <1>4 DEF OneOwner

Pool == Typed /\ Indexed /\ OneOwner /\ OneHolder

(* Whatever fails, whatever is moved, whichever mode the memory is in: a   *)
(* block has one owner and a host handle has one, and both are in use      *)
(* (block_alloc.rs: a block is freed once; resident.rs, pool.rs).          *)
THEOREM OwnersApart == Spec => []Pool
<1>1. Init => Pool
  BY InitTyped, IndexInit, OwnersInit DEF Pool
<1>2. Pool /\ [Next]_vars => Pool'
  BY TypedStep, IndexStep, OwnersStep DEF Pool
<1> QED
  BY <1>1, <1>2, PTL DEF Spec

-----------------------------------------------------------------------------
(* What the operation under way has established by each of its stages.     *)

Allocating == At("alloc") \/ At("hostroom") \/ At("demote")
For(purpose) == Allocating /\ eng.then = purpose
Growing == For("grow") \/ At("abandon")
Appending == For("fast") \/ (At("probe") /\ eng.then = "tables") \/ At("tables")

StageSeat ==
  /\ ~At("free") /\ ~Growing => eng.conv \notin running
  /\ Growing => eng.conv \in running
  /\ For("grow") \/ Appending \/ At("headers") => eng.conv \in known

StageMoves ==
  /\ At("hostroom") \/ At("demote") => eng.drop \cap (running \cup {eng.conv}) = {}
  /\ At("hostroom") \/ At("demote") \/ At("sweep") => Explicit

StageList ==
  /\ For("tail") \/ For("fresh") => tail[eng.conv] = <<>>
  /\ At("choose") => list[eng.conv] = Chain(eng.prompt, 0, Hits(eng.prompt))
  /\ For("tail") => /\ list[eng.conv] = Chain(eng.prompt, 0, eng.resume)
                    /\ Len(eng.out) + eng.need = Upper(eng.prompt) - eng.resume
  /\ For("fresh") => LET n == Len(list[eng.conv])
                     IN  /\ list[eng.conv] = Chain(eng.prompt, 0, n)
                         /\ Len(eng.out) + eng.need = eng.resume - n

StageLength ==
  /\ Appending =>
       Upper(eng.prompt) <= (sealed[eng.conv] + Len(tail[eng.conv])) + (Len(eng.out) + eng.need)
  /\ (At("probe") /\ eng.then = "tables") \/ At("tables") => eng.need = 0
  /\ At("headers") => Upper(eng.prompt) <= sealed[eng.conv] + Len(tail[eng.conv])

StageFailed == At("cold") \/ cold > 0 => failed

Stages == StageSeat /\ StageMoves /\ StageList /\ StageLength /\ StageFailed

(* Where a request stands before it has blocks to ask for, or after.       *)
LEMMA StagesFree ==
  ASSUME eng' = Free
  PROVE  StageSeat' /\ StageMoves' /\ StageList' /\ StageLength'
<1>1. eng'.at = "free"
  BY DEF Free
<1>2. ~Allocating' /\ ~Growing' /\ ~Appending' /\ (At("free"))'
  BY <1>1 DEF Allocating, Growing, For, Appending, At
<1>3. ~(At("headers"))' /\ ~(At("hostroom"))' /\ ~(At("demote"))' /\ ~(At("sweep"))'
      /\ ~(At("choose"))' /\ ~(At("tables"))' /\ ~(At("probe"))'
  BY <1>1 DEF At
<1> QED
  BY <1>2, <1>3 DEF StageSeat, StageMoves, StageList, StageLength, For

(* What remains to be shown of stages that promise nothing of blocks.      *)
Plain == {"charge", "admit", "switch", "enter", "cold", "abandon"}

(* There the seat alone remains.                                           *)
LEMMA StagesPlain ==
  ASSUME eng'.at \in Plain, eng'.at = "abandon" <=> eng'.conv \in running'
  PROVE  StageSeat' /\ StageMoves' /\ StageList' /\ StageLength'
<1>1. ~Allocating' /\ ~Appending' /\ ~(At("free"))' /\ (Growing' <=> eng'.at = "abandon")
  BY DEF Allocating, Growing, For, Appending, At, Plain
<1>2. ~(At("headers"))' /\ ~(At("hostroom"))' /\ ~(At("demote"))' /\ ~(At("sweep"))'
      /\ ~(At("choose"))' /\ ~(At("tables"))' /\ ~(At("probe"))'
  BY DEF At, Plain
<1> QED
  BY <1>1, <1>2 DEF StageSeat, StageMoves, StageList, StageLength, For

(* A step of another part of the pool leaves the request where it was.     *)
LEMMA StagesStay ==
  ASSUME StageSeat, StageMoves, StageList, StageLength, ~At("choose"), eng' = eng,
         running' = running,
         eng.conv \in known => eng.conv \in known',
         sealed'[eng.conv] = sealed[eng.conv], list'[eng.conv] = list[eng.conv],
         tail'[eng.conv] = tail[eng.conv]
  PROVE  StageSeat' /\ StageMoves' /\ StageList' /\ StageLength'
<1>1. /\ Allocating' = Allocating /\ Growing' = Growing /\ Appending' = Appending
      /\ \A p : For(p)' = For(p)
      /\ \A s : (At(s))' = At(s)
  BY DEF Allocating, Growing, For, Appending, At
<1>2. StageSeat'
  BY <1>1 DEF StageSeat, At, For, Growing, Appending, Allocating
<1>3. StageMoves'
  BY DEF StageMoves, At
<1>4. StageList'
  BY DEF StageList, At, For, Allocating
<1>5. StageLength'
  BY DEF StageLength, At, For, Appending, Allocating
<1> QED
  BY <1>2, <1>3, <1>4, <1>5

(* The conversations that leave are neither the request's nor running.     *)
LEMMA StagesLeave ==
  ASSUME Typed, Stages, ~At("choose"), eng' = eng, running' = running,
         NEW cs, cs \subseteq Conv, Leave(cs), eng.conv \in Conv \ cs
  PROVE  StageSeat' /\ StageMoves' /\ StageList' /\ StageLength'
<1>1. /\ known' = known \ cs
      /\ sealed'[eng.conv] = sealed[eng.conv] /\ tail'[eng.conv] = tail[eng.conv]
      /\ list'[eng.conv] = list[eng.conv]
  BY DEF Leave, Drop, Forget
<1> QED
  BY <1>1, StagesStay DEF Stages

(* The steps that admit, switch and fail.                                  *)
LEMMA StagesBegin ==
  ASSUME Typed, Stages,
         \/ \E c \in Conv, p \in Stream : Begin(c, p)
         \/ \E c \in Conv : Grow(c)
         \/ Admitting \/ SwitchShared \/ Sweep
         \/ NoHostRoom \/ DemoteFails \/ PromoteFails \/ Exhausted \/ RestoreFails \/ CommitFails
  PROVE  Stages'
<1>1. ASSUME NEW c \in Conv, NEW p \in Stream, Begin(c, p) PROVE Stages'
  <2>1. eng'.at = "charge" /\ eng'.conv = c /\ c \notin running'
    BY <1>1 DEF Begin, Free, rowVars
  <2>2. StageFailed'
    BY <1>1, <2>1 DEF Begin, Stages, StageFailed, At
  <2> QED
    BY <2>1, <2>2, StagesPlain DEF Stages, Plain
<1>2. ASSUME NEW c \in Conv, Grow(c) PROVE Stages'
  <2>1. c \in running' /\ cold' = cold /\ failed' = failed /\ known' = known
    BY <1>2 DEF Grow, rowVars, ctlVars, convVars
  <2>2. CASE c \in known
    <3>1. eng'.at = "alloc" /\ eng'.then = "grow" /\ eng'.conv = c
      BY <1>2, <2>2 DEF Grow, Free
    <3>2. /\ Growing' /\ ~(At("free"))' /\ ~Appending' /\ ~(At("headers"))' /\ ~(At("choose"))'
          /\ ~(At("hostroom"))' /\ ~(At("demote"))' /\ ~(At("sweep"))' /\ ~(At("cold"))'
          /\ ~(At("tables"))' /\ ~(At("probe"))' /\ ~For("tail")' /\ ~For("fresh")'
      BY <3>1 DEF Growing, For, Allocating, Appending, At
    <3> QED
      BY <2>1, <2>2, <3>1, <3>2 DEF Stages, StageSeat, StageMoves, StageList, StageLength,
         StageFailed
  <2>3. CASE c \notin known
    <3>1. eng'.at = "abandon" /\ eng'.conv = c
      BY <1>2, <2>3 DEF Grow, Free
    <3>2. StageFailed'
      BY <2>1, <3>1 DEF Stages, StageFailed, At
    <3> QED
      BY <2>1, <3>1, <3>2, StagesPlain DEF Stages, Plain
  <2> QED
    BY <2>2, <2>3
<1>3. CASE Admitting \/ SwitchShared \/ Sweep
  <2>1. EngTyped
    BY DEF Typed
  <2>2. eng.conv \notin running
    BY <1>3 DEF Admitting, ChargeSlot, DoNotCharge, Admit, SwitchShared, Sweep, Stages,
       StageSeat, At, Growing, For, Allocating
  <2>3. running' = running /\ failed' = failed /\ cold' = cold
    BY <1>3 DEF Admitting, ChargeSlot, DoNotCharge, Admit, SwitchShared, Sweep, rowVars, ctlVars
  <2>4. eng' = Free \/ (eng'.at \in {"admit", "switch", "enter"} /\ eng'.conv = eng.conv)
    <3>1. CASE ChargeSlot \/ SwitchShared \/ Sweep
      BY <2>1, <3>1 DEF ChargeSlot, SwitchShared, Sweep, GoTo, EngTyped
    <3>2. CASE DoNotCharge \/ Admit
      <4>1. \/ eng' = Free \/ eng' = [eng EXCEPT !.at = "switch"]
            \/ eng' = [eng EXCEPT !.at = "switch", !.beside = TRUE]
        BY <3>2 DEF DoNotCharge, Admit
      <4>2. CASE eng' = [eng EXCEPT !.at = "switch"]
        BY <2>1, <4>2 DEF EngTyped
      <4>3. CASE eng' = [eng EXCEPT !.at = "switch", !.beside = TRUE]
        BY <2>1, <4>3 DEF EngTyped
      <4> QED
        BY <4>1, <4>2, <4>3
    <3> QED
      BY <1>3, <3>1, <3>2 DEF Admitting
  <2>5. StageFailed'
    BY <2>3, <2>4 DEF Stages, StageFailed, At, Free
  <2> QED
    BY <2>2, <2>3, <2>4, <2>5, StagesFree, StagesPlain DEF Stages, Plain
<1>4. CASE NoHostRoom \/ DemoteFails \/ PromoteFails \/ Exhausted \/ RestoreFails \/ CommitFails
  <2>1. PICK blocks : Fail(blocks)
    BY <1>4 DEF NoHostRoom, DemoteFails, PromoteFails, Exhausted, RestoreFails, CommitFails
  <2>2. /\ eng'.at = IF eng.then = "grow" THEN "abandon" ELSE "cold"
        /\ eng'.conv = eng.conv /\ failed' = (failed \/ eng.then # "grow") /\ cold' = cold
    BY <2>1 DEF Fail, Free
  <2>3. running' = running
    BY <1>4 DEF NoHostRoom, DemoteFails, PromoteFails, Exhausted, RestoreFails, CommitFails,
       rowVars
  <2>4. eng.conv \in running <=> eng.then = "grow"
    <3>1. Allocating \/ (At("probe") /\ eng.then # "grow")
      BY <1>4 DEF NoHostRoom, DemoteFails, PromoteFails, Exhausted, RestoreFails, CommitFails,
         Allocated, Allocating, At, Typed, EngAgrees
    <3> QED
      BY <3>1 DEF Stages, StageSeat, Growing, For, Allocating, At
  <2>5. StageFailed'
    BY <2>2 DEF Stages, StageFailed, At
  <2> QED
    BY <2>2, <2>3, <2>4, <2>5, StagesPlain DEF Stages, Plain
<1> QED
  BY <1>1, <1>2, <1>3, <1>4

(* The steps of requests that run and of a pool at rest.                   *)
LEMMA StagesOver ==
  ASSUME Typed, Stages,
         \/ Serve \/ ServeCold \/ NotServed \/ Grown \/ GrowthFailed \/ Trim
         \/ \E c \in Conv : Prefill(c) \/ End(c) \/ EndUnderflows(c) \/ EndUnknown(c)
                            \/ Abandon(c) \/ Erase(c)
         \/ \E c \in Conv, x \in Page : Decode(c, x)
  PROVE  Stages'
<1>1. eng' = Free
  BY DEF Serve, ServeCold, NotServed, Grown, GrowthFailed, Trim, Prefill, End, EndUnderflows,
     EndUnknown, Abandon, Erase, Decode, Start
<1>2. ~(At("cold"))'
  BY <1>1 DEF At, Free
<1>3. StageFailed'
  <2>1. CASE ServeCold
    BY <1>2, <2>1 DEF ServeCold, Stages, StageFailed
  <2>2. CASE ~ServeCold
    <3>1. failed' = failed /\ cold' = cold
      BY <2>2 DEF Serve, NotServed, Grown, GrowthFailed, Trim, Prefill, End, EndUnderflows,
         EndUnknown, Abandon, Erase, Decode, ctlVars
    <3> QED
      BY <1>2, <3>1 DEF Stages, StageFailed
  <2> QED
    BY <2>1, <2>2
<1> QED
  BY <1>1, <1>3, StagesFree DEF Stages

(* A step of the request itself that keeps what it promised, or more.      *)
LEMMA StagesKeep ==
  ASSUME Stages, Allocating, Allocating', eng'.conv = eng.conv, eng'.then = eng.then,
         eng'.prompt = eng.prompt, eng'.resume = eng.resume,
         Len(eng'.out) + eng'.need = Len(eng.out) + eng.need,
         UNCHANGED <<running, known, sealed, list, failed, cold>>,
         tail'[eng.conv] = tail[eng.conv],
         Len(tail[eng.conv]) \in Nat, sealed[eng.conv] \in Nat,
         Len(eng'.out) \in Nat, eng'.need \in Nat, Len(eng.out) \in Nat, eng.need \in Nat,
         StageMoves'
  PROVE  Stages'
<1>1. /\ Growing' = For("grow") /\ Growing = For("grow") /\ \A p : For(p)' = For(p)
      /\ Appending' = For("fast") /\ Appending = For("fast")
      /\ ~At("free") /\ ~(At("free"))' /\ ~(At("headers"))' /\ ~(At("choose"))'
      /\ ~(At("tables"))' /\ ~(At("probe"))' /\ ~(At("cold"))'
  BY DEF Growing, For, Allocating, Appending, At
<1>2. StageSeat'
  BY <1>1 DEF Stages, StageSeat
<1>3. StageList'
  BY <1>1 DEF Stages, StageList
<1>4. StageLength'
  <2>1. /\ sealed'[eng'.conv] = sealed[eng.conv] /\ tail'[eng'.conv] = tail[eng.conv]
        /\ Upper(eng'.prompt) = Upper(eng.prompt)
        /\ Len(eng'.out) + eng'.need = Len(eng.out) + eng.need
    OBVIOUS
  <2> QED
    BY <1>1, <2>1, Zenon DEF Stages, StageLength
<1>5. StageFailed'
  BY <1>1 DEF Stages, StageFailed
<1> QED
  BY <1>2, <1>3, <1>4, <1>5 DEF Stages

(* What the fields of the operation are made of, for the lemmas below.     *)
LEMMA EngIs ==
  ASSUME EngTyped
  PROVE  /\ eng.out \in Seq(Block) /\ Len(eng.out) \in Nat /\ eng.need \in Nat
         /\ eng.resume \in Nat /\ eng.prompt \in Stream /\ Len(eng.prompt) \in Nat
         /\ Upper(eng.prompt) = Len(eng.prompt) + 1
<1>1. eng.out \in Seq(Block) /\ eng.need \in Nat /\ eng.resume \in Nat /\ eng.prompt \in Stream
  BY DEF EngTyped
<1> QED
  BY <1>1, StreamIs DEF Upper

(* The steps that make room.                                               *)
LEMMA StagesRoom ==
  ASSUME Typed, Stages,
         \/ EvictUnreferenced \/ DropLru \/ EvictHostToDisk \/ Roomy \/ PrepareDemote \/ Demote
         \/ DemoteIdle
  PROVE  Stages'
<1> DEFINE c == eng.conv
<1>1. /\ c \in Conv /\ EngTyped /\ ~At("choose") /\ ~At("cold")
      /\ At("charge") \/ Allocating
  BY DEF EvictUnreferenced, DropLru, EvictHostToDisk, Roomy, PrepareDemote, Demote, DemoteIdle,
     RoomWanted, Allocating, At, Typed, EngAgrees
<1>2. UNCHANGED <<running, failed, cold>>
  BY DEF EvictUnreferenced, DropLru, EvictHostToDisk, Roomy, PrepareDemote, Demote, DemoteIdle,
     rowVars, ctlVars
<1>3. /\ eng.out \in Seq(Block) /\ Len(eng.out) \in Nat /\ eng.need \in Nat
      /\ Len(tail[c]) \in Nat /\ sealed[c] \in Nat /\ tail[c] \in Seq(Block)
  BY <1>1, EngIs, MaxPagesAssumption DEF Typed, StateTyped, ConvTyped
<1>4. CASE EvictUnreferenced
  <2>1. eng' = eng /\ UNCHANGED <<known, tail, sealed, list>>
    BY <1>4 DEF EvictUnreferenced, convVars
  <2>2. StageFailed'
    BY <1>2, <2>1 DEF Stages, StageFailed, At
  <2> QED
    BY <1>1, <1>2, <2>1, <2>2, StagesStay DEF Stages
<1>5. CASE DropLru \/ EvictHostToDisk
  <2>1. \E d \in Conv : Leave({d}) /\ d # c
    <3>1. CASE DropLru
      <4>1. PICK i \in DOMAIN lru : lru[i] \in Droppable /\ Leave({lru[i]})
        BY <3>1 DEF DropLru
      <4>2. lru[i] \in Conv /\ lru[i] # c
        BY <4>1 DEF Droppable, Spare, Typed, StateTyped, OrderTyped
      <4> QED
        BY <4>1, <4>2
    <3>2. CASE EvictHostToDisk
      <4> DEFINE d == recent[First(Spillable)]
      <4>1. Spillable \subseteq Elems(recent) /\ Spillable # {} /\ recent \in Seq(Conv)
        BY <3>2 DEF EvictHostToDisk, Spillable, Typed, StateTyped, OrderTyped
      <4>2. d \in Conv /\ d \in Spillable
        BY <4>1, FirstIs
      <4>3. d # c /\ Leave({d})
        BY <3>2, <4>2 DEF EvictHostToDisk, Spillable, IdleLabel
      <4> QED
        BY <4>2, <4>3
    <3> QED
      BY <1>5, <3>1, <3>2
  <2>2. eng' = eng
    BY <1>5 DEF DropLru, EvictHostToDisk
  <2>3. StageFailed'
    BY <1>2, <2>2 DEF Stages, StageFailed, At
  <2> QED
    BY <1>1, <1>2, <2>1, <2>2, <2>3, StagesLeave DEF Stages
<1>6. CASE Roomy
  <2>1. /\ eng' = [eng EXCEPT !.at = "demote"] /\ Allocating
        /\ UNCHANGED <<known, sealed, list, tail>>
    BY <1>6 DEF Roomy, GoTo, Allocating, indexVars, convVars
  <2>2. /\ eng'.at = "demote" /\ eng'.conv = c /\ eng'.then = eng.then /\ eng'.drop = eng.drop
        /\ eng'.prompt = eng.prompt /\ eng'.resume = eng.resume /\ eng'.out = eng.out
        /\ eng'.need = eng.need
    BY <1>1, <2>1 DEF EngTyped
  <2>3. StageMoves'
    BY <1>2, <1>6, <2>2 DEF Roomy, Stages, StageMoves, At
  <2>4. Allocating'
    BY <2>2 DEF Allocating, At
  <2> QED
    BY <1>2, <1>3, <2>1, <2>2, <2>3, <2>4, StagesKeep
<1>7. CASE PrepareDemote
  <2>1. /\ eng'.at = "demote" /\ eng'.conv = c /\ eng'.then = eng.then /\ eng'.drop = eng.drop
        /\ eng'.prompt = eng.prompt /\ eng'.resume = eng.resume /\ eng'.out = eng.out
        /\ eng'.need = eng.need
    <3>1. PICK u \in eng.todo :
            \/ eng' = [eng EXCEPT !.todo = @ \ {u}, !.plan = @ \cup {<<u, FreeHandle>>}]
            \/ eng' = [eng EXCEPT !.todo = @ \ {u}]
      BY <1>7 DEF PrepareDemote
    <3>2. eng.at = "demote"
      BY <1>7 DEF PrepareDemote, At
    <3> QED
      BY <1>1, <3>1, <3>2 DEF EngTyped
  <2>2. At("demote") /\ Allocating /\ UNCHANGED <<known, sealed, list, tail>>
    BY <1>7 DEF PrepareDemote, Allocating, indexVars, convVars
  <2>3. StageMoves'
    BY <1>2, <2>1, <2>2 DEF Stages, StageMoves, At
  <2>4. Allocating'
    BY <2>1 DEF Allocating, At
  <2> QED
    BY <1>2, <1>3, <2>1, <2>2, <2>3, <2>4, StagesKeep
<1>8. CASE Demote
  <2>1. /\ eng'.at = IF eng.then = "switch" THEN "sweep" ELSE "alloc"
        /\ eng'.conv = c /\ eng'.then = eng.then
        /\ eng'.prompt = eng.prompt /\ eng'.resume = eng.resume /\ eng'.out = eng.out
        /\ eng'.need = eng.need
    BY <1>1, <1>8 DEF Demote, EngTyped
  <2>2. At("demote") /\ Allocating /\ UNCHANGED <<known, sealed, list>>
    BY <1>8 DEF Demote, Allocating
  <2>3. StageMoves'
    BY <2>1, <2>2 DEF Stages, StageMoves, At
  <2>4. tail'[c] = tail[c]
    BY <1>1, <1>8, <2>2 DEF Demote, Stages, StageMoves
  <2>5. CASE eng.then # "switch"
    <3>1. Allocating'
      BY <2>1, <2>5 DEF Allocating, At
    <3> QED
      BY <1>2, <1>3, <2>1, <2>2, <2>3, <2>4, <3>1, StagesKeep
  <2>6. CASE eng.then = "switch"
    <3>1. /\ eng'.at = "sweep" /\ c \notin running
      BY <2>1, <2>2, <2>6 DEF Stages, StageSeat, Growing, For, Allocating, At
    <3>2. /\ ~Allocating' /\ ~Growing' /\ ~Appending' /\ ~(At("headers"))' /\ ~(At("choose"))'
          /\ ~(At("tables"))' /\ ~(At("probe"))' /\ ~(At("cold"))'
      BY <3>1 DEF Growing, For, Allocating, Appending, At
    <3> QED
      BY <1>2, <2>1, <2>3, <3>1, <3>2 DEF Stages, StageSeat, StageList, StageLength, StageFailed,
         For
  <2> QED
    BY <2>5, <2>6
<1>9. CASE DemoteIdle
  <2> DEFINE d == recent[First(Demotable)]
  <2>1. d \in Demotable /\ d \in Conv /\ d \notin running /\ d # c
    <3>1. Demotable \subseteq Elems(recent) /\ Demotable # {} /\ recent \in Seq(Conv)
      BY <1>9 DEF DemoteIdle, Demotable, Typed, StateTyped, OrderTyped
    <3>2. d \in Demotable /\ d \in Conv
      BY <3>1, FirstIs
    <3> QED
      BY <3>2 DEF Demotable, IdleLabel, Held
  <2>2. /\ At("alloc") /\ Allocating /\ Explicit /\ ~(At("hostroom"))
        /\ UNCHANGED <<known, sealed, list>>
    BY <1>9 DEF DemoteIdle, Allocating, At, indexVars
  <2>3. CASE Movable(d) = {}
    <3>1. tail' = [tail EXCEPT ![d] = <<>>] /\ eng' = eng
      BY <1>9, <2>3 DEF DemoteIdle
    <3>2. tail'[c] = tail[c]
      BY <1>1, <2>1, <3>1 DEF Typed, StateTyped, ConvTyped
    <3>3. StageFailed'
      BY <1>2, <3>1 DEF Stages, StageFailed, At
    <3> QED
      BY <1>1, <1>2, <2>2, <3>1, <3>2, <3>3, StagesStay DEF Stages
  <2>4. CASE Movable(d) # {}
    <3>1. eng' = [eng EXCEPT !.at = "hostroom", !.todo = Movable(d), !.drop = {d}]
          /\ tail' = tail
      BY <1>9, <2>4 DEF DemoteIdle
    <3>2. /\ eng'.at = "hostroom" /\ eng'.conv = c /\ eng'.then = eng.then /\ eng'.drop = {d}
          /\ eng'.prompt = eng.prompt /\ eng'.resume = eng.resume /\ eng'.out = eng.out
          /\ eng'.need = eng.need
      BY <1>1, <3>1 DEF EngTyped
    <3>3. StageMoves'
      BY <1>2, <2>1, <2>2, <3>2 DEF StageMoves, At
    <3>4. Allocating'
      BY <3>2 DEF Allocating, At
    <3> QED
      BY <1>2, <1>3, <2>2, <3>1, <3>2, <3>3, <3>4, StagesKeep
  <2> QED
    BY <2>3, <2>4
<1> QED
  BY <1>4, <1>5, <1>6, <1>7, <1>8, <1>9

(* At the stages that look at the index and the disk.                      *)
LEMMA StagesLook ==
  ASSUME Typed, Stages,
         SwitchExplicit \/ EnterFast \/ EnterGeneral \/ Probe \/ PreparePromote \/ Promote
  PROVE  Stages'
<1> DEFINE c == eng.conv
<1>1. EngTyped /\ c \in Conv /\ c \notin running
  BY DEF SwitchExplicit, EnterFast, EnterGeneral, Probe, PreparePromote, Promote, Typed,
     EngAgrees, Stages, StageSeat, At, Growing, For, Allocating
<1>2. UNCHANGED <<running, known, sealed, tail, failed, cold>>
  BY DEF SwitchExplicit, EnterFast, EnterGeneral, Probe, PreparePromote, Promote, rowVars,
     convVars, ctlVars
<1>3. CASE SwitchExplicit
  <2>1. CASE Leaving = {}
    <3>1. eng' = [eng EXCEPT !.at = "enter"]
      BY <1>3, <2>1 DEF SwitchExplicit
    <3>2. eng'.at = "enter" /\ eng'.conv = c
      BY <1>1, <3>1 DEF EngTyped
    <3>3. StageFailed'
      BY <1>2, <3>2 DEF Stages, StageFailed, At
    <3> QED
      BY <1>1, <1>2, <3>2, <3>3, StagesPlain DEF Stages, Plain
  <2>2. CASE Leaving # {}
    <3>1. /\ eng' = [eng EXCEPT !.at = "hostroom", !.then = "switch", !.drop = Leaving,
                      !.todo = Exclusive]
          /\ Explicit
      BY <1>3, <2>2 DEF SwitchExplicit
    <3>2. eng'.at = "hostroom" /\ eng'.conv = c /\ eng'.then = "switch" /\ eng'.drop = Leaving
      BY <1>1, <3>1 DEF EngTyped
    <3>3. Leaving \cap (running \cup {c}) = {}
      BY DEF Leaving, Kept, Held
    <3>4. /\ Allocating' /\ ~Growing' /\ ~Appending' /\ ~(At("headers"))' /\ ~(At("choose"))'
          /\ ~(At("tables"))' /\ ~(At("probe"))' /\ ~(At("cold"))' /\ ~(At("free"))'
          /\ ~For("tail")' /\ ~For("fresh")' /\ ~For("grow")'
      BY <3>2 DEF Growing, For, Allocating, Appending, At
    <3>5. StageMoves'
      BY <1>2, <3>1, <3>2, <3>3 DEF StageMoves
    <3> QED
      BY <1>1, <1>2, <3>2, <3>4, <3>5 DEF Stages, StageSeat, StageList, StageLength, StageFailed
  <2> QED
    BY <2>1, <2>2
<1>4. CASE EnterFast
  <2>1. /\ eng' = [eng EXCEPT !.at = "alloc", !.then = "fast", !.resume = Len(text[c]),
               !.need = Beyond(Upper(eng.prompt), sealed[c] + Len(tail[c]))]
        /\ eng.conv \in spoken /\ At("enter")
    BY <1>4 DEF EnterFast
  <2>2. /\ eng'.at = "alloc" /\ eng'.conv = c /\ eng'.then = "fast"
        /\ eng'.prompt = eng.prompt /\ eng'.out = eng.out
        /\ eng'.need = Beyond(Upper(eng.prompt), sealed[c] + Len(tail[c]))
    BY <1>1, <2>1 DEF EngTyped
  <2>3. eng.out = <<>> /\ c \in known
    BY <2>1 DEF Typed, EngAgrees, StateTyped, ConvTyped, At
  <2>4. sealed[c] \in Nat /\ Len(tail[c]) \in Nat /\ Upper(eng.prompt) \in Nat
    BY <1>1, EngIs, NewIs
  <2>5. Upper(eng.prompt) <= (sealed[c] + Len(tail[c])) + (Len(eng'.out) + eng'.need)
    <3>1. \A m, n \in Nat : m <= n + (0 + Beyond(m, n))
      BY DEF Beyond
    <3>2. sealed[c] + Len(tail[c]) \in Nat /\ Len(eng'.out) = 0
      BY <2>2, <2>3, <2>4
    <3> QED
      BY <2>2, <2>4, <3>1, <3>2
  <2>6. /\ Allocating' /\ ~Growing' /\ Appending' /\ ~(At("headers"))' /\ ~(At("choose"))'
        /\ ~(At("tables"))' /\ ~(At("probe"))' /\ ~(At("cold"))' /\ ~(At("free"))'
        /\ ~For("tail")' /\ ~For("fresh")' /\ ~For("grow")'
        /\ ~(At("hostroom"))' /\ ~(At("demote"))' /\ ~(At("sweep"))'
    BY <2>2 DEF Growing, For, Allocating, Appending, At
  <2>7. StageLength'
    BY <1>2, <2>2, <2>5, <2>6 DEF StageLength
  <2> QED
    BY <1>1, <1>2, <2>2, <2>3, <2>6, <2>7 DEF Stages, StageSeat, StageMoves, StageList, StageFailed
<1>5. CASE EnterGeneral
  <2>1. eng' = [eng EXCEPT !.at = "probe", !.then = "choose"]
    BY <1>5 DEF EnterGeneral
  <2>2. eng'.at = "probe" /\ eng'.conv = c /\ eng'.then = "choose"
    BY <1>1, <2>1 DEF EngTyped
  <2>3. /\ ~Allocating' /\ ~Growing' /\ ~Appending' /\ ~(At("headers"))' /\ ~(At("choose"))'
        /\ ~(At("tables"))' /\ ~(At("cold"))' /\ ~(At("free"))'
        /\ ~(At("hostroom"))' /\ ~(At("demote"))' /\ ~(At("sweep"))'
    BY <2>2 DEF Growing, For, Allocating, Appending, At
  <2> QED
    BY <1>1, <1>2, <2>2, <2>3 DEF Stages, StageSeat, StageMoves, StageList, StageLength,
       StageFailed, For
<1>6. CASE PreparePromote \/ Promote
  <2>1. \E P : eng' = [eng EXCEPT !.plan = P]
    BY <1>6 DEF PreparePromote, Promote
  <2>2. /\ eng'.at = eng.at /\ eng'.conv = c /\ eng'.then = eng.then /\ eng'.need = eng.need
        /\ eng'.prompt = eng.prompt /\ eng'.out = eng.out
    BY <1>1, <2>1 DEF EngTyped
  <2>3. /\ ~Allocating' /\ ~Growing' /\ Appending' = Appending /\ ~(At("headers"))'
        /\ ~(At("choose"))' /\ ~(At("tables"))' /\ ~(At("cold"))' /\ ~(At("free"))'
        /\ ~(At("hostroom"))' /\ ~(At("demote"))' /\ ~(At("sweep"))' /\ (At("probe"))'
        /\ At("probe")
    BY <1>6, <2>2 DEF PreparePromote, Promote, Growing, For, Allocating, Appending, At
  <2>4. StageLength'
    BY <1>2, <2>2, <2>3 DEF Stages, StageLength
  <2> QED
    BY <1>1, <1>2, <2>2, <2>3, <2>4 DEF Stages, StageSeat, StageMoves, StageList, StageFailed, For
<1>7. CASE Probe
  <2>1. /\ At("probe") /\ eng' = [eng EXCEPT !.at = eng.then]
        /\ Adopt(c, Chain(eng.prompt, 0, Hits(eng.prompt))) /\ UNCHANGED indexed
    BY <1>7 DEF Probe, GoTo
  <2>2. /\ eng'.at = eng.then /\ eng'.conv = c /\ eng'.then = eng.then /\ eng'.need = eng.need
        /\ eng'.prompt = eng.prompt /\ eng'.out = eng.out
    BY <1>1, <2>1 DEF EngTyped
  <2>3. eng.then \in {"choose", "tables"}
    BY <2>1 DEF Typed, EngAgrees
  <2>4. /\ ~Allocating' /\ ~Growing' /\ (Appending' <=> eng.then = "tables") /\ ~(At("headers"))'
        /\ ~(At("probe"))' /\ ~(At("cold"))' /\ ~(At("free"))'
        /\ ~(At("hostroom"))' /\ ~(At("demote"))' /\ ~(At("sweep"))'
        /\ ((At("tables"))' <=> eng.then = "tables")
    BY <2>2, <2>3 DEF Growing, For, Allocating, Appending, At
  <2>5. list'[c] = Chain(eng.prompt, 0, Hits(eng.prompt))
    BY <1>1, <2>1 DEF Adopt, Typed, StateTyped, ListsTyped
  <2>7. Hits(eng.prompt)' = Hits(eng.prompt)
    BY <2>1, <2>2 DEF Hits
  <2>8. StageLength'
    BY <1>2, <2>1, <2>2, <2>4 DEF Stages, StageLength, Appending
  <2>9. StageList'
    BY <2>2, <2>4, <2>5, <2>7 DEF StageList, For
  <2>10. StageSeat'
    BY <1>1, <1>2, <2>1, <2>2, <2>4 DEF Stages, StageSeat, Appending, For
  <2> QED
    BY <1>2, <2>4, <2>8, <2>9, <2>10 DEF Stages, StageMoves, StageFailed
<1> QED
  BY <1>3, <1>4, <1>5, <1>6, <1>7

(* Sums of lengths, as the stages need them.                               *)
LEMMA Sums ==
  /\ \A m, n \in Nat : (m + 1) + (n - 1) = m + n
  /\ \A k, m, n, u \in Nat : u <= (k + m) + (n + 0) => u <= (k + (m + n)) + (0 + 0)
  /\ \A m, n, r \in Nat : n + 0 = r - m => r - n = m /\ m + n = r /\ m <= r
  /\ \A m, n, k \in Nat : m <= n => m + k <= n + k
  /\ \A m, n \in Nat : m + n \in Nat
  /\ \A k, m, n, w \in Nat : w <= n + m => w <= n + (m + k)
OBVIOUS

(* The first units of a stream's units.                                    *)
LEMMA ChainFirst ==
  ASSUME NEW s \in Stream, NEW n \in Nat, n <= Len(s), NEW k \in 0..n
  PROVE  Prefix(Chain(s, 0, n), k) = Chain(s, 0, k)
<1>1. Len(s) \in Nat /\ k \in Nat /\ k <= n /\ k <= Len(s) /\ 0 <= n /\ 0 <= k
  BY StreamIs
<1>2. /\ Chain(s, 0, n) \in Seq(Unit) /\ Len(Chain(s, 0, n)) = n - 0
      /\ \A i \in 1..(n - 0) : Chain(s, 0, n)[i] = Prefix(s, 0 + i)
  BY <1>1, ChainIs
<1>3. /\ Chain(s, 0, k) \in Seq(Unit) /\ Len(Chain(s, 0, k)) = k - 0
      /\ \A i \in 1..(k - 0) : Chain(s, 0, k)[i] = Prefix(s, 0 + i)
  BY <1>1, ChainIs
<1> DEFINE a == Chain(s, 0, n)
           b == Chain(s, 0, k)
<1> HIDE DEF a, b
<1>4. /\ a \in Seq(Unit) /\ Len(a) = n /\ b \in Seq(Unit) /\ Len(b) = k
      /\ \A i \in 1..k : a[i] = b[i]
  BY <1>1, <1>2, <1>3 DEF a, b
<1>5. /\ Prefix(a, k) \in Seq(Unit) /\ Len(Prefix(a, k)) = k
      /\ \A i \in 1..k : Prefix(a, k)[i] = a[i]
  BY <1>4, FirstPart
<1>6. Prefix(a, k) = b
  BY <1>4, <1>5
<1> QED
  BY <1>6 DEF a, b

(* And the next, joined to them.                                           *)
LEMMA ChainJoined ==
  ASSUME NEW s \in Stream, NEW m \in Nat, NEW n \in Nat, m <= n, n <= Len(s)
  PROVE  Chain(s, 0, m) \o Chain(s, m, n) = Chain(s, 0, n)
<1> DEFINE a == Chain(s, 0, m)
           b == Chain(s, m, n)
           d == Chain(s, 0, n)
<1>1. Len(s) \in Nat /\ m <= Len(s) /\ 0 <= m /\ 0 <= n /\ 0 \in Nat
  BY StreamIs
<1>2. /\ a \in Seq(Unit) /\ Len(a) = m - 0 /\ \A i \in 1..(m - 0) : a[i] = Prefix(s, 0 + i)
  BY <1>1, ChainIs
<1>3. /\ b \in Seq(Unit) /\ Len(b) = n - m /\ \A i \in 1..(n - m) : b[i] = Prefix(s, m + i)
  BY <1>1, ChainIs
<1>4. /\ d \in Seq(Unit) /\ Len(d) = n - 0 /\ \A i \in 1..(n - 0) : d[i] = Prefix(s, 0 + i)
  BY <1>1, ChainIs
<1> HIDE DEF a, b, d
<1>5. /\ a \o b \in Seq(Unit) /\ Len(a \o b) = n
      /\ \A i \in 1..m : (a \o b)[i] = a[i]
      /\ \A i \in 1..n : i > m => (a \o b)[i] = b[i - m]
  BY <1>2, <1>3
<1>6. ASSUME NEW i \in 1..n PROVE (a \o b)[i] = d[i]
  <2>1. CASE i <= m
    <3>1. i \in 1..m /\ i \in 1..(m - 0) /\ i \in 1..(n - 0)
      BY <2>1
    <3> QED
      BY <1>2, <1>4, <1>5, <3>1
  <2>2. CASE i > m
    <3>1. i - m \in 1..(n - m) /\ m + (i - m) = 0 + i /\ i \in 1..(n - 0)
      BY <2>2
    <3>2. b[i - m] = Prefix(s, m + (i - m))
      BY <1>3, <3>1
    <3> QED
      BY <1>4, <1>5, <2>2, <3>1, <3>2
  <2>3. i <= m \/ i > m
    OBVIOUS
  <2> QED
    BY ONLY <2>1, <2>2, <2>3
<1>7. a \o b = d
  BY <1>4, <1>5, <1>6
<1> QED
  BY <1>7 DEF a, b, d

(* The stage a conversation stands at once its list is cut.                *)
LEMMA StagesStand ==
  ASSUME Typed, Stages, StandOnResident \/ StandOnDisk
  PROVE  Stages'
<1> DEFINE c == eng.conv
           p == eng.prompt
           H == Hits(p)
<1>1. /\ EngTyped /\ c \in Conv /\ c \notin running /\ At("choose") /\ eng.out = <<>>
      /\ list[c] = Chain(p, 0, H)
  BY DEF StandOnResident, StandOnDisk, Typed, EngAgrees, Stages, StageSeat, StageList, At,
     Growing, For, Allocating
<1>2. /\ p \in Stream /\ Len(p) \in Nat /\ H \in 0..Len(p) /\ Len(list[c]) = H
      /\ Upper(p) = Len(p) + 1
  BY <1>1, EngIs, MatchedIs
<1>3. UNCHANGED <<running, failed, cold>>
  BY DEF StandOnResident, StandOnDisk, rowVars, ctlVars
<1>4. tail'[c] = <<>>
  BY <1>1 DEF StandOnResident, StandOnDisk, ReplaceTail, Typed, StateTyped, ConvTyped
<1> HIDE DEF H
<1>5. CASE StandOnResident
  <2>1. PICK k \in 0..H :
          /\ Adopt(c, Below(k))
          /\ eng' = [eng EXCEPT !.at = "alloc", !.then = "tail", !.resume = k,
                                !.need = Upper(eng.prompt) - k]
    BY <1>2, <1>5 DEF StandOnResident
  <2>2. /\ eng'.at = "alloc" /\ eng'.conv = c /\ eng'.then = "tail" /\ eng'.need = Upper(p) - k
        /\ eng'.prompt = p /\ eng'.out = <<>> /\ eng'.resume = k
    BY <1>1, <2>1 DEF EngTyped
  <2>3. list'[c] = Chain(p, 0, k)
    <3>1. Below(k) = Chain(p, 0, k)
      BY <1>1, <1>2, ChainFirst DEF Below
    <3> QED
      BY <1>1, <2>1, <3>1 DEF Adopt, Typed, StateTyped, ListsTyped
  <2>4. Len(eng'.out) + eng'.need = Upper(p) - k
    BY <1>2, <2>2
  <2>5. /\ Allocating' /\ ~Growing' /\ ~Appending' /\ ~(At("headers"))' /\ ~(At("choose"))'
        /\ ~(At("tables"))' /\ ~(At("probe"))' /\ ~(At("cold"))' /\ ~(At("free"))'
        /\ ~For("fresh")' /\ ~For("grow")'
        /\ ~(At("hostroom"))' /\ ~(At("demote"))' /\ ~(At("sweep"))'
    BY <2>2 DEF Growing, For, Allocating, Appending, At
  <2>6. StageList'
    BY <1>4, <2>2, <2>3, <2>4, <2>5 DEF StageList
  <2> QED
    BY <1>1, <1>3, <2>2, <2>5, <2>6 DEF Stages, StageSeat, StageMoves, StageLength, StageFailed
<1>6. CASE StandOnDisk
  <2>1. PICK d \in 1..Len(p) :
          /\ Adopt(c, Below(Lesser(d, H)))
          /\ eng' = [eng EXCEPT !.at = "alloc", !.then = "fresh", !.resume = d,
                                !.need = d - Lesser(d, H)]
    BY <1>2, <1>6 DEF StandOnDisk
  <2> DEFINE k == Lesser(d, H)
  <2>2. k \in 0..H /\ k \in Nat /\ k <= Len(p) /\ k <= d
    BY <1>2 DEF Lesser
  <2> HIDE DEF k
  <2>3. /\ eng'.at = "alloc" /\ eng'.conv = c /\ eng'.then = "fresh" /\ eng'.need = d - k
        /\ eng'.prompt = p /\ eng'.out = <<>> /\ eng'.resume = d
    BY <1>1, <2>1 DEF EngTyped, k
  <2>4. list'[c] = Chain(p, 0, k)
    <3>1. Below(k) = Chain(p, 0, k)
      BY <1>1, <1>2, <2>2, ChainFirst DEF Below
    <3> QED
      BY <1>1, <2>1, <3>1 DEF Adopt, Typed, StateTyped, ListsTyped, k
  <2>5. Len(list'[c]) = k
    <3>1. Len(Chain(p, 0, k)) = k - 0
      BY <1>2, <2>2, ChainIs
    <3> QED
      BY <2>2, <2>4, <3>1
  <2>6. Len(eng'.out) + eng'.need = d - k
    BY <2>2, <2>3
  <2>7. /\ Allocating' /\ ~Growing' /\ ~Appending' /\ ~(At("headers"))' /\ ~(At("choose"))'
        /\ ~(At("tables"))' /\ ~(At("probe"))' /\ ~(At("cold"))' /\ ~(At("free"))'
        /\ ~For("tail")' /\ ~For("grow")'
        /\ ~(At("hostroom"))' /\ ~(At("demote"))' /\ ~(At("sweep"))'
    BY <2>3 DEF Growing, For, Allocating, Appending, At
  <2>8. StageList'
    BY <1>4, <2>3, <2>4, <2>5, <2>6, <2>7 DEF StageList
  <2> QED
    BY <1>1, <1>3, <2>3, <2>7, <2>8 DEF Stages, StageSeat, StageMoves, StageLength, StageFailed
<1> QED
  BY <1>5, <1>6

(* The stages from which the blocks are taken and installed.               *)
LEMMA StagesAllocate ==
  ASSUME Typed, Stages, AllocOne \/ FastAllocated \/ FreshRead \/ FastTables \/ Install
  PROVE  Stages'
<1> DEFINE c == eng.conv
           p == eng.prompt
<1>1. /\ EngTyped /\ c \in Conv /\ eng.conv \in Conv
  BY DEF AllocOne, FastAllocated, FreshRead, FastTables, Install, Allocated, Typed, EngAgrees, At
<1>2. UNCHANGED <<running, failed, cold>>
  BY DEF AllocOne, FastAllocated, FreshRead, FastTables, Install, rowVars, ctlVars
<1>3. /\ p \in Stream /\ Len(p) \in Nat /\ Upper(p) = Len(p) + 1 /\ eng.out \in Seq(Block)
      /\ Len(eng.out) \in Nat /\ eng.need \in Nat /\ eng.resume \in Nat
      /\ Len(tail[c]) \in Nat /\ sealed[c] \in Nat /\ tail[c] \in Seq(Block)
  BY <1>1, EngIs, NewIs
<1>4. CASE AllocOne
  <2>1. eng' = [eng EXCEPT !.need = @ - 1, !.out = Append(@, LowestFree)] /\ At("alloc")
        /\ eng.need > 0 /\ UNCHANGED <<known, sealed, list, tail>>
    BY <1>4 DEF AllocOne, indexVars, convVars
  <2>2. /\ eng'.at = "alloc" /\ eng'.conv = c /\ eng'.then = eng.then /\ eng'.prompt = p
        /\ eng'.resume = eng.resume /\ eng'.need = eng.need - 1
        /\ eng'.out = Append(eng.out, LowestFree)
    BY <1>1, <2>1 DEF EngTyped, At
  <2>3. Len(eng'.out) = Len(eng.out) + 1 /\ eng'.need \in Nat /\ Len(eng'.out) \in Nat
    BY <1>3, <2>1, <2>2
  <2>4. Len(eng'.out) + eng'.need = Len(eng.out) + eng.need
    <3>1. Len(eng'.out) = Len(eng.out) + 1 /\ eng'.need = eng.need - 1
      BY <2>2, <2>3
    <3>2. (Len(eng.out) + 1) + (eng.need - 1) = Len(eng.out) + eng.need
      BY <1>3, Sums
    <3> QED
      BY ONLY <3>1, <3>2
  <2>5. Allocating /\ Allocating' /\ StageMoves'
    BY <2>1, <2>2 DEF Allocating, At, StageMoves
  <2> QED
    BY <1>2, <1>3, <2>1, <2>2, <2>3, <2>4, <2>5, StagesKeep
<1>5. CASE FastAllocated
  <2>1. /\ eng' = [eng EXCEPT !.at = "probe", !.then = "tables", !.out = <<>>]
        /\ tail' = [tail EXCEPT ![c] = @ \o eng.out] /\ UNCHANGED <<known, sealed, list>>
        /\ At("alloc") /\ eng.need = 0 /\ eng.then = "fast"
    BY <1>5 DEF FastAllocated, Allocated, indexVars
  <2>2. /\ eng'.at = "probe" /\ eng'.conv = c /\ eng'.then = "tables" /\ eng'.prompt = p
        /\ eng'.need = 0 /\ eng'.out = <<>>
    BY <1>1, <2>1 DEF EngTyped
  <2>3. c \notin running /\ c \in known
        /\ Upper(p) <= (sealed[c] + Len(tail[c])) + (Len(eng.out) + 0)
    BY <2>1 DEF Stages, StageSeat, StageLength, Appending, Growing, For, Allocating, At
  <2>4. Len(tail'[c]) = Len(tail[c]) + Len(eng.out)
    <3>1. tail'[c] = tail[c] \o eng.out
      BY <1>1, <2>1 DEF Typed, StateTyped, ConvTyped
    <3>2. \A s, t \in Seq(Block) : Len(s \o t) = Len(s) + Len(t)
      OBVIOUS
    <3>3. Len(tail[c] \o eng.out) = Len(tail[c]) + Len(eng.out)
      BY ONLY <1>3, <3>2
    <3> QED
      BY ONLY <3>1, <3>3
  <2>5. Upper(p) <= (sealed'[c] + Len(tail'[c])) + (Len(eng'.out) + eng'.need)
    <3>1. sealed'[c] = sealed[c] /\ Len(eng'.out) = 0 /\ eng'.need = 0
      BY <2>1, <2>2
    <3>2. Upper(p) \in Nat
      BY <1>3
    <3>3. Upper(p) <= (sealed[c] + (Len(tail[c]) + Len(eng.out))) + (0 + 0)
      BY ONLY <1>3, <2>3, <3>2, Sums
    <3> QED
      BY ONLY <2>4, <3>1, <3>3
  <2>6. /\ ~Allocating' /\ ~Growing' /\ Appending' /\ ~(At("headers"))' /\ ~(At("choose"))'
        /\ ~(At("tables"))' /\ ~(At("cold"))' /\ ~(At("free"))'
        /\ ~(At("hostroom"))' /\ ~(At("demote"))' /\ ~(At("sweep"))'
    BY <2>2 DEF Growing, For, Allocating, Appending, At
  <2>7. StageLength'
    BY <2>1, <2>2, <2>5, <2>6 DEF StageLength
  <2> QED
    BY <1>2, <2>1, <2>2, <2>3, <2>6, <2>7 DEF Stages, StageSeat, StageMoves, StageList,
       StageFailed, For
<1>6. CASE FreshRead
  <2> DEFINE n == Len(list[c])
             first == eng.resume - Len(eng.out)
  <2>1. /\ eng' = [eng EXCEPT !.then = "tail", !.need = Upper(p) - eng.resume, !.out = <<>>]
        /\ At("alloc") /\ eng.need = 0 /\ eng.then = "fresh" /\ UNCHANGED <<known, sealed, tail>>
        /\ Seal(c, p, first, eng.out)
    BY <1>6 DEF FreshRead, Allocated, convVars
  <2>2. /\ eng'.at = "alloc" /\ eng'.conv = c /\ eng'.then = "tail" /\ eng'.prompt = p
        /\ eng'.need = Upper(p) - eng.resume /\ eng'.out = <<>> /\ eng'.resume = eng.resume
    BY <1>1, <2>1 DEF EngTyped, At
  <2>3. /\ c \notin running /\ tail[c] = <<>> /\ list[c] = Chain(p, 0, n)
        /\ Len(eng.out) + 0 = eng.resume - n
    BY <2>1 DEF Stages, StageSeat, StageList, Growing, For, Allocating, At
  <2>4. n \in Nat /\ eng.resume <= Len(p)
    BY <1>1 DEF Typed, StateTyped, ListsTyped, EngAgrees
  <2>5. first = n /\ n + Len(eng.out) = eng.resume /\ n <= eng.resume
    BY ONLY <1>3, <2>3, <2>4, Sums DEF first
  <2>6. list'[c] = Chain(p, 0, n) \o Chain(p, n, eng.resume)
    <3>1. list' = [list EXCEPT ![c] = @ \o Chain(p, n, n + Len(eng.out))]
      BY <2>1, <2>5 DEF Seal
    <3> QED
      BY <1>1, <2>3, <2>5, <3>1 DEF Typed, StateTyped, ListsTyped
  <2>7. list'[c] = Chain(p, 0, eng.resume)
    BY <1>3, <2>4, <2>5, <2>6, ChainJoined
  <2>8. Len(eng'.out) + eng'.need = Upper(p) - eng.resume
    BY <1>3, <2>2
  <2>9. /\ Allocating' /\ ~Growing' /\ ~Appending' /\ ~(At("headers"))' /\ ~(At("choose"))'
        /\ ~(At("tables"))' /\ ~(At("probe"))' /\ ~(At("cold"))' /\ ~(At("free"))'
        /\ ~For("fresh")' /\ ~For("grow")'
        /\ ~(At("hostroom"))' /\ ~(At("demote"))' /\ ~(At("sweep"))'
    BY <2>2 DEF Growing, For, Allocating, Appending, At
  <2>10. StageList'
    BY <2>1, <2>2, <2>3, <2>7, <2>8, <2>9 DEF StageList
  <2> QED
    BY <1>2, <2>2, <2>3, <2>9, <2>10 DEF Stages, StageSeat, StageMoves, StageLength, StageFailed
<1>7. CASE FastTables \/ Install
  <2>1. eng'.at = "headers" /\ eng'.conv = c /\ eng'.prompt = p
    <3>1. CASE FastTables
      BY <1>1, <3>1 DEF FastTables, GoTo, EngTyped
    <3>2. CASE Install
      BY <1>1, <3>2 DEF Install, EngTyped
    <3> QED
      BY <1>7, <3>1, <3>2
  <2>2. c \notin running
    BY <1>7 DEF FastTables, Install, Allocated, Stages, StageSeat, Growing, For, Allocating, At
  <2>3. c \in known' /\ Upper(p) <= sealed'[c] + Len(tail'[c])
    <3>1. CASE FastTables
      <4>1. At("tables") /\ UNCHANGED <<known, sealed, tail>>
        BY <3>1 DEF FastTables, convVars
      <4>2. eng.out = <<>>
        BY <4>1 DEF Typed, EngAgrees, At
      <4>3. /\ c \in known /\ eng.need = 0
            /\ Upper(p) <= (sealed[c] + Len(tail[c])) + (Len(eng.out) + eng.need)
        BY <4>1 DEF Stages, StageSeat, StageLength, Appending
      <4> QED
        BY <1>3, <4>1, <4>2, <4>3
    <3>2. CASE Install
      <4>1. /\ For("tail") /\ eng.need = 0 /\ c \in known'
            /\ tail' = [tail EXCEPT ![c] = eng.out]
            /\ sealed' = [sealed EXCEPT ![c] = eng.resume]
        BY <3>2 DEF Install, Allocated, For, Allocating
      <4>2. Len(eng.out) + 0 = Upper(p) - eng.resume
        BY <4>1 DEF Stages, StageList
      <4>3. tail'[c] = eng.out /\ sealed'[c] = eng.resume
        BY <1>1, <4>1 DEF Typed, StateTyped, ConvTyped
      <4> QED
        BY <1>3, <4>1, <4>2, <4>3
    <3> QED
      BY <1>7, <3>1, <3>2
  <2>4. /\ ~Allocating' /\ ~Growing' /\ ~Appending' /\ (At("headers"))' /\ ~(At("choose"))'
        /\ ~(At("tables"))' /\ ~(At("probe"))' /\ ~(At("cold"))' /\ ~(At("free"))'
        /\ ~(At("hostroom"))' /\ ~(At("demote"))' /\ ~(At("sweep"))'
    BY <2>1 DEF Growing, For, Allocating, Appending, At
  <2> QED
    BY <1>2, <2>1, <2>2, <2>3, <2>4 DEF Stages, StageSeat, StageMoves, StageList, StageLength,
       StageFailed, For
<1> QED
  BY <1>4, <1>5, <1>6, <1>7

(* Every step keeps the stages.                                            *)
LEMMA StagesStep ==
  ASSUME Typed, Stages, [Next]_vars
  PROVE  Stages'
<1>1. CASE MakingRoom
  BY <1>1, StagesRoom, StagesBegin DEF MakingRoom
<1>2. CASE Admitting
  BY <1>2, StagesBegin
<1>3. CASE Beginning
  <2>1. CASE SwitchShared \/ Sweep \/ PromoteFails \/ Exhausted \/ RestoreFails \/ CommitFails
    BY <2>1, StagesBegin
  <2>2. CASE SwitchExplicit \/ EnterFast \/ EnterGeneral \/ Probe \/ PreparePromote \/ Promote
    BY <2>2, StagesLook
  <2>3. CASE AllocOne \/ FastAllocated \/ FreshRead \/ FastTables \/ Install
    BY <2>3, StagesAllocate
  <2>4. CASE StandOnResident \/ StandOnDisk
    BY <2>4, StagesStand
  <2>5. CASE Serve \/ ServeCold \/ NotServed
    BY <2>5, StagesOver
  <2> QED
    BY <1>3, <2>1, <2>2, <2>3, <2>4, <2>5 DEF Beginning
<1>4. CASE Grown \/ GrowthFailed
  BY <1>4, StagesOver
<1>5. CASE \E c \in Conv, p \in Stream : Begin(c, p)
  BY <1>5, StagesBegin
<1>6. CASE \E c \in Conv : Prefill(c) \/ Grow(c)
  BY <1>6, StagesOver, StagesBegin
<1>7. CASE \E c \in Conv : End(c) \/ EndUnderflows(c) \/ EndUnknown(c) \/ Abandon(c)
  BY <1>7, StagesOver
<1>8. CASE \E c \in Conv, x \in Page : Decode(c, x)
  BY <1>8, StagesOver
<1>9. CASE (\E c \in Conv : Erase(c)) \/ Trim
  BY <1>9, StagesOver
<1>10. CASE UNCHANGED vars
  <2>1. eng' = eng /\ indexed' = indexed
        /\ UNCHANGED <<running, known, tail, list, sealed, failed, cold>>
    BY <1>10 DEF vars, indexVars, convVars, rowVars, ctlVars
  <2>2. Hits(eng.prompt)' = Hits(eng.prompt)
    BY <2>1 DEF Hits
  <2>3. /\ Allocating' = Allocating /\ Growing' = Growing /\ Appending' = Appending
        /\ \A p : For(p)' = For(p)
        /\ \A s : (At(s))' = At(s)
    BY <2>1 DEF Allocating, Growing, For, Appending, At
  <2>4. StageList'
    BY <2>1, <2>2, <2>3 DEF Stages, StageList, At, For, Allocating
  <2> QED
    BY <2>1, <2>3, <2>4 DEF Stages, StageSeat, StageMoves, StageLength, StageFailed, At, For,
       Growing, Appending, Allocating
<1> QED
  BY <1>1, <1>2, <1>3, <1>4, <1>5, <1>6, <1>7, <1>8, <1>9, <1>10 DEF Next, Engine

(* The pool begins with no request.                                        *)
LEMMA StagesInit == Init => Stages
<1> SUFFICES ASSUME Init PROVE Stages
  OBVIOUS
<1>1. eng.at = "free" /\ cold = 0
  BY DEF Init, Free
<1> QED
  BY <1>1 DEF Stages, StageSeat, StageMoves, StageList, StageLength, StageFailed, At, For,
     Growing, Appending, Allocating

(* Every operation has established what its stage says.                    *)
LEMMA StagesAlways == Spec => [](Pool /\ Stages)
<1>1. Init => Stages
  BY StagesInit
<1>2. Pool /\ Stages /\ [Next]_vars => Stages'
  BY StagesStep DEF Pool
<1> QED
  BY <1>1, <1>2, OwnersApart, PTL DEF Spec

-----------------------------------------------------------------------------
(* Conversations leave.                                                    *)

Departs(cs) ==
  \/ Leave(cs)
  \/ cs = {} /\ UNCHANGED <<indexVars, lru, used, hosts, convVars, recent, occupant>>

Departing ==
  \/ DropLru \/ SwitchShared \/ EvictHostToDisk \/ GrowthFailed \/ Trim
  \/ \E c \in Conv : Abandon(c) \/ Erase(c)

(* None that leaves is running afterwards, nor is the request's own.       *)
DepartsAside(cs) ==
  /\ running' = running \ cs
  /\ \A c \in Conv \ cs : /\ work'[c] = work[c] /\ pos'[c] = pos[c]
                          /\ room'[c] = room[c] /\ seat'[c] = seat[c]
  /\ \/ eng' = Free
     \/ eng.conv \notin cs /\ eng' = eng /\ (At("charge") \/ Allocating \/ At("free"))
     \/ eng.conv \notin cs /\ At("switch") /\ eng' = [eng EXCEPT !.at = "enter"]
  /\ UNCHANGED <<deviceVars, table, failed, cold>>

(* Every step that forgets conversations is such a departure.              *)
LEMMA Departures ==
  ASSUME Typed, Departing
  PROVE  \E cs \in SUBSET Conv : Departs(cs) /\ DepartsAside(cs)
<1>1. /\ known \subseteq Conv /\ running \subseteq Conv
      /\ Elems(lru) \subseteq Conv /\ lru \in Seq(Conv) /\ recent \in Seq(Conv)
  BY ElemsIs DEF Typed, StateTyped, ConvTyped, OrderTyped, RowTyped
<1>2. ASSUME NEW cs \in SUBSET Conv, cs \cap running = {}, UNCHANGED rowVars
      PROVE  /\ running' = running \ cs /\ table' = table
             /\ \A c \in Conv \ cs : /\ work'[c] = work[c] /\ pos'[c] = pos[c]
                                     /\ room'[c] = room[c] /\ seat'[c] = seat[c]
  BY <1>2 DEF rowVars
<1>3. ASSUME NEW d \in Conv, Stop(d), table' = table, RowTyped
      PROVE  /\ running' = running \ {d} /\ table' = table
             /\ \A c \in Conv \ {d} : /\ work'[c] = work[c] /\ pos'[c] = pos[c]
                                      /\ room'[c] = room[c] /\ seat'[c] = seat[c]
  BY <1>3 DEF Stop, RowTyped
<1>4. CASE DropLru
  <2>1. PICK i \in DOMAIN lru : lru[i] \in Droppable /\ Leave({lru[i]})
    BY <1>4 DEF DropLru
  <2>2. {lru[i]} \in SUBSET Conv /\ eng.conv \notin {lru[i]} /\ {lru[i]} \cap running = {}
    BY <1>1, <2>1 DEF Droppable, Spare, Held
  <2>3. /\ eng' = eng /\ (At("charge") \/ Allocating)
        /\ UNCHANGED <<rowVars, deviceVars, failed, cold>>
    BY <1>4 DEF DropLru, RoomWanted, Allocating, ctlVars
  <2> QED
    BY <1>2, <2>1, <2>2, <2>3 DEF Departs, DepartsAside
<1>5. CASE SwitchShared
  <2>1. /\ Departs(Leaving) /\ UNCHANGED <<rowVars, deviceVars, failed, cold>>
        /\ At("switch") /\ eng' = [eng EXCEPT !.at = "enter"]
    BY <1>5 DEF SwitchShared, GoTo, Departs, ctlVars
  <2>2. Leaving \in SUBSET Conv /\ Leaving \cap running = {} /\ eng.conv \notin Leaving
    BY <1>1 DEF Leaving, Kept, Held
  <2>3. /\ running' = running \ Leaving /\ table' = table
        /\ \A c \in Conv \ Leaving : /\ work'[c] = work[c] /\ pos'[c] = pos[c]
                                     /\ room'[c] = room[c] /\ seat'[c] = seat[c]
    BY <1>2, <2>1, <2>2
  <2>4. DepartsAside(Leaving)
    BY <2>1, <2>2, <2>3 DEF DepartsAside
  <2> QED
    BY <2>1, <2>2, <2>4
<1>6. CASE EvictHostToDisk
  <2> DEFINE c == recent[First(Spillable)]
  <2>1. Spillable \subseteq Elems(recent) /\ Spillable # {}
    BY <1>6 DEF EvictHostToDisk, Spillable
  <2>2. c \in Conv /\ c \in Spillable
    BY <1>1, <2>1, FirstIs
  <2>3. /\ Leave({c}) /\ eng' = eng /\ Allocating
        /\ UNCHANGED <<rowVars, deviceVars, failed, cold>>
    BY <1>6 DEF EvictHostToDisk, Allocating, ctlVars
  <2>4. {c} \in SUBSET Conv /\ {c} \cap running = {} /\ eng.conv \notin {c}
    BY <2>2 DEF Spillable, IdleLabel, Held
  <2> HIDE DEF c
  <2> QED
    BY <1>2, <2>3, <2>4 DEF Departs, DepartsAside
<1>7. CASE GrowthFailed
  <2>1. eng.conv \in Conv /\ Leave({eng.conv}) /\ eng' = Free /\ Stop(eng.conv)
        /\ UNCHANGED <<table, deviceVars, failed, cold>>
    BY <1>7 DEF GrowthFailed, At, Typed, EngAgrees, ctlVars
  <2>2. {eng.conv} \in SUBSET Conv /\ RowTyped
    BY <2>1 DEF Typed, StateTyped
  <2> QED
    BY <1>3, <2>1, <2>2 DEF Departs, DepartsAside
<1>8. CASE Trim
  <2>1. eng' = eng /\ At("free") /\ eng.conv \notin Conv
        /\ UNCHANGED <<rowVars, deviceVars, failed, cold>>
    BY <1>8, NoConvAssumption DEF Trim, At, Free, ctlVars
  <2>2. CASE Explicit
    <3>1. Departs({})
      BY <1>8, <2>2 DEF Trim, Departs
    <3> QED
      BY <1>2, <2>1, <3>1 DEF DepartsAside
  <2>3. CASE ~Explicit
    <3>1. Leave(known \ Held) /\ known \ Held \in SUBSET Conv /\ (known \ Held) \cap running = {}
      BY <1>1, <1>8, <2>3 DEF Trim, Held
    <3> QED
      BY <1>2, <2>1, <3>1 DEF Departs, DepartsAside
  <2> QED
    BY <2>2, <2>3
<1>9. ASSUME NEW c \in Conv, Abandon(c) \/ Erase(c)
      PROVE  Departs({c}) /\ DepartsAside({c})
  <2>1. /\ Leave({c}) /\ eng' = eng /\ At("free") /\ eng.conv \notin Conv
        /\ UNCHANGED <<table, deviceVars, failed, cold>>
    BY <1>9, NoConvAssumption DEF Abandon, Erase, At, Free, ctlVars, rowVars
  <2>2. CASE Abandon(c)
    BY <1>3, <2>1, <2>2 DEF Abandon, Departs, DepartsAside, Typed, StateTyped
  <2>3. CASE Erase(c)
    BY <1>2, <2>1, <2>3 DEF Erase, Departs, DepartsAside
  <2> QED
    BY <1>9, <2>2, <2>3
<1>10. CASE \E c \in Conv : Abandon(c) \/ Erase(c)
  BY <1>9, <1>10
<1> QED
  BY <1>4, <1>5, <1>6, <1>7, <1>8, <1>10 DEF Departing

(* What those that leave leave to the others.                              *)
LEMMA DepartsTo ==
  ASSUME Typed, NEW cs \in SUBSET Conv, Departs(cs)
  PROVE  /\ \A c \in Conv \ cs : /\ list'[c] = list[c] /\ tail'[c] = tail[c]
                                 /\ sealed'[c] = sealed[c] /\ text'[c] = text[c]
         /\ \A c \in cs : list'[c] = <<>> /\ tail'[c] = <<>>
         /\ known' = known \ cs /\ spoken' = spoken \ cs
         /\ indexed' \subseteq indexed
<1>1. CASE Leave(cs)
  BY <1>1 DEF Leave, Forget, Drop, Evict
<1>2. CASE cs = {} /\ UNCHANGED <<indexVars, lru, used, hosts, convVars, recent, occupant>>
  BY <1>2 DEF indexVars, convVars
<1> QED
  BY <1>1, <1>2 DEF Departs

-----------------------------------------------------------------------------
(* Lengths.  Without replay a conversation never names more units than it  *)
(* has sealed, and its blocks hold what its request has written.           *)

HitsIn(S, s) ==
  CHOOSE n \in 0..Len(s) :
    /\ \A i \in 1..n : Prefix(s, i) \in S
    /\ n < Len(s) => Prefix(s, n + 1) \notin S

(* A smaller index is matched no further.                                  *)
LEMMA HitsInIs ==
  ASSUME NEW S, NEW s \in Stream
  PROVE  /\ HitsIn(S, s) \in 0..Len(s)
         /\ \A i \in 1..HitsIn(S, s) : Prefix(s, i) \in S
         /\ HitsIn(S, s) < Len(s) => Prefix(s, HitsIn(S, s) + 1) \notin S
<1>1. Len(s) \in Nat
  BY StreamIs
<1> DEFINE M == {n \in 0..Len(s) : n = Len(s) \/ Prefix(s, n + 1) \notin S}
<1>2. M \subseteq Nat /\ Len(s) \in M
  BY <1>1
<1>3. PICK n \in M : \A m \in M : n <= m
  <2> HIDE DEF M
  <2> QED
    BY <1>2, Least
<1>4. ASSUME NEW i \in 1..n PROVE Prefix(s, i) \in S
  <2>1. i - 1 \in 0..Len(s) /\ ~(n <= i - 1) /\ i - 1 # Len(s) /\ (i - 1) + 1 = i
    BY <1>1, <1>3
  <2>2. i - 1 \notin M
    BY <2>1, <1>3
  <2> QED
    BY <2>1, <2>2
<1>5. \E k \in 0..Len(s) :
        /\ \A i \in 1..k : Prefix(s, i) \in S
        /\ k < Len(s) => Prefix(s, k + 1) \notin S
  BY <1>1, <1>3, <1>4
<1> QED
  BY <1>5, Zenon DEF HitsIn

(* What is matched in a smaller index is a shorter prefix.                 *)
LEMMA HitsLess ==
  ASSUME NEW S, NEW T, T \subseteq S, NEW s \in Stream
  PROVE  HitsIn(T, s) <= HitsIn(S, s)
<1> DEFINE m == HitsIn(T, s)
           n == HitsIn(S, s)
<1>1. /\ m \in 0..Len(s) /\ n \in 0..Len(s) /\ Len(s) \in Nat
      /\ \A i \in 1..m : Prefix(s, i) \in S
      /\ n < Len(s) => Prefix(s, n + 1) \notin S
  BY HitsInIs, StreamIs
<1> HIDE DEF m, n
<1>2. ASSUME m > n PROVE FALSE
  <2>1. n + 1 \in 1..m /\ n < Len(s)
    BY <1>1, <1>2
  <2> QED
    BY <1>1, <2>1
<1>3. m <= n
  BY <1>1, <1>2
<1> QED
  BY <1>3 DEF m, n

Short(c) == Len(list[c]) <= sealed[c] /\ \A u \in Elems(list[c]) : Len(u) <= sealed[c]
FastWay == For("fast") \/ (At("probe") /\ eng.then = "tables")

EngLengths ==
  /\ FastWay => Hits(eng.prompt) <= sealed[eng.conv]
  /\ At("tables") \/ At("headers") => Short(eng.conv)

(* Units of a stream's first pages are no longer than that.                *)
LEMMA ChainShort ==
  ASSUME NEW s \in Stream, NEW n \in 0..Len(s)
  PROVE  /\ Len(Chain(s, 0, n)) = n
         /\ \A u \in Elems(Chain(s, 0, n)) : Len(u) \in 1..n
<1>1. Len(s) \in Nat /\ n \in Nat /\ n <= Len(s) /\ 0 <= n
  BY StreamIs
<1>2. /\ Chain(s, 0, n) \in Seq(Unit) /\ Len(Chain(s, 0, n)) = n - 0
      /\ \A i \in 1..(n - 0) : Chain(s, 0, n)[i] = Prefix(s, 0 + i)
  BY <1>1, ChainIs
<1>3. ASSUME NEW u \in Elems(Chain(s, 0, n)) PROVE Len(u) \in 1..n
  <2>1. PICK i \in 1..Len(Chain(s, 0, n)) : Chain(s, 0, n)[i] = u
    BY <1>2, ElemsIs
  <2>2. i \in 1..(n - 0) /\ 0 + i = i /\ i \in 0..Len(s) /\ i \in 1..n
    BY <1>1, <1>2, <2>1
  <2>3. u = Prefix(s, i)
    BY <1>2, <2>1, <2>2
  <2> QED
    BY <2>2, <2>3, PrefixIs
<1> QED
  BY <1>1, <1>2, <1>3

(* A step keeps the lengths when it moves neither the stream nor the list. *)
LEMMA LengthsStay ==
  ASSUME EngTyped, EngLengths, ~(At("tables"))', ~(At("headers"))',
         FastWay' => /\ FastWay /\ eng'.conv = eng.conv /\ eng'.prompt = eng.prompt
                     /\ sealed'[eng.conv] = sealed[eng.conv] /\ indexed' \subseteq indexed,
         sealed[eng.conv] \in Nat \/ ~FastWay
  PROVE  EngLengths'
<1>1. SUFFICES ASSUME FastWay' PROVE Hits(eng.prompt)' <= sealed'[eng'.conv]
  BY DEF EngLengths
<1>2. PICK p \in Stream : p = eng.prompt
  BY DEF EngTyped
<1>3. Hits(eng.prompt) = HitsIn(indexed, p) /\ Hits(eng.prompt)' = HitsIn(indexed', p)
  BY <1>1, <1>2 DEF Hits, HitsIn
<1>4. HitsIn(indexed', p) <= HitsIn(indexed, p)
  BY <1>1, HitsLess
<1>5. HitsIn(indexed, p) <= sealed[eng.conv] /\ sealed[eng.conv] \in Nat
      /\ sealed'[eng'.conv] = sealed[eng.conv]
  BY <1>1, <1>3 DEF EngLengths
<1>6. HitsIn(indexed', p) \in Nat /\ HitsIn(indexed, p) \in Nat
  BY HitsInIs, StreamIs
<1> QED
  BY <1>3, <1>4, <1>5, <1>6

(* The stages that make room for blocks.                                   *)
Allotting ==
  \/ Roomy \/ PrepareDemote \/ Demote \/ AllocOne
  \/ (DemoteIdle /\ Movable(recent[First(Demotable)]) = {})
  \/ (DemoteIdle /\ Movable(recent[First(Demotable)]) # {})

(* They keep what the request is for, and every conversation.              *)
LEMMA Allots ==
  ASSUME Typed, Allotting
  PROVE  /\ Allocating /\ UNCHANGED <<indexed, sealed, spoken, text, list, known, failed>>
         /\ eng'.at \in {"demote", "alloc", "sweep", "hostroom"}
         /\ eng'.at = "sweep" => eng.then = "switch"
         /\ eng'.then = eng.then /\ eng'.conv = eng.conv /\ eng'.prompt = eng.prompt
         /\ eng'.resume = eng.resume
<1>1. EngTyped
  BY DEF Typed
<1>2. CASE Roomy
  <2>1. eng' = [eng EXCEPT !.at = "demote"] /\ At("hostroom")
    BY <1>2 DEF Roomy, GoTo
  <2> QED
    BY <1>1, <1>2, <2>1 DEF Roomy, EngTyped, Allocating, indexVars, convVars, ctlVars
<1>3. CASE PrepareDemote
  <2>1. PICK u \in eng.todo :
          \/ eng' = [eng EXCEPT !.todo = @ \ {u}, !.plan = @ \cup {<<u, FreeHandle>>}]
          \/ eng' = [eng EXCEPT !.todo = @ \ {u}]
    BY <1>3 DEF PrepareDemote
  <2> QED
    BY <1>1, <1>3, <2>1 DEF PrepareDemote, EngTyped, Allocating, At, indexVars, convVars, ctlVars
<1>4. CASE Demote
  <2>1. /\ eng' = [eng EXCEPT !.at = IF eng.then = "switch" THEN "sweep" ELSE "alloc",
                             !.plan = {}, !.drop = {}]
        /\ At("demote") /\ UNCHANGED <<indexed, sealed, spoken, text, list, known, failed>>
    BY <1>4 DEF Demote, ctlVars
  <2> QED
    BY <1>1, <2>1 DEF EngTyped, Allocating
<1>5. CASE AllocOne
  BY <1>1, <1>5 DEF AllocOne, EngTyped, Allocating, At, indexVars, convVars, ctlVars
<1>6. CASE DemoteIdle /\ Movable(recent[First(Demotable)]) = {}
  BY <1>1, <1>6 DEF DemoteIdle, Allocating, At, indexVars, ctlVars
<1>7. CASE DemoteIdle /\ Movable(recent[First(Demotable)]) # {}
  <2>1. eng' = [eng EXCEPT !.at = "hostroom", !.todo = Movable(recent[First(Demotable)]),
                           !.drop = {recent[First(Demotable)]}]
    BY <1>7 DEF DemoteIdle
  <2> QED
    BY <1>1, <1>7, <2>1 DEF DemoteIdle, EngTyped, Allocating, At, indexVars, ctlVars
<1> QED
  BY <1>2, <1>3, <1>4, <1>5, <1>6, <1>7 DEF Allotting

(* The stages on the way to where a conversation is to stand.              *)
LEMMA Elsewhere ==
  ASSUME EngTyped, EngAgrees,
         Admitting \/ SwitchExplicit \/ Sweep \/ EnterGeneral \/ StandOnResident \/ StandOnDisk
  PROVE  \/ eng'.at \in {"free", "charge", "admit", "switch", "enter"}
         \/ eng'.at \in {"hostroom", "probe", "alloc"}
            /\ eng'.then \in {"switch", "choose", "tail", "fresh"}
            /\ (eng'.then = "fresh" => StandOnDisk)
<1>1. CASE Admitting
  <2>1. CASE ChargeSlot
    BY <2>1 DEF ChargeSlot, GoTo, EngTyped
  <2>2. CASE DoNotCharge
    BY <2>2 DEF DoNotCharge, Free
  <2>3. CASE Admit
    <3>1. eng' = Free \/ eng' = [eng EXCEPT !.at = "switch"]
          \/ eng' = [eng EXCEPT !.at = "switch", !.beside = TRUE]
      BY <2>3 DEF Admit
    <3>2. eng' = Free => eng'.at = "free"
      BY DEF Free
    <3>3. eng' # Free => eng'.at = "switch"
      BY <3>1 DEF EngTyped
    <3> QED
      BY <3>2, <3>3
  <2> QED
    BY <1>1, <2>1, <2>2, <2>3 DEF Admitting
<1>2. CASE SwitchExplicit
  <2>1. \/ eng' = [eng EXCEPT !.at = "enter"]
        \/ eng' = [eng EXCEPT !.at = "hostroom", !.then = "switch", !.drop = Leaving,
                              !.todo = Exclusive]
    BY <1>2 DEF SwitchExplicit
  <2> QED
    BY <2>1 DEF EngTyped
<1>3. CASE Sweep
  BY <1>3 DEF Sweep, GoTo, EngTyped
<1>4. CASE EnterGeneral
  BY <1>4 DEF EnterGeneral, EngTyped
<1>5. CASE StandOnResident
  <2>1. \E r, n : eng' = [eng EXCEPT !.at = "alloc", !.then = "tail", !.resume = r, !.need = n]
    BY <1>5 DEF StandOnResident
  <2> QED
    BY <2>1 DEF EngTyped
<1>6. CASE StandOnDisk
  <2>1. \E r, n : eng' = [eng EXCEPT !.at = "alloc", !.then = "fresh", !.resume = r, !.need = n]
    BY <1>6 DEF StandOnDisk
  <2> QED
    BY <1>6, <2>1 DEF EngTyped
<1> QED
  BY <1>1, <1>2, <1>3, <1>4, <1>5, <1>6

(* The stages of a request keep its lengths.                               *)
LEMMA EngLengthsStep ==
  ASSUME Typed, Stages, EngLengths, ~Replay, [Next]_vars
  PROVE  EngLengths'
<1> DEFINE c == eng.conv
           p == eng.prompt
<1>1. EngTyped /\ EngAgrees
  BY DEF Typed
<1>2. c \in Conv => sealed[c] \in Nat
  BY MaxPagesAssumption DEF Typed, StateTyped, ConvTyped
<1>3. FastWay => c \in Conv /\ sealed[c] \in Nat
  BY <1>1, <1>2 DEF FastWay, For, Allocating, At, EngAgrees
<1>4. ASSUME eng'.at \notin {"alloc", "hostroom", "demote", "probe", "tables", "headers"}
      PROVE  EngLengths'
  BY <1>4 DEF EngLengths, FastWay, For, Allocating, At
<1>5. ASSUME eng'.then \notin {"fast", "tables"}, eng'.at \notin {"tables", "headers"}
      PROVE  EngLengths'
  BY <1>5 DEF EngLengths, FastWay, For, At
<1>6. CASE Departing
  <2>1. PICK cs \in SUBSET Conv : Departs(cs) /\ DepartsAside(cs)
    BY <1>6, Departures
  <2>2. CASE eng' = Free
    BY <1>4, <2>2 DEF Free
  <2>3. CASE eng.conv \notin cs /\ eng' = eng /\ (At("charge") \/ Allocating \/ At("free"))
    <3>1. ~(At("tables"))' /\ ~(At("headers"))' /\ (FastWay' <=> FastWay)
      BY <2>3 DEF At, Allocating, FastWay, For
    <3>2. FastWay => sealed'[c] = sealed[c] /\ indexed' \subseteq indexed
      BY <1>3, <2>1, <2>3, DepartsTo
    <3> QED
      BY <1>1, <1>3, <2>3, <3>1, <3>2, LengthsStay
  <2>4. CASE At("switch") /\ eng' = [eng EXCEPT !.at = "enter"]
    <3>1. eng'.at = "enter"
      BY <1>1, <2>4 DEF EngTyped
    <3> QED
      BY <1>4, <3>1
  <2> QED
    BY <2>1, <2>2, <2>3, <2>4 DEF DepartsAside
<1>7. CASE EvictUnreferenced
  <2>1. eng' = eng /\ ~(At("tables"))' /\ ~(At("headers"))' /\ indexed' \subseteq indexed
        /\ sealed' = sealed /\ (FastWay' <=> FastWay)
    BY <1>7 DEF EvictUnreferenced, RoomWanted, At, Evict, convVars, FastWay, For, Allocating
  <2> QED
    BY <1>1, <1>3, <2>1, LengthsStay
<1>8. CASE NoHostRoom \/ DemoteFails \/ PromoteFails \/ Exhausted \/ RestoreFails \/ CommitFails
  <2>1. \E blocks : Fail(blocks)
    BY <1>8 DEF NoHostRoom, DemoteFails, PromoteFails, Exhausted, RestoreFails, CommitFails
  <2>2. eng'.at \in {"abandon", "cold"}
    BY <2>1 DEF Fail, Free
  <2> QED
    BY <1>4, <2>2
<1>9. CASE Allotting
  <2>1. /\ Allocating /\ indexed' = indexed /\ sealed' = sealed
        /\ eng'.at \in {"demote", "alloc", "sweep", "hostroom"} /\ eng'.then = eng.then
        /\ eng'.conv = c /\ eng'.prompt = p
    BY <1>9, Allots
  <2>2. ~(At("tables"))' /\ ~(At("headers"))' /\ (FastWay' => FastWay)
    BY <2>1 DEF FastWay, For, Allocating, At
  <2> QED
    BY <1>1, <1>3, <2>1, <2>2, LengthsStay
<1>10. CASE Admitting \/ SwitchExplicit \/ Sweep \/ EnterGeneral \/ StandOnResident \/ StandOnDisk
  <2>1. \/ eng'.at \in {"free", "charge", "admit", "switch", "enter"}
        \/ eng'.at \in {"hostroom", "probe", "alloc"} /\ eng'.then \notin {"fast", "tables"}
    BY <1>1, <1>10, Elsewhere
  <2> QED
    BY <1>4, <1>5, <2>1
<1>11. CASE EnterFast
  <2>1. /\ eng' = [eng EXCEPT !.at = "alloc", !.then = "fast", !.resume = Len(text[c]),
                 !.need = Beyond(Upper(p), sealed[c] + Len(tail[c]))]
        /\ Hits(p) <= sealed[c] /\ indexed' = indexed /\ sealed' = sealed
    BY <1>11 DEF EnterFast, indexVars, convVars
  <2>2. eng'.at = "alloc" /\ eng'.conv = c /\ eng'.prompt = p
    BY <1>1, <2>1 DEF EngTyped
  <2>3. Hits(eng.prompt)' = Hits(p)
    BY <2>1, <2>2 DEF Hits
  <2> QED
    BY <2>1, <2>2, <2>3 DEF EngLengths, At
<1>12. CASE Probe
  <2>1. /\ At("probe") /\ eng' = [eng EXCEPT !.at = eng.then] /\ sealed' = sealed
        /\ Adopt(c, Chain(p, 0, Hits(p))) /\ c \in Conv
    BY <1>1, <1>12 DEF Probe, GoTo, convVars, EngAgrees, At
  <2>2. eng'.at = eng.then /\ eng'.then = eng.then /\ eng'.conv = c /\ eng'.prompt = p
        /\ eng.then \in {"choose", "tables"}
    BY <1>1, <2>1 DEF EngTyped, EngAgrees
  <2>3. CASE eng.then = "choose"
    BY <1>4, <2>2, <2>3
  <2>4. CASE eng.then = "tables"
    <3>1. FastWay /\ Hits(p) <= sealed[c]
      BY <2>1, <2>4 DEF FastWay, EngLengths
    <3>2. list'[c] = Chain(p, 0, Hits(p))
      BY <2>1 DEF Adopt, Typed, StateTyped, ListsTyped
    <3>3. Hits(p) \in 0..Len(p) /\ p \in Stream /\ Len(p) \in Nat
      BY <1>1, EngIs, MatchedIs
    <3>4. /\ Len(Chain(p, 0, Hits(p))) = Hits(p)
          /\ \A u \in Elems(Chain(p, 0, Hits(p))) : Len(u) \in 1..Hits(p)
      BY <3>3, ChainShort
    <3>5. sealed[c] \in Nat
      BY <1>2, <2>1
    <3>6. Len(list'[c]) <= sealed'[c] /\ \A u \in Elems(list'[c]) : Len(u) <= sealed'[c]
      <4> DEFINE h == Hits(p)
      <4> HIDE DEF h
      <4>1. h \in Nat /\ h <= sealed[c] /\ sealed'[c] = sealed[c]
        BY <2>1, <3>1, <3>3 DEF h
      <4>2. Len(list'[c]) = h /\ \A u \in Elems(list'[c]) : Len(u) \in 1..h
        BY <3>2, <3>4 DEF h
      <4> QED
        BY <3>5, <4>1, <4>2
    <3>7. (Short(eng.conv))'
      BY <2>2, <3>6 DEF Short
    <3>8. ~FastWay'
      BY <2>2, <2>4 DEF FastWay, For, Allocating, At
    <3> QED
      BY <3>7, <3>8 DEF EngLengths
  <2> QED
    BY <2>2, <2>3, <2>4
<1>13. CASE PreparePromote \/ Promote
  <2>1. \E P : eng' = [eng EXCEPT !.plan = P]
    BY <1>13 DEF PreparePromote, Promote
  <2>2. eng'.at = eng.at /\ eng'.conv = c /\ eng'.then = eng.then /\ eng'.prompt = p
    BY <1>1, <2>1 DEF EngTyped
  <2>3. At("probe") /\ indexed' = indexed /\ sealed' = sealed
    BY <1>13 DEF PreparePromote, Promote, indexVars, convVars
  <2>4. ~(At("tables"))' /\ ~(At("headers"))' /\ (FastWay' => FastWay)
    BY <2>2, <2>3 DEF FastWay, For, Allocating, At
  <2> QED
    BY <1>1, <1>3, <2>2, <2>3, <2>4, LengthsStay
<1>14. CASE FastAllocated
  <2>1. eng' = [eng EXCEPT !.at = "probe", !.then = "tables", !.out = <<>>]
        /\ FastWay /\ indexed' = indexed /\ sealed' = sealed
    BY <1>14 DEF FastAllocated, Allocated, FastWay, For, Allocating, indexVars
  <2>2. eng'.at = "probe" /\ eng'.conv = c /\ eng'.prompt = p
    BY <1>1, <2>1 DEF EngTyped
  <2>3. ~(At("tables"))' /\ ~(At("headers"))'
    BY <2>2 DEF At
  <2> QED
    BY <1>1, <1>3, <2>1, <2>2, <2>3, LengthsStay
<1>15. CASE FreshRead
  <2>1. \E n : eng' = [eng EXCEPT !.then = "tail", !.need = n, !.out = <<>>] /\ At("alloc")
    BY <1>15 DEF FreshRead, Allocated
  <2>2. eng'.at = "alloc" /\ eng'.then = "tail"
    BY <1>1, <2>1 DEF EngTyped, At
  <2> QED
    BY <1>5, <2>2
<1>16. CASE FastTables
  <2>1. At("tables") /\ eng' = [eng EXCEPT !.at = "headers"] /\ list' = list /\ sealed' = sealed
    BY <1>16 DEF FastTables, GoTo, indexVars, convVars
  <2>2. eng'.at = "headers" /\ eng'.conv = c
    BY <1>1, <2>1 DEF EngTyped
  <2>3. (Short(eng.conv))'
    BY <2>1, <2>2 DEF EngLengths, Short
  <2>4. ~FastWay'
    BY <2>2 DEF FastWay, For, Allocating, At
  <2> QED
    BY <2>3, <2>4 DEF EngLengths
<1>17. CASE Install
  <2>1. /\ For("tail") /\ c \in Conv /\ list' = list
        /\ sealed' = [sealed EXCEPT ![c] = eng.resume]
        /\ eng' = [eng EXCEPT !.at = "headers", !.out = <<>>]
    BY <1>1, <1>17 DEF Install, Allocated, For, Allocating, EngAgrees, At, indexVars
  <2>2. eng'.at = "headers" /\ eng'.conv = c /\ sealed'[c] = eng.resume
    BY <1>1, <2>1 DEF EngTyped, Typed, StateTyped, ConvTyped
  <2>3. list[c] = Chain(p, 0, eng.resume)
    BY <2>1 DEF Stages, StageList
  <2>4. eng.resume \in 0..Len(p) /\ p \in Stream /\ eng.resume \in Nat
    BY <1>1, EngIs DEF EngAgrees
  <2>5. /\ Len(Chain(p, 0, eng.resume)) = eng.resume
        /\ \A u \in Elems(Chain(p, 0, eng.resume)) : Len(u) \in 1..eng.resume
    BY <2>4, ChainShort
  <2>6. Len(list'[c]) <= sealed'[c] /\ \A u \in Elems(list'[c]) : Len(u) <= sealed'[c]
    <3> DEFINE h == eng.resume
    <3>1. h \in Nat /\ sealed'[c] = h /\ Len(list'[c]) = h
          /\ \A u \in Elems(list'[c]) : Len(u) \in 1..h
      BY <2>1, <2>2, <2>3, <2>4, <2>5
    <3> HIDE DEF h
    <3> QED
      BY <3>1
  <2>7. (Short(eng.conv))'
    BY <2>2, <2>6 DEF Short
  <2>8. ~FastWay'
    BY <2>2 DEF FastWay, For, Allocating, At
  <2> QED
    BY <2>7, <2>8 DEF EngLengths
<1>18. CASE Serve \/ ServeCold \/ NotServed \/ Grown
  <2>1. eng' = Free
    BY <1>18 DEF Serve, ServeCold, NotServed, Grown, Start
  <2> QED
    BY <1>4, <2>1 DEF Free
<1>19. CASE \E d \in Conv, q \in Stream : Begin(d, q)
  <2>1. eng'.at = "charge"
    BY <1>19 DEF Begin, Free
  <2> QED
    BY <1>4, <2>1
<1>20. CASE \E d \in Conv : Grow(d)
  <2>1. eng'.at = "abandon" \/ (eng'.at = "alloc" /\ eng'.then = "grow")
    BY <1>20 DEF Grow, Free
  <2> QED
    BY <1>4, <1>5, <2>1
<1>21. CASE \/ \E d \in Conv : Prefill(d) \/ End(d) \/ EndUnderflows(d) \/ EndUnknown(d)
            \/ \E d \in Conv, x \in Page : Decode(d, x)
  <2>1. eng' = Free
    BY <1>21 DEF Prefill, End, EndUnderflows, EndUnknown, Decode
  <2> QED
    BY <1>4, <2>1 DEF Free
<1>22. CASE UNCHANGED vars
  <2>1. UNCHANGED <<eng, indexed, list, sealed>>
    BY <1>22 DEF vars, indexVars, convVars
  <2>2. Hits(eng.prompt)' = Hits(p)
    BY <2>1 DEF Hits
  <2>3. FastWay' = FastWay /\ (At("tables"))' = At("tables") /\ (At("headers"))' = At("headers")
    BY <2>1 DEF FastWay, For, Allocating, At
  <2> QED
    BY <2>1, <2>2, <2>3 DEF EngLengths, Short
<1> QED
  BY <1>6, <1>7, <1>8, <1>9, <1>10, <1>11, <1>12, <1>13, <1>14, <1>15, <1>16, <1>17, <1>18,
     <1>19, <1>20, <1>21, <1>22
  DEF Next, Engine, MakingRoom, Beginning, Departing, Allotting

RunningLengths ==
  \A c \in running \cap known :
    /\ Short(c)
    /\ Len(work[c]) <= sealed[c] + Len(tail[c])
    /\ room[c] <= sealed[c] + Len(tail[c])
ListsOnce == \A c \in Conv : Once(list[c])

Lengths ==
  /\ EngLengths
  /\ cold \in Nat
  /\ cold = 0 => RunningLengths /\ ListsOnce

(* What a read from the disk makes of the conversation's list.             *)
LEMMA FreshSeals ==
  ASSUME Typed, Stages, FreshRead
  PROVE  /\ eng.conv \in Conv /\ eng.conv \notin running
         /\ eng.resume - Len(eng.out) = Len(list[eng.conv])
         /\ Len(list[eng.conv]) + Len(eng.out) = eng.resume
         /\ eng.resume \in 0..Len(eng.prompt) /\ eng.prompt \in Stream
         /\ list[eng.conv] = Chain(eng.prompt, 0, Len(list[eng.conv]))
         /\ list' = [list EXCEPT ![eng.conv] = Chain(eng.prompt, 0, eng.resume)]
<1> DEFINE c == eng.conv
           p == eng.prompt
           n == Len(list[c])
           first == eng.resume - Len(eng.out)
<1>1. /\ EngTyped /\ c \in Conv
      /\ At("alloc") /\ eng.need = 0 /\ eng.then = "fresh" /\ Seal(c, p, first, eng.out)
  BY DEF FreshRead, Allocated, Typed, EngAgrees, At
<1>2. /\ p \in Stream /\ Len(p) \in Nat /\ Len(eng.out) \in Nat /\ eng.resume \in Nat
  BY <1>1, EngIs
<1>3. /\ c \notin running /\ list[c] = Chain(p, 0, n)
      /\ Len(eng.out) + 0 = eng.resume - n
  BY <1>1 DEF Stages, StageSeat, StageList, Growing, For, Allocating, At
<1>4. n \in Nat /\ eng.resume <= Len(p)
  BY <1>1 DEF Typed, StateTyped, ListsTyped, EngAgrees
<1>5. first = n /\ n + Len(eng.out) = eng.resume /\ n <= eng.resume
  BY ONLY <1>2, <1>3, <1>4, Sums DEF first
<1>6. list' = [list EXCEPT ![c] = @ \o Chain(p, n, n + Len(eng.out))]
  BY <1>1, <1>5 DEF Seal
<1>7. list[c] \o Chain(p, n, eng.resume) = Chain(p, 0, eng.resume)
  BY <1>2, <1>3, <1>4, <1>5, ChainJoined
<1>8. list' = [list EXCEPT ![c] = Chain(p, 0, eng.resume)]
  BY <1>1, <1>5, <1>6, <1>7 DEF Typed, StateTyped, ListsTyped
<1>9. eng.resume \in 0..Len(p)
  BY <1>2, <1>4
<1> QED
  BY ONLY <1>1, <1>2, <1>3, <1>5, <1>8, <1>9 DEF first

(* A request that runs keeps its lengths through what leaves it alone.     *)
LEMMA RowsStay ==
  ASSUME RunningLengths,
         \A c \in running' \cap known' :
           /\ c \in running \cap known
           /\ list'[c] = list[c] /\ work'[c] = work[c] /\ sealed'[c] = sealed[c]
           /\ room'[c] = room[c] /\ tail'[c] = tail[c]
  PROVE  RunningLengths'
BY DEF RunningLengths, Short

(* Steps that touch no conversation.                                       *)
Aside ==
  \/ EvictUnreferenced \/ NoHostRoom \/ Roomy \/ PrepareDemote \/ DemoteFails
  \/ Admitting \/ SwitchExplicit \/ Sweep \/ EnterFast \/ EnterGeneral
  \/ PreparePromote \/ Promote \/ PromoteFails \/ AllocOne \/ Exhausted \/ RestoreFails
  \/ (CommitFails /\ eng.then # "fast") \/ FastTables \/ NotServed
  \/ \E c \in Conv, p \in Stream : Begin(c, p)
  \/ \E c \in Conv : Prefill(c) \/ Grow(c)
  \/ UNCHANGED vars

(* They leave every conversation and every request as it was.              *)
LEMMA AsideKeeps ==
  ASSUME Aside
  PROVE  UNCHANGED <<list, known, spoken, text, sealed, tail, running, seat, work, room, cold>>
<1>1. CASE EvictUnreferenced \/ NoHostRoom \/ Roomy \/ PrepareDemote \/ DemoteFails
  BY <1>1 DEF EvictUnreferenced, NoHostRoom, Roomy, PrepareDemote, DemoteFails, Fail, indexVars,
     convVars, rowVars, ctlVars
<1>2. CASE Admitting \/ SwitchExplicit \/ Sweep \/ EnterFast \/ EnterGeneral
  BY <1>2 DEF Admitting, ChargeSlot, DoNotCharge, Admit, SwitchExplicit, Sweep, EnterFast,
     EnterGeneral, indexVars, convVars, rowVars, ctlVars
<1>3. CASE PreparePromote \/ Promote \/ PromoteFails \/ AllocOne \/ Exhausted \/ RestoreFails
  BY <1>3 DEF PreparePromote, Promote, PromoteFails, AllocOne, Exhausted, RestoreFails, Fail,
     indexVars, convVars, rowVars, ctlVars
<1>4. CASE (CommitFails /\ eng.then # "fast") \/ FastTables \/ NotServed
  BY <1>4 DEF CommitFails, FastTables, NotServed, Fail, indexVars, convVars, rowVars, ctlVars
<1>5. CASE \E c \in Conv, p \in Stream : Begin(c, p)
  BY <1>5 DEF Begin, indexVars, convVars, rowVars
<1>6. CASE \E c \in Conv : Prefill(c) \/ Grow(c)
  BY <1>6 DEF Prefill, Grow, indexVars, convVars, rowVars, ctlVars
<1>7. CASE UNCHANGED vars
  BY <1>7 DEF vars, indexVars, convVars, rowVars, ctlVars
<1> QED
  BY <1>1, <1>2, <1>3, <1>4, <1>5, <1>6, <1>7 DEF Aside

(* Steps that touch the request's own conversation, which runs nothing.    *)
Own ==
  \/ Probe \/ StandOnResident \/ StandOnDisk \/ FastAllocated \/ FreshRead \/ Install
  \/ (CommitFails /\ eng.then = "fast")

(* They leave the others as they were.                                     *)
LEMMA OwnKeeps ==
  ASSUME Typed, Stages, Own
  PROVE  /\ eng.conv \in Conv \ running
         /\ UNCHANGED <<running, seat, work, pos, room, cold>>
         /\ known' \subseteq known \cup {eng.conv}
         /\ \A c \in Conv \ {eng.conv} : /\ list'[c] = list[c] /\ tail'[c] = tail[c]
                                         /\ sealed'[c] = sealed[c] /\ text'[c] = text[c]
<1>1. eng.conv \in Conv \ running
  BY DEF Own, Probe, StandOnResident, StandOnDisk, FastAllocated, FreshRead, Install,
     CommitFails, Allocated, Typed, EngAgrees, Stages, StageSeat, At, Growing, For, Allocating
<1>2. UNCHANGED <<running, seat, work, pos, room, cold>>
  BY DEF Own, Probe, StandOnResident, StandOnDisk, FastAllocated, FreshRead, Install,
     CommitFails, Fail, rowVars, ctlVars
<1>3. known' \subseteq known \cup {eng.conv}
  BY DEF Own, Probe, StandOnResident, StandOnDisk, FastAllocated, FreshRead, Install,
     CommitFails, convVars
<1>4. list' = list \/ \E l : list' = [list EXCEPT ![eng.conv] = l]
  <2>1. CASE FreshRead
    BY <2>1, FreshSeals
  <2>2. CASE Own /\ ~FreshRead
    BY <2>2 DEF Own, Probe, StandOnResident, StandOnDisk, FastAllocated, Install, CommitFails,
       Adopt, indexVars
  <2> QED
    BY <2>1, <2>2
<1>5. tail' = tail \/ \E t : tail' = [tail EXCEPT ![eng.conv] = t]
  BY DEF Own, Probe, StandOnResident, StandOnDisk, FastAllocated, FreshRead, Install,
     CommitFails, ReplaceTail, convVars
<1>6. /\ sealed' = sealed \/ \E t : sealed' = [sealed EXCEPT ![eng.conv] = t]
      /\ text' = text \/ \E t : text' = [text EXCEPT ![eng.conv] = t]
  BY DEF Own, Probe, StandOnResident, StandOnDisk, FastAllocated, FreshRead, Install,
     CommitFails, convVars
<1>7. /\ list \in [Conv -> Seq(Unit)] /\ tail \in [Conv -> Seq(Block)]
      /\ sealed \in [Conv -> 0..MaxPages] /\ text \in [Conv -> Stream]
  BY DEF Typed, StateTyped, ListsTyped, ConvTyped
<1>8. ASSUME NEW c \in Conv \ {eng.conv}
      PROVE  list'[c] = list[c] /\ tail'[c] = tail[c] /\ sealed'[c] = sealed[c] /\ text'[c] = text[c]
  BY <1>4, <1>5, <1>6, <1>7
<1> QED
  BY <1>1, <1>2, <1>3, <1>8

(* Steps that give back tails of conversations that run nothing.           *)
LEMMA IdleTails ==
  ASSUME Typed, Stages, Demote \/ DemoteIdle
  PROVE  /\ UNCHANGED <<list, known, spoken, text, sealed, running, seat, work, pos, room, cold>>
         /\ \A c \in Conv : tail'[c] = tail[c] \/ tail'[c] = <<>>
         /\ \A c \in running \cup {eng.conv} : c \in Conv => tail'[c] = tail[c]
<1>1. UNCHANGED <<list, known, spoken, text, sealed, running, seat, work, pos, room, cold>>
  BY DEF Demote, DemoteIdle, indexVars, rowVars, ctlVars
<1>2. CASE Demote
  <2>1. tail' = [d \in Conv |-> IF d \in eng.drop THEN <<>> ELSE tail[d]]
        /\ eng.drop \cap (running \cup {eng.conv}) = {}
    BY <1>2 DEF Demote, Stages, StageMoves
  <2> QED
    BY <1>1, <2>1
<1>3. CASE DemoteIdle
  <2> DEFINE d == recent[First(Demotable)]
  <2>1. d \in Conv /\ d \notin running \cup {eng.conv}
    <3>1. Demotable \subseteq Elems(recent) /\ Demotable # {} /\ recent \in Seq(Conv)
      BY <1>3 DEF DemoteIdle, Demotable, Typed, StateTyped, OrderTyped
    <3>2. d \in Demotable /\ d \in Conv
      BY <3>1, FirstIs
    <3> QED
      BY <3>2 DEF Demotable, IdleLabel, Held
  <2>2. tail' = tail \/ tail' = [tail EXCEPT ![d] = <<>>]
    BY <1>3 DEF DemoteIdle
  <2> HIDE DEF d
  <2>3. tail \in [Conv -> Seq(Block)]
    BY DEF Typed, StateTyped, ConvTyped
  <2> QED
    BY <1>1, <2>1, <2>2, <2>3
<1> QED
  BY <1>2, <1>3

(* The lengths of running requests are kept, while none is served cold.    *)
LEMMA RunningStep ==
  ASSUME Typed, Stages, EngLengths, RunningLengths, ~ServeCold, [Next]_vars
  PROVE  RunningLengths'
<1> DEFINE c == eng.conv
<1>0. ASSUME NEW d \in Conv
      PROVE  sealed[d] \in Nat /\ Len(tail[d]) \in Nat /\ Len(work[d]) \in Nat
             /\ Len(list[d]) \in Nat /\ work[d] \in Stream /\ room[d] \in Nat
  BY NewIs DEF Typed, StateTyped, ListsTyped, RowTyped
<1>1. known \subseteq Conv /\ running \subseteq Conv
  BY DEF Typed, StateTyped, ConvTyped, RowTyped
<1>2. CASE Aside
  BY <1>2, AsideKeeps, RowsStay
<1>3. CASE Departing
  <2>1. PICK cs \in SUBSET Conv : Departs(cs) /\ DepartsAside(cs)
    BY <1>3, Departures
  <2>2. ASSUME NEW d \in running' \cap known'
        PROVE  /\ d \in running \cap known
               /\ list'[d] = list[d] /\ work'[d] = work[d] /\ sealed'[d] = sealed[d]
               /\ room'[d] = room[d] /\ tail'[d] = tail[d]
    <3>1. d \in Conv \ cs /\ d \in running \cap known
      BY <1>1, <2>1, <2>2, DepartsTo DEF DepartsAside
    <3> QED
      BY <2>1, <3>1, DepartsTo DEF DepartsAside
  <2> QED
    BY <2>2, RowsStay
<1>4. CASE Own
  <2>1. ASSUME NEW d \in running' \cap known'
        PROVE  /\ d \in running \cap known
               /\ list'[d] = list[d] /\ work'[d] = work[d] /\ sealed'[d] = sealed[d]
               /\ room'[d] = room[d] /\ tail'[d] = tail[d]
    BY <1>1, <1>4, OwnKeeps
  <2> QED
    BY <2>1, RowsStay
<1>5. CASE Demote \/ DemoteIdle
  <2>1. ASSUME NEW d \in running' \cap known'
        PROVE  /\ d \in running \cap known
               /\ list'[d] = list[d] /\ work'[d] = work[d] /\ sealed'[d] = sealed[d]
               /\ room'[d] = room[d] /\ tail'[d] = tail[d]
    BY <1>1, <1>5, IdleTails
  <2> QED
    BY <2>1, RowsStay
<1>6. CASE Serve
  <2>1. /\ At("headers") /\ Start(eng.resume) /\ UNCHANGED <<list, known, sealed, tail>>
        /\ c \in Conv /\ EngTyped
    BY <1>6 DEF Serve, Typed, EngAgrees, At, indexVars, convVars
  <2>2. /\ running' = running \cup {c} /\ work'[c] = eng.prompt /\ room'[c] = Covered(c)
        /\ \A d \in Conv \ {c} : work'[d] = work[d] /\ room'[d] = room[d]
    BY <2>1 DEF Start, Typed, StateTyped, RowTyped
  <2>3. Short(c) /\ Upper(eng.prompt) <= sealed[c] + Len(tail[c])
    BY <2>1 DEF EngLengths, Stages, StageLength
  <2>4. Len(eng.prompt) <= sealed[c] + Len(tail[c])
    BY <1>0, <2>1, <2>3, EngIs
  <2>5. Covered(c) <= sealed[c] + Len(tail[c])
    <3>1. Len(list[c]) + Len(tail[c]) <= sealed[c] + Len(tail[c])
      BY <1>0, <2>1, <2>3, Sums DEF Short
    <3> QED
      BY <3>1 DEF Covered
  <2>6. ASSUME NEW d \in running' \cap known'
        PROVE  /\ Short(d)' /\ Len(work'[d]) <= sealed'[d] + Len(tail'[d])
               /\ room'[d] <= sealed'[d] + Len(tail'[d])
    <3>1. CASE d = c
      BY <2>1, <2>2, <2>3, <2>4, <2>5, <3>1 DEF Short
    <3>2. CASE d # c
      BY <1>1, <2>1, <2>2, <3>2 DEF Short, RunningLengths
    <3> QED
      BY <3>1, <3>2
  <2> QED
    BY <2>6 DEF RunningLengths
<1>7. ASSUME NEW d \in Conv, NEW x \in Page, Decode(d, x) PROVE RunningLengths'
  <2>1. /\ UNCHANGED <<list, known, sealed, tail, running, room>> /\ d \in running
        /\ work' = [work EXCEPT ![d] = Append(@, x)]
        /\ pos[d] = Len(work[d]) /\ pos[d] < room[d]
    BY <1>7 DEF Decode, indexVars, convVars
  <2>2. Len(work'[d]) = Len(work[d]) + 1 /\ \A e \in Conv \ {d} : work'[e] = work[e]
    <3>1. work[d] \in Seq(Page) /\ work'[d] = Append(work[d], x)
          /\ \A e \in Conv \ {d} : work'[e] = work[e]
      BY <1>0, <2>1, StreamIs DEF Typed, StateTyped, RowTyped
    <3> QED
      BY <3>1
  <2>3. ASSUME NEW e \in running' \cap known'
        PROVE  /\ Short(e)' /\ Len(work'[e]) <= sealed'[e] + Len(tail'[e])
               /\ room'[e] <= sealed'[e] + Len(tail'[e])
    <3>1. e \in running \cap known /\ e \in Conv
      BY <1>1, <2>1
    <3>2. /\ Short(e) /\ Len(work[e]) <= sealed[e] + Len(tail[e])
          /\ room[e] <= sealed[e] + Len(tail[e])
      BY <3>1 DEF RunningLengths
    <3>3. Len(work'[e]) <= sealed[e] + Len(tail[e])
      <4>1. CASE e = d
        BY <1>0, <2>1, <2>2, <3>1, <3>2, <4>1
      <4>2. CASE e # d
        BY <2>2, <3>1, <3>2, <4>2
      <4> QED
        BY <4>1, <4>2
    <3> QED
      BY <2>1, <3>2, <3>3 DEF Short
  <2> QED
    BY <2>3 DEF RunningLengths
<1>8. CASE Grown
  <2> DEFINE more == tail[c] \o eng.out
  <2>1. /\ For("grow") /\ UNCHANGED <<list, known, sealed, running, work>>
        /\ tail' = [tail EXCEPT ![c] = more]
        /\ room' = [room EXCEPT ![c] = Len(list[c]) + Len(more)]
    BY <1>8 DEF Grown, Allocated, For, Allocating, indexVars
  <2>2. c \in Conv /\ c \in running \cap known /\ EngTyped
    BY <1>1, <2>1 DEF Stages, StageSeat, Growing, Typed
  <2>3. /\ tail'[c] = more /\ room'[c] = Len(list[c]) + Len(more)
        /\ \A d \in Conv \ {c} : tail'[d] = tail[d] /\ room'[d] = room[d]
    BY <2>1, <2>2 DEF Typed, StateTyped, RowTyped, ConvTyped
  <2>4. Len(more) = Len(tail[c]) + Len(eng.out) /\ Len(eng.out) \in Nat
    <3>1. tail[c] \in Seq(Block) /\ eng.out \in Seq(Block) /\ Len(eng.out) \in Nat
      BY <2>2, NewIs, EngIs
    <3> QED
      BY <3>1
  <2> HIDE DEF more
  <2>5. ASSUME NEW e \in running' \cap known'
        PROVE  /\ Short(e)' /\ Len(work'[e]) <= sealed'[e] + Len(tail'[e])
               /\ room'[e] <= sealed'[e] + Len(tail'[e])
    <3>1. e \in running \cap known /\ e \in Conv
      BY <1>1, <2>1
    <3>2. /\ Short(e) /\ Len(work[e]) <= sealed[e] + Len(tail[e])
          /\ room[e] <= sealed[e] + Len(tail[e])
      BY <3>1 DEF RunningLengths
    <3>3. Len(work[e]) <= sealed[e] + Len(tail'[e])
      <4>1. CASE e = c
        <5>1. Len(work[c]) <= sealed[c] + (Len(tail[c]) + Len(eng.out))
          BY <1>0, <2>2, <2>4, <3>2, <4>1, Sums
        <5> QED
          BY <2>3, <2>4, <4>1, <5>1
      <4>2. CASE e # c
        BY <2>3, <3>1, <3>2, <4>2
      <4> QED
        BY <4>1, <4>2
    <3>4. room'[e] <= sealed[e] + Len(tail'[e])
      <4>1. CASE e = c
        <5>1. Len(list[c]) <= sealed[c] /\ Len(more) \in Nat
          <6>1. Len(tail[c]) \in Nat /\ Len(eng.out) \in Nat
            BY <1>0, <2>2, <2>4
          <6>2. Len(more) \in Nat
            BY ONLY <2>4, <6>1, Sums
          <6> QED
            BY <3>2, <4>1, <6>2 DEF Short
        <5>2. Len(list[c]) + Len(more) <= sealed[c] + Len(more)
          BY <1>0, <2>2, <5>1, Sums
        <5> QED
          BY <2>3, <4>1, <5>2
      <4>2. CASE e # c
        BY <2>3, <3>1, <3>2, <4>2
      <4> QED
        BY <4>1, <4>2
    <3> QED
      BY <2>1, <3>2, <3>3, <3>4 DEF Short
  <2> QED
    BY <2>5 DEF RunningLengths
<1>9. ASSUME NEW d \in Conv, End(d) \/ EndUnderflows(d) \/ EndUnknown(d) PROVE RunningLengths'
  <2>1. Stop(d) /\ d \in running /\ known' = known
    BY <1>9 DEF End, EndUnderflows, EndUnknown, LeaveSlot, convVars
  <2>2. /\ list' = list \/ \E l : list' = [list EXCEPT ![d] = l]
        /\ tail' = tail \/ \E l : tail' = [tail EXCEPT ![d] = l]
        /\ sealed' = sealed \/ \E l : sealed' = [sealed EXCEPT ![d] = l]
    <3>1. CASE End(d)
      BY <3>1 DEF End, Seal
    <3>2. CASE EndUnderflows(d) \/ EndUnknown(d)
      BY <3>2 DEF EndUnderflows, EndUnknown, indexVars, convVars
    <3> QED
      BY <1>9, <3>1, <3>2
  <2>3. /\ list \in [Conv -> Seq(Unit)] /\ tail \in [Conv -> Seq(Block)]
        /\ sealed \in [Conv -> 0..MaxPages] /\ work \in [Conv -> Stream] /\ room \in [Conv -> Nat]
    BY DEF Typed, StateTyped, ListsTyped, ConvTyped, RowTyped
  <2>4. ASSUME NEW e \in running' \cap known'
        PROVE  /\ e \in running \cap known
               /\ list'[e] = list[e] /\ work'[e] = work[e] /\ sealed'[e] = sealed[e]
               /\ room'[e] = room[e] /\ tail'[e] = tail[e]
    <3>1. e \in Conv \ {d} /\ e \in running \cap known
      BY <1>1, <2>1 DEF Stop
    <3>2. list'[e] = list[e] /\ sealed'[e] = sealed[e] /\ tail'[e] = tail[e]
      BY <2>2, <2>3, <3>1
    <3> QED
      BY <2>1, <2>3, <3>1, <3>2 DEF Stop
  <2> QED
    BY <2>4, RowsStay
<1> QED
  BY <1>2, <1>3, <1>4, <1>5, <1>6, <1>7, <1>8, <1>9
  DEF Next, Engine, MakingRoom, Beginning, Departing, Aside, Own

(* The units of a stream's pages differ.                                   *)
LEMMA ChainOnce ==
  ASSUME NEW s \in Stream, NEW m \in Nat, NEW n \in Nat, m <= n, n <= Len(s)
  PROVE  /\ Once(Chain(s, m, n))
         /\ \A u \in Elems(Chain(s, m, n)) : Len(u) \in (m + 1)..n
<1>1. Len(s) \in Nat
  BY StreamIs
<1>2. /\ Chain(s, m, n) \in Seq(Unit) /\ Len(Chain(s, m, n)) = n - m
      /\ \A i \in 1..(n - m) : Chain(s, m, n)[i] = Prefix(s, m + i)
  BY ChainIs
<1>3. ASSUME NEW i \in 1..(n - m) PROVE Len(Chain(s, m, n)[i]) = m + i
  <2>1. m + i \in 0..Len(s)
    BY <1>1
  <2> QED
    BY <1>2, <2>1, PrefixIs
<1>4. DOMAIN Chain(s, m, n) = 1..(n - m)
  BY <1>2
<1>5. ASSUME NEW i \in DOMAIN Chain(s, m, n), NEW j \in DOMAIN Chain(s, m, n),
             Chain(s, m, n)[i] = Chain(s, m, n)[j]
      PROVE  i = j
  <2>1. i \in 1..(n - m) /\ j \in 1..(n - m)
    BY <1>4
  <2>2. m + i = m + j
    BY <1>3, <1>5, <2>1
  <2> QED
    BY <2>1, <2>2
<1>6. ASSUME NEW u \in Elems(Chain(s, m, n)) PROVE Len(u) \in (m + 1)..n
  <2>1. PICK i \in 1..Len(Chain(s, m, n)) : Chain(s, m, n)[i] = u
    BY <1>2, ElemsIs
  <2>2. i \in 1..(n - m)
    BY <1>2, <2>1
  <2>3. Len(u) = m + i
    BY <1>3, <2>1, <2>2
  <2> QED
    BY <2>2, <2>3
<1> QED
  BY <1>5, <1>6 DEF Once

(* The first part of a list that repeats nothing repeats nothing.          *)
LEMMA OncePart ==
  ASSUME NEW s \in Seq(Unit), Once(s), NEW k \in 0..Len(s)
  PROVE  Once(Prefix(s, k)) /\ Elems(Prefix(s, k)) \subseteq Elems(s)
<1>1. /\ Prefix(s, k) \in Seq(Unit) /\ Len(Prefix(s, k)) = k
      /\ \A i \in 1..k : Prefix(s, k)[i] = s[i]
  BY FirstPart
<1>2. DOMAIN Prefix(s, k) = 1..k /\ 1..k \subseteq DOMAIN s
  BY <1>1
<1> QED
  BY <1>1, <1>2 DEF Once, Elems

(* No list comes to name a unit twice, while lengths are kept.             *)
LEMMA ListsOnceStep ==
  ASSUME Typed, Stages, RunningLengths, ListsOnce, [Next]_vars
  PROVE  ListsOnce'
<1> DEFINE c == eng.conv
           p == eng.prompt
<1>1. known \subseteq Conv /\ list \in [Conv -> Seq(Unit)] /\ Once(<<>>)
  BY DEF Typed, StateTyped, ConvTyped, ListsTyped, Once
<1>2. ASSUME \A d \in Conv : list'[d] = list[d] \/ list'[d] = <<>> PROVE ListsOnce'
  BY <1>1, <1>2 DEF ListsOnce, Once
<1>3. ASSUME NEW d \in Conv, NEW l, Once(l), list' = [list EXCEPT ![d] = l] PROVE ListsOnce'
  <2>1. list'[d] = l /\ \A e \in Conv \ {d} : list'[e] = list[e]
    BY <1>1, <1>3
  <2> QED
    BY <1>3, <2>1 DEF ListsOnce, Once
<1>4. CASE Departing
  <2>1. PICK cs \in SUBSET Conv : Departs(cs)
    BY <1>4, Departures
  <2> QED
    BY <1>2, <2>1, DepartsTo
<1>5. CASE Aside
  BY <1>2, <1>5, AsideKeeps
<1>6. CASE Demote \/ DemoteIdle
  BY <1>2, <1>6, IdleTails
<1>7. CASE FastAllocated \/ Install \/ (CommitFails /\ eng.then = "fast") \/ Serve \/ ServeCold
           \/ Grown \/ (\E d \in Conv : EndUnderflows(d) \/ EndUnknown(d))
           \/ (\E d \in Conv, x \in Page : Decode(d, x))
  <2>1. list' = list
    BY <1>7 DEF FastAllocated, Install, CommitFails, Serve, ServeCold, Grown, EndUnderflows,
       EndUnknown, Decode, indexVars
  <2> QED
    BY <1>2, <2>1
<1>8. CASE Probe
  <2>1. c \in Conv /\ p \in Stream /\ Adopt(c, Chain(p, 0, Hits(p)))
    BY <1>8 DEF Probe, Typed, EngTyped, EngAgrees, At
  <2>2. Hits(p) \in 0..Len(p) /\ Len(p) \in Nat
    BY <2>1, MatchedIs
  <2>3. Once(Chain(p, 0, Hits(p)))
    BY <2>1, <2>2, ChainOnce
  <2> QED
    BY <1>3, <2>1, <2>3 DEF Adopt
<1>9. CASE StandOnResident \/ StandOnDisk
  <2>1. c \in Conv /\ list[c] \in Seq(Unit) /\ Len(list[c]) \in Nat /\ Len(p) \in Nat
    <3>1. c \in Conv /\ EngTyped
      BY <1>9 DEF StandOnResident, StandOnDisk, Typed, EngAgrees, At
    <3> QED
      BY <1>1, <3>1, EngIs
  <2>2. PICK k \in 0..Len(list[c]) : Adopt(c, Below(k))
    <3>1. CASE StandOnResident
      BY <3>1 DEF StandOnResident
    <3>2. CASE StandOnDisk
      <4>1. PICK d \in 1..Len(p) : Adopt(c, Below(Lesser(d, Len(list[c]))))
        BY <3>2 DEF StandOnDisk
      <4>2. Lesser(d, Len(list[c])) \in 0..Len(list[c])
        BY <2>1 DEF Lesser
      <4> QED
        BY <4>1, <4>2
    <3> QED
      BY <1>9, <3>1, <3>2
  <2>3. Once(Below(k))
    BY <2>1, <2>2, OncePart DEF Below, ListsOnce
  <2> QED
    BY <1>3, <2>1, <2>2, <2>3 DEF Adopt
<1>10. CASE FreshRead
  <2>1. /\ c \in Conv /\ p \in Stream /\ eng.resume \in 0..Len(p)
        /\ list' = [list EXCEPT ![c] = Chain(p, 0, eng.resume)]
    BY <1>10, FreshSeals
  <2>2. Once(Chain(p, 0, eng.resume))
    BY <2>1, ChainOnce, StreamIs
  <2> QED
    BY <1>3, <2>1, <2>2
<1>11. ASSUME NEW d \in Conv, End(d) PROVE ListsOnce'
  <2> DEFINE s == work[d]
             m == sealed[d]
             k == New(d)
             units == Chain(s, m, m + k)
  <2>1. d \in running \cap known /\ k <= Len(tail[d]) /\ Seal(d, s, m, Prefix(tail[d], k))
    BY <1>11 DEF End
  <2>2. /\ k \in Nat /\ m \in Nat /\ s \in Stream /\ Len(s) \in Nat /\ tail[d] \in Seq(Block)
        /\ k > 0 => m + k = Len(s)
    BY NewIs
  <2>3. Len(Prefix(tail[d], k)) = k
    BY <2>1, <2>2, FirstPart
  <2>4. list' = [list EXCEPT ![d] = @ \o units]
    BY <2>1, <2>3 DEF Seal
  <2>5. Len(list[d]) <= m /\ \A u \in Elems(list[d]) : Len(u) <= m
    BY <2>1 DEF RunningLengths, Short
  <2>6. units \in Seq(Unit) /\ Once(units) /\ \A u \in Elems(units) : Len(u) \in (m + 1)..(m + k)
    <3>1. units \in Seq(Unit) /\ Len(units) = k
      <4>1. s \in Stream /\ m \in Nat /\ k \in Nat /\ (k > 0 => m + k <= Len(s))
        BY <2>2
      <4> QED
        BY ONLY <4>1, SealedUnits DEF units
    <3>2. CASE k = 0
      <4>1. DOMAIN units = {}
        BY <3>1, <3>2
      <4> QED
        BY <3>1, <4>1 DEF Once, Elems
    <3>3. CASE k > 0
      <4>1. m \in Nat /\ m + k \in Nat /\ m <= m + k /\ m + k <= Len(s) /\ s \in Stream
        BY <2>2, <3>3
      <4>2. Once(units) /\ \A u \in Elems(units) : Len(u) \in (m + 1)..(m + k)
        BY ONLY <4>1, ChainOnce DEF units
      <4> QED
        BY <3>1, <4>2
    <3>4. k = 0 \/ k > 0
      BY <2>2
    <3> QED
      BY ONLY <3>2, <3>3, <3>4
  <2> HIDE DEF s, m, k, units
  <2>7. Elems(list[d]) \cap Elems(units) = {}
    <3> SUFFICES ASSUME NEW u \in Elems(list[d]), u \in Elems(units) PROVE FALSE
      OBVIOUS
    <3>1. Len(u) <= m /\ Len(u) \in (m + 1)..(m + k)
      BY <2>5, <2>6
    <3> QED
      BY <2>2, <3>1
  <2>8. Once(list[d] \o units)
    BY <1>1, <2>6, <2>7, OnceJoined DEF ListsOnce
  <2>9. list' = [list EXCEPT ![d] = list[d] \o units]
    BY <2>4
  <2> QED
    BY <1>3, <2>8, <2>9
<1> QED
  BY <1>2, <1>4, <1>5, <1>6, <1>7, <1>8, <1>9, <1>10, <1>11
  DEF Next, Engine, MakingRoom, Beginning, Departing, Aside, Own

(* Counting the requests served cold.                                      *)
LEMMA ColdCounts ==
  ASSUME [Next]_vars
  PROVE  (~ServeCold => cold' = cold) /\ (ServeCold => cold' = cold + 1)
<1>1. ServeCold => cold' = cold + 1
  BY DEF ServeCold
<1>2. CASE Aside
  BY <1>1, <1>2, AsideKeeps
<1>3. CASE Departing \/ Own \/ Demote \/ DemoteIdle \/ Serve \/ Grown
  BY <1>1, <1>3 DEF Departing, DropLru, SwitchShared, EvictHostToDisk, GrowthFailed, Trim, Abandon,
     Erase, Own, Probe, StandOnResident, StandOnDisk, FastAllocated, FreshRead, Install,
     CommitFails, Fail, Demote, DemoteIdle, Serve, Grown, ctlVars
<1>4. CASE \E c \in Conv : End(c) \/ EndUnderflows(c) \/ EndUnknown(c)
  BY <1>1, <1>4 DEF End, EndUnderflows, EndUnknown, ctlVars
<1>5. CASE \E c \in Conv, x \in Page : Decode(c, x)
  BY <1>1, <1>5 DEF Decode, ctlVars
<1> QED
  BY <1>1, <1>2, <1>3, <1>4, <1>5
  DEF Next, Engine, MakingRoom, Beginning, Departing, Aside, Own

(* The lengths hold for as long as no request was served cold.             *)
LEMMA LengthsAlways == ASSUME ~Replay PROVE Spec => [](Pool /\ Stages /\ Lengths)
<1>1. Init => Lengths
  <2> SUFFICES ASSUME Init PROVE Lengths
    OBVIOUS
  <2>1. eng.at = "free" /\ cold = 0 /\ running = {} /\ \A c \in Conv : list[c] = <<>>
    BY DEF Init, InitResident, Free
  <2>2. EngLengths
    BY <2>1 DEF EngLengths, FastWay, For, Allocating, At
  <2> QED
    BY <2>1, <2>2 DEF Lengths, RunningLengths, ListsOnce, Once
<1>2. Pool /\ Stages /\ Lengths /\ [Next]_vars => Lengths'
  <2> SUFFICES ASSUME Pool, Stages, Lengths, [Next]_vars PROVE Lengths'
    OBVIOUS
  <2>1. Typed
    BY DEF Pool
  <2>2. EngLengths' /\ cold' \in Nat
    BY <2>1, EngLengthsStep, ColdCounts DEF Lengths
  <2>3. ASSUME cold' = 0 PROVE RunningLengths' /\ ListsOnce'
    <3>1. ~ServeCold /\ cold = 0
      BY <2>3, ColdCounts DEF Lengths
    <3> QED
      BY <2>1, <3>1, RunningStep, ListsOnceStep DEF Lengths
  <2> QED
    BY <2>2, <2>3 DEF Lengths
<1> QED
  BY <1>1, <1>2, StagesAlways, PTL DEF Spec

-----------------------------------------------------------------------------
(* Nothing is lost.  Without replay and host transfers a block in use is a *)
(* unit's, a tail's or the request's.                                      *)

NoneLost == used \subseteq BlocksOf(indexed) \cup TailsOf(Conv) \cup Taken

(* Outside its own loops an operation has taken nothing.                   *)
LEMMA TakesLate ==
  ASSUME Typed, ~Allocating, ~At("probe")
  PROVE  Taken = {}
BY DEF Typed, EngAgrees, Allocating, Taken, Promised, Elems

(* A step that moves no unit and frees no more than it gives up.           *)
LEMMA StillNone ==
  ASSUME NoneLost, UNCHANGED <<indexed, place>>, NEW blocks, used' \subseteq used \ blocks,
         TailsOf(Conv) \cup Taken \subseteq TailsOf(Conv)' \cup Taken' \cup blocks
  PROVE  NoneLost'
<1>1. BlocksOf(indexed)' = BlocksOf(indexed)
  BY DEF BlocksOf, OnDevice
<1> QED
  BY <1>1 DEF NoneLost

(* What is evicted, and what leaves, is given back.                        *)
LEMMA EvictLoses ==
  ASSUME Typed, NoneLost, NEW counts, NEW cs, cs \subseteq Conv, Evict(counts, TailsOf(cs)),
         \A c \in Conv \ cs : tail'[c] = tail[c], Taken \subseteq Taken'
  PROVE  NoneLost'
<1> DEFINE gone == Evictable(counts)
<1>1. /\ place' = [u \in Unit |-> IF u \in gone THEN Nowhere ELSE place[u]]
      /\ indexed' = indexed \ gone
      /\ used' = used \ (BlocksOf(gone) \cup TailsOf(cs))
  BY DEF Evict
<1>2. indexed \subseteq Unit
  BY DEF Typed, StateTyped, MemoryTyped
<1> HIDE DEF gone
<1>3. SUFFICES ASSUME NEW b \in used' PROVE b \in (BlocksOf(indexed) \cup TailsOf(Conv) \cup Taken)'
  BY DEF NoneLost
<1>4. b \in used /\ b \notin BlocksOf(gone) /\ b \notin TailsOf(cs)
  BY <1>1
<1>5. CASE b \in BlocksOf(indexed)
  <2>1. PICK u \in indexed : OnDevice(u) /\ b = place[u][2]
    BY <1>5 DEF BlocksOf
  <2>2. u \notin gone
    BY <1>4, <2>1 DEF BlocksOf
  <2>3. u \in indexed' /\ place'[u] = place[u]
    BY <1>1, <1>2, <2>1, <2>2
  <2>4. OnDevice(u)' /\ b = place'[u][2]
    BY <2>1, <2>3 DEF OnDevice
  <2> QED
    BY <2>3, <2>4 DEF BlocksOf
<1>6. CASE b \in TailsOf(Conv)
  <2>1. PICK c \in Conv : b \in Elems(tail[c])
    BY <1>6 DEF TailsOf
  <2>2. c \notin cs
    BY <1>4, <2>1 DEF TailsOf
  <2> QED
    BY <2>1, <2>2 DEF TailsOf
<1>7. CASE b \in Taken
  BY <1>7
<1> QED
  BY <1>4, <1>5, <1>6, <1>7 DEF NoneLost

(* What is sealed is a unit's, or a duplicate given back.                  *)
LEMMA SealLoses ==
  ASSUME NoneLost, indexed \subseteq Unit,
         NEW c, NEW s \in Stream, NEW m \in Nat, NEW blocks \in Seq(Block),
         Len(blocks) > 0 => m + Len(blocks) <= Len(s), Seal(c, s, m, blocks), NEW spare,
         used' = used \ (Duplicates(s, m, blocks) \cup spare),
         TailsOf(Conv) \cup Taken \subseteq TailsOf(Conv)' \cup Taken' \cup Elems(blocks) \cup spare
  PROVE  NoneLost'
<1> DEFINE units == Chain(s, m, m + Len(blocks))
<1>1. /\ indexed' = indexed \cup Elems(units)
      /\ place' = [u \in Unit |->
           IF u \in Elems(units) /\ ~OnDevice(u) THEN Device(blocks[Len(u) - m]) ELSE place[u]]
  BY DEF Seal
<1>2. Len(blocks) \in Nat /\ Len(s) \in Nat
  BY StreamIs
<1>3. /\ units \in Seq(Unit) /\ Len(units) = Len(blocks)
      /\ \A i \in 1..Len(blocks) : units[i] = Prefix(s, m + i)
  BY ONLY <1>2, SealedUnits, s \in Stream, m \in Nat,
    Len(blocks) > 0 => m + Len(blocks) <= Len(s)
<1> HIDE DEF units
<1>4. SUFFICES ASSUME NEW b \in used' PROVE b \in (BlocksOf(indexed) \cup TailsOf(Conv) \cup Taken)'
  BY DEF NoneLost
<1>5. b \in used /\ b \notin Duplicates(s, m, blocks) /\ b \notin spare
  BY <1>4
<1>6. CASE b \in BlocksOf(indexed)
  <2>1. PICK u \in indexed : OnDevice(u) /\ b = place[u][2]
    BY <1>6 DEF BlocksOf
  <2>2. u \in indexed' /\ place'[u] = place[u]
    BY <1>1, <2>1
  <2>3. OnDevice(u)' /\ b = place'[u][2]
    BY <2>1, <2>2 DEF OnDevice
  <2> QED
    BY <2>2, <2>3 DEF BlocksOf
<1>7. CASE b \in Elems(blocks)
  <2>1. PICK i \in 1..Len(blocks) : blocks[i] = b
    BY <1>7, ElemsIs
  <2> DEFINE u == Prefix(s, m + i)
  <2>2. ~OnDevice(u)
    <3>1. i \in DOMAIN blocks
      BY <2>1
    <3> QED
      BY <1>5, <2>1, <3>1 DEF Duplicates
  <2>3. m + i \in 0..Len(s) /\ m + i > 0
    BY <1>2, <2>1
  <2>4. u \in Unit /\ Len(u) = m + i
    BY <2>3, PrefixIs
  <2>5. u \in Elems(units)
    BY <1>3, <2>1, ElemsIs
  <2> HIDE DEF u
  <2>6. Len(u) - m = i
    BY <2>1, <2>4
  <2>7. place'[u] = Device(b)
    BY <1>1, <2>1, <2>2, <2>4, <2>5, <2>6
  <2>8. u \in indexed' /\ OnDevice(u)' /\ place'[u][2] = b
    <3>1. u \in indexed'
      BY <1>1, <2>5
    <3>2. place'[u][1] = "device" /\ place'[u][2] = b
      BY <2>7 DEF Device
    <3> QED
      BY <3>1, <3>2 DEF OnDevice
  <2> QED
    BY <2>8 DEF BlocksOf
<1> QED
  BY <1>5, <1>6, <1>7 DEF NoneLost

(* Blocks taken for a conversation's tail are its tail.                    *)
LEMMA TailLoses ==
  ASSUME Typed, NoneLost, NEW c \in Conv, NEW t, tail' = [tail EXCEPT ![c] = t],
         Elems(tail[c]) \cup Taken \subseteq Elems(t), UNCHANGED <<indexed, place, used>>
  PROVE  NoneLost'
<1>1. /\ tail'[c] = t /\ \A d \in Conv \ {c} : tail'[d] = tail[d]
  BY DEF Typed, StateTyped, ConvTyped
<1>2. TailsOf(Conv) \cup Taken \subseteq TailsOf(Conv)'
  <2>1. ASSUME NEW d \in Conv PROVE Elems(tail[d]) \subseteq TailsOf(Conv)'
    <3>1. Elems(tail[d]) \subseteq Elems(tail'[d])
      BY <1>1
    <3> QED
      BY <3>1 DEF TailsOf
  <2>2. Taken \subseteq TailsOf(Conv)'
    BY <1>1 DEF TailsOf
  <2> QED
    BY <2>1, <2>2 DEF TailsOf
<1>3. /\ used' \subseteq used \ {}
      /\ TailsOf(Conv) \cup Taken \subseteq TailsOf(Conv)' \cup Taken' \cup {}
  BY <1>2
<1> QED
  BY <1>3, StillNone

(* A tail given back is nobody's.                                          *)
LEMMA GivenBack ==
  ASSUME Typed, NoneLost, NEW c \in Conv, tail' = [tail EXCEPT ![c] = <<>>],
         used' = used \ Elems(tail[c]), UNCHANGED <<indexed, place>>, Taken \subseteq Taken'
  PROVE  NoneLost'
<1>1. \A d \in Conv \ {c} : tail'[d] = tail[d]
  BY DEF Typed, StateTyped, ConvTyped
<1>2. TailsOf(Conv) \subseteq TailsOf(Conv)' \cup Elems(tail[c])
  <2>1. ASSUME NEW d \in Conv PROVE Elems(tail[d]) \subseteq TailsOf(Conv)' \cup Elems(tail[c])
    BY <1>1 DEF TailsOf
  <2> QED
    BY <2>1 DEF TailsOf
<1>3. /\ used' \subseteq used \ Elems(tail[c])
      /\ TailsOf(Conv) \cup Taken \subseteq TailsOf(Conv)' \cup Taken' \cup Elems(tail[c])
  BY <1>2
<1> QED
  BY <1>3, StillNone

(* Where nothing is moved to the host.                                     *)
LEMMA StaysOnDevice ==
  ASSUME Stages, ~Explicit
  PROVE  ~Roomy /\ ~PrepareDemote /\ ~Demote /\ ~DemoteFails /\ ~DemoteIdle /\ ~NoHostRoom
         /\ ~EvictHostToDisk /\ ~SwitchExplicit
BY DEF Stages, StageMoves, Roomy, PrepareDemote, Demote, DemoteFails, DemoteIdle, NoHostRoom,
   EvictHostToDisk, SwitchExplicit

(* Without host transfers no step loses a block.                           *)
LEMMA NoneLostStep ==
  ASSUME Typed, OneOwner, Stages, RunningLengths, ~Explicit, NoneLost, [Next]_vars
  PROVE  NoneLost'
<1> DEFINE c == eng.conv
<1>0. eng = Free => At("free")
  BY DEF Free, At
<1>1. /\ EngTyped /\ EngAgrees /\ indexed \subseteq Unit
      /\ ~Allocating /\ ~At("probe") => Taken = {}
  BY TakesLate DEF Typed, StateTyped, MemoryTyped
<1>2. ASSUME UNCHANGED <<indexed, place, used, tail>>, Taken \subseteq Taken' PROVE NoneLost'
  <2>1. /\ used' \subseteq used \ {}
        /\ TailsOf(Conv) \cup Taken \subseteq TailsOf(Conv)' \cup Taken' \cup {}
    BY <1>2 DEF TailsOf
  <2> QED
    BY <1>2, <2>1, StillNone
<1>3. ASSUME At("alloc") \/ At("probe")
      PROVE  /\ At("alloc") => Taken = Elems(eng.out)
             /\ At("probe") => Taken = Reserved
  BY <1>1, <1>3 DEF Taken, Promised, EngAgrees, At, Elems
<1>4. CASE Departing
  <2>1. PICK cs \in SUBSET Conv : Departs(cs) /\ DepartsAside(cs)
    BY <1>4, Departures
  <2>2. Taken \subseteq Taken'
    <3>1. CASE eng' = eng
      BY <3>1 DEF Taken, Promised, Reserved, At
    <3>2. CASE eng' # eng
      <4>1. GrowthFailed \/ SwitchShared \/ Trim \/ \E d \in Conv : Abandon(d) \/ Erase(d)
        BY <1>4, <3>2 DEF Departing, DropLru, EvictHostToDisk
      <4>2. At("abandon") \/ At("switch") \/ At("free")
        BY <1>0, <4>1 DEF GrowthFailed, SwitchShared, Trim, Abandon, Erase
      <4> QED
        BY <1>1, <4>2 DEF At, Allocating
    <3> QED
      BY <3>1, <3>2
  <2>3. CASE Leave(cs)
    <3>1. Evict(ref', TailsOf(cs)) /\ \A d \in Conv \ cs : tail'[d] = tail[d]
      BY <2>3 DEF Leave, Forget, Drop
    <3> QED
      BY <2>2, <3>1, EvictLoses
  <2>4. CASE UNCHANGED <<indexVars, lru, used, hosts, convVars, recent, occupant>>
    BY <1>2, <2>2, <2>4 DEF indexVars, convVars
  <2> QED
    BY <2>1, <2>3, <2>4 DEF Departs
<1>5. CASE EvictUnreferenced \/ Sweep
  <2>1. Evict(ref, {}) /\ tail' = tail
    BY <1>5 DEF EvictUnreferenced, Sweep, convVars
  <2>2. TailsOf({}) = {}
    BY DEF TailsOf
  <2>3. Evict(ref, TailsOf({})) /\ \A d \in Conv \ {} : tail'[d] = tail[d]
    BY <2>1, <2>2
  <2>4. Taken \subseteq Taken'
    <3>1. CASE EvictUnreferenced
      BY <3>1 DEF EvictUnreferenced, Taken, Promised, Reserved, At
    <3>2. CASE Sweep
      BY <1>1, <3>2 DEF Sweep, At, Allocating
    <3> QED
      BY <1>5, <3>1, <3>2
  <2> QED
    BY <2>3, <2>4, EvictLoses
<1>6. CASE Admitting \/ EnterFast \/ EnterGeneral \/ FastTables \/ Serve \/ ServeCold \/ NotServed
           \/ (\E d \in Conv, p \in Stream : Begin(d, p))
           \/ (\E d \in Conv : Prefill(d) \/ Grow(d) \/ EndUnknown(d))
           \/ (\E d \in Conv, x \in Page : Decode(d, x))
  <2>1. UNCHANGED <<indexed, place, used, tail>>
    BY <1>6 DEF Admitting, ChargeSlot, DoNotCharge, Admit, EnterFast, EnterGeneral, FastTables,
       Serve, ServeCold, NotServed, Begin, Prefill, Grow, EndUnknown, Decode, indexVars, convVars
  <2>2. At("charge") \/ At("admit") \/ At("enter") \/ At("tables") \/ At("headers") \/ At("cold")
        \/ At("free")
    BY <1>0, <1>6 DEF Admitting, ChargeSlot, DoNotCharge, Admit, EnterFast, EnterGeneral,
       FastTables, Serve, ServeCold, NotServed, Begin, Prefill, Grow, EndUnknown, Decode
  <2>3. Taken = {}
    BY <1>1, <2>2 DEF At, Allocating
  <2> QED
    BY <1>2, <2>1, <2>3
<1>7. CASE Probe
  <2>1. UNCHANGED <<indexed, place, used, tail>> /\ At("probe") /\ HostHits = {}
    BY <1>7 DEF Probe, convVars
  <2>2. Reserved = {}
    BY <2>1 DEF Typed, PlanAgrees, Reserved
  <2>3. Taken = {}
    BY <1>3, <2>1, <2>2
  <2> QED
    BY <1>2, <2>1, <2>3
<1>8. CASE PreparePromote \/ AllocOne
  <2>1. used' = used \cup {LowestFree} /\ UNCHANGED <<indexed, place, tail>>
    BY <1>8 DEF PreparePromote, AllocOne, indexVars, convVars
  <2>2. Taken \cup {LowestFree} \subseteq Taken'
    <3>1. CASE AllocOne
      <4>1. /\ eng'.out = Append(eng.out, LowestFree) /\ At("alloc")
        BY <1>1, <3>1 DEF AllocOne, EngTyped
      <4>2. eng.out \in Seq(Block)
        BY <1>1, EngIs
      <4>3. Elems(eng'.out) = Elems(eng.out) \cup {LowestFree}
        BY <4>1, <4>2 DEF Elems
      <4> QED
        BY <1>3, <4>1, <4>3 DEF Taken
    <3>2. CASE PreparePromote
      <4>1. PICK u \in Unreserved : eng' = [eng EXCEPT !.plan = @ \cup {<<u, LowestFree>>}]
        BY <3>2 DEF PreparePromote
      <4>2. /\ eng'.plan = eng.plan \cup {<<u, LowestFree>>} /\ At("probe") /\ (At("probe"))'
        BY <1>1, <3>2, <4>1 DEF PreparePromote, At, EngTyped
      <4>3. <<u, LowestFree>>[2] = LowestFree
        OBVIOUS
      <4>4. Reserved' = Reserved \cup {LowestFree}
        BY <4>2, <4>3, Zenon DEF Reserved
      <4> QED
        BY <1>3, <4>2, <4>4 DEF Taken, Promised
    <3> QED
      BY <1>8, <3>1, <3>2
  <2>3. BlocksOf(indexed)' = BlocksOf(indexed) /\ TailsOf(Conv)' = TailsOf(Conv)
    BY <2>1 DEF BlocksOf, OnDevice, TailsOf
  <2> QED
    BY <2>1, <2>2, <2>3 DEF NoneLost
<1>9. CASE Promote
  <2>1. /\ At("probe") /\ UNCHANGED <<indexed, used, tail>> /\ HostHits \subseteq indexed
        /\ place' = [u \in Unit |-> IF Moved(u) THEN Device(Target(u)) ELSE place[u]]
    <3>1. HostHits \subseteq indexed
      <4>1. eng.prompt \in Stream
        BY <1>1, EngIs
      <4>2. /\ Chain(eng.prompt, 0, Hits(eng.prompt)) \in Seq(Unit)
            /\ Len(Chain(eng.prompt, 0, Hits(eng.prompt))) = Hits(eng.prompt)
            /\ Hits(eng.prompt) \in 0..Len(eng.prompt) /\ Len(eng.prompt) \in Nat
        BY <4>1, MatchedIs
      <4>3. \A i \in 1..Hits(eng.prompt) :
              /\ Chain(eng.prompt, 0, Hits(eng.prompt))[i] = Prefix(eng.prompt, i)
              /\ Prefix(eng.prompt, i) \in indexed
        BY <4>1, HitsIs DEF Chain
      <4>4. Matched(eng.prompt) \subseteq indexed
        BY <4>2, <4>3, ElemsIs DEF Matched
      <4> QED
        BY <4>4 DEF HostHits
    <3> QED
      BY <1>9, <3>1 DEF Promote, convVars
  <2>2. ASSUME NEW m \in eng.plan PROVE m[2] \in BlocksOf(indexed)'
    <3>1. m[1] \in HostHits /\ m[1] \in indexed /\ m[1] \in Unit
      BY <1>1, <2>1 DEF Typed, PlanAgrees
    <3>2. Moved(m[1]) /\ Target(m[1]) = m[2]
      <4>1. \A n \in eng.plan : n[1] = m[1] => n = m
        BY DEF OneOwner, TakenApart
      <4> QED
        BY <4>1 DEF Moved, Target
    <3>3. place'[m[1]] = Device(m[2])
      BY <2>1, <3>1, <3>2
    <3>4. OnDevice(m[1])' /\ place'[m[1]][2] = m[2] /\ m[1] \in indexed'
      BY <2>1, <3>1, <3>3 DEF OnDevice, Device
    <3> QED
      BY <3>4 DEF BlocksOf
  <2>3. ASSUME NEW u \in indexed, OnDevice(u) PROVE place[u][2] \in BlocksOf(indexed)'
    <3>1. ~Moved(u)
      BY <2>1, <2>3 DEF Typed, PlanAgrees, Moved, HostHits, OnHost, OnDevice
    <3>2. place'[u] = place[u] /\ u \in indexed'
      BY <1>1, <2>1, <3>1
    <3>3. OnDevice(u)' /\ place'[u][2] = place[u][2]
      BY <2>3, <3>2 DEF OnDevice
    <3> QED
      BY <3>2, <3>3 DEF BlocksOf
  <2>4. Reserved \subseteq BlocksOf(indexed)' /\ BlocksOf(indexed) \subseteq BlocksOf(indexed)'
    <3>1. Reserved \subseteq BlocksOf(indexed)'
      BY <2>2 DEF Reserved
    <3>2. BlocksOf(indexed) \subseteq BlocksOf(indexed)'
      <4> SUFFICES ASSUME NEW b \in BlocksOf(indexed) PROVE b \in BlocksOf(indexed)'
        OBVIOUS
      <4>1. PICK u \in indexed : OnDevice(u) /\ b = place[u][2]
        BY DEF BlocksOf
      <4> QED
        BY <2>3, <4>1
    <3> QED
      BY <3>1, <3>2
  <2>5. Taken = Reserved /\ TailsOf(Conv)' = TailsOf(Conv)
    BY <1>3, <2>1 DEF TailsOf
  <2> QED
    BY <2>1, <2>4, <2>5 DEF NoneLost
<1>10. CASE PromoteFails \/ Exhausted \/ RestoreFails \/ (CommitFails /\ eng.then # "fast")
  <2>1. /\ used' = used \ Taken /\ UNCHANGED <<indexed, place, tail>>
    <3>1. CASE PromoteFails
      BY <1>3, <3>1 DEF PromoteFails, Fail, indexVars, convVars
    <3>2. CASE Exhausted \/ RestoreFails \/ (CommitFails /\ eng.then # "fast")
      BY <1>3, <3>2 DEF Exhausted, RestoreFails, CommitFails, Allocated, Fail, indexVars, convVars
    <3> QED
      BY <1>10, <3>1, <3>2
  <2>2. /\ used' \subseteq used \ Taken
        /\ TailsOf(Conv) \cup Taken \subseteq TailsOf(Conv)' \cup Taken' \cup Taken
    BY <2>1 DEF TailsOf
  <2> QED
    BY <2>1, <2>2, StillNone
<1>11. CASE (CommitFails /\ eng.then = "fast") \/ FastAllocated \/ Grown \/ Install
  <2>1. /\ At("alloc") /\ c \in Conv /\ UNCHANGED <<indexed, place>>
        /\ used' = used \/ used' = used \ {}
        /\ \/ tail' = [tail EXCEPT ![c] = @ \o eng.out]
           \/ tail[c] = <<>> /\ tail' = [tail EXCEPT ![c] = eng.out]
    <3>1. CASE CommitFails /\ eng.then = "fast"
      BY <1>1, <3>1 DEF CommitFails, Fail, EngAgrees, At, indexVars
    <3>2. CASE FastAllocated
      BY <1>1, <3>2 DEF FastAllocated, Allocated, EngAgrees, At, indexVars
    <3>3. CASE Grown
      BY <1>1, <3>3 DEF Grown, Allocated, EngAgrees, At, indexVars
    <3>4. CASE Install
      <4>1. For("tail") /\ c \in Conv
        BY <1>1, <3>4 DEF Install, Allocated, For, Allocating, EngAgrees, At
      <4>2. tail[c] = <<>>
        BY <4>1 DEF Stages, StageList
      <4> QED
        BY <3>4, <4>1, <4>2 DEF Install, Allocated, indexVars
    <3> QED
      BY <1>11, <3>1, <3>2, <3>3, <3>4
  <2>2. used' = used /\ tail[c] \in Seq(Block) /\ eng.out \in Seq(Block) /\ Taken = Elems(eng.out)
    BY <1>1, <1>3, <2>1, NewIs, EngIs
  <2>3. CASE tail' = [tail EXCEPT ![c] = @ \o eng.out]
    <3> DEFINE t == tail[c] \o eng.out
    <3>1. Elems(t) = Elems(tail[c]) \cup Elems(eng.out)
      BY <2>2, ConcatElems
    <3>2. tail' = [tail EXCEPT ![c] = t]
      BY <2>3
    <3> HIDE DEF t
    <3>3. Elems(tail[c]) \cup Taken \subseteq Elems(t)
      BY <2>2, <3>1
    <3> QED
      BY <2>1, <2>2, <3>2, <3>3, TailLoses
  <2>4. CASE tail[c] = <<>> /\ tail' = [tail EXCEPT ![c] = eng.out]
    <3>1. Elems(tail[c]) \cup Taken \subseteq Elems(eng.out)
      BY <2>2, <2>4 DEF Elems
    <3> QED
      BY <2>1, <2>2, <2>4, <3>1, TailLoses
  <2> QED
    BY <2>1, <2>3, <2>4
<1>12. CASE StandOnResident \/ StandOnDisk
  <2>1. /\ At("choose") /\ c \in Conv /\ ReplaceTail /\ UNCHANGED <<indexed, place>>
    BY <1>1, <1>12 DEF StandOnResident, StandOnDisk, EngAgrees, At
  <2>2. Taken = {}
    BY <1>1, <2>1 DEF At, Allocating
  <2> QED
    BY <2>1, <2>2, GivenBack DEF ReplaceTail
<1>13. ASSUME NEW d \in Conv, EndUnderflows(d) PROVE NoneLost'
  <2>1. d \in running \cap known /\ New(d) > Len(tail[d])
    BY <1>13 DEF EndUnderflows
  <2>2. Len(work[d]) <= sealed[d] + Len(tail[d])
    BY <2>1 DEF RunningLengths
  <2>3. /\ New(d) \in Nat /\ Len(work[d]) \in Nat /\ sealed[d] \in Nat /\ Len(tail[d]) \in Nat
        /\ New(d) > 0 => sealed[d] + New(d) = Len(work[d])
    BY NewIs
  <2> QED
    BY <2>1, <2>2, <2>3
<1>14. CASE FreshRead
  <2> DEFINE p == eng.prompt
             first == eng.resume - Len(eng.out)
  <2>1. /\ Seal(c, p, first, eng.out) /\ At("alloc") /\ UNCHANGED tail
        /\ used' = used \ (Duplicates(p, first, eng.out) \cup {})
    BY <1>14 DEF FreshRead, Allocated, convVars
  <2>2. /\ c \in Conv /\ p \in Stream /\ eng.resume \in 0..Len(p) /\ first = Len(list[c])
        /\ Len(list[c]) + Len(eng.out) = eng.resume
    BY <1>14, FreshSeals
  <2>3. eng.out \in Seq(Block) /\ Len(list[c]) \in Nat /\ Len(p) \in Nat
    BY <1>1, <2>2, EngIs DEF Typed, StateTyped, ListsTyped
  <2> HIDE DEF first
  <2>4. first \in Nat /\ (Len(eng.out) > 0 => first + Len(eng.out) <= Len(p))
    <3>1. first + Len(eng.out) = eng.resume
      BY <2>2
    <3>2. eng.resume <= Len(p)
      BY <2>2, <2>3
    <3> QED
      BY <2>2, <2>3, <3>1, <3>2
  <2>5. TailsOf(Conv) \cup Taken \subseteq TailsOf(Conv)' \cup Taken' \cup Elems(eng.out) \cup {}
    BY <1>3, <2>1 DEF TailsOf
  <2> DEFINE none == {}
  <2>6. /\ used' = used \ (Duplicates(p, first, eng.out) \cup none)
        /\ TailsOf(Conv) \cup Taken
             \subseteq TailsOf(Conv)' \cup Taken' \cup Elems(eng.out) \cup none
    BY <2>1, <2>5
  <2> HIDE DEF none
  <2>7. NoneLost /\ indexed \subseteq Unit
    BY <1>1 DEF Typed, StateTyped, MemoryTyped
  <2>8. Seal(c, p, first, eng.out) /\ p \in Stream
    BY <2>1, <2>2
  <2> HIDE DEF p
  <2> QED
    BY ONLY <2>3, <2>4, <2>6, <2>7, <2>8, SealLoses
<1>15. ASSUME NEW d \in Conv, End(d) PROVE NoneLost'
  <2>1. PICK blocks, kept, spare :
           /\ blocks \in Seq(Block) /\ kept \in Seq(Block)
           /\ Len(blocks) = New(d)
           /\ Elems(tail[d]) = Elems(blocks) \cup Elems(kept) \cup spare
           /\ Seal(d, work[d], sealed[d], blocks)
           /\ used' = used \ (Duplicates(work[d], sealed[d], blocks) \cup spare)
           /\ tail' = [tail EXCEPT ![d] = kept]
    BY <1>15, EndCut
  <2>2. /\ work[d] \in Stream /\ sealed[d] \in Nat /\ New(d) \in Nat /\ Len(work[d]) \in Nat
        /\ New(d) > 0 => sealed[d] + New(d) = Len(work[d])
    BY NewIs
  <2>3. Len(blocks) > 0 => sealed[d] + Len(blocks) <= Len(work[d])
    BY <2>1, <2>2
  <2>4. tail'[d] = kept /\ \A e \in Conv \ {d} : tail'[e] = tail[e]
    BY <2>1 DEF Typed, StateTyped, ConvTyped
  <2>5. TailsOf(Conv) \subseteq TailsOf(Conv)' \cup Elems(blocks) \cup spare
    <3>1. ASSUME NEW e \in Conv
          PROVE  Elems(tail[e]) \subseteq TailsOf(Conv)' \cup Elems(blocks) \cup spare
      BY <2>1, <2>4 DEF TailsOf
    <3> QED
      BY <3>1 DEF TailsOf
  <2>6. Taken = {}
    BY <1>1, <1>15 DEF End, Free, At, Allocating
  <2>7. TailsOf(Conv) \cup Taken \subseteq TailsOf(Conv)' \cup Taken' \cup Elems(blocks) \cup spare
    BY <2>5, <2>6
  <2> QED
    BY <1>1, <2>1, <2>2, <2>3, <2>7, SealLoses
<1>16. CASE UNCHANGED vars
  BY <1>2, <1>16 DEF vars, indexVars, convVars, Taken, Promised, Reserved, At
<1> QED
  BY <1>4, <1>5, <1>6, <1>7, <1>8, <1>9, <1>10, <1>11, <1>12, <1>13, <1>14, <1>15, <1>16,
     StaysOnDevice
  DEF Next, Engine, MakingRoom, Beginning, Departing

(* Each is counted once.                                                   *)
LEMMA OwnedSizes ==
  ASSUME Typed, OneOwner, NoneLost
  PROVE  OwnedOnce
<1> DEFINE D == {u \in indexed : OnDevice(u)}
           B == BlocksOf(indexed)
           T == TailsOf(Conv)
           O == Elems(eng.out)
           R == Promised
<1>1. EngTyped /\ EngAgrees /\ indexed \subseteq Unit /\ eng.out \in Seq(Block)
      /\ Len(eng.out) \in Nat
  BY EngIs DEF Typed, StateTyped, MemoryTyped
<1>2. IsFiniteSet(used)
  BY BooksAre DEF Typed, StateTyped
<1>3. B \subseteq used
  <2> SUFFICES ASSUME NEW b \in B PROVE b \in used
    OBVIOUS
  <2>1. PICK u \in indexed : OnDevice(u) /\ b = place[u][2]
    BY DEF BlocksOf
  <2> QED
    BY <1>1, <2>1 DEF OneOwner, UnitsApart
<1>4. T \subseteq used /\ O \cup R \subseteq used
  BY DEF OneOwner, TailsApart, TakenApart, TailsOf, Taken
<1>5. B \cap (T \cup O \cup R) = {}
  <2> SUFFICES ASSUME NEW b \in B PROVE b \notin T \cup O \cup R
    OBVIOUS
  <2>1. PICK u \in indexed : OnDevice(u) /\ b = place[u][2]
    BY DEF BlocksOf
  <2> QED
    BY <1>1, <2>1 DEF OneOwner, UnitsApart, Taken
<1>6. T \cap (O \cup R) = {}
  BY DEF OneOwner, TailsApart, TailsOf, Taken
<1>7. O \cap R = {}
  <2>1. CASE At("probe")
    <3>1. eng.out = <<>>
      BY <1>1, <2>1 DEF EngAgrees, At
    <3> QED
      BY <3>1 DEF Elems
  <2>2. CASE ~At("probe")
    BY <2>2 DEF Promised
  <2> QED
    BY <2>1, <2>2
<1>8. used = B \cup T \cup O \cup R
  BY <1>3, <1>4 DEF NoneLost, Taken
<1>9. IsFiniteSet(B) /\ IsFiniteSet(T) /\ IsFiniteSet(O) /\ IsFiniteSet(R)
  BY <1>2, <1>3, <1>4, FS_Subset
(* A unit on the device for each of its blocks. *)
<1>10. Cardinality(D) = Cardinality(B)
  <2> DEFINE f == [b \in B |-> CHOOSE u \in D : place[u][2] = b]
  <2>1. \A b \in B : \E u \in D : place[u][2] = b
    BY DEF BlocksOf
  <2>2. \A b \in B : f[b] \in D /\ place[f[b]][2] = b
    BY <2>1
  <2>3. f \in [B -> D]
    BY <2>2
  <2>4. \A u \in D : \E b \in B : f[b] = u
    <3> SUFFICES ASSUME NEW u \in D PROVE \E b \in B : f[b] = u
      OBVIOUS
    <3>1. place[u][2] \in B
      BY DEF BlocksOf
    <3>2. f[place[u][2]] \in D /\ place[f[place[u][2]]][2] = place[u][2]
      BY <2>2, <3>1
    <3>3. f[place[u][2]] = u
      <4> DEFINE v == f[place[u][2]]
      <4>1. v \in D /\ place[v][2] = place[u][2]
        BY <3>2
      <4> HIDE DEF v, f
      <4>2. v \in Unit /\ u \in Unit /\ OnDevice(v) /\ OnDevice(u)
        BY <1>1, <4>1
      <4>3. v = u
        BY <4>1, <4>2 DEF OneOwner, UnitsApart
      <4> QED
        BY <4>3 DEF v
    <3> QED
      BY <3>1, <3>3
  <2>5. \A x, y \in B : f[x] = f[y] => x = y
    BY <2>2
  <2> HIDE DEF f
  <2> QED
    BY <1>9, <2>3, <2>4, <2>5, SameSize
(* A place of a tail for each of theirs. *)
<1>11. Cardinality(TailPlaces) = Cardinality(T)
  <2> DEFINE f == [b \in T |-> CHOOSE q \in TailPlaces : tail[q[1]][q[2]] = b]
  <2>0. \A c \in Conv : \A i \in DOMAIN tail[c] : <<c, i>> \in TailPlaces
    <3> TAKE c \in Conv
    <3> TAKE i \in DOMAIN tail[c]
    <3>1. <<c, i>> \in {c} \X DOMAIN tail[c]
      OBVIOUS
    <3> QED
      BY <3>1 DEF TailPlaces
  <2>1. \A b \in T : \E q \in TailPlaces : tail[q[1]][q[2]] = b
    <3> SUFFICES ASSUME NEW b \in T PROVE \E q \in TailPlaces : tail[q[1]][q[2]] = b
      OBVIOUS
    <3>1. PICK c \in Conv : b \in Elems(tail[c])
      BY DEF TailsOf
    <3>2. PICK i \in DOMAIN tail[c] : tail[c][i] = b
      BY <3>1 DEF Elems
    <3>3. <<c, i>> \in TailPlaces /\ <<c, i>>[1] = c /\ <<c, i>>[2] = i
      BY <2>0, <3>2
    <3> QED
      BY <3>2, <3>3
  <2>2. \A b \in T : f[b] \in TailPlaces /\ tail[f[b][1]][f[b][2]] = b
    BY <2>1
  <2>3. f \in [T -> TailPlaces]
    BY <2>2
  <2>4. \A q \in TailPlaces : \E b \in T : f[b] = q
    <3> SUFFICES ASSUME NEW q \in TailPlaces PROVE \E b \in T : f[b] = q
      OBVIOUS
    <3>1. PICK c \in Conv : q \in {c} \X DOMAIN tail[c]
      BY DEF TailPlaces
    <3>2. PICK i \in DOMAIN tail[c] : q = <<c, i>>
      BY <3>1
    <3>3. tail[c][i] \in Elems(tail[c]) /\ tail[c][i] \in T
      BY <3>2 DEF Elems, TailsOf
    <3> DEFINE r == f[tail[c][i]]
    <3>4. r \in TailPlaces /\ tail[r[1]][r[2]] = tail[c][i]
      BY <2>2, <3>3
    <3> HIDE DEF r, f
    <3>5. PICK d \in Conv : r \in {d} \X DOMAIN tail[d]
      BY <3>4 DEF TailPlaces
    <3>6. PICK j \in DOMAIN tail[d] : r = <<d, j>>
      BY <3>5
    <3>7. tail[d][j] = tail[c][i]
      BY <3>4, <3>6
    <3>8. tail[d][j] \in Elems(tail[d])
      BY <3>6 DEF Elems
    <3>9. d = c
      BY <3>3, <3>7, <3>8 DEF OneOwner, TailsApart
    <3>10. j = i
      BY <3>2, <3>6, <3>7, <3>9 DEF OneOwner, TailsApart, Once
    <3>11. r = q
      BY <3>2, <3>6, <3>9, <3>10
    <3> QED
      BY <3>3, <3>11 DEF r
  <2>5. \A x, y \in T : f[x] = f[y] => x = y
    BY <2>2
  <2> HIDE DEF f
  <2> QED
    BY <1>9, <2>3, <2>4, <2>5, SameSize
<1>12. Cardinality(O) = Len(eng.out)
  <2> DEFINE S == 1..Len(eng.out)
  <2>1. IsFiniteSet(S) /\ Cardinality(S) = Len(eng.out)
    BY <1>1, FS_Interval
  <2>2. DOMAIN eng.out = S
    BY <1>1
  <2>3. \A b : b \in O <=> \E i \in S : eng.out[i] = b
    BY <1>1, ElemsIs
  <2> DEFINE f == [i \in S |-> eng.out[i]]
  <2>4. f \in [S -> O]
    BY <2>3
  <2>5. \A b \in O : \E i \in S : f[i] = b
    BY <2>3
  <2>6. \A i, j \in S : f[i] = f[j] => i = j
    BY <2>2 DEF OneOwner, TakenApart, Once
  <2> HIDE DEF f, S
  <2>7. Cardinality(O) = Cardinality(S)
    BY <2>1, <2>4, <2>5, <2>6, SameSize
  <2> QED
    BY <2>1, <2>7
<1> HIDE DEF B, T, O, R, D
<1>13. /\ Cardinality(O \cup R) = Cardinality(O) + Cardinality(R) /\ IsFiniteSet(O \cup R)
  <2>1. Cardinality(O \cup R) = Cardinality(O) + Cardinality(R) - Cardinality(O \cap R)
        /\ IsFiniteSet(O \cup R)
    BY <1>9, FS_Union
  <2>2. Cardinality(O) \in Nat /\ Cardinality(R) \in Nat /\ Cardinality(O \cap R) = 0
    BY <1>7, <1>9, FS_CardinalityType, FS_EmptySet
  <2> QED
    BY <2>1, <2>2
<1>14. /\ Cardinality(T \cup (O \cup R)) = Cardinality(T) + Cardinality(O \cup R)
       /\ IsFiniteSet(T \cup (O \cup R))
  <2>1. Cardinality(T \cup (O \cup R))
          = Cardinality(T) + Cardinality(O \cup R) - Cardinality(T \cap (O \cup R))
        /\ IsFiniteSet(T \cup (O \cup R))
    BY <1>9, <1>13, FS_Union
  <2>2. Cardinality(T) \in Nat /\ Cardinality(O \cup R) \in Nat
        /\ Cardinality(T \cap (O \cup R)) = 0
    BY <1>6, <1>9, <1>13, FS_CardinalityType, FS_EmptySet
  <2> QED
    BY <2>1, <2>2
<1>15. Cardinality(B \cup (T \cup (O \cup R))) = Cardinality(B) + Cardinality(T \cup (O \cup R))
  <2>1. Cardinality(B \cup (T \cup (O \cup R)))
          = Cardinality(B) + Cardinality(T \cup (O \cup R)) - Cardinality(B \cap (T \cup (O \cup R)))
    BY <1>9, <1>14, FS_Union
  <2>2. B \cap (T \cup (O \cup R)) = {}
    BY <1>5
  <2>3. Cardinality(B) \in Nat /\ Cardinality(T \cup (O \cup R)) \in Nat
        /\ Cardinality(B \cap (T \cup (O \cup R))) = 0
    BY <1>9, <1>14, <2>2, FS_CardinalityType, FS_EmptySet
  <2> QED
    BY <2>1, <2>3
<1>16. used = B \cup (T \cup (O \cup R))
  BY <1>8
<1>17. Cardinality(used) = Cardinality(D) + Cardinality(TailPlaces) + Len(eng.out) + Cardinality(R)
  <2>1. Cardinality(B) \in Nat /\ Cardinality(T) \in Nat /\ Cardinality(O) \in Nat
        /\ Cardinality(R) \in Nat
    BY <1>9, FS_CardinalityType
  <2>2. Cardinality(used)
          = Cardinality(B) + (Cardinality(T) + (Cardinality(O) + Cardinality(R)))
    BY <1>13, <1>14, <1>15, <1>16
  <2>3. Cardinality(used) = Cardinality(B) + Cardinality(T) + Cardinality(O) + Cardinality(R)
    BY ONLY <2>1, <2>2
  <2> QED
    BY <1>10, <1>11, <1>12, <2>3
<1> QED
  BY <1>8, <1>17 DEF OwnedOnce, B, T, O, R, D

(* Without host transfers and without replay: every block in use is a      *)
(* sealed unit's, a tail's, or the request's at hand, it is only one of    *)
(* them, and none is lost, whichever begin fails (rollback,                *)
(* release_unsealed and merge-on-seal on every path), for as long as no    *)
(* request has been served cold.                                           *)
THEOREM BlocksOwned ==
  ASSUME ~Replay, ~Explicit
  PROVE  Spec => [](cold = 0 => OwnedOnce)
<1> DEFINE I == cold = 0 => NoneLost
<1>1. Init => I
  <2> SUFFICES ASSUME Init PROVE NoneLost
    OBVIOUS
  <2> QED
    BY DEF Init, InitResident, NoneLost
<1>2. Pool /\ Stages /\ Lengths /\ I /\ [Next]_vars => I'
  <2> SUFFICES ASSUME Pool, Stages, Lengths, I, [Next]_vars, cold' = 0 PROVE NoneLost'
    OBVIOUS
  <2>1. cold = 0
    BY ColdCounts DEF Lengths
  <2> QED
    BY <2>1, NoneLostStep DEF Pool, Lengths
<1>3. Pool /\ I => (cold = 0 => OwnedOnce)
  BY OwnedSizes DEF Pool
<1>4. Spec => [](Pool /\ Stages /\ Lengths)
  BY LengthsAlways
<1> QED
  BY <1>1, <1>2, <1>3, <1>4, PTL DEF Spec

(* A server that serves no failed begin cold never loses a block.          *)
THEOREM BlocksAlwaysOwned ==
  ASSUME ~Replay, ~Explicit, MaxCold = 0
  PROVE  Spec => []OwnedOnce
<1> DEFINE Z == cold = 0
<1>1. Init => Z
  BY DEF Init
<1>2. Z /\ [Next]_vars => Z'
  BY ColdCounts DEF ServeCold
<1>3. Spec => [](Z => OwnedOnce)
  BY BlocksOwned
<1> QED
  BY <1>1, <1>2, <1>3, PTL DEF Spec

-----------------------------------------------------------------------------
(* The host gives up last copies.                                          *)

(* In a list that repeats nothing a unit occurs once or never.             *)
LEMMA OnceOccurs ==
  ASSUME NEW s \in Seq(Unit), Once(s), NEW u
  PROVE  Occurrences(s, u) \in {0, 1} /\ (Occurrences(s, u) = 0 <=> u \notin Elems(s))
<1>1. /\ IsFiniteSet(Places(s, u)) /\ Occurrences(s, u) \in Nat
      /\ Occurrences(s, u) = 0 <=> u \notin Elems(s)
  BY PlacesAre
<1>2. ASSUME u \in Elems(s) PROVE Occurrences(s, u) = 1
  <2>1. PICK i \in DOMAIN s : s[i] = u
    BY <1>2 DEF Elems
  <2>2. Places(s, u) = {i}
    BY <2>1 DEF Places, Once
  <2> QED
    BY <2>2, FS_Singleton DEF Occurrences
<1> QED
  BY <1>1, <1>2

(* Making room on the host gives up the last copy of a unit only once the  *)
(* disk has it, whatever was demoted, read back and spilled before: the    *)
(* count the pool reads there is what the leaving list alone names         *)
(* (evict_oldest_host_to_disk_with).                                       *)
THEOREM SpilledStored == ASSUME ~Replay PROVE Spec => SpilledIsStored
<1> DEFINE Spill == \A u \in Unit :
             cold = 0 /\ At("hostroom") /\ OnHost(u) /\ ref[u] > 0 /\ place'[u] = Nowhere
               => u \in stored'
<1>1. Pool /\ Stages /\ Lengths /\ [Next]_vars => [Spill]_vars
  <2> SUFFICES ASSUME Pool, Stages, Lengths, [Next]_vars,
                      NEW u \in Unit, cold = 0, At("hostroom"), OnHost(u), ref[u] > 0,
                      place'[u] = Nowhere
               PROVE  u \in stored'
    OBVIOUS
  <2>1. place'[u] # place[u]
    BY DEF OnHost, Nowhere
  <2>2. EvictHostToDisk
    <3>1. ~Aside \/ Admitting \/ EvictUnreferenced \/ Sweep \/ PreparePromote \/ Promote
      BY <2>1 DEF Aside, NoHostRoom, Roomy, PrepareDemote, DemoteFails, SwitchExplicit,
         EnterFast, EnterGeneral, PromoteFails, AllocOne, Exhausted, RestoreFails, CommitFails,
         FastTables, NotServed, Begin, Prefill, Grow, vars, indexVars
    <3>2. eng.at = "hostroom" /\ eng # Free
      BY DEF At, Free
    <3> QED
      BY <3>1, <3>2 DEF Next, Engine, MakingRoom, Beginning, Admitting, Aside, Allocated,
         EvictUnreferenced, DropLru, RoomWanted, Demote, DemoteIdle, ChargeSlot, DoNotCharge, Admit,
         SwitchShared, Sweep, Probe, PreparePromote, Promote, StandOnResident, StandOnDisk,
         FastAllocated, FreshRead, Install, CommitFails, Serve, ServeCold, Grown, GrowthFailed,
         End, EndUnderflows, EndUnknown, Abandon, Decode, Erase, Trim, At
  <2> DEFINE c == recent[First(Spillable)]
  <2>3. /\ Typed /\ Indexed /\ ListsOnce
        /\ list \in [Conv -> Seq(Unit)] /\ recent \in Seq(Conv) /\ ListsTyped
    BY DEF Pool, Lengths, Typed, StateTyped, ListsTyped, OrderTyped
  <2>4. c \in Conv /\ stored' = stored \cup LastCopies(c) /\ Leave({c})
    <3>1. Spillable \subseteq Elems(recent) /\ Spillable # {}
      BY <2>2 DEF EvictHostToDisk, Spillable
    <3> QED
      BY <2>2, <2>3, <3>1, FirstIs DEF EvictHostToDisk
  <2> HIDE DEF c
  <2>5. u \in Evictable(ref') /\ ref'[u] = ref[u] - Naming({c}, u)
    <3>1. /\ place' = [v \in Unit |-> IF v \in Evictable(ref') THEN Nowhere ELSE place[v]]
          /\ ref' = [v \in Unit |-> ref[v] - Naming({c}, v)]
      BY <2>4 DEF Leave, Forget, Evict
    <3> QED
      BY <2>1, <3>1
  <2>6. ref'[u] = 0
    BY <2>5 DEF Evictable
  <2>7. Naming({c}, u) = Occurrences(list[c], u)
    BY <2>3, <2>4, TimesOne, ListsAre DEF Naming, Times, Named
  <2>8. Occurrences(list[c], u) \in {0, 1} /\ (Occurrences(list[c], u) = 0 <=> u \notin Elems(list[c]))
    BY <2>3, <2>4, OnceOccurs DEF ListsOnce
  <2>9. ref[u] \in Nat
    <3>1. Lists(list)
      BY <2>3, ListsAre
    <3>2. ref[u] = Times(list, Conv, u)
      BY <2>3, CountedIs DEF Indexed
    <3>3. Times(list, Conv, u) \in Nat
      BY <3>1, TimesIs
    <3> QED
      BY <3>2, <3>3
  <2>10. ref[u] = 1 /\ u \in Elems(list[c])
    BY <2>5, <2>6, <2>7, <2>8, <2>9
  <2> QED
    BY <2>4, <2>10 DEF LastCopies
<1>2. Spec => [](Pool /\ Stages /\ Lengths)
  BY LengthsAlways
<1>3. Spec => [][Spill]_vars
  BY <1>1, <1>2, PTL DEF Spec
<1> QED
  BY <1>3 DEF SpilledIsStored
=============================================================================
