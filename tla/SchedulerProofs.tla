--------------------------- MODULE SchedulerProofs ---------------------------
(* Scheduler for any number of requests, conversations, slots and pages.    *)
EXTENDS Scheduler, Functions, FiniteSetTheorems, WellFoundedInduction, TLAPS

-----------------------------------------------------------------------------
(* Induction and recursion over the naturals, and over sequences.           *)

(* Induction, over a set instead of a predicate.                            *)
LEMMA SetInduction ==
  ASSUME NEW S, 0 \in S, \A n \in Nat : n \in S => n + 1 \in S
  PROVE  Nat \subseteq S
<1> DEFINE R == OpToRel(<, Nat)
<1>1. IsWellFoundedOn(R, Nat)
  BY NatLessThanWellFounded
<1>2. \A x, y \in Nat : x < y => <<x, y>> \in R
  BY DEF OpToRel
<1> HIDE DEF R
<1>3. SUFFICES ASSUME Nat \ S # {} PROVE FALSE
  OBVIOUS
<1>4. \E x \in Nat \ S : \A y \in Nat \ S : ~ (<<y, x>> \in R)
  <2>1. Nat \ S \subseteq Nat
    OBVIOUS
  <2> QED
    BY <1>1, <1>3, <2>1, WFMin
<1>5. PICK n \in Nat \ S : \A y \in Nat \ S : ~ (<<y, n>> \in R)
  BY <1>4
<1>6. n # 0 /\ n - 1 \in Nat /\ n - 1 < n
  OBVIOUS
<1>7. <<n - 1, n>> \in R
  BY <1>2, <1>6
<1>8. n - 1 \in S
  BY <1>5, <1>6, <1>7
<1> QED
  BY <1>6, <1>8

(* A recursion of n steps over a set A defines a function.                  *)
LEMMA Recursion ==
  ASSUME NEW A, NEW a \in A, NEW n \in Nat, NEW G \in [1..n -> [A -> A]]
  PROVE  \E f \in [0..n -> A] : f[0] = a /\ \A i \in 1..n : f[i] = G[i][f[i - 1]]
<1> DEFINE Upto(k) == k <= n => \E f \in [0..k -> A] : f[0] = a /\ \A i \in 1..k : f[i] = G[i][f[i - 1]]
           S == {k \in Nat : Upto(k)}
<1>1. 0 \in S
  <2>1. /\ [i \in 0..0 |-> a] \in [0..0 -> A] /\ [i \in 0..0 |-> a][0] = a
        /\ \A i \in 1..0 : [j \in 0..0 |-> a][i] = G[i][[j \in 0..0 |-> a][i - 1]]
    OBVIOUS
  <2> QED
    BY <2>1
<1>2. ASSUME NEW k \in Nat, k \in S PROVE k + 1 \in S
  <2> SUFFICES ASSUME k + 1 <= n
               PROVE  \E f \in [0..k + 1 -> A] : f[0] = a /\ \A i \in 1..k + 1 : f[i] = G[i][f[i - 1]]
    OBVIOUS
  <2>1. PICK f \in [0..k -> A] : f[0] = a /\ \A i \in 1..k : f[i] = G[i][f[i - 1]]
    BY <1>2
  <2> DEFINE g == [i \in 0..k + 1 |-> IF i <= k THEN f[i] ELSE G[k + 1][f[k]]]
  <2>2. g \in [0..k + 1 -> A]
    <3>1. G[k + 1] \in [A -> A] /\ f[k] \in A
      BY <2>1
    <3> QED BY <3>1, <2>1
  <2>3. g[0] = a /\ \A i \in 1..k + 1 : g[i] = G[i][g[i - 1]]
    BY <2>1
  <2> QED
    BY <2>2, <2>3
<1> HIDE DEF S
<1>3. Nat \subseteq S
  BY <1>1, <1>2, SetInduction
<1> QED
  BY <1>3 DEF S

(* No member stands twice.                                                  *)
Distinct(s) == \A i, k \in DOMAIN s : s[i] = s[k] => i = k

(* A sequence that grows by a new member.                                   *)
LEMMA AppendKeeps ==
  ASSUME NEW T, NEW s \in Seq(T), NEW x \in T, Distinct(s), x \notin Elems(s)
  PROVE  /\ Append(s, x) \in Seq(T) /\ Distinct(Append(s, x))
         /\ Elems(Append(s, x)) = Elems(s) \cup {x}
<1>1. Append(s, x) \in Seq(T) /\ Len(Append(s, x)) = Len(s) + 1
  OBVIOUS
<1>2. \A i \in 1..Len(s) : Append(s, x)[i] = s[i]
  OBVIOUS
<1>3. Append(s, x)[Len(s) + 1] = x
  OBVIOUS
<1>4. \A i \in 1..Len(s) : s[i] # x
  BY DEF Elems
<1>5. Distinct(Append(s, x))
  BY <1>1, <1>2, <1>3, <1>4 DEF Distinct
<1>6. Elems(Append(s, x)) = Elems(s) \cup {x}
  <2>1. DOMAIN Append(s, x) = (1..Len(s)) \cup {Len(s) + 1} /\ DOMAIN s = 1..Len(s)
    BY <1>1
  <2> QED
    BY <2>1, <1>2, <1>3 DEF Elems
<1> QED
  BY <1>1, <1>5, <1>6

(* Two that have nothing in common, one behind the other.                   *)
LEMMA JoinKeeps ==
  ASSUME NEW T, NEW s \in Seq(T), NEW r \in Seq(T), Distinct(s), Distinct(r),
         Elems(s) \cap Elems(r) = {}
  PROVE  s \o r \in Seq(T) /\ Distinct(s \o r) /\ Elems(s \o r) = Elems(s) \cup Elems(r)
<1>1. s \o r \in Seq(T) /\ Len(s \o r) = Len(s) + Len(r)
  OBVIOUS
<1>2. \A i \in 1..Len(s) : (s \o r)[i] = s[i]
  OBVIOUS
<1>3. \A i \in 1..Len(r) : (s \o r)[Len(s) + i] = r[i]
  OBVIOUS
<1>4. \A i \in (Len(s) + 1)..(Len(s) + Len(r)) :
        i - Len(s) \in 1..Len(r) /\ (s \o r)[i] = r[i - Len(s)]
  <2> TAKE i \in (Len(s) + 1)..(Len(s) + Len(r))
  <2>1. PICK k \in 1..Len(r) : i = Len(s) + k /\ i - Len(s) = k
    <3>1. i - Len(s) \in 1..Len(r) /\ i = Len(s) + (i - Len(s))
      OBVIOUS
    <3> QED
      BY <3>1
  <2>2. (s \o r)[Len(s) + k] = r[k]
    BY <1>3
  <2> QED
    BY <2>1, <2>2, Zenon
<1>5. \A i \in 1..Len(s), k \in 1..Len(r) : s[i] # r[k]
  BY DEF Elems
<1>6. DOMAIN (s \o r) = (1..Len(s)) \cup ((Len(s) + 1)..(Len(s) + Len(r)))
  BY <1>1
<1>7. Distinct(s \o r)
  <2> SUFFICES ASSUME NEW i \in DOMAIN (s \o r), NEW k \in DOMAIN (s \o r),
                      (s \o r)[i] = (s \o r)[k]
               PROVE  i = k
    BY DEF Distinct
  <2>1. CASE i \in 1..Len(s) /\ k \in 1..Len(s)
    BY <2>1, <1>2 DEF Distinct
  <2>2. CASE i \notin 1..Len(s) /\ k \notin 1..Len(s)
    <3>1. i - Len(s) = k - Len(s)
      BY <2>2, <1>4, <1>6 DEF Distinct
    <3> QED
      BY <3>1, <1>6
  <2>3. CASE i \in 1..Len(s) /\ k \notin 1..Len(s)
    BY <2>3, <1>2, <1>4, <1>5, <1>6
  <2>4. CASE i \notin 1..Len(s) /\ k \in 1..Len(s)
    BY <2>4, <1>2, <1>4, <1>5, <1>6
  <2> QED
    BY <2>1, <2>2, <2>3, <2>4
<1>8. Elems(s \o r) = Elems(s) \cup Elems(r)
  <2>1. \A x \in Elems(s \o r) : x \in Elems(s) \cup Elems(r)
    BY <1>2, <1>4, <1>6 DEF Elems
  <2>2. \A x \in Elems(s) : x \in Elems(s \o r)
    BY <1>2, <1>6 DEF Elems
  <2>3. ASSUME NEW k \in 1..Len(r) PROVE r[k] \in Elems(s \o r)
    <3>1. Len(s) + k \in DOMAIN (s \o r)
      BY <1>6
    <3> QED
      BY <3>1, <1>3 DEF Elems
  <2>4. \A x \in Elems(r) : x \in Elems(s \o r)
    BY <2>3 DEF Elems
  <2> QED
    BY <2>1, <2>2, <2>4
<1> QED
  BY <1>1, <1>7, <1>8

(* A piece of a sequence.                                                   *)
LEMMA PieceKeeps ==
  ASSUME NEW T, NEW s \in Seq(T), Distinct(s), NEW a \in 1..(Len(s) + 1), NEW b \in 0..Len(s)
  PROVE  /\ SubSeq(s, a, b) \in Seq(T) /\ Distinct(SubSeq(s, a, b))
         /\ Elems(SubSeq(s, a, b)) = {s[i] : i \in a..b}
<1> DEFINE r == SubSeq(s, a, b)
<1>1. r \in Seq(T) /\ Len(r) = IF a <= b THEN b - a + 1 ELSE 0
  OBVIOUS
<1>2. \A i \in 1..Len(r) : i + a - 1 \in DOMAIN s /\ i + a - 1 \in a..b /\ r[i] = s[i + a - 1]
  OBVIOUS
<1>3. \A i \in a..b : i - a + 1 \in 1..Len(r) /\ (i - a + 1) + a - 1 = i
  BY <1>1
<1> HIDE DEF r
<1>4. Distinct(r)
  <2> SUFFICES ASSUME NEW i \in 1..Len(r), NEW k \in 1..Len(r), r[i] = r[k] PROVE i = k
    BY <1>1 DEF Distinct
  <2>1. i + a - 1 = k + a - 1
    BY <1>2 DEF Distinct
  <2> QED
    BY <2>1, <1>1
<1>5. Elems(r) = {s[i] : i \in a..b}
  <2>1. \A x \in Elems(r) : x \in {s[i] : i \in a..b}
    BY <1>1, <1>2 DEF Elems
  <2>2. ASSUME NEW i \in a..b PROVE s[i] \in Elems(r)
    <3>1. i - a + 1 \in DOMAIN r /\ r[i - a + 1] = s[i]
      BY <1>1, <1>2, <1>3
    <3> QED
      BY <3>1 DEF Elems
  <2> QED
    BY <2>1, <2>2
<1> QED
  BY <1>1, <1>4, <1>5 DEF r

(* Without leaves the others, in place.                                     *)
LEMMA WithoutKeeps ==
  ASSUME NEW T, NEW s \in Seq(T), NEW S, Distinct(s)
  PROVE  /\ Without(s, S) \in Seq(T) /\ Distinct(Without(s, S))
         /\ Elems(Without(s, S)) = Elems(s) \ S
<1> DEFINE A == Seq(T)
           Then(x, i) == IF s[i] \in S THEN x ELSE Append(x, s[i])
           G == [i \in 1..Len(s) |-> [x \in A |-> Then(x, i)]]
           kept == CHOOSE f : f = [n \in 0..Len(s) |->
                      IF n = 0 THEN <<>> ELSE IF s[n] \in S THEN f[n - 1] ELSE Append(f[n - 1], s[n])]
<1>0. Without(s, S) = kept[Len(s)]
  BY DEF Without
<1>1. \A x \in A, i \in 1..Len(s) : Then(x, i) \in A
  OBVIOUS
<1>2. <<>> \in A /\ Len(s) \in Nat
  OBVIOUS
<1> HIDE DEF A, Then
<1>3. PICK f \in [0..Len(s) -> A] : f[0] = <<>> /\ \A i \in 1..Len(s) : f[i] = G[i][f[i - 1]]
  <2>1. G \in [1..Len(s) -> [A -> A]]
    BY <1>1
  <2> HIDE DEF G
  <2>2. ASSUME NEW n \in Nat, NEW a \in A, NEW H \in [1..n -> [A -> A]]
        PROVE  \E f \in [0..n -> A] : f[0] = a /\ \A i \in 1..n : f[i] = H[i][f[i - 1]]
    BY Recursion, SMT
  <2> QED BY <2>1, <2>2, <1>2, Zenon
<1>4. \A i \in 1..Len(s) : i - 1 \in 0..Len(s) /\ f[i] = Then(f[i - 1], i)
  BY <1>3, <1>2
<1>5. f = [n \in 0..Len(s) |->
                      IF n = 0 THEN <<>> ELSE IF s[n] \in S THEN f[n - 1] ELSE Append(f[n - 1], s[n])]
  <2>1. \A n \in 0..Len(s) : f[n] = IF n = 0 THEN <<>> ELSE IF s[n] \in S THEN f[n - 1] ELSE Append(f[n - 1], s[n])
    <3> SUFFICES ASSUME NEW n \in 0..Len(s), n # 0
                 PROVE f[n] = IF s[n] \in S THEN f[n - 1] ELSE Append(f[n - 1], s[n])
      BY <1>3
    <3>1. n \in 1..Len(s)
      BY <1>2
    <3> QED BY <3>1, <1>4, Zenon DEF Then
  <2> QED BY <2>1
<1>6. kept = [n \in 0..Len(s) |->
                      IF n = 0 THEN <<>> ELSE IF s[n] \in S THEN kept[n - 1] ELSE Append(kept[n - 1], s[n])]
  BY <1>5
<1> HIDE DEF kept
<1>7. kept[0] = <<>> /\ \A n \in 1..Len(s) : kept[n] = Then(kept[n - 1], n)
  <2>1. kept[0] = <<>>
    BY <1>6, <1>2
  <2>2. ASSUME NEW n \in 1..Len(s) PROVE kept[n] = Then(kept[n - 1], n)
    <3>1. n \in 0..Len(s) /\ n # 0
      BY <1>2
    <3>2. kept[n] = IF n = 0 THEN <<>> ELSE IF s[n] \in S THEN kept[n - 1] ELSE Append(kept[n - 1], s[n])
      BY <3>1, <1>6, Zenon
    <3> QED BY <3>1, <3>2, Zenon DEF Then
  <2> QED BY <2>1, <2>2
<1> DEFINE Right(i) == /\ kept[i] \in Seq(T) /\ Distinct(kept[i])
                       /\ Elems(kept[i]) = {s[k] : k \in 1..i} \ S
<1>8. \A i \in Nat : i <= Len(s) => Right(i)
  <2> DEFINE I == {i \in Nat : i <= Len(s) => Right(i)}
  <2>1. 0 \in I
    <3>1. <<>> \in Seq(T) /\ Distinct(<<>>) /\ Elems(<<>>) = {}
      BY DEF Distinct, Elems
    <3>2. {s[k] : k \in 1..0} \ S = {}
      OBVIOUS
    <3>3. Right(0)
      BY <3>1, <3>2, <1>7
    <3> QED
      BY <3>3
  <2>2. ASSUME NEW i \in Nat, i \in I PROVE i + 1 \in I
    <3> SUFFICES ASSUME i + 1 <= Len(s) PROVE Right(i + 1)
      OBVIOUS
    <3>1. Right(i)
      BY <2>2, <1>2
    <3>2. i + 1 \in 1..Len(s) /\ (i + 1) - 1 = i /\ DOMAIN s = 1..Len(s)
      BY <1>2
    <3>3. kept[i + 1] = IF s[i + 1] \in S THEN kept[i] ELSE Append(kept[i], s[i + 1])
      BY <3>2, <1>7 DEF Then
    <3>4. {s[k] : k \in 1..(i + 1)} = {s[k] : k \in 1..i} \cup {s[i + 1]}
      <4>1. 1..(i + 1) = (1..i) \cup {i + 1}
        OBVIOUS
      <4> QED
        BY <4>1
    <3>5. s[i + 1] \in T
      BY <3>2
    <3>6. s[i + 1] \notin {s[k] : k \in 1..i}
      <4> SUFFICES ASSUME NEW k \in 1..i, s[i + 1] = s[k] PROVE FALSE
        OBVIOUS
      <4>1. k \in DOMAIN s /\ i + 1 \in DOMAIN s
        BY <3>2
      <4> QED
        BY <4>1, SMT DEF Distinct
    <3>7. CASE s[i + 1] \in S
      BY <3>1, <3>3, <3>4, <3>7
    <3>8. CASE s[i + 1] \notin S
      <4>1. s[i + 1] \notin Elems(kept[i])
        BY <3>1, <3>6
      <4>2. /\ Append(kept[i], s[i + 1]) \in Seq(T) /\ Distinct(Append(kept[i], s[i + 1]))
            /\ Elems(Append(kept[i], s[i + 1])) = Elems(kept[i]) \cup {s[i + 1]}
        BY <3>1, <3>5, <4>1, AppendKeeps
      <4> QED
        BY <4>2, <3>1, <3>3, <3>4, <3>8
    <3> QED
      BY <3>7, <3>8
  <2> HIDE DEF I
  <2>3. Nat \subseteq I
    BY <2>1, <2>2, SetInduction
  <2> QED
    BY <2>3 DEF I
<1>9. Right(Len(s))
  <2> HIDE DEF Right
  <2> QED
    BY <1>2, <1>8
<1>10. Elems(s) = {s[k] : k \in 1..Len(s)}
  BY DEF Elems
<1> QED
  BY <1>0, <1>9, <1>10

(* A sequence without a member twice is as long as it has members.          *)
LEMMA LenIsCount ==
  ASSUME NEW T, NEW s \in Seq(T), Distinct(s)
  PROVE  IsFiniteSet(Elems(s)) /\ Cardinality(Elems(s)) = Len(s)
<1>1. s \in Bijection(1..Len(s), Elems(s))
  <2>1. s \in [1..Len(s) -> Elems(s)]
    BY DEF Elems
  <2> QED
    BY <2>1 DEF Bijection, Injection, Surjection, IsInjective, Distinct, Elems
<1>2. ExistsBijection(1..Len(s), Elems(s))
  BY <1>1 DEF ExistsBijection
<1>3. IsFiniteSet(1..Len(s)) /\ Cardinality(1..Len(s)) = Len(s)
  <2>1. Len(s) \in Nat
    OBVIOUS
  <2> QED
    BY <2>1, FS_Interval
<1> QED
  BY <1>2, <1>3, FS_Bijection

-----------------------------------------------------------------------------
(* Counting pages.  The fold over conversations counts the pairs of one and *)
(* one of its pages.                                                        *)
Pages == [Conv -> 0..Capacity]
Stack(f, cs) == {x \in cs \X (1..Capacity) : x[2] <= f[x[1]]}

LEMMA StackFinite ==
  ASSUME NEW f \in Pages, NEW cs \in SUBSET Conv
  PROVE  IsFiniteSet(cs) /\ IsFiniteSet(Stack(f, cs)) /\ Cardinality(Stack(f, cs)) \in Nat
<1>1. IsFiniteSet(cs)
  BY ConvAssumption, FS_Subset
<1>2. IsFiniteSet(1..Capacity)
  <2>1. 1 \in Int /\ Capacity \in Int
    BY CapacityAssumption
  <2> QED
    BY <2>1, FS_Interval
<1>3. IsFiniteSet(cs \X (1..Capacity))
  BY <1>1, <1>2, FS_Product
<1>4. Stack(f, cs) \in SUBSET (cs \X (1..Capacity))
  BY DEF Stack
<1>5. IsFiniteSet(Stack(f, cs))
  BY <1>3, <1>4, FS_Subset
<1> QED
  BY <1>1, <1>5, FS_CardinalityType

(* One conversation, and the others.                                        *)
LEMMA StackSplit ==
  ASSUME NEW f \in Pages, NEW cs \in SUBSET Conv, NEW c \in cs
  PROVE  Cardinality(Stack(f, cs)) = f[c] + Cardinality(Stack(f, cs \ {c}))
<1> DEFINE One == {x \in {c} \X (1..Capacity) : x[2] <= f[c]}
           g == [i \in 1..f[c] |-> <<c, i>>]
<1>0. f[c] \in 0..Capacity /\ Capacity \in Nat
  BY CapacityAssumption DEF Pages
<1>1. g \in Bijection(1..f[c], One)
  <2>1. \A i \in 1..f[c] : <<c, i>> \in One
    BY <1>0
  <2>2. \A x \in One : x[2] \in 1..f[c] /\ x = <<c, x[2]>>
    BY <1>0
  <2>3. g \in [1..f[c] -> One]
    BY <2>1
  <2>4. \A i \in 1..f[c], k \in 1..f[c] : g[i] = g[k] => i = k
    OBVIOUS
  <2>5. \A x \in One : \E i \in 1..f[c] : g[i] = x
    BY <2>2
  <2> HIDE DEF g, One
  <2> QED
    BY <2>3, <2>4, <2>5 DEF Bijection, Injection, Surjection, IsInjective
<1>2. IsFiniteSet(1..f[c]) /\ Cardinality(1..f[c]) = f[c]
  <2>1. 1 \in Int /\ f[c] \in Int
    BY <1>0
  <2>2. IsFiniteSet(1..f[c]) /\ Cardinality(1..f[c]) = IF 1 > f[c] THEN 0 ELSE f[c] - 1 + 1
    BY <2>1, FS_Interval
  <2> QED
    BY <2>2, <1>0
<1>3. IsFiniteSet(One) /\ Cardinality(One) = f[c]
  <2>1. ExistsBijection(1..f[c], One)
    BY <1>1 DEF ExistsBijection
  <2> HIDE DEF One
  <2> QED
    BY <1>2, <2>1, FS_Bijection
<1>4. Stack(f, cs) = One \cup Stack(f, cs \ {c}) /\ One \cap Stack(f, cs \ {c}) = {}
  BY DEF Stack
<1> HIDE DEF One
<1>5. IsFiniteSet(Stack(f, cs \ {c})) /\ Cardinality(Stack(f, cs \ {c})) \in Nat
  BY StackFinite
<1>6. Cardinality(One \cup Stack(f, cs \ {c}))
        = Cardinality(One) + Cardinality(Stack(f, cs \ {c})) - Cardinality(One \cap Stack(f, cs \ {c}))
  BY <1>3, <1>5, FS_Union
<1>7. Cardinality(One \cap Stack(f, cs \ {c})) = 0
  BY <1>4, FS_EmptySet
<1> QED
  BY <1>0, <1>3, <1>4, <1>5, <1>6, <1>7

LEMMA PagesAreStacked ==
  ASSUME NEW p, p.pages \in Pages, NEW cs \in SUBSET Conv
  PROVE  PagesOf(p, cs) = Cardinality(Stack(p.pages, cs))
<1> DEFINE f == p.pages
           Fold(h, s) == IF s = {} THEN 0
                         ELSE f[CHOOSE x \in s : TRUE] + h[s \ {CHOOSE x \in s : TRUE}]
           iter == CHOOSE h : h = [s \in SUBSET cs |-> Fold(h, s)]
           count == [s \in SUBSET cs |-> Cardinality(Stack(f, s))]
<1>1. PagesOf(p, cs) = iter[cs]
  BY DEF PagesOf, MapThenSumSet, MapThenFoldSet
<1>2. \A s \in SUBSET cs : count[s] = Fold(count, s)
  <2> TAKE s \in SUBSET cs
  <2>1. CASE s = {}
    <3>1. Stack(f, {}) = {}
      BY DEF Stack
    <3> QED
      BY <2>1, <3>1, FS_EmptySet
  <2>2. CASE s # {}
    <3> DEFINE c == CHOOSE x \in s : TRUE
    <3>1. c \in s
      BY <2>2
    <3>2. s \ {c} \in SUBSET cs /\ s \in SUBSET Conv
      OBVIOUS
    <3> HIDE DEF c
    <3>3. Cardinality(Stack(f, s)) = f[c] + Cardinality(Stack(f, s \ {c}))
      BY <3>1, <3>2, StackSplit
    <3>4. count[s] = f[c] + count[s \ {c}]
      BY <3>2, <3>3
    <3> QED
      BY <3>4, <2>2 DEF c
  <2> QED
    BY <2>1, <2>2
<1>3. count = [s \in SUBSET cs |-> Fold(count, s)]
  <2> HIDE DEF Fold
  <2> QED
    BY <1>2
<1>4. iter = [s \in SUBSET cs |-> Fold(iter, s)]
  BY <1>3
<1>5. \A s \in SUBSET cs : iter[s] = Fold(iter, s)
  <2> HIDE DEF Fold, iter
  <2> QED
    BY <1>4
<1> HIDE DEF iter
<1> DEFINE I == {n \in Nat : \A s \in SUBSET cs : Cardinality(s) = n => iter[s] = Cardinality(Stack(f, s))}
<1>6. 0 \in I
  <2> SUFFICES ASSUME NEW s \in SUBSET cs, Cardinality(s) = 0
               PROVE  iter[s] = Cardinality(Stack(f, s))
    OBVIOUS
  <2>1. s = {}
    <3>1. IsFiniteSet(s)
      BY StackFinite
    <3> QED
      BY <3>1, FS_EmptySet
  <2>2. Stack(f, s) = {}
    BY <2>1 DEF Stack
  <2> QED
    BY <2>1, <2>2, <1>5, FS_EmptySet
<1>7. ASSUME NEW n \in Nat, n \in I PROVE n + 1 \in I
  <2> SUFFICES ASSUME NEW s \in SUBSET cs, Cardinality(s) = n + 1
               PROVE  iter[s] = Cardinality(Stack(f, s))
    OBVIOUS
  <2> DEFINE c == CHOOSE x \in s : TRUE
  <2>1. IsFiniteSet(s) /\ s # {}
    <3>1. IsFiniteSet(s)
      BY StackFinite
    <3> QED
      BY <3>1, FS_EmptySet
  <2>2. c \in s
    BY <2>1
  <2>3. iter[s] = f[c] + iter[s \ {c}]
    BY <2>1, <1>5
  <2> HIDE DEF c
  <2>4. Cardinality(s \ {c}) = n
    <3>1. Cardinality(s \ {c}) = Cardinality(s) - 1
      BY <2>1, <2>2, FS_RemoveElement
    <3> QED
      BY <3>1
  <2>5. iter[s \ {c}] = Cardinality(Stack(f, s \ {c}))
    BY <2>4, <1>7
  <2>6. Cardinality(Stack(f, s)) = f[c] + Cardinality(Stack(f, s \ {c}))
    BY <2>2, StackSplit
  <2> QED
    BY <2>3, <2>5, <2>6
<1> HIDE DEF I
<1>8. Nat \subseteq I
  BY <1>6, <1>7, SetInduction
<1>9. Cardinality(cs) \in I
  <2>1. IsFiniteSet(cs)
    BY StackFinite
  <2>2. Cardinality(cs) \in Nat
    BY <2>1, FS_CardinalityType
  <2> QED
    BY <2>2, <1>8
<1> QED
  BY <1>1, <1>9 DEF I

(* What the sums obey.                                                      *)
LEMMA SumIs ==
  ASSUME NEW p, p.pages \in Pages, NEW cs \in SUBSET Conv
  PROVE  /\ PagesOf(p, cs) \in Nat
         /\ \A c \in cs : PagesOf(p, cs) = p.pages[c] + PagesOf(p, cs \ {c})
<1>1. PagesOf(p, cs) \in Nat
  BY StackFinite, PagesAreStacked
<1>2. ASSUME NEW c \in cs PROVE PagesOf(p, cs) = p.pages[c] + PagesOf(p, cs \ {c})
  <2>1. cs \ {c} \in SUBSET Conv
    OBVIOUS
  <2> QED
    BY <2>1, StackSplit, PagesAreStacked
<1> QED
  BY <1>1, <1>2

LEMMA SumFewer ==
  ASSUME NEW p, p.pages \in Pages, NEW q, q.pages \in Pages, NEW cs \in SUBSET Conv,
         NEW ds \in SUBSET Conv, \A c \in cs : p.pages[c] > 0 => c \in ds /\ p.pages[c] <= q.pages[c]
  PROVE  PagesOf(p, cs) <= PagesOf(q, ds)
<1>1. Stack(p.pages, cs) \in SUBSET Stack(q.pages, ds)
  <2> SUFFICES ASSUME NEW x \in Stack(p.pages, cs) PROVE x \in Stack(q.pages, ds)
    OBVIOUS
  <2>1. x[1] \in cs /\ x[2] \in 1..Capacity /\ x[2] <= p.pages[x[1]] /\ x = <<x[1], x[2]>>
    BY DEF Stack
  <2>2. p.pages[x[1]] \in Nat /\ q.pages[x[1]] \in Nat /\ Capacity \in Nat
    BY <2>1, CapacityAssumption DEF Pages
  <2>3. x[1] \in ds /\ x[2] <= q.pages[x[1]]
    BY <2>1, <2>2
  <2> QED
    BY <2>1, <2>3 DEF Stack
<1>2. IsFiniteSet(Stack(q.pages, ds))
  BY StackFinite
<1>3. Cardinality(Stack(p.pages, cs)) <= Cardinality(Stack(q.pages, ds))
  BY <1>1, <1>2, FS_Subset
<1> QED
  BY <1>3, PagesAreStacked

(* Who has no page does not count.                                          *)
LEMMA SumSame ==
  ASSUME NEW p, p.pages \in Pages, NEW q, q.pages \in Pages, NEW cs \in SUBSET Conv,
         NEW ds \in SUBSET Conv,
         \A c \in cs : p.pages[c] > 0 => c \in ds /\ p.pages[c] = q.pages[c],
         \A c \in ds : q.pages[c] > 0 => c \in cs /\ p.pages[c] = q.pages[c]
  PROVE  PagesOf(p, cs) = PagesOf(q, ds)
<1>1. \A c \in Conv : p.pages[c] \in Nat /\ q.pages[c] \in Nat
  BY CapacityAssumption DEF Pages
<1>2. PagesOf(p, cs) <= PagesOf(q, ds)
  <2>1. \A c \in cs : p.pages[c] > 0 => c \in ds /\ p.pages[c] <= q.pages[c]
    BY <1>1
  <2> QED
    BY <2>1, SumFewer
<1>3. PagesOf(q, ds) <= PagesOf(p, cs)
  <2>1. \A c \in ds : q.pages[c] > 0 => c \in cs /\ q.pages[c] <= p.pages[c]
    BY <1>1
  <2> QED
    BY <2>1, SumFewer
<1>4. PagesOf(p, cs) \in Nat /\ PagesOf(q, ds) \in Nat
  BY SumIs
<1> QED
  BY <1>2, <1>3, <1>4

-----------------------------------------------------------------------------
(* Where a request is.                                                      *)

(* Each place holds a request once, and no request is in two places, or in  *)
(* one after its answer; those admitted and not answered are counted.       *)
Lined == Elems(channel) \cup Elems(line) \cup Elems(blocked)
Queued == Lined \cup Elems(rows) \cup Elems(parked)

Placed ==
  /\ channel \in Seq(Job) /\ line \in Seq(Job) /\ blocked \in Seq(Job)
  /\ rows \in Seq(Job) /\ parked \in Seq(Job)
  /\ prefilling \in Job \cup {NoJob} /\ hand \in Job \cup {NoJob}
  /\ answered \in SUBSET Job

Once ==
  /\ Distinct(channel) /\ Distinct(line) /\ Distinct(blocked)
  /\ Distinct(rows) /\ Distinct(parked)

Apart ==
  /\ Elems(line) \cap Elems(channel) = {}
  /\ Elems(blocked) \cap (Elems(line) \cup Elems(channel)) = {}
  /\ Elems(rows) \cap Lined = {}
  /\ Elems(parked) \cap (Lined \cup Elems(rows)) = {}
  /\ prefilling \notin Queued /\ hand \notin Queued
  /\ prefilling = hand => hand = NoJob
  /\ answered \cap Queued = {} /\ prefilling \notin answered /\ hand \notin answered

Counted == inflight = Cardinality(InFlight)

(* What the phase of the iteration says of them.                            *)
Admitting == {"charge", "begin", "lone"}

Phased ==
  /\ pc \in {"take", "resume", "admit", "step", "fail", "deal", "prefill", "yield"} \cup Admitting
  /\ hand # NoJob <=> pc \in Admitting
  /\ pc \in Admitting => parked = <<>> /\ prefilling = NoJob
  /\ pc = "lone" => rows = <<>>
  /\ ending \subseteq Elems(rows)
  /\ pc # "deal" => ending = {}
  /\ stalled \in {"no", "held", "moved"}
  /\ starved \subseteq answered

Settled == Placed /\ Once /\ Apart /\ Counted /\ Phased

LEMMA ElemsIn ==
  ASSUME NEW T, NEW s \in Seq(T)
  PROVE  Elems(s) \in SUBSET T /\ (s = <<>> <=> Elems(s) = {})
<1>1. \A i \in DOMAIN s : s[i] \in T
  OBVIOUS
<1>2. DOMAIN s = 1..Len(s) /\ Len(s) \in Nat
  OBVIOUS
<1>3. s = <<>> => Elems(s) = {}
  BY DEF Elems
<1>4. s # <<>> => s[1] \in Elems(s)
  BY <1>2 DEF Elems
<1> QED
  BY <1>1, <1>3, <1>4 DEF Elems

(* Requests in flight are finitely many, with one more or one less.         *)
LEMMA InFlightFinite ==
  ASSUME Placed
  PROVE  /\ InFlight \in SUBSET Job /\ IsFiniteSet(InFlight) /\ Cardinality(InFlight) \in Nat
         /\ Cardinality(InFlight) <= Cardinality(Job) /\ Cardinality(Job) \in Nat
         /\ \A j : /\ j \notin InFlight => Cardinality(InFlight \cup {j}) = Cardinality(InFlight) + 1
                   /\ j \in InFlight => Cardinality(InFlight \ {j}) = Cardinality(InFlight) - 1
<1>1. InFlight \in SUBSET Job
  <2>1. Elems(rows) \in SUBSET Job /\ Elems(parked) \in SUBSET Job
    BY ElemsIn DEF Placed
  <2> QED
    BY <2>1 DEF Placed, InFlight
<1>2. IsFiniteSet(InFlight)
  BY <1>1, JobAssumption, FS_Subset
<1>3. Cardinality(InFlight) \in Nat /\ Cardinality(Job) \in Nat
  BY <1>2, JobAssumption, FS_CardinalityType
<1>4. Cardinality(InFlight) <= Cardinality(Job)
  BY <1>1, JobAssumption, FS_Subset
<1>5. ASSUME NEW j, j \notin InFlight
      PROVE  Cardinality(InFlight \cup {j}) = Cardinality(InFlight) + 1
  BY <1>2, <1>5, FS_AddElement
<1>6. ASSUME NEW j, j \in InFlight
      PROVE  Cardinality(InFlight \ {j}) = Cardinality(InFlight) - 1
  BY <1>2, <1>6, FS_RemoveElement
<1> QED
  BY <1>1, <1>2, <1>3, <1>4, <1>5, <1>6

(* One that ends.                                                           *)
LEMMA OneEnds ==
  ASSUME Placed, Counted, NEW j \in InFlight, InFlight' = InFlight \ {j}, inflight' = inflight - 1
  PROVE  Counted'
<1>1. Cardinality(InFlight \ {j}) = Cardinality(InFlight) - 1
  BY InFlightFinite
<1> QED
  BY <1>1 DEF Counted

PlaceVars == <<channel, line, blocked, rows, parked, prefilling, hand, answered, inflight>>

LEMMA PlacesStay ==
  ASSUME Placed, Once, Apart, Counted, UNCHANGED PlaceVars
  PROVE  Placed' /\ Once' /\ Apart' /\ Counted'
<1>1. /\ UNCHANGED <<channel, line, blocked, rows, parked>>
      /\ UNCHANGED <<prefilling, hand, answered, inflight>>
  BY DEF PlaceVars
<1>2. Placed'
  BY <1>1 DEF Placed
<1>3. Once'
  BY <1>1 DEF Once, Distinct
<1>4. Apart'
  BY <1>1 DEF Apart, Queued, Lined, Elems
<1>5. Counted'
  BY <1>1 DEF Counted, InFlight, Elems
<1> QED
  BY <1>2, <1>3, <1>4, <1>5

LEMMA SettledInitially == Init => Settled
<1> SUFFICES ASSUME Init PROVE Settled
  OBVIOUS
<1>1. <<>> \in Seq(Job) /\ Distinct(<<>>) /\ Elems(<<>>) = {}
  BY DEF Distinct, Elems
<1>2. Placed /\ Once /\ Apart
  BY <1>1 DEF Init, Placed, Once, Apart, Queued, Lined
<1>3. InFlight = {}
  BY <1>1 DEF Init, InFlight
<1>4. Counted
  BY <1>3, FS_EmptySet DEF Init, Counted
<1>5. Phased
  BY <1>1 DEF Init, Phased, Admitting
<1> QED
  BY <1>2, <1>4, <1>5 DEF Settled

-----------------------------------------------------------------------------
(* Each step keeps requests in their places.                                *)

(* Steps that move nobody.                                                  *)
LEMMA NobodyMoves ==
  ASSUME Settled,
         \/ \E o \in Outsider : Want(o)
         \/ Erase \/ TrimIdle \/ NoneResumes \/ Charged \/ LoneGrow \/ LoneStep \/ RowGrows
         \/ Decode \/ StepFails \/ Dealt \/ PrefillChunk \/ Yield
  PROVE  Settled'
<1> USE DEF lineVars, rowVars, standVars, otherVars
<1>1. UNCHANGED PlaceVars
  BY DEF Want, Erase, TrimIdle, Served, NoneResumes, Charged, LoneGrow, LoneStep, RowGrows,
         Decode, StepFails, Dealt, PrefillChunk, Yield, PlaceVars
<1>2. Placed' /\ Once' /\ Apart' /\ Counted'
  BY <1>1, PlacesStay DEF Settled
<1>3. /\ UNCHANGED <<channel, line, blocked, rows, parked, prefilling, hand, answered>>
      /\ Elems(rows)' = Elems(rows)
  BY <1>1 DEF PlaceVars, Elems
<1>4. starved' = starved
  BY DEF Want, Erase, TrimIdle, Served, NoneResumes, Charged, LoneGrow, LoneStep, RowGrows,
         Decode, StepFails, Dealt, PrefillChunk, Yield
<1>5. Phased
  BY DEF Settled
<1>6. ASSUME Decode PROVE Phased'
  <2>1. /\ pc' = "deal" /\ pc = "step" /\ stalled' = stalled
        /\ ending' \in SUBSET Elems(rows)
    BY <1>6 DEF Decode
  <2> QED
    BY <2>1, <1>3, <1>4, <1>5 DEF Phased, Admitting
<1>7. ASSUME ~Decode PROVE Phased'
  <2>1. ending' = ending
    BY <1>7 DEF Want, Erase, TrimIdle, Served, NoneResumes, Charged, LoneGrow, LoneStep,
                RowGrows, StepFails, Dealt, PrefillChunk, Yield
  <2>2. stalled' \in {stalled, "no"}
    BY <1>7 DEF Want, Erase, TrimIdle, Served, NoneResumes, Charged, LoneGrow, LoneStep,
                RowGrows, StepFails, Dealt, PrefillChunk, Yield
  <2>3. /\ pc' \in Admitting <=> pc \in Admitting
        /\ pc' = "lone" <=> pc = "lone"
        /\ pc' \in {"take", "resume", "admit", "step", "fail", "deal", "prefill", "yield"} \cup Admitting
        /\ pc = "deal" /\ pc' # "deal" => ending = {}
    BY <1>5, <1>7 DEF Want, Erase, TrimIdle, Served, NoneResumes, Charged, LoneGrow, LoneStep,
                RowGrows, StepFails, Dealt, PrefillChunk, Yield, Admitting, Phased
  <2> QED
    BY <2>1, <2>2, <2>3, <1>3, <1>4, <1>5 DEF Phased
<1>8. Phased'
  BY <1>6, <1>7
<1> QED
  BY <1>2, <1>8 DEF Settled

LEMMA SubmitSettles ==
  ASSUME Settled, NEW j \in Job, Submit(j)
  PROVE  Settled'
<1> USE DEF lineVars, rowVars, standVars, otherVars
<1>1. /\ channel' = Append(channel, j)
      /\ UNCHANGED <<line, blocked, rows, parked, prefilling, hand, answered, inflight>>
      /\ UNCHANGED <<pc, ending, stalled, starved>>
  BY DEF Submit
<1>2. /\ j \notin Elems(channel) /\ j \notin Elems(line) /\ j \notin Elems(blocked)
      /\ j \notin Elems(rows) /\ j \notin Elems(parked) /\ j # prefilling /\ j # hand
      /\ j \notin answered
  <2>1. DOMAIN Places = 1..5 /\ Places[1] = channel /\ Places[2] = line /\ Places[3] = blocked
        /\ Places[4] = rows /\ Places[5] = parked
    BY DEF Places
  <2>2. /\ Elems(Places[1]) \subseteq Everywhere /\ Elems(Places[2]) \subseteq Everywhere
        /\ Elems(Places[3]) \subseteq Everywhere /\ Elems(Places[4]) \subseteq Everywhere
        /\ Elems(Places[5]) \subseteq Everywhere /\ prefilling \in Everywhere /\ hand \in Everywhere
    <3> DEFINE P == {Elems(Places[k]) : k \in DOMAIN Places}
    <3>1. \A i \in DOMAIN Places : Elems(Places[i]) \in P
      OBVIOUS
    <3>2. Everywhere = (UNION P) \cup {prefilling, hand}
      BY DEF Everywhere
    <3> HIDE DEF P, Places
    <3>3. /\ Elems(Places[1]) \in P /\ Elems(Places[2]) \in P /\ Elems(Places[3]) \in P
          /\ Elems(Places[4]) \in P /\ Elems(Places[5]) \in P
      BY <2>1, <3>1
    <3> HIDE DEF Everywhere
    <3> QED
      BY <3>2, <3>3
  <2>3. j \notin Everywhere /\ j \notin answered
    BY DEF Submit
  <2> HIDE DEF Places
  <2> QED
    BY <2>1, <2>2, <2>3
<1>3. /\ channel' \in Seq(Job) /\ Distinct(channel') /\ Elems(channel') = Elems(channel) \cup {j}
  BY <1>1, <1>2, AppendKeeps DEF Settled, Placed, Once
<1>4. Placed'
  BY <1>1, <1>3 DEF Settled, Placed
<1>5. Once'
  BY <1>1, <1>3 DEF Settled, Once
<1>6. Apart'
  BY <1>1, <1>2, <1>3 DEF Settled, Apart, Queued, Lined
<1>7. Counted'
  BY <1>1 DEF Settled, Counted, InFlight
<1>8. Phased'
  BY <1>1 DEF Settled, Phased
<1> QED
  BY <1>4, <1>5, <1>6, <1>7, <1>8 DEF Settled

LEMMA TakeSettles ==
  ASSUME Settled, Take
  PROVE  Settled'
<1> USE DEF lineVars, rowVars, standVars, otherVars
<1> DEFINE freed == Without(blocked, Elems(blocked) \ Ready)
           stay == Without(blocked, Ready)
<1>1. /\ line' = freed \o line \o channel /\ blocked' = stay /\ channel' = <<>>
      /\ pc = "take" /\ pc' = "resume"
      /\ UNCHANGED <<rows, parked, prefilling, hand, answered, inflight>>
      /\ UNCHANGED <<ending, stalled, starved>>
  BY DEF Take
<1>2. Ready \subseteq Elems(blocked)
  BY DEF Ready
<1>3. /\ freed \in Seq(Job) /\ Distinct(freed) /\ Elems(freed) = Ready
      /\ stay \in Seq(Job) /\ Distinct(stay) /\ Elems(stay) = Elems(blocked) \ Ready
  <2>1. /\ freed \in Seq(Job) /\ Distinct(freed)
        /\ Elems(freed) = Elems(blocked) \ (Elems(blocked) \ Ready)
    BY WithoutKeeps DEF Settled, Placed, Once
  <2>2. /\ stay \in Seq(Job) /\ Distinct(stay) /\ Elems(stay) = Elems(blocked) \ Ready
    BY WithoutKeeps DEF Settled, Placed, Once
  <2> HIDE DEF freed, stay
  <2> QED
    BY <2>1, <2>2, <1>2
<1> HIDE DEF freed, stay
<1>4. /\ freed \o line \in Seq(Job) /\ Distinct(freed \o line)
      /\ Elems(freed \o line) = Ready \cup Elems(line)
  <2>1. Elems(freed) \cap Elems(line) = {}
    BY <1>2, <1>3 DEF Settled, Apart
  <2>2. line \in Seq(Job) /\ Distinct(line)
    BY DEF Settled, Placed, Once
  <2> QED
    BY <2>1, <2>2, <1>3, JoinKeeps
<1>5. /\ line' \in Seq(Job) /\ Distinct(line')
      /\ Elems(line') = Ready \cup Elems(line) \cup Elems(channel)
  <2>1. Elems(freed \o line) \cap Elems(channel) = {}
    BY <1>2, <1>4 DEF Settled, Apart
  <2>2. channel \in Seq(Job) /\ Distinct(channel)
    BY DEF Settled, Placed, Once
  <2>3. /\ (freed \o line) \o channel \in Seq(Job) /\ Distinct((freed \o line) \o channel)
        /\ Elems((freed \o line) \o channel) = Elems(freed \o line) \cup Elems(channel)
    <3> DEFINE s == freed \o line
    <3>1. s \in Seq(Job) /\ Distinct(s) /\ Elems(s) \cap Elems(channel) = {}
      BY <1>4, <2>1
    <3> HIDE DEF s
    <3>2. s \o channel \in Seq(Job) /\ Distinct(s \o channel)
          /\ Elems(s \o channel) = Elems(s) \cup Elems(channel)
      BY <2>2, <3>1, JoinKeeps
    <3> QED
      BY <3>2 DEF s
  <2> QED
    BY <2>3, <1>1, <1>4
<1>6. channel' \in Seq(Job) /\ Distinct(channel') /\ Elems(channel') = {}
  BY <1>1 DEF Distinct, Elems
<1>7. blocked' \in Seq(Job) /\ Distinct(blocked') /\ Elems(blocked') = Elems(blocked) \ Ready
  BY <1>1, <1>3
<1>8. Placed'
  BY <1>1, <1>5, <1>6, <1>7 DEF Settled, Placed
<1>9. Once'
  BY <1>1, <1>5, <1>6, <1>7 DEF Settled, Once
<1>10. Apart'
  <2>1. Lined' = Lined
    BY <1>2, <1>5, <1>6, <1>7 DEF Lined
  <2>2. Elems(rows)' = Elems(rows) /\ Elems(parked)' = Elems(parked)
    BY <1>1
  <2>3. /\ Elems(line') \cap Elems(channel') = {}
        /\ Elems(blocked') \cap (Elems(line') \cup Elems(channel')) = {}
    BY <1>2, <1>5, <1>6, <1>7 DEF Settled, Apart
  <2> QED
    BY <2>1, <2>2, <2>3, <1>1 DEF Settled, Apart, Queued
<1>11. Counted'
  BY <1>1 DEF Settled, Counted, InFlight
<1>12. Phased'
  BY <1>1 DEF Settled, Phased, Admitting
<1> QED
  BY <1>8, <1>9, <1>10, <1>11, <1>12 DEF Settled

(* The head of a sequence goes.                                             *)
LEMMA HeadGoes ==
  ASSUME NEW T, NEW s \in Seq(T), Distinct(s), s # <<>>
  PROVE  /\ Tail(s) \in Seq(T) /\ Distinct(Tail(s)) /\ Head(s) \in T /\ Head(s) \in Elems(s)
         /\ Elems(Tail(s)) = Elems(s) \ {Head(s)}
<1>1. /\ Len(s) \in Nat /\ 1 <= Len(s) /\ DOMAIN s = 1..Len(s) /\ Head(s) = s[1]
      /\ Tail(s) \in Seq(T) /\ Len(Tail(s)) = Len(s) - 1
      /\ \A i \in 1..(Len(s) - 1) : Tail(s)[i] = s[i + 1]
  OBVIOUS
<1>2. Distinct(Tail(s))
  <2> SUFFICES ASSUME NEW i \in 1..(Len(s) - 1), NEW k \in 1..(Len(s) - 1), Tail(s)[i] = Tail(s)[k]
               PROVE  i = k
    BY <1>1 DEF Distinct
  <2>1. i + 1 \in DOMAIN s /\ k + 1 \in DOMAIN s /\ s[i + 1] = s[k + 1]
    BY <1>1
  <2>2. i + 1 = k + 1
    BY <2>1 DEF Distinct
  <2> QED
    BY <2>2, <1>1
<1>3. Elems(Tail(s)) = Elems(s) \ {Head(s)}
  <2>1. ASSUME NEW x \in Elems(Tail(s)) PROVE x \in Elems(s) \ {Head(s)}
    <3>1. PICK i \in 1..(Len(s) - 1) : x = s[i + 1]
      BY <1>1 DEF Elems
    <3>2. i + 1 \in DOMAIN s /\ 1 \in DOMAIN s /\ i + 1 # 1
      BY <1>1
    <3>3. s[i + 1] # s[1]
      BY <3>2 DEF Distinct
    <3> QED
      BY <3>1, <3>2, <3>3, <1>1 DEF Elems
  <2>2. ASSUME NEW x \in Elems(s) \ {Head(s)} PROVE x \in Elems(Tail(s))
    <3>1. PICK i \in 1..Len(s) : x = s[i]
      BY <1>1 DEF Elems
    <3>2. i # 1
      BY <3>1, <1>1
    <3>3. i - 1 \in 1..(Len(s) - 1) /\ (i - 1) + 1 = i
      BY <3>2, <1>1
    <3>4. Tail(s)[i - 1] = s[i] /\ DOMAIN Tail(s) = 1..(Len(s) - 1)
      BY <3>3, <1>1
    <3> DEFINE r == Tail(s)
    <3>5. i - 1 \in DOMAIN r /\ r[i - 1] = x
      BY <3>1, <3>3, <3>4
    <3> HIDE DEF r
    <3>6. x \in Elems(r)
      BY <3>5 DEF Elems
    <3> QED
      BY <3>6 DEF r
  <2> QED
    BY <2>1, <2>2
<1>4. Head(s) \in T /\ Head(s) \in Elems(s)
  BY <1>1 DEF Elems
<1> QED
  BY <1>1, <1>2, <1>3, <1>4

LEMMA ResumeSettles ==
  ASSUME Settled, Resume
  PROVE  Settled'
<1> USE DEF lineVars, rowVars, standVars, otherVars
<1> DEFINE j == Head(parked)
<1>1. /\ parked # <<>> /\ rows' = Append(rows, j) /\ parked' = Tail(parked)
      /\ pc = "resume" /\ pc' = "resume"
      /\ UNCHANGED <<channel, line, blocked, prefilling, hand, answered, inflight>>
      /\ UNCHANGED <<ending, stalled, starved>>
  BY DEF Resume, MayResume
<1>2. /\ parked' \in Seq(Job) /\ Distinct(parked') /\ j \in Job /\ j \in Elems(parked)
      /\ Elems(parked') = Elems(parked) \ {j}
  BY <1>1, HeadGoes DEF Settled, Placed, Once
<1> HIDE DEF j
<1>3. rows' \in Seq(Job) /\ Distinct(rows') /\ Elems(rows') = Elems(rows) \cup {j}
  <2>1. j \notin Elems(rows) /\ rows \in Seq(Job) /\ Distinct(rows)
    BY <1>2 DEF Settled, Apart, Placed, Once
  <2> QED
    BY <2>1, <1>1, <1>2, AppendKeeps
<1>4. Placed'
  BY <1>1, <1>2, <1>3 DEF Settled, Placed
<1>5. Once'
  BY <1>1, <1>2, <1>3 DEF Settled, Once
<1>6. Apart'
  BY <1>1, <1>2, <1>3 DEF Settled, Apart, Queued, Lined
<1>7. Counted'
  <2>1. InFlight' = InFlight
    BY <1>1, <1>2, <1>3 DEF InFlight
  <2> QED
    BY <2>1, <1>1 DEF Settled, Counted
<1>8. Phased'
  BY <1>1, <1>3 DEF Settled, Phased, Admitting
<1> QED
  BY <1>4, <1>5, <1>6, <1>7, <1>8 DEF Settled

LEMMA ResumeFailsSettles ==
  ASSUME Settled, ResumeFails
  PROVE  Settled'
<1> USE DEF lineVars, rowVars, standVars, otherVars
<1> DEFINE j == Head(parked)
<1>1. /\ parked # <<>> /\ parked' = Tail(parked) /\ pc = "resume" /\ pc' = "resume"
      /\ answered' = answered \cup {j} /\ inflight' = inflight - 1 /\ stalled' = Left
      /\ starved' \in {starved, starved \cup {j}}
      /\ UNCHANGED <<channel, line, blocked, rows, prefilling, hand, ending>>
  BY DEF ResumeFails, MayResume, Ended
<1>2. /\ parked' \in Seq(Job) /\ Distinct(parked') /\ j \in Job /\ j \in Elems(parked)
      /\ Elems(parked') = Elems(parked) \ {j}
  BY <1>1, HeadGoes DEF Settled, Placed, Once
<1> HIDE DEF j
<1>3. j \notin Elems(rows) /\ j \notin Lined /\ j # prefilling /\ j # hand
  BY <1>2 DEF Settled, Apart, Queued
<1>4. Placed'
  BY <1>1, <1>2 DEF Settled, Placed
<1>5. Once'
  BY <1>1, <1>2 DEF Settled, Once
<1>6. Apart'
  BY <1>1, <1>2, <1>3 DEF Settled, Apart, Queued, Lined
<1>7. Counted'
  <2>1. InFlight' = InFlight \ {j} /\ j \in InFlight
    BY <1>1, <1>2, <1>3 DEF InFlight
  <2> QED
    BY <2>1, <1>1, OneEnds DEF Settled
<1>8. Phased'
  BY <1>1, <1>2 DEF Settled, Phased, Admitting, Left
<1> QED
  BY <1>4, <1>5, <1>6, <1>7, <1>8 DEF Settled

LEMMA NoneAdmittedSettles ==
  ASSUME Settled, NoneAdmitted
  PROVE  Settled'
<1> USE DEF lineVars, rowVars, standVars, otherVars
<1>1. /\ pc = "admit" /\ pc' = "step"
      /\ UNCHANGED <<channel, rows, parked, prefilling, hand, answered, inflight>>
      /\ UNCHANGED <<ending, stalled, starved>>
      /\ \/ UNCHANGED <<line, blocked>>
         \/ blocked' = blocked \o line /\ line' = <<>>
  BY DEF NoneAdmitted
<1>2. Phased'
  BY <1>1 DEF Settled, Phased, Admitting
<1>3. CASE UNCHANGED <<line, blocked>>
  <2>1. UNCHANGED PlaceVars
    BY <1>1, <1>3 DEF PlaceVars
  <2> QED
    BY <2>1, <1>2, PlacesStay DEF Settled
<1>4. CASE blocked' = blocked \o line /\ line' = <<>>
  <2>1. /\ blocked' \in Seq(Job) /\ Distinct(blocked')
        /\ Elems(blocked') = Elems(blocked) \cup Elems(line)
    <3>1. /\ blocked \in Seq(Job) /\ line \in Seq(Job) /\ Distinct(blocked) /\ Distinct(line)
          /\ Elems(blocked) \cap Elems(line) = {}
      BY DEF Settled, Placed, Once, Apart
    <3> QED
      BY <3>1, <1>4, JoinKeeps
  <2>2. line' \in Seq(Job) /\ Distinct(line') /\ Elems(line') = {}
    BY <1>4 DEF Distinct, Elems
  <2>3. Placed'
    BY <1>1, <2>1, <2>2 DEF Settled, Placed
  <2>4. Once'
    BY <1>1, <2>1, <2>2 DEF Settled, Once
  <2>5. Apart'
    BY <1>1, <2>1, <2>2 DEF Settled, Apart, Queued, Lined
  <2>6. Counted'
    BY <1>1 DEF Settled, Counted, InFlight
  <2> QED
    BY <2>3, <2>4, <2>5, <2>6, <1>2 DEF Settled
<1> QED
  BY <1>1, <1>3, <1>4

LEMMA AdmitSettles ==
  ASSUME Settled, Admit
  PROVE  Settled'
<1> USE DEF lineVars, rowVars, standVars, otherVars
<1>1. /\ pc = "admit" /\ pc' = "charge" /\ parked = <<>> /\ prefilling = NoJob
      /\ inflight' = inflight + 1
      /\ UNCHANGED <<channel, rows, parked, prefilling, answered>>
      /\ UNCHANGED <<ending, stalled, starved>>
  BY DEF Admit, MayAdmit
<1>2. PICK k \in DOMAIN line : /\ hand' = line[k]
                               /\ blocked' = blocked \o SubSeq(line, 1, k - 1)
                               /\ line' = SubSeq(line, k + 1, Len(line))
  BY DEF Admit
<1>3. /\ line \in Seq(Job) /\ Distinct(line) /\ Len(line) \in Nat /\ DOMAIN line = 1..Len(line)
      /\ k \in 1..Len(line) /\ line[k] \in Job /\ line[k] \in Elems(line)
  BY DEF Settled, Placed, Once, Elems
<1> DEFINE before == SubSeq(line, 1, k - 1)
<1>4. /\ before \in Seq(Job) /\ Distinct(before) /\ Elems(before) = {line[i] : i \in 1..(k - 1)}
  <2>1. 1 \in 1..(Len(line) + 1) /\ k - 1 \in 0..Len(line)
    BY <1>3
  <2> QED
    BY <2>1, <1>3, PieceKeeps
<1>5. /\ line' \in Seq(Job) /\ Distinct(line')
      /\ Elems(line') = {line[i] : i \in (k + 1)..Len(line)}
  <2>1. k + 1 \in 1..(Len(line) + 1) /\ Len(line) \in 0..Len(line)
    BY <1>3
  <2> QED
    BY <2>1, <1>2, <1>3, PieceKeeps
<1> HIDE DEF before
<1>6. /\ Elems(before) \cup {line[k]} \cup Elems(line') = Elems(line)
      /\ Elems(before) \cap Elems(line') = {}
      /\ line[k] \notin Elems(before) /\ line[k] \notin Elems(line')
  <2>1. 1..Len(line) = (1..(k - 1)) \cup {k} \cup ((k + 1)..Len(line))
    BY <1>3
  <2>2. Elems(line) = {line[i] : i \in 1..Len(line)}
    BY <1>3 DEF Elems
  <2>3. Elems(before) \cup {line[k]} \cup Elems(line') = Elems(line)
    BY <2>1, <2>2, <1>4, <1>5
  <2>4. \A i \in 1..(k - 1) : line[i] # line[k] /\ \A n \in (k + 1)..Len(line) : line[i] # line[n]
    BY <1>3, <2>1 DEF Distinct
  <2>5. \A n \in (k + 1)..Len(line) : line[n] # line[k]
    BY <1>3, <2>1 DEF Distinct
  <2> QED
    BY <2>3, <2>4, <2>5, <1>4, <1>5
<1>7. /\ blocked' \in Seq(Job) /\ Distinct(blocked')
      /\ Elems(blocked') = Elems(blocked) \cup Elems(before)
  <2>1. /\ blocked \in Seq(Job) /\ Distinct(blocked) /\ Elems(blocked) \cap Elems(before) = {}
    BY <1>6 DEF Settled, Placed, Once, Apart
  <2>2. blocked' = blocked \o before
    BY <1>2 DEF before
  <2> QED
    BY <2>1, <2>2, <1>4, JoinKeeps
<1>8. hand = NoJob /\ line[k] # NoJob
  BY <1>1, <1>3, JobAssumption DEF Settled, Phased, Admitting
<1>9. Placed'
  BY <1>1, <1>2, <1>3, <1>5, <1>7 DEF Settled, Placed
<1>10. Once'
  BY <1>1, <1>5, <1>7 DEF Settled, Once
<1>11. Apart'
  <2>1. Elems(rows)' = Elems(rows) /\ Elems(parked)' = Elems(parked) /\ Elems(channel)' = Elems(channel)
    BY <1>1
  <2>2. Lined' \cup {line[k]} = Lined /\ line[k] \notin Lined'
    BY <2>1, <1>3, <1>6, <1>7 DEF Lined, Settled, Apart
  <2>3. /\ Elems(line') \cap Elems(channel) = {}
        /\ Elems(blocked') \cap (Elems(line') \cup Elems(channel)) = {}
    BY <1>6, <1>7 DEF Settled, Apart
  <2>4. line[k] \notin Elems(rows) /\ line[k] \notin Elems(parked) /\ line[k] \notin answered
    BY <1>3 DEF Settled, Apart, Lined, Queued
  <2> QED
    BY <1>1, <1>2, <1>8, <2>1, <2>2, <2>3, <2>4 DEF Settled, Apart, Queued
<1>12. Counted'
  <2>1. line[k] \notin InFlight /\ InFlight' = InFlight \cup {line[k]}
    <3>1. line[k] \notin Elems(rows) /\ line[k] \notin Elems(parked)
      BY <1>3 DEF Settled, Apart, Lined
    <3> QED
      BY <3>1, <1>1, <1>2, <1>8 DEF InFlight
  <2>2. Cardinality(InFlight \cup {line[k]}) = Cardinality(InFlight) + 1
    BY <2>1, InFlightFinite DEF Settled
  <2> QED
    BY <2>1, <2>2, <1>1 DEF Settled, Counted
<1>13. Phased'
  BY <1>1, <1>2, <1>8 DEF Settled, Phased, Admitting
<1> QED
  BY <1>9, <1>10, <1>11, <1>12, <1>13 DEF Settled

(* Wait: the request in hand goes back to the head of the line.             *)
LEMMA WaitSettles ==
  ASSUME Settled, pc \in {"charge", "begin"}, Wait, starved' = starved
  PROVE  Settled'
<1>1. /\ line' = <<hand>> \o line /\ hand' = NoJob /\ stalled' = "held" /\ pc' = "step"
      /\ inflight' = inflight - 1 /\ hand # NoJob /\ hand \in Job
      /\ UNCHANGED <<channel, blocked, rows, parked, prefilling, ending, answered>>
  BY DEF Wait, Settled, Phased, Placed, Admitting
<1>2. <<hand>> \in Seq(Job) /\ Distinct(<<hand>>) /\ Elems(<<hand>>) = {hand}
  <2>1. <<hand>> \in Seq(Job) /\ DOMAIN <<hand>> = {1} /\ <<hand>>[1] = hand
    BY <1>1
  <2> QED
    BY <2>1 DEF Distinct, Elems
<1>3. line' \in Seq(Job) /\ Distinct(line') /\ Elems(line') = {hand} \cup Elems(line)
  <2>1. line \in Seq(Job) /\ Distinct(line) /\ Elems(<<hand>>) \cap Elems(line) = {}
    BY <1>2 DEF Settled, Placed, Once, Apart, Queued, Lined
  <2> DEFINE s == <<hand>>
  <2>2. s \in Seq(Job) /\ Distinct(s) /\ Elems(s) \cap Elems(line) = {} /\ line' = s \o line
    BY <1>1, <1>2, <2>1
  <2>3. Elems(s) = {hand}
    BY <1>2
  <2> HIDE DEF s
  <2>4. /\ s \o line \in Seq(Job) /\ Distinct(s \o line)
        /\ Elems(s \o line) = Elems(s) \cup Elems(line)
    BY <2>1, <2>2, JoinKeeps
  <2> QED
    BY <2>2, <2>3, <2>4
<1>4. Placed'
  BY <1>1, <1>3 DEF Settled, Placed
<1>5. Once'
  BY <1>1, <1>3 DEF Settled, Once
<1>6. Apart'
  <2>1. NoJob \notin Queued /\ NoJob \notin answered
    <3>1. /\ Elems(channel) \in SUBSET Job /\ Elems(line) \in SUBSET Job
          /\ Elems(blocked) \in SUBSET Job /\ Elems(rows) \in SUBSET Job
          /\ Elems(parked) \in SUBSET Job /\ answered \in SUBSET Job
      BY ElemsIn DEF Settled, Placed
    <3> QED
      BY <3>1, JobAssumption DEF Queued, Lined
  <2>2. prefilling = NoJob
    BY <1>1 DEF Settled, Phased, Admitting
  <2>3. /\ Elems(line') \cap Elems(channel) = {}
        /\ Elems(blocked) \cap (Elems(line') \cup Elems(channel)) = {}
        /\ Lined' = Lined \cup {hand}
    BY <1>1, <1>3 DEF Settled, Apart, Queued, Lined
  <2>4. hand \notin Elems(rows) /\ hand \notin Elems(parked) /\ hand \notin answered
    BY <1>1 DEF Settled, Apart, Queued
  <2> QED
    BY <1>1, <2>1, <2>2, <2>3, <2>4 DEF Settled, Apart, Queued
<1>7. Counted'
  <2>1. InFlight' = InFlight \ {hand} /\ hand \in InFlight
    <3>1. hand \notin Elems(rows) /\ hand \notin Elems(parked) /\ hand # prefilling
      BY <1>1 DEF Settled, Apart, Queued
    <3> QED
      BY <3>1, <1>1 DEF InFlight
  <2> QED
    BY <2>1, <1>1, OneEnds DEF Settled
<1>8. Phased'
  BY <1>1 DEF Settled, Phased, Admitting
<1> QED
  BY <1>4, <1>5, <1>6, <1>7, <1>8 DEF Settled

(* Dismissed: the request in hand is answered.                              *)
LEMMA DismissedSettles ==
  ASSUME Settled, pc \in Admitting, Dismissed, starved' \in {starved, starved \cup {hand}}
  PROVE  Settled'
<1>1. /\ hand' = NoJob /\ pc' = "step" /\ hand # NoJob /\ hand \in Job /\ stalled' = Left
      /\ inflight' = inflight - 1 /\ answered' = answered \cup {hand}
      /\ UNCHANGED <<channel, line, blocked, rows, parked, prefilling, ending>>
  BY DEF Dismissed, Ended, Settled, Phased, Placed
<1>2. Placed'
  BY <1>1 DEF Settled, Placed
<1>3. Once'
  BY <1>1 DEF Settled, Once
<1>4. NoJob \notin Queued /\ prefilling = NoJob /\ NoJob \notin answered /\ hand # NoJob
  <2>1. /\ Elems(channel) \in SUBSET Job /\ Elems(line) \in SUBSET Job
        /\ Elems(blocked) \in SUBSET Job /\ Elems(rows) \in SUBSET Job
        /\ Elems(parked) \in SUBSET Job /\ answered \in SUBSET Job
    BY ElemsIn DEF Settled, Placed
  <2>2. prefilling = NoJob
    BY <1>1 DEF Settled, Phased, Admitting
  <2> QED
    BY <2>1, <2>2, <1>1, JobAssumption DEF Queued, Lined
<1>5. Apart'
  BY <1>1, <1>4 DEF Settled, Apart, Queued, Lined
<1>6. Counted'
  <2>1. InFlight' = InFlight \ {hand} /\ hand \in InFlight
    <3>1. hand \notin Elems(rows) /\ hand \notin Elems(parked)
      BY DEF Settled, Apart, Queued
    <3> QED
      BY <3>1, <1>1, <1>4 DEF InFlight
  <2> QED
    BY <2>1, <1>1, OneEnds DEF Settled
<1>7. Phased'
  BY <1>1 DEF Settled, Phased, Admitting, Left
<1> QED
  BY <1>2, <1>3, <1>5, <1>6, <1>7 DEF Settled

LEMMA HandSettles ==
  ASSUME Settled,
         \/ WaitForSlot \/ WaitForPages \/ GoneAtHeaders \/ NoRoomAlone \/ LoneFails \/ LoneEnd
  PROVE  Settled'
<1>1. \/ pc \in {"charge", "begin"} /\ Wait /\ starved' = starved
      \/ pc \in Admitting /\ Dismissed /\ starved' \in {starved, starved \cup {hand}}
  <2>1. CASE WaitForSlot
    <3>1. pc = "charge" /\ (Wait \/ (Dismissed /\ starved' = starved \cup {hand}))
      BY <2>1 DEF WaitForSlot
    <3>2. Wait => starved' = starved
      BY DEF Wait
    <3> QED
      BY <3>1, <3>2 DEF Admitting
  <2>2. CASE WaitForPages
    BY <2>2 DEF WaitForPages, Wait
  <2>3. CASE GoneAtHeaders \/ NoRoomAlone \/ LoneFails \/ LoneEnd
    BY <2>3 DEF GoneAtHeaders, NoRoomAlone, LoneFails, LoneEnd, Admitting
  <2> QED
    BY <2>1, <2>2, <2>3
<1> QED
  BY <1>1, WaitSettles, DismissedSettles

(* The request in hand comes in beside others, or hands over.               *)
LEMMA ComesInSettles ==
  ASSUME Settled, BeginBeside \/ BeginFails \/ HandOver
  PROVE  Settled'
<1> USE DEF lineVars, rowVars, standVars, otherVars
<1>1. /\ hand \in Job /\ hand # NoJob /\ hand' = NoJob /\ pc' = "step" /\ pc \in Admitting
      /\ prefilling = NoJob /\ ending = {}
      /\ UNCHANGED <<channel, line, blocked, parked, answered, inflight>>
      /\ UNCHANGED <<ending, stalled, starved>>
      /\ hand \notin Queued /\ hand \notin answered
  BY DEF BeginBeside, BeginFails, HandOver, Settled, Placed, Phased, Apart, Admitting
<1>2. NoJob \notin Queued /\ NoJob \notin answered
  <2>1. /\ Elems(channel) \in SUBSET Job /\ Elems(line) \in SUBSET Job
        /\ Elems(blocked) \in SUBSET Job /\ Elems(rows) \in SUBSET Job
        /\ Elems(parked) \in SUBSET Job /\ answered \in SUBSET Job
    BY ElemsIn DEF Settled, Placed
  <2> QED
    BY <2>1, JobAssumption DEF Queued, Lined
<1>3. CASE BeginBeside \/ BeginFails
  <2>1. prefilling' = hand /\ rows' = rows
    BY <1>3 DEF BeginBeside, BeginFails
  <2>2. Placed'
    BY <1>1, <2>1 DEF Settled, Placed
  <2>3. Once'
    BY <1>1, <2>1 DEF Settled, Once
  <2>4. Queued' = Queued /\ Lined' = Lined
    BY <1>1, <2>1 DEF Queued, Lined
  <2>5. Apart'
    BY <1>1, <1>2, <2>1, <2>4 DEF Settled, Apart
  <2>6. Counted'
    <3>1. InFlight' = InFlight
      BY <1>1, <2>1 DEF InFlight
    <3> QED
      BY <3>1, <1>1 DEF Settled, Counted
  <2>7. Phased'
    BY <1>1, <2>1 DEF Settled, Phased, Admitting
  <2> QED
    BY <2>2, <2>3, <2>5, <2>6, <2>7 DEF Settled
<1>4. CASE HandOver
  <2>1. prefilling' = prefilling /\ rows' = <<hand>> /\ rows = <<>>
    BY <1>4 DEF HandOver, Settled, Phased, Admitting
  <2>2. rows' \in Seq(Job) /\ Distinct(rows') /\ Elems(rows') = {hand}
    <3>1. <<hand>> \in Seq(Job) /\ DOMAIN <<hand>> = {1} /\ <<hand>>[1] = hand
      BY <1>1
    <3> QED
      BY <3>1, <2>1 DEF Distinct, Elems
  <2>3. Elems(rows) = {}
    BY <2>1 DEF Elems
  <2>4. Placed'
    BY <1>1, <2>1, <2>2 DEF Settled, Placed
  <2>5. Once'
    BY <1>1, <2>2 DEF Settled, Once
  <2>6. Lined' = Lined /\ Elems(parked)' = Elems(parked) /\ Queued' = Queued \cup {hand}
    BY <1>1, <2>2, <2>3 DEF Queued, Lined
  <2>7. Apart'
    <3>1. hand \notin Lined /\ hand \notin Elems(parked)
      BY <1>1 DEF Queued
    <3> QED
      BY <1>1, <1>2, <2>1, <2>2, <2>6, <3>1 DEF Settled, Apart
  <2>8. Counted'
    <3>1. InFlight' = InFlight
      BY <1>1, <2>1, <2>2, <2>3 DEF InFlight
    <3> QED
      BY <3>1, <1>1 DEF Settled, Counted
  <2>9. Phased'
    BY <1>1, <2>1 DEF Settled, Phased, Admitting
  <2> QED
    BY <2>4, <2>5, <2>7, <2>8, <2>9 DEF Settled
<1> QED
  BY <1>3, <1>4

(* A row parks.                                                             *)
LEMMA RowParksSettles ==
  ASSUME Settled, RowParks
  PROVE  Settled'
<1> USE DEF lineVars, rowVars, standVars, otherVars
<1>1. PICK i \in DOMAIN rows : rows' = Without(rows, {rows[i]}) /\ parked' = Append(parked, rows[i])
  BY DEF RowParks
<1>2. /\ pc = "step" /\ pc' = "step" /\ stalled' = Left
      /\ UNCHANGED <<channel, line, blocked, prefilling, hand, answered, inflight>>
      /\ UNCHANGED <<ending, starved>>
  BY DEF RowParks
<1> DEFINE j == rows[i]
<1>3. j \in Job /\ j \in Elems(rows)
  BY DEF Settled, Placed, Elems
<1>4. rows' \in Seq(Job) /\ Distinct(rows') /\ Elems(rows') = Elems(rows) \ {j}
  BY <1>1, WithoutKeeps DEF Settled, Placed, Once
<1>5. parked' = Append(parked, j)
  BY <1>1
<1> HIDE DEF j
<1>6. parked' \in Seq(Job) /\ Distinct(parked') /\ Elems(parked') = Elems(parked) \cup {j}
  <2>1. parked \in Seq(Job) /\ Distinct(parked) /\ j \notin Elems(parked)
    BY <1>3 DEF Settled, Placed, Once, Apart
  <2> QED
    BY <2>1, <1>3, <1>5, AppendKeeps
<1>7. Placed'
  BY <1>2, <1>4, <1>6 DEF Settled, Placed
<1>8. Once'
  BY <1>2, <1>4, <1>6 DEF Settled, Once
<1>9. Apart'
  BY <1>2, <1>3, <1>4, <1>6 DEF Settled, Apart, Queued, Lined
<1>10. Counted'
  <2>1. InFlight' = InFlight
    BY <1>2, <1>3, <1>4, <1>6 DEF InFlight
  <2> QED
    BY <2>1, <1>2 DEF Settled, Counted
<1>11. Phased'
  BY <1>2, <1>4 DEF Settled, Phased, Admitting, Left
<1> QED
  BY <1>7, <1>8, <1>9, <1>10, <1>11 DEF Settled

(* A row ends, whichever way.                                               *)
LEMMA RowGoesSettles ==
  ASSUME Settled, NEW j \in Elems(rows), pc \in {"step", "fail", "deal"}, pc' = pc,
         rows' = Without(rows, {j}), ending' = ending \ {j}, Ended(j),
         UNCHANGED <<channel, line, blocked, parked, prefilling, hand>>,
         starved' \in {starved, starved \cup {j}}
  PROVE  Settled'
<1>1. /\ answered' = answered \cup {j} /\ inflight' = inflight - 1 /\ stalled' = Left
  BY DEF Ended
<1>2. rows' \in Seq(Job) /\ Distinct(rows') /\ Elems(rows') = Elems(rows) \ {j}
  BY WithoutKeeps DEF Settled, Placed, Once
<1>3. j \in Job
  BY ElemsIn DEF Settled, Placed
<1>4. Placed'
  BY <1>1, <1>2, <1>3 DEF Settled, Placed
<1>5. Once'
  BY <1>2 DEF Settled, Once
<1>6. j \notin Elems(parked) /\ j \notin Lined /\ j # prefilling /\ j # hand
  BY DEF Settled, Apart, Queued
<1>7. Apart'
  <2>1. /\ channel' = channel /\ line' = line /\ blocked' = blocked /\ parked' = parked
        /\ prefilling' = prefilling /\ hand' = hand
    OBVIOUS
  <2>2. Lined' = Lined /\ Queued' \cup {j} = Queued /\ j \notin Queued'
    BY <1>2, <1>6, <2>1 DEF Lined, Queued
  <2>3. j \in Queued
    BY DEF Queued
  <2> QED
    BY <1>1, <1>2, <1>6, <2>1, <2>2, <2>3 DEF Settled, Apart
<1>8. Counted'
  <2>1. InFlight' = InFlight \ {j} /\ j \in InFlight
    BY <1>2, <1>6 DEF InFlight
  <2> QED
    BY <2>1, <1>1, OneEnds DEF Settled
<1>9. Phased'
  BY <1>1, <1>2 DEF Settled, Phased, Admitting, Left
<1> QED
  BY <1>4, <1>5, <1>7, <1>8, <1>9 DEF Settled

LEMMA RowsGoSettle ==
  ASSUME Settled, RowStarves \/ ParkFails \/ FailAll \/ EndRow
  PROVE  Settled'
<1> USE DEF lineVars, rowVars, standVars, otherVars
<1>1. ASSUME NEW j \in Elems(rows), RowFails(j), pc \in {"step", "fail"},
             starved' \in {starved, starved \cup {j}}
      PROVE  Settled'
  <2>1. /\ rows' = Without(rows, {j}) /\ Ended(j) /\ pc' = pc
        /\ UNCHANGED <<channel, line, blocked, parked, prefilling, hand>>
        /\ ending' = ending
    BY <1>1 DEF RowFails, Failed
  <2>2. ending' = ending \ {j}
    BY <1>1, <2>1 DEF Settled, Phased
  <2>3. pc \in {"step", "fail", "deal"}
    BY <1>1
  <2> QED
    BY <1>1, <2>1, <2>2, <2>3, RowGoesSettles
<1>2. \A i \in DOMAIN rows : rows[i] \in Elems(rows)
  BY DEF Elems
<1>3. CASE RowStarves
  BY <1>1, <1>2, <1>3 DEF RowStarves
<1>4. CASE ParkFails
  BY <1>1, <1>2, <1>4 DEF ParkFails
<1>5. CASE FailAll
  <2>1. CASE rows # <<>>
    <3>1. pc = "fail" /\ RowFails(Head(rows)) /\ UNCHANGED starved
      BY <1>5, <2>1 DEF FailAll
    <3>2. Head(rows) \in Elems(rows)
      BY <2>1, HeadGoes DEF Settled, Placed, Once
    <3> QED
      BY <3>1, <3>2, <1>1
  <2>2. CASE rows = <<>>
    <3>1. UNCHANGED PlaceVars /\ pc = "fail" /\ pc' = "prefill" /\ UNCHANGED <<ending, stalled, starved>>
      BY <1>5, <2>2 DEF FailAll, PlaceVars
    <3>2. Phased'
      BY <3>1 DEF Settled, Phased, Admitting, PlaceVars
    <3> QED
      BY <3>1, <3>2, PlacesStay DEF Settled
  <2> QED
    BY <2>1, <2>2
<1>6. CASE EndRow
  <2>1. PICK i \in DOMAIN rows : /\ rows' = Without(rows, {rows[i]}) /\ ending' = ending \ {rows[i]}
                                 /\ Ended(rows[i])
    BY <1>6 DEF EndRow
  <2>2. /\ pc = "deal" /\ pc' = pc /\ starved' = starved
        /\ UNCHANGED <<channel, line, blocked, parked, prefilling, hand>>
    BY <1>6 DEF EndRow
  <2> QED
    BY <2>1, <2>2, <1>2, RowGoesSettles
<1> QED
  BY <1>3, <1>4, <1>5, <1>6

(* The prompt being prefilled joins the rows, or its request ends.          *)
LEMMA PrefilledSettles ==
  ASSUME Settled, JoinPrefilled \/ PrefilledEnds \/ ChunkFails
  PROVE  Settled'
<1> USE DEF lineVars, rowVars, standVars, otherVars
<1>1. /\ prefilling \in Job /\ prefilling # NoJob /\ prefilling' = NoJob
      /\ pc = "prefill" /\ pc' = "yield" /\ ending = {} /\ ending' = {} /\ starved' = starved
      /\ hand = NoJob
      /\ UNCHANGED <<channel, line, blocked, parked, hand>>
      /\ prefilling \notin Queued /\ prefilling \notin answered
  BY DEF JoinPrefilled, PrefilledEnds, ChunkFails, LastChunk, Settled, Placed, Phased, Apart,
         Admitting
<1>2. NoJob \notin Queued /\ NoJob \notin answered
  <2>1. /\ Elems(channel) \in SUBSET Job /\ Elems(line) \in SUBSET Job
        /\ Elems(blocked) \in SUBSET Job /\ Elems(rows) \in SUBSET Job
        /\ Elems(parked) \in SUBSET Job /\ answered \in SUBSET Job
    BY ElemsIn DEF Settled, Placed
  <2> QED
    BY <2>1, JobAssumption DEF Queued, Lined
<1>3. CASE JoinPrefilled
  <2>1. rows' = Append(rows, prefilling) /\ UNCHANGED <<stalled, inflight, answered>>
    BY <1>3 DEF JoinPrefilled
  <2>2. /\ rows' \in Seq(Job) /\ Distinct(rows') /\ Elems(rows') = Elems(rows) \cup {prefilling}
    <3>1. rows \in Seq(Job) /\ Distinct(rows) /\ prefilling \notin Elems(rows)
      BY <1>1 DEF Settled, Placed, Once, Queued
    <3> QED
      BY <3>1, <1>1, <2>1, AppendKeeps
  <2>3. Placed'
    BY <1>1, <2>1, <2>2 DEF Settled, Placed
  <2>4. Once'
    BY <1>1, <2>2 DEF Settled, Once
  <2>5. /\ Lined' = Lined /\ Elems(parked)' = Elems(parked) /\ Queued' = Queued \cup {prefilling}
        /\ prefilling \notin Lined /\ prefilling \notin Elems(parked)
    BY <1>1, <2>2 DEF Queued, Lined
  <2>6. Apart'
    BY <1>1, <1>2, <2>1, <2>2, <2>5 DEF Settled, Apart
  <2>7. Counted'
    <3>1. InFlight' = InFlight
      BY <1>1, <2>1, <2>2 DEF InFlight
    <3> QED
      BY <3>1, <2>1 DEF Settled, Counted
  <2>8. Phased'
    BY <1>1, <2>1 DEF Settled, Phased, Admitting
  <2> QED
    BY <2>3, <2>4, <2>6, <2>7, <2>8 DEF Settled
<1>4. CASE PrefilledEnds \/ ChunkFails
  <2>1. rows' = rows /\ Ended(prefilling)
    BY <1>4 DEF PrefilledEnds, ChunkFails, Failed
  <2>2. /\ answered' = answered \cup {prefilling} /\ inflight' = inflight - 1 /\ stalled' = Left
    BY <2>1 DEF Ended
  <2>3. Placed'
    BY <1>1, <2>1, <2>2 DEF Settled, Placed
  <2>4. Once'
    BY <1>1, <2>1 DEF Settled, Once
  <2>5. Queued' = Queued /\ Lined' = Lined
    BY <1>1, <2>1 DEF Queued, Lined
  <2>6. Apart'
    BY <1>1, <1>2, <2>1, <2>2, <2>5 DEF Settled, Apart
  <2>7. Counted'
    <3>1. InFlight' = InFlight \ {prefilling} /\ prefilling \in InFlight
      BY <1>1, <2>1 DEF InFlight, Queued
    <3> QED
      BY <3>1, <2>2, OneEnds DEF Settled
  <2>8. Phased'
    BY <1>1, <2>1, <2>2 DEF Settled, Phased, Admitting, Left
  <2> QED
    BY <2>3, <2>4, <2>6, <2>7, <2>8 DEF Settled
<1> QED
  BY <1>3, <1>4

LEMMA SettledStays == Settled /\ [Next]_vars => Settled'
<1> SUFFICES ASSUME Settled, [Next]_vars PROVE Settled'
  OBVIOUS
<1>1. CASE Next /\ ~BeginAlone
  BY <1>1, NobodyMoves, SubmitSettles, TakeSettles, ResumeSettles, ResumeFailsSettles,
     NoneAdmittedSettles, AdmitSettles, HandSettles, ComesInSettles, RowParksSettles,
     RowsGoSettle, PrefilledSettles
  DEF Next, Loop
<1>2. CASE BeginAlone
  <2>1. /\ UNCHANGED PlaceVars /\ pc = "begin" /\ pc' = "lone" /\ rows = <<>>
        /\ UNCHANGED <<ending, stalled, starved>>
    BY <1>2 DEF BeginAlone, PlaceVars, lineVars, rowVars
  <2>2. Phased'
    BY <2>1 DEF Settled, Phased, Admitting, PlaceVars
  <2> QED
    BY <2>1, <2>2, PlacesStay DEF Settled
<1>3. CASE UNCHANGED vars
  <2>1. UNCHANGED PlaceVars /\ UNCHANGED <<pc, ending, stalled, starved>>
    BY <1>3 DEF vars, PlaceVars, lineVars, rowVars
  <2>2. Phased'
    BY <2>1 DEF Settled, Phased, PlaceVars
  <2> QED
    BY <2>1, <2>2, PlacesStay DEF Settled
<1> QED
  BY <1>1, <1>2, <1>3

(* One place at a time: the lengths add up to the requests there are.       *)
LEMMA PlacesCount ==
  ASSUME Settled
  PROVE  OnePlace
<1>1. /\ IsFiniteSet(Elems(channel)) /\ Cardinality(Elems(channel)) = Len(channel)
      /\ IsFiniteSet(Elems(line)) /\ Cardinality(Elems(line)) = Len(line)
      /\ IsFiniteSet(Elems(blocked)) /\ Cardinality(Elems(blocked)) = Len(blocked)
      /\ IsFiniteSet(Elems(rows)) /\ Cardinality(Elems(rows)) = Len(rows)
      /\ IsFiniteSet(Elems(parked)) /\ Cardinality(Elems(parked)) = Len(parked)
  BY LenIsCount DEF Settled, Placed, Once
<1>2. /\ Len(channel) \in Nat /\ Len(line) \in Nat /\ Len(blocked) \in Nat
      /\ Len(rows) \in Nat /\ Len(parked) \in Nat
  BY DEF Settled, Placed
<1> DEFINE H == {prefilling, hand} \ {NoJob}
<1>3. IsFiniteSet(H) /\ Cardinality(H) \in Nat
  <2>1. IsFiniteSet({prefilling}) /\ IsFiniteSet({hand})
    BY FS_Singleton
  <2>2. IsFiniteSet({prefilling} \cup {hand})
    BY <2>1, FS_Union
  <2>3. H \in SUBSET ({prefilling} \cup {hand})
    OBVIOUS
  <2>4. IsFiniteSet(H)
    BY <2>2, <2>3, FS_Subset
  <2> QED
    BY <2>4, FS_CardinalityType
<1>4. ASSUME NEW S, NEW T, IsFiniteSet(S), IsFiniteSet(T), S \cap T = {},
             NEW m \in Nat, NEW n \in Nat, Cardinality(S) = m, Cardinality(T) = n
      PROVE  IsFiniteSet(S \cup T) /\ Cardinality(S \cup T) = m + n /\ m + n \in Nat
  <2>1. IsFiniteSet(S \cup T)
        /\ Cardinality(S \cup T) = Cardinality(S) + Cardinality(T) - Cardinality(S \cap T)
    BY <1>4, FS_Union
  <2>2. Cardinality(S \cap T) = 0
    BY <1>4, FS_EmptySet
  <2> QED
    BY <2>1, <2>2, <1>4
<1> DEFINE A == Elems(channel) \cup Elems(line)
           B == A \cup Elems(blocked)
           C == B \cup Elems(rows)
           D == C \cup Elems(parked)
<1>5. /\ Elems(channel) \cap Elems(line) = {} /\ A \cap Elems(blocked) = {}
      /\ B \cap Elems(rows) = {} /\ C \cap Elems(parked) = {} /\ D \cap H = {}
  BY DEF Settled, Apart, Queued, Lined
<1>6. IsFiniteSet(A) /\ Cardinality(A) = Len(channel) + Len(line)
      /\ Len(channel) + Len(line) \in Nat
  BY <1>1, <1>2, <1>4, <1>5
<1> HIDE DEF A
<1>7. IsFiniteSet(B) /\ Cardinality(B) = Len(channel) + Len(line) + Len(blocked)
      /\ Len(channel) + Len(line) + Len(blocked) \in Nat
  BY <1>1, <1>2, <1>4, <1>5, <1>6
<1> HIDE DEF B
<1>8. IsFiniteSet(C) /\ Cardinality(C) = Len(channel) + Len(line) + Len(blocked) + Len(rows)
      /\ Len(channel) + Len(line) + Len(blocked) + Len(rows) \in Nat
  BY <1>1, <1>2, <1>4, <1>5, <1>7
<1> HIDE DEF C
<1>9. IsFiniteSet(D)
      /\ Cardinality(D) = Len(channel) + Len(line) + Len(blocked) + Len(rows) + Len(parked)
      /\ Len(channel) + Len(line) + Len(blocked) + Len(rows) + Len(parked) \in Nat
  BY <1>1, <1>2, <1>4, <1>5, <1>8
<1> HIDE DEF D, H
<1>10. Cardinality(D \cup H)
         = Len(channel) + Len(line) + Len(blocked) + Len(rows) + Len(parked) + Cardinality(H)
  BY <1>3, <1>4, <1>5, <1>9
<1>11. Everywhere = Queued \cup {prefilling, hand}
  <2>1. DOMAIN Places = 1..5 /\ Places[1] = channel /\ Places[2] = line /\ Places[3] = blocked
        /\ Places[4] = rows /\ Places[5] = parked
    BY DEF Places
  <2>2. UNION {Elems(Places[i]) : i \in 1..5} = Queued
    <3>1. \A x : x \in UNION {Elems(Places[i]) : i \in 1..5} <=> \E i \in 1..5 : x \in Elems(Places[i])
      OBVIOUS
    <3>2. \A x : (\E i \in 1..5 : x \in Elems(Places[i])) <=> x \in Queued
      BY <2>1 DEF Queued, Lined
    <3> QED
      BY <3>1, <3>2
  <2> QED
    BY <2>1, <2>2 DEF Everywhere
<1>12. Everywhere \ {NoJob} = D \cup H
  <2>1. NoJob \notin Queued
    <3>1. /\ Elems(channel) \in SUBSET Job /\ Elems(line) \in SUBSET Job
          /\ Elems(blocked) \in SUBSET Job /\ Elems(rows) \in SUBSET Job
          /\ Elems(parked) \in SUBSET Job
      BY ElemsIn DEF Settled, Placed
    <3> QED
      BY <3>1, JobAssumption DEF Queued, Lined
  <2>2. D = Queued
    BY DEF A, B, C, D, Queued, Lined
  <2> QED
    BY <1>11, <2>1, <2>2 DEF H
<1>13. Everywhere \cap answered = {}
  BY <1>11 DEF Settled, Apart
<1>14. inflight = Cardinality(InFlight)
  BY DEF Settled, Counted
<1>15. Len(channel) + Len(line) + Len(blocked) + Len(rows) + Len(parked) + Cardinality(H)
         = Cardinality(Everywhere \ {NoJob})
  BY <1>10, <1>12
<1> QED
  BY <1>13, <1>14, <1>15 DEF OnePlace, H

-----------------------------------------------------------------------------
(* What the operations make of a pool.                                      *)

(* A pool whose pages and charges are within the tier.                      *)
Sound(p) == p \in Pool /\ Unused(p) >= 0

(* What q keeps, of p, of the seat c has in s.                              *)
Keeps(p, q, c, s) ==
  /\ q.pages[c] = p.pages[c] /\ q.filled[s] = p.filled[s]
  /\ c \in p.pinned => c \in q.pinned
  /\ \A t \in Slot : q.occupant[t] = c <=> p.occupant[t] = c

LEMMA PoolIs ==
  ASSUME NEW p \in Pool
  PROVE  /\ p.pages \in Pages /\ p.occupant \in [Slot -> Conv \cup {NoConv}] /\ p.cur \in Slot
         /\ p.pinned \in SUBSET Conv /\ p.parked \in SUBSET Conv /\ p.charged \in SUBSET Slot
         /\ p.filled \in [Slot -> Nat]
  BY DEF Pool, Pages

LEMMA WithheldIs ==
  ASSUME NEW p, p.charged \in SUBSET Slot
  PROVE  /\ IsFiniteSet(p.charged) /\ Withheld(p) \in Nat
         /\ \A q : q.charged \in SUBSET p.charged => Withheld(q) \in Nat /\ Withheld(q) <= Withheld(p)
         /\ \A q, s : /\ s \notin p.charged
                      /\ q.charged = p.charged \cup {s}
                      => Withheld(q) = Withheld(p) + SlotPages
<1>1. IsFiniteSet(Slot)
  <2>1. 0 \in Int /\ Slots - 1 \in Int
    BY SlotsAssumption
  <2> QED
    BY <2>1, FS_Interval DEF Slot
<1>2. IsFiniteSet(p.charged)
  BY <1>1, FS_Subset
<1>3. Cardinality(p.charged) \in Nat
  BY <1>2, FS_CardinalityType
<1>4. \A m \in Nat : m * SlotPages \in Nat
  BY CapacityAssumption
<1>5. Withheld(p) \in Nat
  BY <1>3, <1>4 DEF Withheld
<1>6. ASSUME NEW q, q.charged \in SUBSET p.charged
      PROVE  Withheld(q) \in Nat /\ Withheld(q) <= Withheld(p)
  <2>1. IsFiniteSet(q.charged) /\ Cardinality(q.charged) <= Cardinality(p.charged)
    BY <1>2, <1>6, FS_Subset
  <2>2. Cardinality(q.charged) \in Nat
    BY <2>1, FS_CardinalityType
  <2>3. \A m \in Nat, n \in Nat : m <= n => m * SlotPages <= n * SlotPages
    BY CapacityAssumption
  <2> QED
    BY <1>3, <1>4, <2>1, <2>2, <2>3 DEF Withheld
<1>7. ASSUME NEW q, NEW s, s \notin p.charged, q.charged = p.charged \cup {s}
      PROVE  Withheld(q) = Withheld(p) + SlotPages
  <2>1. Cardinality(p.charged \cup {s}) = Cardinality(p.charged) + 1
    BY <1>2, <1>7, FS_AddElement
  <2>2. \A m \in Nat : (m + 1) * SlotPages = m * SlotPages + SlotPages
    BY CapacityAssumption
  <2> QED
    BY <1>3, <1>7, <2>1, <2>2 DEF Withheld
<1> QED
  BY <1>2, <1>5, <1>6, <1>7

LEMMA UnusedIs ==
  ASSUME NEW p \in Pool
  PROVE  /\ PagesOf(p, Conv) \in Nat /\ Withheld(p) \in Nat
         /\ Unused(p) \in Int /\ Unused(p) <= Capacity
         /\ \A c \in Conv : Unused(p) + p.pages[c] <= Capacity /\ p.pages[c] \in Nat
<1>1. p.pages \in Pages /\ p.charged \in SUBSET Slot
  BY PoolIs
<1>2. Withheld(p) \in Nat
  BY <1>1, WithheldIs
<1>3. PagesOf(p, Conv) \in Nat
  BY <1>1, SumIs
<1>4. ASSUME NEW c \in Conv PROVE Unused(p) + p.pages[c] <= Capacity /\ p.pages[c] \in Nat
  <2>1. Conv \ {c} \in SUBSET Conv
    OBVIOUS
  <2>2. PagesOf(p, Conv) = p.pages[c] + PagesOf(p, Conv \ {c}) /\ PagesOf(p, Conv \ {c}) \in Nat
    BY <1>1, <2>1, SumIs
  <2>3. p.pages[c] \in Nat
    BY <1>1, CapacityAssumption DEF Pages
  <2> QED
    BY <1>2, <2>2, <2>3, CapacityAssumption DEF Unused
<1> QED
  BY <1>2, <1>3, <1>4, CapacityAssumption DEF Unused

(* Pages and charges are all that counts.                                   *)
LEMMA UnusedBy ==
  ASSUME NEW p \in Pool, NEW q \in Pool,
         \A c \in Conv : q.pages[c] <= p.pages[c], q.charged \in SUBSET p.charged
  PROVE  Unused(q) >= Unused(p) /\ (Sound(p) => Sound(q))
<1>1. PagesOf(q, Conv) <= PagesOf(p, Conv)
  <2>1. p.pages \in Pages /\ q.pages \in Pages
    BY PoolIs
  <2> QED
    BY <2>1, SumFewer
<1>2. Withheld(q) <= Withheld(p)
  <2>1. p.charged \in SUBSET Slot
    BY PoolIs
  <2> QED
    BY <2>1, WithheldIs
<1>3. /\ PagesOf(p, Conv) \in Nat /\ PagesOf(q, Conv) \in Nat
      /\ Withheld(p) \in Nat /\ Withheld(q) \in Nat
      /\ Unused(p) \in Int /\ Unused(q) \in Int
  BY UnusedIs
<1>4. Unused(q) >= Unused(p)
  BY <1>1, <1>2, <1>3, CapacityAssumption DEF Unused
<1> QED
  BY <1>3, <1>4 DEF Sound

(* Pages for one conversation.                                              *)
LEMMA PagesSet ==
  ASSUME NEW p \in Pool, NEW c \in Conv, NEW n \in Nat, Unused(p) + p.pages[c] >= n,
         NEW q \in [pages : {[p.pages EXCEPT ![c] = n]},
                    occupant : [Slot -> Conv \cup {NoConv}], cur : Slot, pinned : SUBSET Conv,
                    parked : SUBSET Conv, charged : {p.charged}, filled : [Slot -> Nat]]
  PROVE  Sound(q) /\ Unused(q) = Unused(p) + p.pages[c] - n
<1>1. /\ Unused(p) + p.pages[c] <= Capacity /\ Unused(p) \in Int /\ p.pages[c] \in Nat
      /\ PagesOf(p, Conv) \in Nat /\ Withheld(p) \in Nat
  BY UnusedIs
<1>2. p.pages \in Pages /\ p.charged \in SUBSET Slot
  BY PoolIs
<1>3. q.pages \in Pages /\ q.pages[c] = n /\ \A d \in Conv \ {c} : q.pages[d] = p.pages[d]
  BY <1>1, <1>2, CapacityAssumption DEF Pages
<1>4. q \in Pool
  BY <1>2, <1>3 DEF Pool, Pages
<1>5. PagesOf(q, Conv \ {c}) = PagesOf(p, Conv \ {c})
  <2>1. Conv \ {c} \in SUBSET Conv
    OBVIOUS
  <2> QED
    BY <2>1, <1>2, <1>3, SumSame
<1>6. /\ PagesOf(p, Conv) = p.pages[c] + PagesOf(p, Conv \ {c})
      /\ PagesOf(q, Conv) = n + PagesOf(q, Conv \ {c})
  BY <1>2, <1>3, SumIs
<1>7. PagesOf(p, Conv \ {c}) \in Nat
  <2>1. Conv \ {c} \in SUBSET Conv
    OBVIOUS
  <2> QED
    BY <2>1, <1>2, SumIs
<1>8. Withheld(q) = Withheld(p)
  BY DEF Withheld
<1>9. Unused(q) = Unused(p) + p.pages[c] - n
  BY <1>1, <1>5, <1>6, <1>7, <1>8, CapacityAssumption DEF Unused
<1> QED
  BY <1>1, <1>4, <1>9 DEF Sound

(* Forget.                                                                  *)
LEMMA ForgetIs ==
  ASSUME NEW p \in Pool, NEW D \in SUBSET Conv
  PROVE  LET q == Forget(p, D)
         IN  /\ q \in Pool /\ Unused(q) >= Unused(p) /\ (Sound(p) => Sound(q))
             /\ q.cur = p.cur /\ q.charged = p.charged /\ q.filled = p.filled
             /\ q.pinned = p.pinned \ D /\ q.parked = p.parked \ D
             /\ \A c \in Conv : q.pages[c] = IF c \in D THEN 0 ELSE p.pages[c]
             /\ \A s \in Slot : q.occupant[s] = IF p.occupant[s] \in D THEN NoConv ELSE p.occupant[s]
<1> DEFINE q == Forget(p, D)
<1>0. Capacity \in Nat
  BY CapacityAssumption
<1>1. /\ DOMAIN p = {"pages", "occupant", "cur", "pinned", "parked", "charged", "filled"}
      /\ p.cur \in Slot /\ p.pinned \in SUBSET Conv /\ p.parked \in SUBSET Conv
      /\ p.charged \in SUBSET Slot /\ p.filled \in [Slot -> Nat]
      /\ p.pages \in [Conv -> 0..Capacity] /\ p.occupant \in [Slot -> Conv \cup {NoConv}]
  BY DEF Pool
<1>11. /\ q.pages = [c \in Conv |-> IF c \in D THEN 0 ELSE p.pages[c]]
       /\ q.occupant = [s \in Slot |-> IF p.occupant[s] \in D THEN NoConv ELSE p.occupant[s]]
       /\ q.cur = p.cur /\ q.pinned = p.pinned \ D /\ q.parked = p.parked \ D
       /\ q.charged = p.charged /\ q.filled = p.filled
  BY <1>1 DEF Forget
<1>2. q \in Pool
  <2> DEFINE a == [c \in Conv |-> IF c \in D THEN 0 ELSE p.pages[c]]
             o == [s \in Slot |-> IF p.occupant[s] \in D THEN NoConv ELSE p.occupant[s]]
             r == [p EXCEPT !.pages = a, !.occupant = o, !.pinned = p.pinned \ D,
                            !.parked = p.parked \ D]
  <2>1. a \in [Conv -> 0..Capacity] /\ o \in [Slot -> Conv \cup {NoConv}]
    BY <1>0, <1>1
  <2>2. q = r
    BY DEF Forget
  <2> HIDE DEF a, o, q
  <2>3. r \in Pool
    BY <2>1, <1>1 DEF Pool
  <2> QED
    BY <2>2, <2>3
<1>3. \A c \in Conv : p.pages[c] \in Nat
  BY UnusedIs
<1>4. /\ q.cur = p.cur /\ q.charged = p.charged /\ q.filled = p.filled
      /\ q.pinned = p.pinned \ D /\ q.parked = p.parked \ D
  BY <1>11
<1>5. \A c \in Conv : q.pages[c] = IF c \in D THEN 0 ELSE p.pages[c]
  BY <1>11
<1>6. \A s \in Slot : q.occupant[s] = IF p.occupant[s] \in D THEN NoConv ELSE p.occupant[s]
  BY <1>11
<1> HIDE DEF q
<1>7. Unused(q) >= Unused(p) /\ (Sound(p) => Sound(q))
  <2>1. \A c \in Conv : q.pages[c] <= p.pages[c]
    BY <1>3, <1>5
  <2>2. q.charged \in SUBSET p.charged
    BY <1>4
  <2> QED
    BY <1>2, <2>1, <2>2, UnusedBy
<1> QED
  BY <1>2, <1>4, <1>5, <1>6, <1>7 DEF q

LEMMA ForgetKeeps ==
  ASSUME NEW p \in Pool, NEW D \in SUBSET Conv, NEW c \in Conv \ D, NEW s \in Slot
  PROVE  Keeps(p, Forget(p, D), c, s)
<1> DEFINE q == Forget(p, D)
<1>1. /\ q.filled = p.filled /\ q.pinned = p.pinned \ D /\ q.pages[c] = p.pages[c]
      /\ \A t \in Slot : q.occupant[t] = IF p.occupant[t] \in D THEN NoConv ELSE p.occupant[t]
  BY ForgetIs
<1>2. c # NoConv
  BY ConvAssumption
<1> HIDE DEF q
<1>3. Keeps(p, q, c, s)
  BY <1>1, <1>2 DEF Keeps
<1> QED
  BY <1>3 DEF q

LEMMA KeepsOn ==
  ASSUME NEW p, NEW q, NEW r, NEW c, NEW s, Keeps(p, q, c, s), Keeps(q, r, c, s)
  PROVE  Keeps(p, r, c, s)
  BY DEF Keeps

LEMMA IdleIs ==
  ASSUME NEW p \in Pool, NEW c
  PROVE  Idle(p, c) \in SUBSET Conv /\ Idle(p, c) \cap p.pinned = {} /\ c \notin Idle(p, c)
  BY DEF Idle, Held

(* Room is made by dropping idle conversations.                             *)
LEMMA RoomIs ==
  ASSUME NEW p \in Pool, NEW c, NEW n \in Int, NEW q \in MakeRoom(p, c, n)
  PROVE  \E D \in SUBSET Idle(p, c) : q = Forget(p, D) /\ Unused(q) >= n
  BY DEF MakeRoom, Suffices

LEMMA UnusedSame ==
  ASSUME NEW p \in Pool, NEW q \in Pool, q.pages = p.pages, q.charged = p.charged
  PROVE  Unused(q) = Unused(p) /\ (Sound(p) => Sound(q))
<1>1. PagesOf(q, Conv) = PagesOf(p, Conv)
  <2>1. p.pages \in Pages /\ q.pages \in Pages
    BY PoolIs
  <2>2. \A c \in Conv : p.pages[c] = q.pages[c]
    OBVIOUS
  <2> QED
    BY <2>1, <2>2, SumSame
<1>2. Withheld(q) = Withheld(p)
  BY DEF Withheld
<1>3. Unused(q) = Unused(p)
  BY <1>1, <1>2 DEF Unused
<1> QED
  BY <1>3 DEF Sound

(* Each of the small operations: what it sets, and what it leaves.          *)
LEMMA SelectIs ==
  ASSUME NEW p \in Pool, NEW s \in Slot
  PROVE  LET q == Select(p, s)
         IN  /\ q \in Pool /\ Unused(q) = Unused(p) /\ (Sound(p) => Sound(q)) /\ q.cur = s
             /\ q.pages = p.pages /\ q.occupant = p.occupant /\ q.pinned = p.pinned
             /\ q.parked = p.parked /\ q.charged = p.charged /\ q.filled = p.filled
             /\ \A c, t : Keeps(p, q, c, t)
<1> DEFINE q == Select(p, s)
<1>1. /\ q \in Pool /\ q.cur = s
      /\ q.pages = p.pages /\ q.occupant = p.occupant /\ q.pinned = p.pinned
      /\ q.parked = p.parked /\ q.charged = p.charged /\ q.filled = p.filled
  BY DEF Select, Pool
<1> HIDE DEF q
<1>2. Unused(q) = Unused(p) /\ (Sound(p) => Sound(q))
  BY <1>1, UnusedSame
<1>3. \A c, t : Keeps(p, q, c, t)
  BY <1>1 DEF Keeps
<1> QED
  BY <1>1, <1>2, <1>3 DEF q

LEMMA PinIs ==
  ASSUME NEW p \in Pool, NEW c \in Conv
  PROVE  LET q == Pin(p, c)
         IN  /\ q \in Pool /\ (Sound(p) => Sound(q)) /\ q.pinned = p.pinned \cup {c}
             /\ q.pages = p.pages /\ q.occupant = p.occupant /\ q.cur = p.cur
             /\ q.charged = p.charged /\ q.filled = p.filled
             /\ \A d, t : Keeps(p, q, d, t)
<1> DEFINE q == Pin(p, c)
<1>1. /\ q \in Pool /\ q.pinned = p.pinned \cup {c}
      /\ q.pages = p.pages /\ q.occupant = p.occupant /\ q.cur = p.cur
      /\ q.charged = p.charged /\ q.filled = p.filled
  BY DEF Pin, Pool
<1> HIDE DEF q
<1>2. Sound(p) => Sound(q)
  BY <1>1, UnusedSame
<1>3. \A d, t : Keeps(p, q, d, t)
  BY <1>1 DEF Keeps
<1> QED
  BY <1>1, <1>2, <1>3 DEF q

LEMMA UnpinIs ==
  ASSUME NEW p \in Pool, NEW c
  PROVE  LET q == Unpin(p, c)
         IN  /\ q \in Pool /\ (Sound(p) => Sound(q)) /\ q.pinned = p.pinned \ {c}
             /\ q.pages = p.pages /\ q.occupant = p.occupant /\ q.cur = p.cur
             /\ q.charged = p.charged /\ q.filled = p.filled
             /\ \A d, t : d # c => Keeps(p, q, d, t)
<1> DEFINE q == Unpin(p, c)
<1>1. /\ q \in Pool /\ q.pinned = p.pinned \ {c}
      /\ q.pages = p.pages /\ q.occupant = p.occupant /\ q.cur = p.cur
      /\ q.charged = p.charged /\ q.filled = p.filled
  BY DEF Unpin, Pool
<1> HIDE DEF q
<1>2. Sound(p) => Sound(q)
  BY <1>1, UnusedSame
<1>3. \A d, t : d # c => Keeps(p, q, d, t)
  BY <1>1 DEF Keeps
<1> QED
  BY <1>1, <1>2, <1>3 DEF q

(* filled alone: a chunk or a step of the model.                            *)
LEMMA FilledIs ==
  ASSUME NEW p \in Pool, NEW f \in [Slot -> Nat]
  PROVE  LET q == [p EXCEPT !.filled = f]
         IN  /\ q \in Pool /\ (Sound(p) => Sound(q)) /\ q.filled = f /\ q.pinned = p.pinned
             /\ q.pages = p.pages /\ q.occupant = p.occupant /\ q.cur = p.cur
             /\ q.charged = p.charged
             /\ \A d, t : f[t] = p.filled[t] => Keeps(p, q, d, t)
<1> DEFINE q == [p EXCEPT !.filled = f]
<1>1. /\ q \in Pool /\ q.filled = f /\ q.pinned = p.pinned
      /\ q.pages = p.pages /\ q.occupant = p.occupant /\ q.cur = p.cur
      /\ q.charged = p.charged
  BY DEF Pool
<1> HIDE DEF q
<1>2. Sound(p) => Sound(q)
  BY <1>1, UnusedSame
<1>3. \A d, t : f[t] = p.filled[t] => Keeps(p, q, d, t)
  BY <1>1 DEF Keeps
<1> QED
  BY <1>1, <1>2, <1>3 DEF q

LEMMA StepIs ==
  ASSUME NEW p \in Pool, NEW s \in Slot
  PROVE  LET q == [p EXCEPT !.filled[s] = @ + 1]
         IN  /\ q \in Pool /\ (Sound(p) => Sound(q)) /\ q.filled[s] = p.filled[s] + 1
             /\ q.pinned = p.pinned /\ q.charged = p.charged
             /\ q.pages = p.pages /\ q.occupant = p.occupant /\ q.cur = p.cur
             /\ \A d : \A t \in Slot : t # s => Keeps(p, q, d, t)
<1> DEFINE q == [p EXCEPT !.filled[s] = @ + 1]
<1>1. p.filled \in [Slot -> Nat]
  BY PoolIs
<1>2. /\ q \in Pool /\ q.filled[s] = p.filled[s] + 1 /\ q.pinned = p.pinned
      /\ q.charged = p.charged /\ q.pages = p.pages /\ q.occupant = p.occupant /\ q.cur = p.cur
      /\ \A t \in Slot : t # s => q.filled[t] = p.filled[t]
  BY <1>1 DEF Pool
<1> HIDE DEF q
<1>3. Sound(p) => Sound(q)
  BY <1>2, UnusedSame
<1>4. \A d : \A t \in Slot : t # s => Keeps(p, q, d, t)
  BY <1>2 DEF Keeps
<1> QED
  BY <1>2, <1>3, <1>4 DEF q

LEMMA LeaveIs ==
  ASSUME NEW p \in Pool
  PROVE  LET q == LeaveSlot(p)
         IN  /\ q \in Pool /\ (Sound(p) => Sound(q)) /\ q.pinned = p.pinned
             /\ q.pages = p.pages /\ q.cur = p.cur
             /\ q.charged = p.charged /\ q.filled = p.filled
             /\ \A t \in Slot : q.occupant[t] = IF t = p.cur THEN NoConv ELSE p.occupant[t]
             /\ \A d \in Conv, t \in Slot : d # p.occupant[p.cur] => Keeps(p, q, d, t)
<1> DEFINE q == LeaveSlot(p)
<1>1. /\ q \in Pool /\ q.pinned = p.pinned
      /\ q.pages = p.pages /\ q.cur = p.cur
      /\ q.charged = p.charged /\ q.filled = p.filled
      /\ \A t \in Slot : q.occupant[t] = IF t = p.cur THEN NoConv ELSE p.occupant[t]
  BY DEF LeaveSlot, Pool
<1> HIDE DEF q
<1>2. Sound(p) => Sound(q)
  BY <1>1, UnusedSame
<1>3. \A d \in Conv, t \in Slot : d # p.occupant[p.cur] => Keeps(p, q, d, t)
  BY <1>1, ConvAssumption DEF Keeps
<1> QED
  BY <1>1, <1>2, <1>3 DEF q

LEMMA EndIs ==
  ASSUME NEW p \in Pool, NEW c \in Conv, NEW n \in Nat
  PROVE  LET q == End(p, c, n)
         IN  /\ q \in Pool /\ (Sound(p) => Sound(q)) /\ q.pinned = p.pinned
             /\ q.occupant = p.occupant /\ q.cur = p.cur
             /\ q.charged = p.charged /\ q.filled = p.filled
             /\ \A d, t : d \in Conv /\ d # c => Keeps(p, q, d, t)
<1> DEFINE q == End(p, c, n)
<1>1. p.pages \in [Conv -> 0..Capacity] /\ Capacity \in Nat
  BY CapacityAssumption DEF Pool
<1> DEFINE g == [p.pages EXCEPT ![c] = IF @ > n + 1 THEN n + 1 ELSE @]
<1>5. /\ g \in [Conv -> 0..Capacity] /\ \A d \in Conv : d # c => g[d] = p.pages[d]
      /\ \A d \in Conv : g[d] <= p.pages[d]
  <2>1. \A d \in Conv : p.pages[d] \in 0..Capacity
    BY <1>1
  <2>2. p.pages[c] > n + 1 => n + 1 \in 0..Capacity /\ n + 1 <= p.pages[c]
    BY <1>1, <2>1
  <2> QED
    BY <1>1, <2>1, <2>2
<1>6. q = [p EXCEPT !.pages = g]
  BY DEF End, Pool
<1> HIDE DEF g, q
<1>2. /\ q \in Pool /\ q.pinned = p.pinned
      /\ q.occupant = p.occupant /\ q.cur = p.cur
      /\ q.charged = p.charged /\ q.filled = p.filled
      /\ \A d \in Conv : d # c => q.pages[d] = p.pages[d]
      /\ \A d \in Conv : q.pages[d] <= p.pages[d]
  BY <1>5, <1>6 DEF Pool
<1>3. Sound(p) => Sound(q)
  <2>1. q.charged \in SUBSET p.charged
    BY <1>2
  <2> QED
    BY <1>2, <2>1, UnusedBy
<1>4. \A d, t : d \in Conv /\ d # c => Keeps(p, q, d, t)
  BY <1>2 DEF Keeps
<1> QED
  BY <1>2, <1>3, <1>4 DEF q

LEMMA ParkIs ==
  ASSUME NEW p \in Pool, NEW c \in Conv, NEW n \in Nat
  PROVE  LET q == Park(p, c, n)
         IN  /\ q \in Pool /\ (Sound(p) => Sound(q)) /\ q.pinned = p.pinned \ {c}
             /\ q.cur = p.cur /\ q.charged = p.charged /\ q.filled = p.filled
             /\ \A d \in Conv, t \in Slot : d # c /\ d # p.occupant[p.cur] => Keeps(p, q, d, t)
<1> DEFINE p1 == End(p, c, n)
           p2 == Unpin(p1, c)
           p3 == LeaveSlot(p2)
           q == [p3 EXCEPT !.parked = @ \cup {c}]
<1>1. /\ p1 \in Pool /\ (Sound(p) => Sound(p1)) /\ p1.pinned = p.pinned
      /\ p1.occupant = p.occupant /\ p1.cur = p.cur
      /\ p1.charged = p.charged /\ p1.filled = p.filled
      /\ \A d, t : d \in Conv /\ d # c => Keeps(p, p1, d, t)
  BY EndIs
<1> HIDE DEF p1
<1>2. /\ p2 \in Pool /\ (Sound(p1) => Sound(p2)) /\ p2.pinned = p1.pinned \ {c}
      /\ p2.occupant = p1.occupant /\ p2.cur = p1.cur
      /\ p2.charged = p1.charged /\ p2.filled = p1.filled
      /\ \A d, t : d # c => Keeps(p1, p2, d, t)
  BY <1>1, UnpinIs
<1> HIDE DEF p2
<1>3. /\ p3 \in Pool /\ (Sound(p2) => Sound(p3)) /\ p3.pinned = p2.pinned
      /\ p3.cur = p2.cur /\ p3.charged = p2.charged /\ p3.filled = p2.filled
      /\ \A d \in Conv, t \in Slot : d # p2.occupant[p2.cur] => Keeps(p2, p3, d, t)
  BY <1>2, LeaveIs
<1> HIDE DEF p3
<1>4. /\ q \in Pool /\ q.pinned = p3.pinned /\ q.cur = p3.cur /\ q.charged = p3.charged
      /\ q.filled = p3.filled /\ q.pages = p3.pages /\ q.occupant = p3.occupant
  BY <1>3 DEF Pool
<1>5. q = Park(p, c, n)
  BY DEF Park, p1, p2, p3
<1> HIDE DEF q
<1>6. Sound(p3) => Sound(q)
  BY <1>3, <1>4, UnusedSame
<1>7. \A d \in Conv, t \in Slot : d # c /\ d # p.occupant[p.cur] => Keeps(p, q, d, t)
  <2> SUFFICES ASSUME NEW d \in Conv, NEW t \in Slot, d # c, d # p.occupant[p.cur]
               PROVE  Keeps(p, q, d, t)
    OBVIOUS
  <2>1. Keeps(p, p1, d, t) /\ Keeps(p1, p2, d, t) /\ Keeps(p2, p3, d, t)
    BY <1>1, <1>2, <1>3
  <2>2. Keeps(p, p3, d, t)
    BY <2>1, KeepsOn
  <2> QED
    BY <2>2, <1>4 DEF Keeps
<1> QED
  BY <1>1, <1>2, <1>3, <1>4, <1>5, <1>6, <1>7

LEMMA AbandonIs ==
  ASSUME NEW p \in Pool, NEW c \in Conv
  PROVE  LET q == Abandon(p, c)
         IN  /\ q \in Pool /\ (Sound(p) => Sound(q)) /\ q.pinned = p.pinned \ {c}
             /\ q.cur = p.cur /\ q.charged = p.charged /\ q.pages[c] = 0
             /\ \A d \in Conv, t \in Slot : d # c /\ t # p.cur => Keeps(p, q, d, t)
<1> DEFINE r == [p EXCEPT !.filled[p.cur] = 0]
           q == Forget(r, {c})
<1>1. p.filled \in [Slot -> Nat] /\ p.cur \in Slot
  BY PoolIs
<1>2. /\ r \in Pool /\ r.pages = p.pages /\ r.occupant = p.occupant /\ r.cur = p.cur
      /\ r.pinned = p.pinned /\ r.charged = p.charged
      /\ \A t \in Slot : t # p.cur => r.filled[t] = p.filled[t]
  BY <1>1 DEF Pool
<1>3. q = Abandon(p, c)
  BY DEF Abandon
<1> HIDE DEF r
<1>4. Sound(p) => Sound(r)
  BY <1>2, UnusedSame
<1>5. {c} \in SUBSET Conv
  OBVIOUS
<1>6. /\ q \in Pool /\ (Sound(r) => Sound(q)) /\ q.pinned = r.pinned \ {c}
      /\ q.cur = r.cur /\ q.charged = r.charged
  BY <1>2, <1>5, ForgetIs
<1>7. q.pages[c] = 0
  <2>1. \A d \in Conv : q.pages[d] = IF d \in {c} THEN 0 ELSE r.pages[d]
    BY <1>2, <1>5, ForgetIs
  <2> QED
    BY <2>1
<1>8. ASSUME NEW d \in Conv, NEW t \in Slot, d # c, t # p.cur
      PROVE  Keeps(p, q, d, t)
  <2>1. d \in Conv \ {c}
    BY <1>8
  <2>2. Keeps(r, q, d, t)
    BY <1>2, <1>5, <2>1, ForgetKeeps
  <2>3. Keeps(p, r, d, t)
    BY <1>2, <1>8 DEF Keeps
  <2> QED
    BY <2>2, <2>3, KeepsOn
<1> QED
  BY <1>2, <1>3, <1>4, <1>6, <1>7, <1>8

LEMMA UnchargedIs ==
  ASSUME NEW p \in Pool, NEW c
  PROVE  LET q == Uncharged(p, c)
         IN  /\ q \in Pool /\ (Sound(p) => Sound(q)) /\ q.pinned = p.pinned
             /\ q.cur = p.cur
             /\ \A d \in p.pinned, t \in Slot : Keeps(p, q, d, t)
<1> DEFINE q == Uncharged(p, c)
<1>1. Idle(p, c) \in SUBSET Conv /\ Idle(p, c) \cap p.pinned = {}
  BY IdleIs
<1>2. q \in Pool /\ (Sound(p) => Sound(q)) /\ q.cur = p.cur /\ q.pinned = p.pinned \ Idle(p, c)
  BY <1>1, ForgetIs DEF Uncharged
<1>3. p.pinned \in SUBSET Conv
  BY PoolIs
<1>4. ASSUME NEW d \in p.pinned, NEW t \in Slot PROVE Keeps(p, q, d, t)
  <2>1. d \in Conv \ Idle(p, c)
    BY <1>1, <1>3
  <2> QED
    BY <1>1, <2>1, ForgetKeeps DEF Uncharged
<1> QED
  BY <1>1, <1>2, <1>4

LEMMA TrimIs ==
  ASSUME NEW p \in Pool
  PROVE  LET q == Trim(p)
         IN  /\ q \in Pool /\ (Sound(p) => Sound(q)) /\ q.pinned = p.pinned
             /\ q.cur = p.cur
             /\ \A d \in p.pinned, t \in Slot : Keeps(p, q, d, t)
<1> DEFINE D == Conv \ Held(p)
           r == Forget(p, D)
           q == Trim(p)
<1>1. D \in SUBSET Conv /\ p.pinned \in SUBSET Conv /\ D \cap p.pinned = {}
  BY PoolIs DEF Held
<1>2. r \in Pool /\ (Sound(p) => Sound(r)) /\ r.cur = p.cur /\ r.pinned = p.pinned \ D
  <2> HIDE DEF D
  <2> QED
    BY <1>1, ForgetIs
<1>3. q = [r EXCEPT !.charged = {s \in @ : s = r.cur \/ r.occupant[s] # NoConv}]
  BY DEF Trim
<1> HIDE DEF r
<1>4. /\ q \in Pool /\ q.charged \in SUBSET r.charged /\ q.cur = r.cur /\ q.pinned = r.pinned
      /\ q.pages = r.pages /\ q.filled = r.filled /\ q.occupant = r.occupant
  BY <1>2, <1>3 DEF Pool
<1> HIDE DEF q
<1>5. Sound(r) => Sound(q)
  <2>1. \A c \in Conv : r.pages[c] \in Nat
    BY <1>2, UnusedIs
  <2>2. \A c \in Conv : q.pages[c] <= r.pages[c]
    BY <1>4, <2>1
  <2> QED
    BY <1>2, <1>4, <2>2, UnusedBy
<1>6. ASSUME NEW d \in p.pinned, NEW t \in Slot PROVE Keeps(p, q, d, t)
  <2>1. d \in Conv \ D
    BY <1>1
  <2>2. Keeps(p, r, d, t)
    <3> HIDE DEF D
    <3> QED
      BY <1>1, <2>1, ForgetKeeps DEF r
  <2>3. Keeps(r, q, d, t)
    BY <1>4 DEF Keeps
  <2> QED
    BY <2>2, <2>3, KeepsOn
<1> QED
  BY <1>1, <1>2, <1>4, <1>5, <1>6 DEF q

(* A slot chosen for c is c's own, or nobody's who runs.                    *)
LEMMA ChosenIs ==
  ASSUME NEW p \in Pool, NEW c \in Conv, NEW s \in ChosenSlot(p, c)
  PROVE  s \in Slot /\ \A t \in p.pinned : t = c \/ p.occupant[s] # t
<1>1. p.cur \in Slot
  BY PoolIs
<1>2. s \in Slot /\ (p.occupant[s] = c \/ p.occupant[s] = NoConv \/ ~IsRunning(p, p.occupant[s]))
  BY <1>1 DEF ChosenSlot, LowestOf
<1>3. p.pinned \in SUBSET Conv
  BY PoolIs
<1> QED
  BY <1>2, <1>3, ConvAssumption DEF IsRunning

(* The charge of a slot: idle conversations go, and who is pinned keeps his.*)
LEMMA ChargeIs ==
  ASSUME NEW p \in Pool, NEW s \in Slot, NEW c, NEW q \in Charge(p, s, c)
  PROVE  /\ q \in Pool /\ (Sound(p) => Sound(q)) /\ q.pinned = p.pinned /\ q.cur = p.cur
         /\ \A d \in p.pinned, t \in Slot : Keeps(p, q, d, t)
         /\ \A t \in Slot : q.occupant[t] \in {p.occupant[t], NoConv}
         /\ q.charged = p.charged => q = p
<1>1. CASE q = p
  <2>1. \A d, t : Keeps(p, p, d, t)
    BY DEF Keeps
  <2> QED
    BY <1>1, <2>1
<1>2. CASE q # p
  <2>1. s # 0 /\ s \notin p.charged
    BY <1>2 DEF Charge
  <2>2. PICK r \in MakeRoom(p, c, SlotPages) : q = [r EXCEPT !.charged = @ \cup {s}]
    BY <1>2 DEF Charge
  <2>3. SlotPages \in Int
    BY CapacityAssumption
  <2>4. PICK D \in SUBSET Idle(p, c) : r = Forget(p, D) /\ Unused(r) >= SlotPages
    BY <2>3, RoomIs
  <2>5. Idle(p, c) \in SUBSET Conv /\ Idle(p, c) \cap p.pinned = {} /\ p.pinned \in SUBSET Conv
    BY IdleIs, PoolIs
  <2>6. D \in SUBSET Conv
    BY <2>5
  <2>7. /\ r \in Pool /\ r.cur = p.cur /\ r.charged = p.charged
        /\ r.filled = p.filled /\ r.pinned = p.pinned \ D
        /\ \A t \in Slot : r.occupant[t] = IF p.occupant[t] \in D THEN NoConv ELSE p.occupant[t]
    BY <2>4, <2>6, ForgetIs
  <2>8. /\ q \in Pool /\ q.cur = r.cur /\ q.pinned = r.pinned /\ q.pages = r.pages
        /\ q.occupant = r.occupant /\ q.filled = r.filled /\ q.charged = r.charged \cup {s}
    BY <2>2, <2>7 DEF Pool
  <2>9. Sound(q)
    <3>1. r.pages \in Pages /\ q.pages \in Pages /\ r.charged \in SUBSET Slot
      BY <2>7, <2>8, PoolIs
    <3>2. PagesOf(q, Conv) = PagesOf(r, Conv)
      <4>1. \A d \in Conv : q.pages[d] = r.pages[d]
        BY <2>8
      <4> QED
        BY <3>1, <4>1, SumSame
    <3>3. Withheld(q) = Withheld(r) + SlotPages
      <4>1. s \notin r.charged
        BY <2>1, <2>7
      <4> QED
        BY <3>1, <4>1, <2>8, WithheldIs
    <3>4. PagesOf(r, Conv) \in Nat /\ Withheld(r) \in Nat
      BY <2>7, UnusedIs
    <3>5. Unused(q) >= 0
      BY <2>4, <3>2, <3>3, <3>4, CapacityAssumption DEF Unused
    <3> QED
      BY <2>8, <3>5 DEF Sound
  <2>10. ASSUME NEW d \in p.pinned, NEW t \in Slot PROVE Keeps(p, q, d, t)
    <3>1. d \in Conv \ D
      BY <2>5
    <3>2. Keeps(p, r, d, t)
      BY <2>4, <2>6, <3>1, ForgetKeeps
    <3>3. Keeps(r, q, d, t)
      BY <2>8 DEF Keeps
    <3> QED
      BY <3>2, <3>3, KeepsOn
  <2>11. q.charged # p.charged
    BY <2>1, <2>7, <2>8
  <2>12. q.pinned = p.pinned /\ q.cur = p.cur
    BY <2>5, <2>7, <2>8
  <2>13. \A t \in Slot : q.occupant[t] \in {p.occupant[t], NoConv}
    BY <2>7, <2>8
  <2> QED
    BY <2>8, <2>9, <2>10, <2>11, <2>12, <2>13
<1> QED
  BY <1>1, <1>2

(* A conversation that comes into the selected slot sits there and nowhere  *)
(* else, with its pages and its state; who is pinned elsewhere keeps his.   *)
LEMMA EnterIs ==
  ASSUME NEW p \in Pool, NEW c \in Conv, NEW n \in Nat, NEW f \in Nat, NEW q \in Enter(p, c, n, f)
  PROVE  /\ Sound(q) /\ q.pinned = p.pinned \ {c} /\ q.cur = p.cur /\ q.charged = p.charged
         /\ q.pages[c] = n /\ q.occupant[q.cur] = c /\ q.filled[q.cur] = f
         /\ \A t \in Slot : t # q.cur => q.occupant[t] # c
         /\ \A d \in p.pinned, t \in Slot :
              d # c /\ t # p.cur /\ d # p.occupant[p.cur] => Keeps(p, q, d, t)
<1> DEFINE mine == Forget(p, {c})
<1>1. {c} \in SUBSET Conv /\ p.cur \in Slot
  BY PoolIs
<1>2. /\ mine \in Pool /\ mine.cur = p.cur /\ mine.charged = p.charged
      /\ mine.filled = p.filled /\ mine.pinned = p.pinned \ {c}
      /\ \A d \in Conv : mine.pages[d] = IF d \in {c} THEN 0 ELSE p.pages[d]
      /\ \A t \in Slot : mine.occupant[t] = IF p.occupant[t] \in {c} THEN NoConv ELSE p.occupant[t]
  BY <1>1, ForgetIs
<1>3. n \in Int
  OBVIOUS
<1>4. PICK r : /\ \E D \in SUBSET Idle(mine, c) : r = Forget(mine, D) /\ Unused(r) >= n
               /\ q = [r EXCEPT !.pages[c] = n, !.occupant[p.cur] = c, !.filled[p.cur] = f]
  <2>1. CASE p.occupant[p.cur] = c \/ p.occupant[p.cur] = NoConv
    <3>1. PICK r \in MakeRoom(mine, c, n) :
             q = [r EXCEPT !.pages[c] = n, !.occupant[p.cur] = c, !.filled[p.cur] = f]
      BY <2>1 DEF Enter
    <3> HIDE DEF mine
    <3>2. \E D \in SUBSET Idle(mine, c) : r = Forget(mine, D) /\ Unused(r) >= n
      BY <1>2, <1>3, RoomIs
    <3> QED
      BY <3>1, <3>2
  <2>2. CASE ~(p.occupant[p.cur] = c \/ p.occupant[p.cur] = NoConv)
    BY <2>2 DEF Enter
  <2> QED
    BY <2>1, <2>2
<1>5. PICK D \in SUBSET Idle(mine, c) : r = Forget(mine, D) /\ Unused(r) >= n
  BY <1>4
<1> HIDE DEF mine
<1>6. Idle(mine, c) \in SUBSET Conv /\ Idle(mine, c) \cap mine.pinned = {}
      /\ c \notin Idle(mine, c)
  BY <1>2, IdleIs
<1>7. D \in SUBSET Conv
  BY <1>6
<1>8. /\ r \in Pool /\ r.cur = mine.cur /\ r.charged = mine.charged
      /\ r.filled = mine.filled /\ r.pinned = mine.pinned \ D
      /\ \A t \in Slot : r.occupant[t] = IF mine.occupant[t] \in D THEN NoConv ELSE mine.occupant[t]
      /\ \A d \in Conv : r.pages[d] = IF d \in D THEN 0 ELSE mine.pages[d]
  BY <1>2, <1>5, <1>7, ForgetIs
<1>9. r.pages[c] = 0
  BY <1>2, <1>6, <1>8
<1>10. Unused(r) + r.pages[c] >= n /\ Unused(r) \in Int /\ n <= Capacity
  <2>1. Unused(r) \in Int /\ Unused(r) <= Capacity
    BY <1>8, UnusedIs
  <2> QED
    BY <1>5, <1>9, <2>1, CapacityAssumption
<1>11. /\ q.pages = [r.pages EXCEPT ![c] = n] /\ q.occupant = [r.occupant EXCEPT ![p.cur] = c]
       /\ q.filled = [r.filled EXCEPT ![p.cur] = f] /\ q.cur = r.cur /\ q.pinned = r.pinned
       /\ q.parked = r.parked /\ q.charged = r.charged /\ DOMAIN q = DOMAIN r
  BY <1>4, <1>8 DEF Pool
<1>12. /\ r.pages \in Pages /\ r.occupant \in [Slot -> Conv \cup {NoConv}] /\ r.cur \in Slot
       /\ r.pinned \in SUBSET Conv /\ r.parked \in SUBSET Conv /\ r.charged \in SUBSET Slot
       /\ r.filled \in [Slot -> Nat]
  BY <1>8, PoolIs
<1>13. Sound(q)
  <2>1. /\ q.occupant \in [Slot -> Conv \cup {NoConv}]
        /\ q.filled \in [Slot -> Nat]
    BY <1>1, <1>11, <1>12
  <2>2. q \in [pages : {[r.pages EXCEPT ![c] = n]},
               occupant : [Slot -> Conv \cup {NoConv}], cur : Slot, pinned : SUBSET Conv,
               parked : SUBSET Conv, charged : {r.charged}, filled : [Slot -> Nat]]
    <3>1. r = [pages |-> r.pages, occupant |-> r.occupant, cur |-> r.cur, pinned |-> r.pinned,
               parked |-> r.parked, charged |-> r.charged, filled |-> r.filled]
      BY <1>8 DEF Pool
    <3>2. q = [pages |-> q.pages, occupant |-> q.occupant, cur |-> q.cur, pinned |-> q.pinned,
               parked |-> q.parked, charged |-> q.charged, filled |-> q.filled]
      BY <1>4, <3>1
    <3> QED
      BY <1>11, <1>12, <2>1, <3>2
  <2> QED
    BY <1>8, <1>10, <2>2, PagesSet
<1>14. q.pages[c] = n
  BY <1>11, <1>12 DEF Pages
<1>15. q.occupant[q.cur] = c /\ q.filled[q.cur] = f /\ q.cur = p.cur
  BY <1>1, <1>2, <1>8, <1>11, <1>12
<1>16. q.pinned = p.pinned \ {c} /\ q.charged = p.charged
  BY <1>2, <1>6, <1>8, <1>11
<1>17. ASSUME NEW t \in Slot, t # q.cur PROVE q.occupant[t] # c
  BY <1>1, <1>2, <1>8, <1>11, <1>12, <1>15, <1>17, ConvAssumption
<1>18. ASSUME NEW d \in p.pinned, NEW t \in Slot, d # c, t # p.cur, d # p.occupant[p.cur]
       PROVE  Keeps(p, q, d, t)
  <2>1. d \in Conv \ {c} /\ d \in Conv \ D
    BY <1>2, <1>6, <1>18, PoolIs
  <2>2. Keeps(p, mine, d, t)
    BY <1>1, <2>1, ForgetKeeps DEF mine
  <2>3. Keeps(mine, r, d, t)
    BY <1>2, <1>5, <1>7, <2>1, ForgetKeeps
  <2>4. Keeps(p, r, d, t)
    BY <2>2, <2>3, KeepsOn
  <2>5. Keeps(r, q, d, t)
    <3>1. q.pages[d] = r.pages[d] /\ q.filled[t] = r.filled[t] /\ q.pinned = r.pinned
      BY <1>11, <1>12, <1>18, <2>1 DEF Pages
    <3>2. r.occupant[p.cur] # d
      BY <1>1, <1>2, <1>8, <1>18, <2>1, ConvAssumption
    <3>3. \A u \in Slot : q.occupant[u] = d <=> r.occupant[u] = d
      BY <1>1, <1>11, <1>12, <1>18, <3>2
    <3> QED
      BY <3>1, <3>3 DEF Keeps
  <2> QED
    BY <2>4, <2>5, KeepsOn
<1> QED
  BY <1>13, <1>14, <1>15, <1>16, <1>17, <1>18

(* Growth.                                                                  *)
LEMMA GrowIs ==
  ASSUME NEW p \in Pool, NEW c \in Conv, NEW n \in Nat, NEW q \in Grow(p, c, n)
  PROVE  /\ Sound(q) /\ q.pinned = p.pinned /\ q.cur = p.cur /\ q.charged = p.charged
         /\ q.pages[c] = n /\ q.filled = p.filled
         /\ \A t \in Slot : q.occupant[t] = c <=> p.occupant[t] = c
         /\ \A d \in p.pinned, t \in Slot : d # c => Keeps(p, q, d, t)
<1>1. p.pages[c] \in Nat /\ n - p.pages[c] \in Int
  BY UnusedIs
<1>2. PICK r \in MakeRoom(p, c, n - p.pages[c]) : q = [r EXCEPT !.pages[c] = n]
  BY DEF Grow
<1>3. PICK D \in SUBSET Idle(p, c) : r = Forget(p, D) /\ Unused(r) >= n - p.pages[c]
  BY <1>1, RoomIs
<1>4. Idle(p, c) \in SUBSET Conv /\ Idle(p, c) \cap p.pinned = {} /\ c \notin Idle(p, c)
      /\ p.pinned \in SUBSET Conv
  BY IdleIs, PoolIs
<1>5. D \in SUBSET Conv
  BY <1>4
<1>6. /\ r \in Pool /\ r.cur = p.cur /\ r.charged = p.charged
      /\ r.filled = p.filled /\ r.pinned = p.pinned \ D
      /\ \A t \in Slot : r.occupant[t] = IF p.occupant[t] \in D THEN NoConv ELSE p.occupant[t]
      /\ \A d \in Conv : r.pages[d] = IF d \in D THEN 0 ELSE p.pages[d]
  BY <1>3, <1>5, ForgetIs
<1>7. r.pages[c] = p.pages[c]
  BY <1>4, <1>6
<1>8. Unused(r) + r.pages[c] >= n
  <2>1. Unused(r) \in Int
    BY <1>6, UnusedIs
  <2> QED
    BY <1>1, <1>3, <1>7, <2>1
<1>9. /\ r.pages \in Pages /\ r.occupant \in [Slot -> Conv \cup {NoConv}] /\ r.cur \in Slot
      /\ r.pinned \in SUBSET Conv /\ r.parked \in SUBSET Conv /\ r.charged \in SUBSET Slot
      /\ r.filled \in [Slot -> Nat]
  BY <1>6, PoolIs
<1>10. /\ q.pages = [r.pages EXCEPT ![c] = n] /\ q.occupant = r.occupant
       /\ q.filled = r.filled /\ q.cur = r.cur /\ q.pinned = r.pinned /\ q.charged = r.charged
  BY <1>2, <1>6 DEF Pool
<1>11. Sound(q)
  <2>1. r = [pages |-> r.pages, occupant |-> r.occupant, cur |-> r.cur, pinned |-> r.pinned,
             parked |-> r.parked, charged |-> r.charged, filled |-> r.filled]
    BY <1>6 DEF Pool
  <2>2. q = [pages |-> [r.pages EXCEPT ![c] = n], occupant |-> r.occupant, cur |-> r.cur,
             pinned |-> r.pinned, parked |-> r.parked, charged |-> r.charged,
             filled |-> r.filled]
    BY <1>2, <2>1
  <2>3. q \in [pages : {[r.pages EXCEPT ![c] = n]},
               occupant : [Slot -> Conv \cup {NoConv}], cur : Slot, pinned : SUBSET Conv,
               parked : SUBSET Conv, charged : {r.charged}, filled : [Slot -> Nat]]
    BY <1>9, <2>2
  <2> QED
    BY <1>6, <1>8, <2>3, PagesSet
<1>12. q.pages[c] = n
  BY <1>9, <1>10 DEF Pages
<1>13. q.pinned = p.pinned /\ q.cur = p.cur /\ q.charged = p.charged /\ q.filled = p.filled
  BY <1>4, <1>6, <1>10
<1>14. \A t \in Slot : q.occupant[t] = c <=> p.occupant[t] = c
  BY <1>4, <1>6, <1>10, ConvAssumption
<1>15. ASSUME NEW d \in p.pinned, NEW t \in Slot, d # c PROVE Keeps(p, q, d, t)
  <2>1. d \in Conv \ D
    BY <1>4
  <2>2. Keeps(p, r, d, t)
    BY <1>3, <1>5, <2>1, ForgetKeeps
  <2>3. Keeps(r, q, d, t)
    <3>1. q.pages[d] = r.pages[d]
      BY <1>9, <1>10, <1>15, <2>1 DEF Pages
    <3> QED
      BY <3>1, <1>10 DEF Keeps
  <2> QED
    BY <2>2, <2>3, KeepsOn
<1> QED
  BY <1>11, <1>12, <1>13, <1>14, <1>15
-----------------------------------------------------------------------------
(* Types and seats.                                                         *)

Typed ==
  /\ Sound(pool)
  /\ slot \in [Job -> Slot] /\ pos \in [Job -> Nat] /\ room \in [Job -> Nat]

Around ==
  /\ resumable \in SUBSET Conv /\ wanted \in SUBSET Outsider /\ outside \in 0..MaxOutside
  /\ cold \in BOOLEAN

(* j has its seat: its conversation sits in its slot and in no other, with  *)
(* its state at its position and the pages of its room.                     *)
Seat(j) ==
  /\ pool.occupant[slot[j]] = ConvOf[j]
  /\ \A t \in Slot : t # slot[j] => pool.occupant[t] # ConvOf[j]
  /\ pool.filled[slot[j]] = pos[j] /\ pool.pages[ConvOf[j]] = room[j]
  /\ pos[j] <= room[j] /\ room[j] > 0

(* Who runs beside others has its seat and is the one pinned; no two in     *)
(* flight are of one conversation; the slot one is about to begin in is     *)
(* nobody's who is pinned; the one alone has its seat, in the selected slot.*)
Firm ==
  /\ \A j \in Seated : Seat(j)
  /\ pool.pinned = {ConvOf[j] : j \in Seated}
  /\ \A j, k \in InFlight : ConvOf[j] = ConvOf[k] => j = k
  /\ pc = "begin" => pool.cur = slot[hand] /\ pool.occupant[pool.cur] \notin pool.pinned
  /\ pc = "lone" => pool.cur = slot[hand] /\ Seat(hand)
  /\ prefilling # NoJob => /\ pos[prefilling] < Prompt[prefilling]
                           /\ room[prefilling] = Prompt[prefilling] + 1

LEMMA JobIs ==
  ASSUME Settled, Typed, NEW j \in InFlight
  PROVE  /\ j \in Job /\ ConvOf[j] \in Conv /\ slot[j] \in Slot /\ pos[j] \in Nat
         /\ room[j] \in Nat /\ Prompt[j] \in Nat \ {0}
<1>1. j \in Job
  BY InFlightFinite DEF Settled
<1> QED
  BY <1>1, ConvOfAssumption, PromptAssumption DEF Typed

LEMMA SeatedFly ==
  ASSUME Settled
  PROVE  /\ Seated \in SUBSET InFlight /\ Elems(rows) \in SUBSET Seated
         /\ hand # NoJob => hand \in InFlight /\ hand \notin Seated
         /\ \A j \in Elems(parked) : j \in InFlight /\ j \notin Seated
         /\ prefilling # NoJob => prefilling \in Seated /\ prefilling \notin Elems(rows)
         /\ NoJob \notin InFlight
<1>1. Seated \in SUBSET InFlight /\ Elems(rows) \in SUBSET Seated
  BY DEF Seated, InFlight
<1>2. NoJob \notin InFlight
  BY InFlightFinite, JobAssumption DEF Settled
<1>3. hand # NoJob => hand \in InFlight /\ hand \notin Seated
  BY DEF Settled, Apart, Queued, Seated, InFlight
<1>4. \A j \in Elems(parked) : j \in InFlight /\ j \notin Seated
  BY DEF Settled, Apart, Queued, Seated, InFlight
<1>5. prefilling # NoJob => prefilling \in Seated /\ prefilling \notin Elems(rows)
  BY DEF Settled, Apart, Queued, Seated
<1> QED
  BY <1>1, <1>2, <1>3, <1>4, <1>5

LEMMA SeatKept ==
  ASSUME NEW j, Seat(j), slot[j] \in Slot, slot'[j] = slot[j], pos'[j] = pos[j], room'[j] = room[j],
         Keeps(pool, pool', ConvOf[j], slot[j])
  PROVE  Seat(j)'
<1>1. /\ pool'.pages[ConvOf[j]] = pool.pages[ConvOf[j]]
      /\ pool'.filled[slot[j]] = pool.filled[slot[j]]
      /\ \A t \in Slot : pool'.occupant[t] = ConvOf[j] <=> pool.occupant[t] = ConvOf[j]
  BY DEF Keeps
<1> QED
  BY <1>1 DEF Seat

(* The conversation of one who leaves is no other's.                        *)
LEMMA PinnedLess ==
  ASSUME Settled, Firm, NEW j \in InFlight
  PROVE  /\ {ConvOf[k] : k \in Seated \ {j}} = pool.pinned \ {ConvOf[j]}
         /\ \A k \in Seated \ {j} : ConvOf[k] # ConvOf[j] /\ ConvOf[k] \in pool.pinned
         /\ j \notin Seated => ConvOf[j] \notin pool.pinned
<1>1. \A k \in Seated : k # j => ConvOf[k] # ConvOf[j]
  BY SeatedFly DEF Firm
<1> QED
  BY <1>1 DEF Firm

LEMMA FirmKept ==
  ASSUME Settled, Typed, Firm, Seated' \in SUBSET Seated, InFlight' \in SUBSET InFlight,
         \A j \in Seated' : /\ slot'[j] = slot[j] /\ pos'[j] = pos[j] /\ room'[j] = room[j]
                            /\ Keeps(pool, pool', ConvOf[j], slot[j]),
         pool'.pinned = {ConvOf[j] : j \in Seated'},
         prefilling' \in {prefilling, NoJob}, pc' \notin {"begin", "lone"}
  PROVE  Firm'
<1>1. ASSUME NEW j \in Seated' PROVE Seat(j)'
  <2>1. j \in Seated /\ j \in InFlight
    BY <1>1, SeatedFly
  <2>2. Seat(j) /\ slot[j] \in Slot
    BY <2>1, JobIs DEF Firm
  <2> QED
    BY <1>1, <2>2, SeatKept
<1>2. \A j, k \in InFlight' : ConvOf[j] = ConvOf[k] => j = k
  BY DEF Firm
<1>3. ASSUME prefilling' # NoJob
      PROVE  pos'[prefilling'] < Prompt[prefilling'] /\ room'[prefilling'] = Prompt[prefilling'] + 1
  <2>1. prefilling' = prefilling /\ prefilling' \in Seated'
    BY <1>3 DEF Seated
  <2> QED
    BY <1>3, <2>1 DEF Firm
<1>4. (\A j \in Seated : Seat(j))'
  BY <1>1
<1> QED
  BY <1>2, <1>3, <1>4 DEF Firm

(* When nobody comes or goes.                                               *)
LEMMA FirmSame ==
  ASSUME Settled, Typed, Firm, UNCHANGED <<slot, pos, room>>, Seated' = Seated,
         InFlight' \in SUBSET InFlight, prefilling' \in {prefilling, NoJob},
         pc' \notin {"begin", "lone"}, pool'.pinned = pool.pinned,
         \A d \in pool.pinned, t \in Slot : Keeps(pool, pool', d, t)
  PROVE  Firm'
<1>1. ASSUME NEW j \in Seated'
      PROVE  /\ slot'[j] = slot[j] /\ pos'[j] = pos[j] /\ room'[j] = room[j]
             /\ Keeps(pool, pool', ConvOf[j], slot[j])
  <2>1. ConvOf[j] \in pool.pinned
    BY DEF Firm
  <2>2. slot[j] \in Slot
    BY SeatedFly, JobIs
  <2> QED
    BY <2>1, <2>2
<1>2. pool'.pinned = {ConvOf[j] : j \in Seated'} /\ Seated' \in SUBSET Seated
  BY DEF Firm
<1> QED
  BY <1>1, <1>2, FirmKept

(* And when one leaves.                                                     *)
LEMMA FirmLess ==
  ASSUME Settled, Typed, Firm, UNCHANGED <<slot, pos, room>>, NEW j \in InFlight,
         Seated' = Seated \ {j},
         InFlight' \in SUBSET InFlight, prefilling' \in {prefilling, NoJob},
         pc' \notin {"begin", "lone"}, pool'.pinned = pool.pinned \ {ConvOf[j]},
         \A k \in Seated \ {j} : Keeps(pool, pool', ConvOf[k], slot[k])
  PROVE  Firm'
<1>1. ASSUME NEW k \in Seated'
      PROVE  /\ slot'[k] = slot[k] /\ pos'[k] = pos[k] /\ room'[k] = room[k]
             /\ Keeps(pool, pool', ConvOf[k], slot[k])
  OBVIOUS
<1>2. pool'.pinned = {ConvOf[k] : k \in Seated'} /\ Seated' \in SUBSET Seated
  BY PinnedLess
<1> QED
  BY <1>1, <1>2, FirmKept
-----------------------------------------------------------------------------
(* Each step keeps types and seats.                                         *)

LEMMA NothingStirs ==
  ASSUME Settled, Typed,
         UNCHANGED <<pool, slot, pos, room, pc, hand, prefilling, rows, parked>>
  PROVE  Typed' /\ (Firm => Firm')
<1>1. UNCHANGED <<pool, slot, pos, room>> /\ UNCHANGED <<pc, hand, prefilling, rows, parked>>
  OBVIOUS
<1>2. Typed'
  BY <1>1 DEF Typed
<1>3. Elems(rows)' = Elems(rows) /\ Elems(parked)' = Elems(parked)
  BY <1>1 DEF Elems
<1>4. Seated' = Seated /\ InFlight' = InFlight
  BY <1>1, <1>3 DEF Seated, InFlight
<1>5. \A j : Seat(j)' <=> Seat(j)
  BY <1>1 DEF Seat
<1>6. Firm => Firm'
  BY <1>1, <1>4, <1>5 DEF Firm
<1> QED
  BY <1>2, <1>6

(* Who has the pool keeps everyone's seat.                                  *)
LEMMA QuietStands ==
  ASSUME Settled, Typed, UNCHANGED <<slot, pos, room>>, UNCHANGED <<rows, prefilling>>,
         InFlight' \in SUBSET InFlight, pc' \notin {"begin", "lone"},
         Sound(pool'), pool'.pinned = pool.pinned,
         \A d \in pool.pinned, t \in Slot : Keeps(pool, pool', d, t)
  PROVE  Typed' /\ (Firm => Firm')
<1>1. Typed'
  BY DEF Typed
<1>2. Seated' = Seated
  BY DEF Seated, Elems
<1>3. Firm => Firm'
  BY <1>2, FirmSame
<1> QED
  BY <1>1, <1>3

LEMMA SamePool ==
  ASSUME Typed, pool' = pool
  PROVE  /\ Sound(pool') /\ pool'.pinned = pool.pinned
         /\ \A d \in pool.pinned, t \in Slot : Keeps(pool, pool', d, t)
  BY DEF Typed, Keeps

LEMMA CallsStand ==
  ASSUME Settled, Typed,
         \/ \E j \in Job : Submit(j)
         \/ \E o \in Outsider : Want(o)
         \/ UNCHANGED vars
  PROVE  Typed' /\ (Firm => Firm')
<1>1. /\ UNCHANGED <<pool, slot, pos, room>>
      /\ UNCHANGED <<pc, hand, prefilling, rows, parked>>
  BY DEF Submit, Want, vars, lineVars, rowVars, standVars, otherVars
<1> QED
  BY <1>1, NothingStirs

LEMMA PhasesStand ==
  ASSUME Settled, Typed,
         \/ Take \/ NoneAdmitted \/ StepFails \/ Dealt \/ Yield
         \/ FailAll /\ rows = <<>>
  PROVE  Typed' /\ (Firm => Firm')
<1> USE DEF lineVars, rowVars, standVars, otherVars
<1>1. /\ UNCHANGED <<pool, slot, pos, room>>
      /\ UNCHANGED <<hand, prefilling, rows, parked>>
      /\ pc' \notin {"begin", "lone"}
  BY DEF Take, NoneAdmitted, StepFails, Dealt, Yield, FailAll
<1>2. InFlight' = InFlight
  BY <1>1 DEF InFlight, Elems
<1>3. /\ Sound(pool') /\ pool'.pinned = pool.pinned
      /\ \A d \in pool.pinned, t \in Slot : Keeps(pool, pool', d, t)
  BY <1>1, SamePool
<1> QED
  BY <1>1, <1>2, <1>3, QuietStands

(* What others, and the loop for want of room, take of the pool is idle.    *)
LEMMA DropsStand ==
  ASSUME Settled, Typed, Erase \/ TrimIdle \/ NoneResumes \/ WaitForSlot \/ WaitForPages
  PROVE  Typed' /\ (Firm => Firm')
<1> USE DEF lineVars, rowVars, standVars, otherVars
<1>0. pool \in Pool /\ Sound(pool)
  BY DEF Typed, Sound
<1>1. /\ UNCHANGED <<slot, pos, room>> /\ UNCHANGED <<prefilling, rows, parked>>
      /\ hand' \in {hand, NoJob} /\ pc' \notin {"begin", "lone"}
  BY DEF Erase, TrimIdle, Served, Unlocked, NoneResumes, WaitForSlot, WaitForPages, Wait,
         Dismissed
<1>2. InFlight' \in SUBSET InFlight
  BY <1>1 DEF InFlight, Elems
<1>3. pool.pinned \in SUBSET Conv
  BY <1>0, PoolIs
<1>4. \/ pool' = pool
      \/ \E c \in Conv : ~IsRunning(pool, c) /\ pool' = Forget(pool, {c})
      \/ pool' = Trim(pool)
      \/ \E c : pool' = Uncharged(pool, c)
  <2>1. Erase => pool' = pool \/ \E c \in Conv : ~IsRunning(pool, c) /\ pool' = Forget(pool, {c})
    BY DEF Erase
  <2>2. TrimIdle => pool' = Trim(pool)
    BY DEF TrimIdle
  <2>3. NoneResumes => pool' = pool \/ \E c : pool' = Uncharged(pool, c)
    BY DEF NoneResumes
  <2>4. WaitForSlot => pool' = pool \/ \E c : pool' = Uncharged(pool, c)
    BY DEF WaitForSlot
  <2>5. WaitForPages => pool' = pool
    BY DEF WaitForPages
  <2> QED
    BY <2>1, <2>2, <2>3, <2>4, <2>5
<1>5. /\ Sound(pool') /\ pool'.pinned = pool.pinned
      /\ \A d \in pool.pinned, t \in Slot : Keeps(pool, pool', d, t)
  <2>1. CASE pool' = pool
    BY <2>1, SamePool
  <2>2. CASE \E c \in Conv : ~IsRunning(pool, c) /\ pool' = Forget(pool, {c})
    <3>1. PICK c \in Conv : ~IsRunning(pool, c) /\ pool' = Forget(pool, {c})
      BY <2>2
    <3>2. c \notin pool.pinned /\ {c} \in SUBSET Conv
      BY <3>1 DEF IsRunning
    <3>3. Sound(pool') /\ pool'.pinned = pool.pinned \ {c}
      BY <1>0, <3>1, <3>2, ForgetIs
    <3>4. ASSUME NEW d \in pool.pinned, NEW t \in Slot PROVE Keeps(pool, pool', d, t)
      <4>1. d \in Conv \ {c}
        BY <1>3, <3>2
      <4> QED
        BY <1>0, <3>1, <3>2, <4>1, ForgetKeeps
    <3> QED
      BY <3>2, <3>3, <3>4
  <2>3. CASE pool' = Trim(pool)
    BY <1>0, <2>3, TrimIs
  <2>4. CASE \E c : pool' = Uncharged(pool, c)
    BY <1>0, <2>4, UnchargedIs
  <2> QED
    BY <1>4, <2>1, <2>2, <2>3, <2>4
<1> QED
  BY <1>1, <1>2, <1>5, QuietStands

LEMMA AdmitStands ==
  ASSUME Settled, Settled', Typed, Admit
  PROVE  Typed' /\ (Firm => Firm')
<1> USE DEF lineVars, rowVars, standVars, otherVars
<1>1. /\ UNCHANGED <<pool, slot, pos, room>>
      /\ UNCHANGED <<prefilling, rows, parked>>
      /\ pc' = "charge" /\ pc = "admit" /\ parked = <<>> /\ prefilling = NoJob
  BY DEF Admit, MayAdmit
<1>2. Typed'
  BY <1>1 DEF Typed
<1>3. Elems(rows)' = Elems(rows) /\ Elems(parked) = {} /\ Elems(parked)' = {}
  BY <1>1 DEF Elems
<1>4. PICK k \in DOMAIN line : hand' = line[k] /\ ~Passed(k)
  BY DEF Admit
<1>5. hand = NoJob
  BY <1>1 DEF Settled, Phased, Admitting
<1>6. Seated' = Seated /\ Seated = Elems(rows) /\ InFlight = Seated
      /\ InFlight' \in SUBSET (InFlight \cup {hand'})
  BY <1>1, <1>3, <1>5 DEF Seated, InFlight
<1>7. ASSUME Firm PROVE Firm'
  <2>1. \A j \in Seated : ConvOf[j] # ConvOf[hand']
    <3>1. CASE rows = <<>>
      BY <3>1, <1>6 DEF Elems
    <3>2. CASE rows # <<>>
      <4>1. ConvOf[hand'] \notin pool.pinned
        BY <3>2, <1>4 DEF Passed, Busy, IsRunning
      <4> QED
        BY <4>1, <1>7 DEF Firm
    <3> QED
      BY <3>1, <3>2
  <2>2. \A i, j \in InFlight' : ConvOf[i] = ConvOf[j] => i = j
    BY <2>1, <1>6, <1>7 DEF Firm
  <2>3. ASSUME NEW j \in Seated' PROVE Seat(j)'
    <3>1. Seat(j)
      BY <1>6, <1>7, <2>3 DEF Firm
    <3> QED
      BY <1>1, <3>1 DEF Seat
  <2>4. (\A j \in Seated : Seat(j))'
    BY <2>3
  <2> QED
    BY <1>1, <1>6, <1>7, <2>2, <2>4 DEF Firm
<1> QED
  BY <1>2, <1>7

(* The slot charged is nobody's who is pinned, and it is selected.          *)
LEMMA ChargedStands ==
  ASSUME Settled, Settled', Typed, Charged
  PROVE  Typed' /\ (Firm => Firm')
<1> USE DEF lineVars, rowVars, standVars, otherVars
<1>0. pool \in Pool /\ Sound(pool)
  BY DEF Typed, Sound
<1>1. /\ UNCHANGED <<pos, room>> /\ UNCHANGED <<prefilling, rows, parked, hand>>
      /\ pc' = "begin" /\ pc = "charge"
  BY DEF Charged
<1>2. hand # NoJob /\ hand \in InFlight /\ hand \notin Seated
  BY <1>1, SeatedFly DEF Settled, Phased, Admitting
<1>3. hand \in Job /\ HandConv \in Conv
  BY <1>2, JobIs DEF HandConv
<1>4. PICK s \in ChosenSlot(pool, HandConv) :
        /\ \E q \in Charge(pool, s, HandConv) : pool' = Select(q, s)
        /\ slot' = [slot EXCEPT ![hand] = s]
  BY DEF Charged
<1>5. PICK q \in Charge(pool, s, HandConv) : pool' = Select(q, s)
  BY <1>4
<1>6. s \in Slot /\ \A t \in pool.pinned : t = HandConv \/ pool.occupant[s] # t
  BY <1>0, <1>3, ChosenIs
<1>7. /\ q \in Pool /\ Sound(q) /\ q.pinned = pool.pinned
      /\ \A d \in pool.pinned, t \in Slot : Keeps(pool, q, d, t)
      /\ \A t \in Slot : q.occupant[t] \in {pool.occupant[t], NoConv}
  BY <1>0, <1>6, ChargeIs
<1>8. /\ Sound(pool') /\ pool'.pinned = q.pinned /\ pool'.occupant = q.occupant /\ pool'.cur = s
      /\ \A d, t : Keeps(q, pool', d, t)
  BY <1>5, <1>6, <1>7, SelectIs
<1>9. slot' \in [Job -> Slot] /\ slot'[hand] = s /\ \A j \in Job : j # hand => slot'[j] = slot[j]
  BY <1>3, <1>4, <1>6 DEF Typed
<1>10. Typed'
  BY <1>1, <1>8, <1>9 DEF Typed
<1>11. Seated' = Seated /\ InFlight' = InFlight
  BY <1>1 DEF Seated, InFlight, Elems
<1>12. ASSUME Firm PROVE Firm'
  <2>1. ASSUME NEW j \in Seated' PROVE Seat(j)'
    <3>1. j \in Seated /\ j \in InFlight /\ j # hand
      BY <1>2, <1>11, <2>1, SeatedFly
    <3>2. Seat(j) /\ ConvOf[j] \in pool.pinned /\ slot[j] \in Slot /\ j \in Job
      BY <1>12, <3>1, JobIs DEF Firm
    <3>3. Keeps(pool, q, ConvOf[j], slot[j]) /\ Keeps(q, pool', ConvOf[j], slot[j])
      BY <1>7, <1>8, <3>2
    <3>4. Keeps(pool, pool', ConvOf[j], slot[j])
      BY <3>3, KeepsOn
    <3>5. slot'[j] = slot[j] /\ pos'[j] = pos[j] /\ room'[j] = room[j]
      BY <1>1, <1>9, <3>1, <3>2
    <3> QED
      BY <3>2, <3>4, <3>5, SeatKept
  <2>2. (\A j \in Seated : Seat(j))'
    BY <2>1
  <2>3. pool'.occupant[pool'.cur] \notin pool'.pinned
    <3>1. HandConv \notin pool.pinned
      BY <1>2, <1>12, PinnedLess DEF HandConv
    <3>2. NoConv \notin pool.pinned
      BY <1>0, PoolIs, ConvAssumption
    <3> QED
      BY <1>6, <1>7, <1>8, <3>1, <3>2
  <2>4. pool'.pinned = {ConvOf[j] : j \in Seated'}
    BY <1>7, <1>8, <1>11, <1>12 DEF Firm
  <2>5. \A i, j \in InFlight' : ConvOf[i] = ConvOf[j] => i = j
    BY <1>11, <1>12 DEF Firm
  <2>6. pool'.cur = slot'[hand'] /\ pc' # "lone"
    BY <1>1, <1>8, <1>9
  <2>7. prefilling' # NoJob => /\ pos'[prefilling'] < Prompt[prefilling']
                               /\ room'[prefilling'] = Prompt[prefilling'] + 1
    BY <1>1, <1>12 DEF Firm
  <2> QED
    BY <2>2, <2>3, <2>4, <2>5, <2>6, <2>7 DEF Firm
<1> QED
  BY <1>10, <1>12

(* One that comes in, into a slot that is nobody's who is pinned.           *)
LEMMA FirmEnters ==
  ASSUME Settled, Typed, Firm, NEW j \in InFlight, j \notin Seated,
         NEW r \in Pool, r.pinned = pool.pinned, r.occupant[r.cur] \notin r.pinned,
         \A d \in pool.pinned, t \in Slot : Keeps(pool, r, d, t),
         NEW n \in Nat, NEW f \in Nat, f <= n, n > 0,
         NEW p \in Enter(r, ConvOf[j], n, f), pool' = Pin(p, ConvOf[j]),
         slot'[j] = r.cur, pos'[j] = f, room'[j] = n,
         \A k \in Seated : slot'[k] = slot[k] /\ pos'[k] = pos[k] /\ room'[k] = room[k],
         Seated' = Seated \cup {j}, InFlight' = InFlight, pc' \notin {"begin", "lone"},
         \/ prefilling' = prefilling
         \/ prefilling' = j /\ f < Prompt[j] /\ n = Prompt[j] + 1
  PROVE  Firm'
<1> DEFINE c == ConvOf[j]
<1>1. c \in Conv
  BY JobIs
<1>2. /\ Sound(p) /\ p.pinned = r.pinned \ {c} /\ p.cur = r.cur
      /\ p.pages[c] = n /\ p.occupant[p.cur] = c /\ p.filled[p.cur] = f
      /\ \A t \in Slot : t # p.cur => p.occupant[t] # c
      /\ \A d \in r.pinned, t \in Slot :
              d # c /\ t # r.cur /\ d # r.occupant[r.cur] => Keeps(r, p, d, t)
  BY <1>1, EnterIs
<1>3. /\ pool'.pinned = p.pinned \cup {c} /\ pool'.pages = p.pages /\ pool'.occupant = p.occupant
      /\ pool'.filled = p.filled
      /\ \A d, t : Keeps(p, pool', d, t)
  BY <1>1, <1>2, PinIs DEF Sound
<1>4. c \notin pool.pinned /\ \A k \in Seated : ConvOf[k] # c
  BY PinnedLess
<1>5. pool'.pinned = {ConvOf[k] : k \in Seated'}
  BY <1>2, <1>3 DEF Firm
<1>6. Seat(j)'
  BY <1>2, <1>3 DEF Seat
<1>7. ASSUME NEW k \in Seated PROVE Seat(k)'
  <2>1. Seat(k) /\ ConvOf[k] \in pool.pinned /\ slot[k] \in Slot
    BY SeatedFly, JobIs DEF Firm
  <2>2. Keeps(pool, r, ConvOf[k], slot[k])
    BY <2>1
  <2>3. r.occupant[slot[k]] = ConvOf[k]
    BY <2>1, <2>2 DEF Keeps, Seat
  <2>4. slot[k] # r.cur /\ ConvOf[k] # r.occupant[r.cur] /\ ConvOf[k] # c
    BY <1>4, <2>1, <2>3
  <2>5. Keeps(r, p, ConvOf[k], slot[k])
    BY <1>2, <2>1, <2>4
  <2>6. Keeps(p, pool', ConvOf[k], slot[k])
    BY <1>3
  <2>7. Keeps(pool, pool', ConvOf[k], slot[k])
    <3>1. Keeps(pool, p, ConvOf[k], slot[k])
      BY <2>2, <2>5, KeepsOn
    <3> QED
      BY <3>1, <2>6, KeepsOn
  <2> QED
    BY <2>1, <2>7, SeatKept
<1>8. (\A k \in Seated : Seat(k))'
  BY <1>6, <1>7
<1>9. \A i, k \in InFlight' : ConvOf[i] = ConvOf[k] => i = k
  BY DEF Firm
<1>10. prefilling' # NoJob => /\ pos'[prefilling'] < Prompt[prefilling']
                              /\ room'[prefilling'] = Prompt[prefilling'] + 1
  <2>1. prefilling # NoJob => prefilling \in Seated
    BY SeatedFly
  <2> QED
    BY <2>1 DEF Firm
<1> QED
  BY <1>5, <1>8, <1>9, <1>10 DEF Firm

LEMMA ResumeStands ==
  ASSUME Settled, Settled', Typed, Resume
  PROVE  Typed' /\ (Firm => Firm')
<1> USE DEF lineVars, rowVars, standVars, otherVars
<1>0. pool \in Pool /\ Sound(pool)
  BY DEF Typed, Sound
<1> DEFINE j == Head(parked)
           c == ConvOf[j]
           n == pos[j] + 1
<1>1. /\ parked # <<>> /\ pc = "resume" /\ pc' = pc
      /\ UNCHANGED <<prefilling, hand, pos>>
      /\ rows' = Append(rows, j) /\ parked' = Tail(parked)
  BY DEF Resume, MayResume
<1>2. parked \in Seq(Job) /\ rows \in Seq(Job)
  BY DEF Settled, Placed
<1>3. j \in Elems(parked)
  BY <1>1, <1>2 DEF Elems
<1>4. j \in InFlight /\ j \notin Seated /\ j \notin Elems(rows) /\ j \in Job
  BY <1>3, SeatedFly, JobIs
<1>5. c \in Conv /\ pos[j] \in Nat /\ n \in Nat
  BY <1>4, JobIs
<1>6. PICK s \in ChosenSlot(pool, c) : \E q \in Charge(pool, s, c) :
        /\ \E p \in Enter(Select(q, s), c, n, pos[j]) : pool' = Pin(p, c)
        /\ slot' = [slot EXCEPT ![j] = s]
        /\ room' = [room EXCEPT ![j] = n]
  BY DEF Resume
<1>7. PICK q \in Charge(pool, s, c) :
        /\ \E p \in Enter(Select(q, s), c, n, pos[j]) : pool' = Pin(p, c)
        /\ slot' = [slot EXCEPT ![j] = s]
        /\ room' = [room EXCEPT ![j] = n]
  BY <1>6
<1> DEFINE r == Select(q, s)
<1>8. PICK p \in Enter(r, c, n, pos[j]) : pool' = Pin(p, c)
  BY <1>7
<1>9. s \in Slot /\ \A t \in pool.pinned : t = c \/ pool.occupant[s] # t
  BY <1>0, <1>5, ChosenIs
<1>10. /\ q \in Pool /\ Sound(q) /\ q.pinned = pool.pinned
       /\ \A d \in pool.pinned, t \in Slot : Keeps(pool, q, d, t)
       /\ \A t \in Slot : q.occupant[t] \in {pool.occupant[t], NoConv}
  BY <1>0, <1>9, ChargeIs
<1>11. /\ r \in Pool /\ Sound(r) /\ r.pinned = q.pinned /\ r.occupant = q.occupant /\ r.cur = s
       /\ \A d, t : Keeps(q, r, d, t)
  BY <1>9, <1>10, SelectIs
<1>12. Elems(rows') = Elems(rows) \cup {j}
  <2>1. Distinct(rows)
    BY DEF Settled, Once
  <2> QED
    BY <1>1, <1>2, <1>4, <2>1, AppendKeeps
<1>13. Elems(parked) = Elems(parked') \cup {j}
  <2>1. Len(parked) \in Nat /\ Len(parked) > 0 /\ DOMAIN parked = 1..Len(parked)
        /\ DOMAIN Tail(parked) = 1..(Len(parked) - 1)
        /\ \A i \in 1..(Len(parked) - 1) : Tail(parked)[i] = parked[i + 1]
        /\ Head(parked) = parked[1]
    BY <1>1, <1>2
  <2>2. ASSUME NEW x \in Elems(parked) PROVE x \in Elems(Tail(parked)) \cup {j}
    <3>1. PICK i \in 1..Len(parked) : x = parked[i]
      BY <2>1 DEF Elems
    <3>2. CASE i = 1
      BY <3>1, <3>2, <2>1
    <3>3. CASE i # 1
      <4>1. i - 1 \in 1..(Len(parked) - 1) /\ Tail(parked)[i - 1] = x
        BY <2>1, <3>1, <3>3
      <4> QED
        BY <2>1, <4>1 DEF Elems
    <3> QED
      BY <3>2, <3>3
  <2>3. ASSUME NEW x \in Elems(Tail(parked)) PROVE x \in Elems(parked)
    <3>1. PICK i \in 1..(Len(parked) - 1) : x = Tail(parked)[i]
      BY <2>1, <2>3 DEF Elems
    <3>2. i + 1 \in 1..Len(parked) /\ x = parked[i + 1]
      BY <2>1, <3>1
    <3> QED
      BY <2>1, <3>2 DEF Elems
  <2> QED
    BY <1>1, <1>3, <2>2, <2>3
<1>14. Seated' = Seated \cup {j} /\ InFlight' = InFlight
  BY <1>1, <1>12, <1>13, <1>4, JobAssumption DEF Seated, InFlight
<1>15. /\ slot' \in [Job -> Slot] /\ slot'[j] = s /\ room' \in [Job -> Nat] /\ room'[j] = n
       /\ \A k \in Job : k # j => slot'[k] = slot[k] /\ room'[k] = room[k]
  BY <1>4, <1>5, <1>7, <1>9 DEF Typed
<1> HIDE DEF r, c, n, j
<1>16. Sound(p)
  BY <1>5, <1>8, <1>11, EnterIs
<1>17. Typed'
  <2>1. Sound(pool')
    BY <1>5, <1>8, <1>16, PinIs DEF Sound
  <2> QED
    BY <1>1, <1>15, <2>1 DEF Typed
<1>18. ASSUME Firm PROVE Firm'
  <2>1. c \notin pool.pinned
    BY <1>4, <1>18, PinnedLess DEF c
  <2>2. r.pinned = pool.pinned /\ r.occupant[r.cur] \notin r.pinned
    <3>1. NoConv \notin pool.pinned
      BY <1>0, PoolIs, ConvAssumption
    <3> QED
      BY <2>1, <3>1, <1>9, <1>10, <1>11
  <2>3. \A d \in pool.pinned, t \in Slot : Keeps(pool, r, d, t)
    BY <1>10, <1>11, KeepsOn
  <2>4. pos[j] <= n /\ n > 0
    BY <1>5 DEF n
  <2>5. slot'[j] = r.cur /\ pos'[j] = pos[j] /\ room'[j] = n
    BY <1>1, <1>11, <1>15
  <2>6. \A k \in Seated : slot'[k] = slot[k] /\ pos'[k] = pos[k] /\ room'[k] = room[k]
    <3>1. \A k \in Seated : k \in Job /\ k # j
      BY <1>4, SeatedFly, JobIs
    <3> QED
      BY <3>1, <1>1, <1>15
  <2>7. p \in Enter(r, ConvOf[j], n, pos[j]) /\ pool' = Pin(p, ConvOf[j])
    BY <1>8 DEF c
  <2>8. prefilling' = prefilling /\ pc' \notin {"begin", "lone"}
    BY <1>1
  <2> QED
    BY <1>4, <1>5, <1>11, <1>14, <1>18, <2>2, <2>3, <2>4, <2>5, <2>6, <2>7, <2>8, FirmEnters
<1> QED
  BY <1>17, <1>18

(* A resume that fails abandons in the slot it had chosen.                  *)
LEMMA ResumeFailsStands ==
  ASSUME Settled, Settled', Typed, ResumeFails
  PROVE  Typed' /\ (Firm => Firm')
<1> USE DEF lineVars, rowVars, standVars, otherVars
<1>0. pool \in Pool /\ Sound(pool)
  BY DEF Typed, Sound
<1> DEFINE j == Head(parked)
           c == ConvOf[j]
<1>1. /\ parked # <<>> /\ pc = "resume" /\ pc' = pc
      /\ UNCHANGED <<slot, pos, room>> /\ UNCHANGED <<prefilling, hand, rows>>
      /\ parked' = Tail(parked)
  BY DEF ResumeFails, MayResume
<1>2. parked \in Seq(Job)
  BY DEF Settled, Placed
<1>3. j \in Elems(parked)
  BY <1>1, <1>2 DEF Elems
<1>4. j \in InFlight /\ j \notin Seated
  BY <1>3, SeatedFly
<1>5. c \in Conv
  BY <1>4, JobIs
<1>6. PICK s \in ChosenSlot(pool, c) : \E q \in Charge(pool, s, c) : pool' = Abandon(Select(q, s), c)
  BY DEF ResumeFails
<1>7. PICK q \in Charge(pool, s, c) : pool' = Abandon(Select(q, s), c)
  BY <1>6
<1> DEFINE r == Select(q, s)
<1>8. s \in Slot /\ \A t \in pool.pinned : t = c \/ pool.occupant[s] # t
  BY <1>0, <1>5, ChosenIs
<1>9. /\ q \in Pool /\ Sound(q) /\ q.pinned = pool.pinned
      /\ \A d \in pool.pinned, t \in Slot : Keeps(pool, q, d, t)
  BY <1>0, <1>8, ChargeIs
<1>10. /\ r \in Pool /\ Sound(r) /\ r.pinned = q.pinned /\ r.cur = s
       /\ \A d, t : Keeps(q, r, d, t)
  BY <1>8, <1>9, SelectIs
<1>11. pool' = Abandon(r, c)
  BY <1>7
<1> HIDE DEF r, c
<1>12. /\ Sound(pool') /\ pool'.pinned = r.pinned \ {c}
       /\ \A d \in Conv, t \in Slot : d # c /\ t # r.cur => Keeps(r, pool', d, t)
  BY <1>5, <1>10, <1>11, AbandonIs DEF Sound
<1>13. Typed'
  BY <1>1, <1>12 DEF Typed
<1>14. InFlight' \in SUBSET InFlight /\ Seated' = Seated
  <2>1. \A x \in Elems(Tail(parked)) : x \in Elems(parked)
    <3>1. DOMAIN Tail(parked) = 1..(Len(parked) - 1)
          /\ \A i \in 1..(Len(parked) - 1) : Tail(parked)[i] = parked[i + 1] /\ i + 1 \in DOMAIN parked
      BY <1>1, <1>2
    <3> QED
      BY <3>1 DEF Elems
  <2> QED
    BY <1>1, <2>1 DEF InFlight, Seated, Elems
<1>15. ASSUME Firm PROVE Firm'
  <2>1. /\ Seated \ {j} = Seated /\ c \notin pool.pinned
        /\ \A k \in Seated : ConvOf[k] # c
    BY <1>4, <1>15, PinnedLess DEF c
  <2>2. ASSUME NEW k \in Seated PROVE Keeps(pool, pool', ConvOf[k], slot[k])
    <3>1. Seat(k) /\ ConvOf[k] \in pool.pinned /\ slot[k] \in Slot /\ ConvOf[k] \in Conv
      BY <1>15, SeatedFly, JobIs DEF Firm
    <3>2. slot[k] # s
      BY <1>8, <2>1, <3>1 DEF Seat
    <3>3. Keeps(pool, q, ConvOf[k], slot[k]) /\ Keeps(q, r, ConvOf[k], slot[k])
      BY <1>9, <1>10, <3>1
    <3>4. Keeps(r, pool', ConvOf[k], slot[k])
      BY <1>10, <1>12, <2>1, <3>1, <3>2
    <3>5. Keeps(pool, r, ConvOf[k], slot[k])
      BY <3>3, KeepsOn
    <3> QED
      BY <3>4, <3>5, KeepsOn
  <2>3. pool'.pinned = {ConvOf[k] : k \in Seated'}
    BY <1>9, <1>10, <1>12, <1>14, <1>15, <2>1 DEF Firm
  <2> QED
    BY <1>1, <1>14, <1>15, <2>2, <2>3, FirmKept
<1> QED
  BY <1>13, <1>15

LEMMA HandIs ==
  ASSUME Settled, Typed, pc \in Admitting
  PROVE  /\ hand \in InFlight /\ hand \notin Seated /\ hand \in Job /\ HandConv \in Conv
         /\ slot[hand] \in Slot /\ pos[hand] \in Nat /\ room[hand] \in Nat
         /\ Prompt[hand] \in Nat \ {0} /\ parked = <<>> /\ prefilling = NoJob
         /\ Seated = Elems(rows) /\ InFlight = Seated \cup {hand}
<1>1. hand # NoJob /\ parked = <<>> /\ prefilling = NoJob
  BY DEF Settled, Phased
<1>2. hand \in InFlight /\ hand \notin Seated
  BY <1>1, SeatedFly
<1>3. /\ hand \in Job /\ HandConv \in Conv
      /\ slot[hand] \in Slot /\ pos[hand] \in Nat /\ room[hand] \in Nat
      /\ Prompt[hand] \in Nat \ {0}
  BY <1>2, JobIs DEF HandConv
<1>4. Seated = Elems(rows) /\ InFlight = Seated \cup {hand}
  BY <1>1 DEF Seated, InFlight, Elems
<1> QED
  BY <1>1, <1>2, <1>3, <1>4

LEMMA BeginBesideStands ==
  ASSUME Settled, Settled', Typed, BeginBeside
  PROVE  Typed' /\ (Firm => Firm')
<1> USE DEF lineVars, rowVars, standVars, otherVars
<1>1. /\ pc = "begin" /\ pc' = "step" /\ prefilling' = hand /\ hand' = NoJob
      /\ UNCHANGED <<rows, parked, slot>>
  BY DEF BeginBeside
<1>2. /\ hand \in InFlight /\ hand \notin Seated /\ hand \in Job /\ HandConv \in Conv
      /\ Prompt[hand] \in Nat \ {0} /\ parked = <<>> /\ prefilling = NoJob
      /\ Seated = Elems(rows) /\ InFlight = Seated \cup {hand}
  BY <1>1, HandIs DEF Admitting
<1> DEFINE n == Prompt[hand] + 1
<1>3. PICK f \in 0..(Prompt[hand] - 1) : pool' \in {Pin(q, HandConv) : q \in Entered(f)} /\ Stands(f)
  BY DEF BeginBeside
<1>4. PICK p \in Enter(pool, ConvOf[hand], n, f) : pool' = Pin(p, ConvOf[hand])
  BY <1>3 DEF Entered, HandConv
<1>5. pos' = [pos EXCEPT ![hand] = f] /\ room' = [room EXCEPT ![hand] = n]
  BY <1>3 DEF Stands
<1>6. f \in Nat /\ n \in Nat /\ f <= n /\ n > 0 /\ f < Prompt[hand]
  BY <1>2, <1>3
<1>7. pool \in Pool
  BY DEF Typed, Sound
<1>8. Sound(p)
  BY <1>2, <1>4, <1>6, <1>7, EnterIs DEF HandConv
<1>9. /\ pos' \in [Job -> Nat] /\ room' \in [Job -> Nat] /\ pos'[hand] = f /\ room'[hand] = n
      /\ \A k \in Job : k # hand => pos'[k] = pos[k] /\ room'[k] = room[k]
  BY <1>2, <1>5, <1>6 DEF Typed
<1>10. Typed'
  <2>1. Sound(pool')
    BY <1>2, <1>4, <1>8, PinIs DEF Sound, HandConv
  <2> QED
    BY <1>1, <1>9, <2>1 DEF Typed
<1>11. Seated' = Seated \cup {hand} /\ InFlight' = InFlight
  <2>1. hand # NoJob
    BY <1>2, JobAssumption
  <2> QED
    BY <1>1, <1>2, <2>1 DEF Seated, InFlight, Elems
<1>12. ASSUME Firm PROVE Firm'
  <2>1. pool.cur = slot[hand] /\ pool.occupant[pool.cur] \notin pool.pinned
    BY <1>1, <1>12 DEF Firm
  <2>2. \A d \in pool.pinned, t \in Slot : Keeps(pool, pool, d, t)
    BY DEF Keeps
  <2>3. \A k \in Seated : slot'[k] = slot[k] /\ pos'[k] = pos[k] /\ room'[k] = room[k]
    <3>1. \A k \in Seated : k \in Job /\ k # hand
      BY <1>2, SeatedFly, JobIs
    <3> QED
      BY <3>1, <1>1, <1>9
  <2>4. slot'[hand] = pool.cur
    BY <1>1, <2>1
  <2>5. pc' \notin {"begin", "lone"} /\ prefilling' = hand /\ n = Prompt[hand] + 1
    BY <1>1
  <2> HIDE DEF n
  <2> QED
    BY <1>2, <1>4, <1>6, <1>7, <1>9, <1>11, <1>12, <2>1, <2>2, <2>3, <2>4, <2>5, FirmEnters
<1> QED
  BY <1>10, <1>12

(* Alone, it has its seat in the selected slot; nobody is pinned.           *)
LEMMA BeginAloneStands ==
  ASSUME Settled, Settled', Typed, BeginAlone
  PROVE  Typed' /\ (Firm => Firm')
<1> USE DEF lineVars, rowVars, standVars, otherVars
<1>1. /\ pc = "begin" /\ pc' = "lone" /\ rows = <<>>
      /\ UNCHANGED <<rows, parked, slot, hand, prefilling>>
  BY DEF BeginAlone
<1>2. /\ hand \in InFlight /\ hand \notin Seated /\ hand \in Job /\ HandConv \in Conv
      /\ Prompt[hand] \in Nat \ {0} /\ parked = <<>> /\ prefilling = NoJob
      /\ Seated = Elems(rows)
  BY <1>1, HandIs DEF Admitting
<1> DEFINE n == Prompt[hand] + 1
           c == ConvOf[hand]
<1>3. pool' \in Enter(pool, c, n, Prompt[hand])
  BY DEF BeginAlone, Entered, HandConv
<1>4. pos' = [pos EXCEPT ![hand] = Prompt[hand]] /\ room' = [room EXCEPT ![hand] = n]
  BY DEF BeginAlone, Stands
<1>5. Prompt[hand] \in Nat /\ n \in Nat /\ Prompt[hand] <= n /\ n > 0 /\ c \in Conv
  BY <1>2 DEF HandConv
<1>6. pool \in Pool
  BY DEF Typed, Sound
<1> HIDE DEF n, c
<1>7. /\ Sound(pool') /\ pool'.pinned = pool.pinned \ {c} /\ pool'.cur = pool.cur
      /\ pool'.pages[c] = n /\ pool'.occupant[pool'.cur] = c /\ pool'.filled[pool'.cur] = Prompt[hand]
      /\ \A t \in Slot : t # pool'.cur => pool'.occupant[t] # c
  BY <1>3, <1>5, <1>6, EnterIs
<1>8. /\ pos' \in [Job -> Nat] /\ room' \in [Job -> Nat]
      /\ pos'[hand] = Prompt[hand] /\ room'[hand] = n
  BY <1>2, <1>4, <1>5 DEF Typed
<1>9. Typed'
  BY <1>1, <1>7, <1>8 DEF Typed
<1>10. ASSUME Firm PROVE Firm'
  <2>1. pool.cur = slot[hand]
    BY <1>1, <1>10 DEF Firm
  <2>2. Seated = {} /\ Seated' = {} /\ InFlight' = InFlight
    BY <1>1, <1>2 DEF Seated, Elems, InFlight
  <2>3. pool'.pinned = {}
    <3>1. pool.pinned = {}
      BY <1>10, <2>2 DEF Firm
    <3> QED
      BY <3>1, <1>7
  <2>4. Seat(hand)'
    BY <1>1, <1>5, <1>7, <1>8, <2>1 DEF Seat, c
  <2>5. \A i, k \in InFlight' : ConvOf[i] = ConvOf[k] => i = k
    BY <2>2, <1>10 DEF Firm
  <2>6. (\A k \in Seated : Seat(k))'
    BY <2>2
  <2>7. (pool.pinned = {ConvOf[k] : k \in Seated})'
    BY <2>2, <2>3
  <2>8. pool'.cur = slot'[hand'] /\ pc' # "begin" /\ prefilling' = NoJob /\ Seat(hand)'
    BY <1>1, <1>2, <1>7, <2>1, <2>4
  <2> QED
    BY <2>5, <2>6, <2>7, <2>8 DEF Firm
<1> QED
  BY <1>9, <1>10

(* A request dismissed leaves the pool to those who are seated.             *)
LEMMA DismissedStands ==
  ASSUME Settled, Settled', Typed,
         GoneAtHeaders \/ NoRoomAlone \/ LoneFails \/ LoneEnd
  PROVE  Typed' /\ (Firm => Firm')
<1> USE DEF lineVars, rowVars, standVars, otherVars
<1>1. /\ pc \in Admitting /\ pc' = "step" /\ hand' = NoJob
      /\ UNCHANGED <<rows, parked, prefilling>> /\ UNCHANGED <<slot, pos, room>>
      /\ GoneAtHeaders \/ rows = <<>>
      /\ GoneAtHeaders => pc = "begin"
  BY DEF GoneAtHeaders, NoRoomAlone, LoneFails, LoneEnd, Dismissed, Admitting, Settled, Phased
<1>2. /\ hand \in InFlight /\ hand \notin Seated /\ hand \in Job /\ HandConv \in Conv
      /\ Prompt[hand] \in Nat \ {0} /\ parked = <<>> /\ prefilling = NoJob
      /\ Seated = Elems(rows) /\ InFlight = Seated \cup {hand} /\ pos[hand] \in Nat
  BY <1>1, HandIs
<1> DEFINE c == ConvOf[hand]
           n == Prompt[hand] + 1
<1>3. c \in Conv /\ n \in Nat /\ 0 \in Nat /\ pool \in Pool /\ Sound(pool)
  BY <1>2 DEF HandConv, Typed, Sound
<1>4. GoneAtHeaders => pool' \in Enter(pool, c, n, 0)
  BY DEF GoneAtHeaders, Entered, HandConv
<1>5. ~GoneAtHeaders => pool' = Abandon(pool, c) \/ pool' = End(pool, c, pos[hand])
  BY DEF NoRoomAlone, LoneFails, LoneEnd, HandConv
<1>6. Seated' = Seated /\ InFlight' \in SUBSET InFlight /\ Seated = Seated \ {hand}
  BY <1>1, <1>2 DEF Seated, InFlight, Elems
<1> HIDE DEF c, n
<1>7. CASE GoneAtHeaders
  <2>1. /\ Sound(pool') /\ pool'.pinned = pool.pinned \ {c}
        /\ \A d \in pool.pinned, t \in Slot :
              d # c /\ t # pool.cur /\ d # pool.occupant[pool.cur] => Keeps(pool, pool', d, t)
    BY <1>3, <1>4, <1>7, EnterIs
  <2>2. Typed'
    BY <1>1, <2>1 DEF Typed
  <2>3. ASSUME Firm PROVE Firm'
    <3>1. pool.occupant[pool.cur] \notin pool.pinned
      BY <1>1, <1>7, <2>3 DEF Firm
    <3>2. ASSUME NEW k \in Seated PROVE Keeps(pool, pool', ConvOf[k], slot[k])
      <4>1. Seat(k) /\ ConvOf[k] \in pool.pinned /\ slot[k] \in Slot
        BY <2>3, SeatedFly, JobIs DEF Firm
      <4>2. ConvOf[k] # c
        BY <1>2, <2>3, PinnedLess DEF c
      <4>3. slot[k] # pool.cur /\ ConvOf[k] # pool.occupant[pool.cur]
        BY <3>1, <4>1 DEF Seat
      <4> QED
        BY <2>1, <4>1, <4>2, <4>3
    <3>3. \A k \in Seated \ {hand} : Keeps(pool, pool', ConvOf[k], slot[k])
      BY <3>2
    <3>4. pool'.pinned = pool.pinned \ {ConvOf[hand]} /\ Seated' = Seated \ {hand}
      BY <1>6, <2>1 DEF c
    <3>5. prefilling' \in {prefilling, NoJob} /\ pc' \notin {"begin", "lone"}
      BY <1>1
    <3>6. hand \in InFlight /\ InFlight' \in SUBSET InFlight /\ UNCHANGED <<slot, pos, room>>
      BY <1>1, <1>2, <1>6
    <3> QED
      BY ONLY Settled, Typed, <2>3, <3>3, <3>4, <3>5, <3>6, FirmLess
  <2> QED
    BY <2>2, <2>3
<1>8. CASE ~GoneAtHeaders
  <2>1. Sound(pool') /\ (pool'.pinned = pool.pinned \ {c} \/ pool'.pinned = pool.pinned)
    <3>1. CASE pool' = Abandon(pool, c)
      BY <1>3, <3>1, AbandonIs
    <3>2. CASE pool' = End(pool, c, pos[hand])
      BY <1>2, <1>3, <3>2, EndIs
    <3> QED
      BY <1>5, <1>8, <3>1, <3>2
  <2>2. Typed'
    BY <1>1, <2>1 DEF Typed
  <2>3. ASSUME Firm PROVE Firm'
    <3>1. Seated = {}
      BY <1>1, <1>2, <1>8 DEF Elems
    <3>2. pool'.pinned = {ConvOf[k] : k \in Seated'}
      <4>1. pool.pinned = {}
        BY <2>3, <3>1 DEF Firm
      <4> QED
        BY <2>1, <3>1, <1>6, <4>1
    <3>3. \A k \in Seated' : /\ slot'[k] = slot[k] /\ pos'[k] = pos[k] /\ room'[k] = room[k]
                             /\ Keeps(pool, pool', ConvOf[k], slot[k])
      BY <3>1, <1>6
    <3> QED
      BY <1>1, <1>6, <2>3, <3>2, <3>3, FirmKept
  <2> QED
    BY <2>2, <2>3
<1> QED
  BY <1>7, <1>8

LEMMA BeginFailsStands ==
  ASSUME Settled, Settled', Typed, BeginFails
  PROVE  Typed' /\ cold'
<1> USE DEF lineVars, rowVars, standVars, otherVars
<1>1. pc = "begin" /\ UNCHANGED slot /\ cold' = TRUE
  BY DEF BeginFails
<1>2. hand \in Job /\ HandConv \in Conv
  BY <1>1, HandIs DEF Admitting
<1>3. pool \in Pool /\ Sound(pool)
  BY DEF Typed, Sound
<1>4. pool' = Pin(pool, HandConv) /\ pos' = [pos EXCEPT ![hand] = 0]
      /\ room' = [room EXCEPT ![hand] = pool.pages[HandConv]]
  BY DEF BeginFails
<1>5. Sound(pool')
  BY <1>2, <1>3, <1>4, PinIs
<1>6. pool.pages[HandConv] \in Nat
  BY <1>2, <1>3, UnusedIs
<1> QED
  BY <1>1, <1>4, <1>5, <1>6 DEF Typed

LEMMA LoneStands ==
  ASSUME Settled, Settled', Typed, LoneGrow \/ LoneStep
  PROVE  Typed' /\ (Firm => Firm')
<1> USE DEF lineVars, rowVars, standVars, otherVars
<1>1. /\ pc = "lone" /\ pc' = pc /\ UNCHANGED <<rows, parked, slot, hand, prefilling>>
  BY DEF LoneGrow, LoneStep
<1>2. /\ hand \in InFlight /\ hand \notin Seated /\ hand \in Job /\ HandConv \in Conv
      /\ parked = <<>> /\ prefilling = NoJob /\ slot[hand] \in Slot
      /\ Seated = Elems(rows) /\ pos[hand] \in Nat /\ room[hand] \in Nat
  BY <1>1, HandIs DEF Admitting
<1>3. rows = <<>>
  BY <1>1 DEF Settled, Phased
<1> DEFINE c == ConvOf[hand]
           n == pos[hand] + 1
<1>4. c \in Conv /\ n \in Nat /\ pool \in Pool /\ Sound(pool)
  BY <1>2 DEF HandConv, Typed, Sound
<1>5. Seated = {} /\ Seated' = {} /\ InFlight' = InFlight
  BY <1>1, <1>2, <1>3 DEF Seated, Elems, InFlight
<1>6. ASSUME Firm, pool'.pinned = pool.pinned, pool'.cur = pool.cur, Seat(hand)'
      PROVE  Firm'
  <2>1. (\A j \in Seated : Seat(j))' /\ (\A j, k \in InFlight : ConvOf[j] = ConvOf[k] => j = k)'
    BY <1>5, <1>6 DEF Firm
  <2>2. (pool.pinned = {ConvOf[j] : j \in Seated})'
    BY <1>5, <1>6 DEF Firm
  <2>3. pool'.cur = slot'[hand'] /\ Seat(hand)' /\ pc' # "begin" /\ prefilling' = NoJob
    BY <1>1, <1>2, <1>6 DEF Firm
  <2> QED
    BY <2>1, <2>2, <2>3 DEF Firm
<1>7. CASE LoneGrow
  <2>1. /\ pool' \in Grow(pool, c, n) /\ room' = [room EXCEPT ![hand] = n]
        /\ pos' = pos /\ pos[hand] >= room[hand]
    BY <1>7 DEF LoneGrow, HandConv
  <2> HIDE DEF c, n
  <2>2. /\ Sound(pool') /\ pool'.pinned = pool.pinned /\ pool'.cur = pool.cur
        /\ pool'.pages[c] = n /\ pool'.filled = pool.filled
        /\ \A t \in Slot : pool'.occupant[t] = c <=> pool.occupant[t] = c
    BY <1>4, <2>1, GrowIs
  <2>3. room' \in [Job -> Nat] /\ room'[hand] = n
    BY <1>2, <1>4, <2>1 DEF Typed
  <2>4. Typed'
    BY <1>1, <2>1, <2>2, <2>3 DEF Typed
  <2>5. ASSUME Firm PROVE Seat(hand)'
    <3>1. Seat(hand)
      BY <1>1, <2>5 DEF Firm
    <3>2. pos[hand] <= n /\ n > 0
      BY <1>2 DEF n
    <3> QED
      BY <1>1, <1>2, <2>1, <2>2, <2>3, <3>1, <3>2 DEF Seat, c
  <2> QED
    BY <1>6, <2>2, <2>4, <2>5
<1>8. CASE LoneStep
  <2>1. /\ pool' = [pool EXCEPT !.filled[slot[hand]] = @ + 1] /\ room' = room
        /\ pos' = [pos EXCEPT ![hand] = @ + 1] /\ pos[hand] < room[hand]
    BY <1>8 DEF LoneStep
  <2> DEFINE s == slot[hand]
  <2>2. s \in Slot /\ pool' = [pool EXCEPT !.filled[s] = @ + 1]
    BY <1>2, <2>1
  <2> HIDE DEF s
  <2>3. /\ Sound(pool') /\ pool'.filled[s] = pool.filled[s] + 1
        /\ pool'.pinned = pool.pinned /\ pool'.pages = pool.pages
        /\ pool'.occupant = pool.occupant /\ pool'.cur = pool.cur
    BY <1>4, <2>2, StepIs
  <2>4. pos' \in [Job -> Nat] /\ pos'[hand] = pos[hand] + 1
    BY <1>2, <2>1 DEF Typed
  <2>5. Typed'
    BY <1>1, <2>1, <2>3, <2>4 DEF Typed
  <2>6. ASSUME Firm PROVE Seat(hand)'
    <3>1. Seat(hand)
      BY <1>1, <2>6 DEF Firm
    <3> QED
      BY <1>1, <1>2, <2>1, <2>3, <2>4, <3>1 DEF Seat, s
  <2> QED
    BY <1>6, <2>3, <2>5, <2>6
<1> QED
  BY <1>7, <1>8

(* It hands over, pinned where it sits.                                     *)
LEMMA HandOverStands ==
  ASSUME Settled, Settled', Typed, HandOver
  PROVE  Typed' /\ (Firm => Firm')
<1> USE DEF lineVars, rowVars, standVars, otherVars
<1>1. /\ pc = "lone" /\ pc' = "step" /\ rows' = <<hand>> /\ hand' = NoJob
      /\ UNCHANGED <<parked, prefilling>> /\ UNCHANGED <<slot, pos, room>>
      /\ pool' = Pin(pool, HandConv)
  BY DEF HandOver
<1>2. /\ hand \in InFlight /\ hand \notin Seated /\ hand \in Job /\ HandConv \in Conv
      /\ parked = <<>> /\ prefilling = NoJob /\ slot[hand] \in Slot
      /\ Seated = Elems(rows) /\ InFlight = Seated \cup {hand}
  BY <1>1, HandIs DEF Admitting
<1>3. rows = <<>> /\ Elems(rows) = {}
  BY <1>1 DEF Settled, Phased, Elems
<1>4. pool \in Pool /\ Sound(pool)
  BY DEF Typed, Sound
<1>5. /\ Sound(pool') /\ pool'.pinned = pool.pinned \cup {HandConv}
      /\ \A d, t : Keeps(pool, pool', d, t)
  BY <1>1, <1>2, <1>4, PinIs
<1>6. Typed'
  BY <1>1, <1>5 DEF Typed
<1>7. Seated = {} /\ Seated' = {hand} /\ InFlight' \in SUBSET InFlight
  <2>1. Elems(rows') = {hand}
    BY <1>1 DEF Elems
  <2>2. hand # NoJob
    BY <1>2, JobAssumption
  <2> QED
    BY <1>1, <1>2, <1>3, <2>1, <2>2 DEF Seated, InFlight, Elems
<1>8. ASSUME Firm PROVE Firm'
  <2>1. PICK j : j = hand
    OBVIOUS
  <2>2. Seat(j) /\ slot'[j] = slot[j] /\ pos'[j] = pos[j] /\ room'[j] = room[j]
        /\ Keeps(pool, pool', ConvOf[j], slot[j]) /\ slot[j] \in Slot
    BY <1>1, <1>2, <1>5, <1>8, <2>1 DEF Firm
  <2>3. Seat(j)'
    BY ONLY <2>2, SeatKept
  <2>4. (\A k \in Seated : Seat(k))'
    <3>1. \A k \in Seated' : k = j
      BY <1>7, <2>1
    <3>2. ASSUME NEW k \in Seated' PROVE Seat(k)'
      <4>1. k = j
        BY <3>1, <3>2
      <4> QED
        BY <2>3, <4>1
    <3> QED
      BY <3>2
  <2>5. pool'.pinned = {ConvOf[n] : n \in Seated'}
    <3>1. pool.pinned = {}
      BY <1>7, <1>8 DEF Firm
    <3>2. {ConvOf[n] : n \in Seated'} = {ConvOf[hand]}
      BY <1>7
    <3> QED
      BY <1>5, <3>1, <3>2 DEF HandConv
  <2>6. \A i, k \in InFlight' : ConvOf[i] = ConvOf[k] => i = k
    BY <1>7, <1>8 DEF Firm
  <2>7. pc' # "begin" /\ pc' # "lone" /\ prefilling' = NoJob
    BY <1>1, <1>2
  <2> QED
    BY <2>4, <2>5, <2>6, <2>7 DEF Firm
<1> QED
  BY <1>6, <1>8

LEMMA FirmBySeats ==
  ASSUME Settled, Typed, Firm, Seated' \in SUBSET Seated, InFlight' \in SUBSET InFlight,
         \A j \in Seated' : Seat(j)',
         pool'.pinned = {ConvOf[j] : j \in Seated'},
         prefilling' # NoJob => /\ pos'[prefilling'] < Prompt[prefilling']
                                /\ room'[prefilling'] = Prompt[prefilling'] + 1,
         pc' \notin {"begin", "lone"}
  PROVE  Firm'
<1>1. \A j, k \in InFlight' : ConvOf[j] = ConvOf[k] => j = k
  BY DEF Firm
<1>2. (\A j \in Seated : Seat(j))'
  OBVIOUS
<1> QED
  BY <1>1, <1>2 DEF Firm

(* Seats are apart.                                                         *)
LEMMA SeatsApart ==
  ASSUME Settled, Typed, Firm, NEW j \in Seated, NEW k \in Seated, j # k
  PROVE  slot[j] # slot[k] /\ ConvOf[j] # ConvOf[k] /\ pool.occupant[slot[j]] # ConvOf[k]
<1>1. Seat(j) /\ Seat(k)
  BY DEF Firm
<1>2. ConvOf[j] # ConvOf[k]
  BY SeatedFly DEF Firm
<1> QED
  BY <1>1, <1>2 DEF Seat

(* Who leaves takes nothing of the others along.                            *)
LEMMA LeavesStand ==
  ASSUME Settled, Typed, NEW j \in Seated, Seated' = Seated \ {j}, InFlight' \in SUBSET InFlight,
         slot' = slot, \A k \in Seated' : pos'[k] = pos[k] /\ room'[k] = room[k],
         pool'.pinned = pool.pinned \ {ConvOf[j]},
         \A d \in Conv, t \in Slot : /\ d # ConvOf[j] /\ t # slot[j] /\ d # pool.occupant[slot[j]]
                                     => Keeps(pool, pool', d, t),
         prefilling' \in {prefilling, NoJob}, pc' \notin {"begin", "lone"}
  PROVE  Firm => Firm'
<1> SUFFICES ASSUME Firm PROVE Firm'
  OBVIOUS
<1>1. ASSUME NEW k \in Seated'
      PROVE  /\ slot'[k] = slot[k] /\ pos'[k] = pos[k] /\ room'[k] = room[k]
             /\ Keeps(pool, pool', ConvOf[k], slot[k])
  <2>1. k \in Seated /\ k # j
    BY <1>1
  <2>2. slot[j] # slot[k] /\ ConvOf[j] # ConvOf[k] /\ pool.occupant[slot[j]] # ConvOf[k]
    BY <2>1, SeatsApart
  <2>3. ConvOf[k] \in Conv /\ slot[k] \in Slot
    BY <2>1, SeatedFly, JobIs
  <2> QED
    BY <1>1, <2>2, <2>3
<1>2. pool'.pinned = {ConvOf[k] : k \in Seated'}
  <2>1. j \in InFlight
    BY SeatedFly
  <2> QED
    BY <2>1, PinnedLess
<1>3. Seated' \in SUBSET Seated
  OBVIOUS
<1> QED
  BY <1>1, <1>2, <1>3, FirmKept

LEMMA RowIs ==
  ASSUME Settled, Typed, NEW j \in Elems(rows)
  PROVE  /\ j \in Seated /\ j \in InFlight /\ j \in Job /\ ConvOf[j] \in Conv /\ slot[j] \in Slot
         /\ pos[j] \in Nat /\ room[j] \in Nat /\ j # prefilling /\ j # hand /\ j \notin Elems(parked)
<1>1. j \in Seated /\ j \in InFlight
  BY SeatedFly
<1>2. j \in Job /\ ConvOf[j] \in Conv /\ slot[j] \in Slot /\ pos[j] \in Nat /\ room[j] \in Nat
  BY <1>1, JobIs
<1>3. j # prefilling /\ j # hand /\ j \notin Elems(parked)
  BY DEF Settled, Apart, Queued
<1> QED
  BY <1>1, <1>2, <1>3

LEMMA RowGrowsStands ==
  ASSUME Settled, Settled', Typed, RowGrows
  PROVE  Typed' /\ (Firm => Firm')
<1> USE DEF lineVars, rowVars, standVars, otherVars
<1>1. /\ pc' \notin {"begin", "lone"} /\ UNCHANGED <<rows, parked, prefilling, hand>>
      /\ UNCHANGED <<slot, pos>>
  BY DEF RowGrows
<1>2. PICK i \in DOMAIN rows :
        /\ pool' \in Grow(Select(pool, slot[rows[i]]), ConvOf[rows[i]], pos[rows[i]] + 1)
        /\ room' = [room EXCEPT ![rows[i]] = pos[rows[i]] + 1]
  BY DEF RowGrows
<1>3. PICK j : j = rows[i]
  OBVIOUS
<1>4. j \in Elems(rows)
  BY <1>3 DEF Elems
<1> DEFINE c == ConvOf[j]
           n == pos[j] + 1
           p == Select(pool, slot[j])
<1>5. /\ j \in Seated /\ j \in InFlight /\ j \in Job /\ c \in Conv /\ slot[j] \in Slot
      /\ pos[j] \in Nat /\ room[j] \in Nat /\ j # prefilling /\ n \in Nat
  BY <1>4, RowIs
<1>6. pool' \in Grow(p, c, n) /\ room' = [room EXCEPT ![j] = n]
  BY <1>2, <1>3
<1>7. pool \in Pool /\ Sound(pool)
  BY DEF Typed, Sound
<1>8. /\ p \in Pool /\ p.pinned = pool.pinned /\ p.filled = pool.filled /\ p.occupant = pool.occupant
      /\ \A d, t : Keeps(pool, p, d, t)
  BY <1>5, <1>7, SelectIs
<1> HIDE DEF c, n, p
<1>9. /\ Sound(pool') /\ pool'.pinned = p.pinned
      /\ pool'.pages[c] = n /\ pool'.filled = p.filled
      /\ \A t \in Slot : pool'.occupant[t] = c <=> p.occupant[t] = c
      /\ \A d \in p.pinned, t \in Slot : d # c => Keeps(p, pool', d, t)
  BY <1>5, <1>6, <1>8, GrowIs
<1>10. /\ room' \in [Job -> Nat] /\ room'[j] = n
       /\ \A k \in Job : k # j => room'[k] = room[k]
  BY <1>5, <1>6 DEF Typed
<1>11. Typed'
  BY <1>1, <1>9, <1>10 DEF Typed
<1>12. Seated' = Seated /\ InFlight' = InFlight
  BY <1>1 DEF Seated, InFlight, Elems
<1>13. ASSUME Firm PROVE Firm'
  <2>1. ASSUME NEW k \in Seated' PROVE Seat(k)'
    <3>1. k \in Seated /\ k \in Job /\ slot[k] \in Slot /\ ConvOf[k] \in pool.pinned /\ Seat(k)
      BY <1>12, <1>13, <2>1, SeatedFly, JobIs DEF Firm
    <3>2. CASE k = j
      <4>1. Seat(j) /\ pos[j] <= n /\ n > 0
        BY <1>5, <3>1, <3>2 DEF n
      <4> QED
        BY <1>1, <1>5, <1>8, <1>9, <1>10, <3>2, <4>1 DEF Seat, c
    <3>3. CASE k # j
      <4>1. ConvOf[k] # c
        BY <1>5, <1>13, <3>1, <3>3, SeatsApart DEF c
      <4>2. Keeps(pool, p, ConvOf[k], slot[k]) /\ Keeps(p, pool', ConvOf[k], slot[k])
        BY <1>8, <1>9, <3>1, <4>1
      <4>3. Keeps(pool, pool', ConvOf[k], slot[k])
        BY <4>2, KeepsOn
      <4>4. slot'[k] = slot[k] /\ pos'[k] = pos[k] /\ room'[k] = room[k]
        BY <1>1, <1>10, <3>1, <3>3
      <4> QED
        BY <3>1, <4>3, <4>4, SeatKept
    <3> QED
      BY <3>2, <3>3
  <2>2. pool'.pinned = {ConvOf[k] : k \in Seated'}
    BY <1>8, <1>9, <1>12, <1>13 DEF Firm
  <2>3. prefilling' # NoJob => /\ pos'[prefilling'] < Prompt[prefilling']
                               /\ room'[prefilling'] = Prompt[prefilling'] + 1
    <3>1. prefilling # NoJob => prefilling \in Job
      BY DEF Settled, Placed
    <3> QED
      BY <1>1, <1>5, <1>10, <1>13, <3>1 DEF Firm
  <2> QED
    BY <1>1, <1>12, <1>13, <2>1, <2>2, <2>3, FirmBySeats
<1> QED
  BY <1>11, <1>13

LEMMA RowParksStands ==
  ASSUME Settled, Settled', Typed, RowParks
  PROVE  Typed' /\ (Firm => Firm')
<1> USE DEF lineVars, rowVars, standVars, otherVars
<1>1. /\ pc' \notin {"begin", "lone"} /\ UNCHANGED <<prefilling, hand>>
      /\ UNCHANGED <<slot, pos, room>>
  BY DEF RowParks
<1>2. PICK i \in DOMAIN rows :
        /\ pool' = Park(Select(pool, slot[rows[i]]), ConvOf[rows[i]], pos[rows[i]])
        /\ rows' = Without(rows, {rows[i]}) /\ parked' = Append(parked, rows[i])
  BY DEF RowParks
<1>3. PICK j : j = rows[i]
  OBVIOUS
<1>4. j \in Elems(rows)
  BY <1>3 DEF Elems
<1> DEFINE p == Select(pool, slot[j])
<1>5. /\ j \in Seated /\ j \in InFlight /\ j \in Job /\ ConvOf[j] \in Conv /\ slot[j] \in Slot
      /\ pos[j] \in Nat /\ j # prefilling /\ j \notin Elems(parked)
  BY <1>4, RowIs
<1>6. pool' = Park(p, ConvOf[j], pos[j]) /\ rows' = Without(rows, {j}) /\ parked' = Append(parked, j)
  BY <1>2, <1>3
<1>7. pool \in Pool /\ Sound(pool)
  BY DEF Typed, Sound
<1>8. /\ p \in Pool /\ Sound(p) /\ p.pinned = pool.pinned /\ p.occupant = pool.occupant
      /\ p.cur = slot[j] /\ \A d, t : Keeps(pool, p, d, t)
  BY <1>5, <1>7, SelectIs
<1> HIDE DEF p
<1>9. /\ Sound(pool') /\ pool'.pinned = p.pinned \ {ConvOf[j]}
      /\ \A d \in Conv, t \in Slot :
           d # ConvOf[j] /\ d # p.occupant[p.cur] => Keeps(p, pool', d, t)
  <2>1. /\ p \in Pool /\ Sound(p) /\ ConvOf[j] \in Conv /\ pos[j] \in Nat
        /\ pool' = Park(p, ConvOf[j], pos[j])
    BY <1>5, <1>6, <1>8
  <2> QED
    BY ONLY <2>1, ParkIs
<1>10. Typed'
  BY <1>1, <1>9 DEF Typed
<1>11. /\ Elems(rows') = Elems(rows) \ {j} /\ Elems(parked') = Elems(parked) \cup {j}
  BY <1>5, <1>6, WithoutKeeps, AppendKeeps DEF Settled, Placed, Once
<1>12. Seated' = Seated \ {j} /\ InFlight' \in SUBSET InFlight
  BY <1>1, <1>4, <1>5, <1>11 DEF Seated, InFlight
<1>13. \A d \in Conv, t \in Slot : /\ d # ConvOf[j] /\ t # slot[j] /\ d # pool.occupant[slot[j]]
                                   => Keeps(pool, pool', d, t)
  BY <1>8, <1>9, KeepsOn
<1>14. pool'.pinned = pool.pinned \ {ConvOf[j]}
  BY <1>8, <1>9
<1>15. Firm => Firm'
  BY <1>1, <1>5, <1>12, <1>13, <1>14, LeavesStand
<1> QED
  BY <1>10, <1>15

(* A row that fails, whatever for.                                          *)
LEMMA RowFailsStands ==
  ASSUME Settled, Settled', Typed,
         RowStarves \/ ParkFails \/ (FailAll /\ rows # <<>>)
  PROVE  Typed' /\ (Firm => Firm')
<1> USE DEF lineVars, rowVars, standVars, otherVars
<1>1. PICK i \in DOMAIN rows : RowFails(rows[i])
  <2>1. CASE RowStarves \/ ParkFails
    BY <2>1 DEF RowStarves, ParkFails
  <2>2. CASE FailAll /\ rows # <<>>
    <3>1. rows \in Seq(Job) /\ 1 \in DOMAIN rows /\ Head(rows) = rows[1]
      BY <2>2 DEF Settled, Placed
    <3> QED
      BY <2>2, <3>1 DEF FailAll
  <2> QED
    BY <2>1, <2>2
<1>2. pc \in {"step", "fail"}
  BY DEF RowStarves, ParkFails, FailAll
<1>3. PICK j : j = rows[i]
  OBVIOUS
<1>4. j \in Elems(rows)
  BY <1>3 DEF Elems
<1>5. RowFails(j)
  BY <1>1, <1>3 DEF RowFails, Failed, Ended
<1>6. /\ pc' \notin {"begin", "lone"} /\ UNCHANGED <<prefilling, hand, parked>>
      /\ UNCHANGED <<slot, pos, room>> /\ rows' = Without(rows, {j})
      /\ pool' = Abandon(Select(pool, slot[j]), ConvOf[j])
  BY <1>2, <1>5 DEF RowFails, Failed
<1> DEFINE p == Select(pool, slot[j])
<1>7. /\ j \in Seated /\ j \in InFlight /\ j \in Job /\ ConvOf[j] \in Conv /\ slot[j] \in Slot
      /\ j # prefilling
  BY <1>4, RowIs
<1>8. pool \in Pool /\ Sound(pool)
  BY DEF Typed, Sound
<1>9. /\ p \in Pool /\ Sound(p) /\ p.pinned = pool.pinned /\ p.cur = slot[j]
      /\ \A d, t : Keeps(pool, p, d, t)
  BY <1>7, <1>8, SelectIs
<1>10. pool' = Abandon(p, ConvOf[j])
  BY <1>6
<1> HIDE DEF p
<1>11. /\ Sound(pool') /\ pool'.pinned = p.pinned \ {ConvOf[j]}
       /\ \A d \in Conv, t \in Slot : d # ConvOf[j] /\ t # p.cur => Keeps(p, pool', d, t)
  BY <1>7, <1>9, <1>10, AbandonIs DEF Sound
<1>12. Typed'
  BY <1>6, <1>11 DEF Typed
<1>13. Elems(rows') = Elems(rows) \ {j}
  BY <1>6, WithoutKeeps DEF Settled, Placed, Once
<1>14. Seated' = Seated \ {j} /\ InFlight' \in SUBSET InFlight
  BY <1>6, <1>7, <1>13 DEF Seated, InFlight, Elems
<1>15. \A d \in Conv, t \in Slot : /\ d # ConvOf[j] /\ t # slot[j] /\ d # pool.occupant[slot[j]]
                                   => Keeps(pool, pool', d, t)
  BY <1>9, <1>11, KeepsOn
<1>16. pool'.pinned = pool.pinned \ {ConvOf[j]}
  BY <1>9, <1>11
<1>17. Firm => Firm'
  BY <1>6, <1>7, <1>14, <1>15, <1>16, LeavesStand
<1> QED
  BY <1>12, <1>17

(* The row that ends gives back what it grew, and, beside others, its slot. *)
LEMMA EndingIs ==
  ASSUME NEW p \in Pool, Sound(p), NEW c \in Conv, NEW n \in Nat, NEW q,
         LET u == Unpin(End(p, c, n), c) IN q \in {u, LeaveSlot(u)}
  PROVE  /\ Sound(q) /\ q.pinned = p.pinned \ {c}
         /\ \A d \in Conv, t \in Slot : d # c /\ d # p.occupant[p.cur] => Keeps(p, q, d, t)
<1> DEFINE e == End(p, c, n)
           u == Unpin(e, c)
           v == LeaveSlot(u)
<1>1. /\ e \in Pool /\ Sound(e) /\ e.pinned = p.pinned /\ e.occupant = p.occupant /\ e.cur = p.cur
      /\ \A d, t : d \in Conv /\ d # c => Keeps(p, e, d, t)
  BY EndIs
<1>2. q \in {u, v}
  OBVIOUS
<1> HIDE DEF e
<1>3. /\ u \in Pool /\ Sound(u) /\ u.pinned = e.pinned \ {c} /\ u.occupant = e.occupant
      /\ u.cur = e.cur /\ \A d, t : d # c => Keeps(e, u, d, t)
  BY <1>1, UnpinIs
<1> HIDE DEF u
<1>4. /\ Sound(v) /\ v.pinned = u.pinned
      /\ \A d \in Conv, t \in Slot : d # u.occupant[u.cur] => Keeps(u, v, d, t)
  BY <1>3, LeaveIs
<1> HIDE DEF v
<1>5. ASSUME NEW d \in Conv, NEW t \in Slot, d # c, d # p.occupant[p.cur]
      PROVE  Keeps(p, q, d, t)
  <2>1. Keeps(p, e, d, t) /\ Keeps(e, u, d, t) /\ Keeps(u, v, d, t)
    BY <1>1, <1>3, <1>4, <1>5
  <2>2. Keeps(p, u, d, t)
    BY <2>1, KeepsOn
  <2>3. Keeps(p, v, d, t)
    BY <2>1, <2>2, KeepsOn
  <2> QED
    BY <1>2, <2>2, <2>3
<1>6. Sound(q) /\ q.pinned = p.pinned \ {c}
  BY <1>1, <1>2, <1>3, <1>4
<1> QED
  BY <1>5, <1>6

LEMMA EndRowStands ==
  ASSUME Settled, Settled', Typed, EndRow
  PROVE  Typed' /\ (Firm => Firm')
<1> USE DEF lineVars, rowVars, standVars, otherVars
<1>1. /\ pc' \notin {"begin", "lone"} /\ UNCHANGED <<prefilling, hand, parked>>
      /\ UNCHANGED <<slot, pos, room>>
  BY DEF EndRow
<1>2. PICK i \in DOMAIN rows :
        /\ rows' = Without(rows, {rows[i]})
        /\ RowEnded(rows[i], OthersThan(rows[i]))
  BY DEF EndRow
<1>3. PICK j : j = rows[i]
  OBVIOUS
<1>4. j \in Elems(rows)
  BY <1>3 DEF Elems
<1> DEFINE p == Select(pool, slot[j])
           c == ConvOf[j]
           n == pos[j]
           u == Unpin(End(p, c, n), c)
<1>5. rows' = Without(rows, {j}) /\ pool' \in {u, LeaveSlot(u)}
  BY <1>2, <1>3 DEF RowEnded
<1>6. /\ j \in Seated /\ j \in InFlight /\ c \in Conv /\ slot[j] \in Slot
      /\ n \in Nat /\ j # prefilling
  BY <1>4, RowIs
<1>7. pool \in Pool /\ Sound(pool)
  BY DEF Typed, Sound
<1>8. /\ p \in Pool /\ Sound(p) /\ p.pinned = pool.pinned /\ p.cur = slot[j]
      /\ p.occupant = pool.occupant /\ \A d, t : Keeps(pool, p, d, t)
  BY <1>6, <1>7, SelectIs
<1> HIDE DEF p, c, n
<1>9. /\ Sound(pool') /\ pool'.pinned = p.pinned \ {c}
      /\ \A d \in Conv, t \in Slot : d # c /\ d # p.occupant[p.cur] => Keeps(p, pool', d, t)
  <2>1. p \in Pool /\ Sound(p) /\ c \in Conv /\ n \in Nat /\ pool' \in {u, LeaveSlot(u)}
    BY <1>5, <1>6, <1>8
  <2> QED
    BY ONLY <2>1, EndingIs
<1>10. Typed'
  BY <1>1, <1>9 DEF Typed
<1>11. Elems(rows') = Elems(rows) \ {j}
  BY <1>5, WithoutKeeps DEF Settled, Placed, Once
<1>12. Seated' = Seated \ {j} /\ InFlight' \in SUBSET InFlight
  BY <1>1, <1>6, <1>11 DEF Seated, InFlight, Elems
<1>13. \A d \in Conv, t \in Slot : /\ d # ConvOf[j] /\ t # slot[j] /\ d # pool.occupant[slot[j]]
                                   => Keeps(pool, pool', d, t)
  BY <1>8, <1>9, KeepsOn DEF c
<1>14. pool'.pinned = pool.pinned \ {ConvOf[j]}
  BY <1>8, <1>9 DEF c
<1>15. Firm => Firm'
  BY <1>1, <1>6, <1>12, <1>13, <1>14, LeavesStand
<1> QED
  BY <1>10, <1>15

(* A step of the model: the state of each row's slot moves by one, for no   *)
(* slot is two rows'.                                                       *)
LEMMA DecodeStands ==
  ASSUME Settled, Settled', Typed, Decode
  PROVE  Typed' /\ (Firm => Firm')
<1> USE DEF lineVars, rowVars, standVars, otherVars
<1> DEFINE all == Elems(rows)
           there(s) == {j \in all : slot[j] = s}
           f == [s \in Slot |-> pool.filled[s] + Cardinality(there(s))]
<1>1. /\ pc' \notin {"begin", "lone"} /\ UNCHANGED <<prefilling, hand, parked, rows>>
      /\ UNCHANGED <<slot, room>> /\ Roomy
      /\ pos' = [j \in Job |-> IF j \in all THEN pos[j] + 1 ELSE pos[j]]
  BY DEF Decode
<1>2. pool' = [pool EXCEPT !.filled = f]
  BY DEF Decode
<1>3. pool \in Pool /\ Sound(pool) /\ pool.filled \in [Slot -> Nat]
  BY PoolIs DEF Typed, Sound
<1>4. \A s \in Slot : IsFiniteSet(there(s)) /\ Cardinality(there(s)) \in Nat
  <2> SUFFICES ASSUME NEW s \in Slot
               PROVE  IsFiniteSet(there(s)) /\ Cardinality(there(s)) \in Nat
    OBVIOUS
  <2>1. IsFiniteSet(all)
    BY LenIsCount DEF Settled, Placed, Once
  <2>2. there(s) \in SUBSET all
    OBVIOUS
  <2> HIDE DEF there
  <2>3. IsFiniteSet(there(s))
    BY <2>1, <2>2, FS_Subset
  <2> QED
    BY <2>3, FS_CardinalityType
<1>5. f \in [Slot -> Nat]
  BY <1>3, <1>4
<1> HIDE DEF f
<1>6. /\ Sound(pool') /\ pool'.filled = f /\ pool'.pinned = pool.pinned
      /\ pool'.pages = pool.pages /\ pool'.occupant = pool.occupant
  BY <1>2, <1>3, <1>5, FilledIs
<1>7. pos' \in [Job -> Nat]
  BY <1>1 DEF Typed
<1>8. Typed'
  BY <1>1, <1>6, <1>7 DEF Typed
<1>9. Seated' = Seated /\ InFlight' = InFlight
  BY <1>1 DEF Seated, InFlight, Elems
<1>10. ASSUME Firm PROVE Firm'
  <2>1. ASSUME NEW k \in Seated' PROVE Seat(k)'
    <3>1. k \in Seated /\ k \in Job /\ slot[k] \in Slot /\ Seat(k) /\ pos[k] \in Nat /\ room[k] \in Nat
      BY <1>9, <1>10, <2>1, SeatedFly, JobIs DEF Firm
    <3>2. f[slot[k]] = pool.filled[slot[k]] + Cardinality(there(slot[k]))
      BY <3>1 DEF f
    <3>3. \A j \in all : slot[j] = slot[k] => j = k
      <4>1. \A j \in all : j \in Seated
        BY SeatedFly
      <4> QED
        BY <1>10, <3>1, <4>1, SeatsApart
    <3>4. CASE k \in all
      <4>1. there(slot[k]) = {k}
        BY <3>3, <3>4
      <4>2. Cardinality({k}) = 1
        BY FS_Singleton
      <4>3. pos'[k] = pos[k] + 1
        BY <1>1, <3>1, <3>4
      <4>4. pos[k] < room[k]
        BY <1>1, <3>4 DEF Roomy, Elems
      <4> HIDE DEF there, all
      <4> QED
        BY <1>1, <1>6, <3>1, <3>2, <4>1, <4>2, <4>3, <4>4 DEF Seat
    <3>5. CASE k \notin all
      <4>1. there(slot[k]) = {}
        BY <3>3, <3>5
      <4>2. Cardinality({}) = 0
        BY FS_EmptySet
      <4>3. pos'[k] = pos[k]
        BY <1>1, <3>1, <3>5
      <4>4. pool.filled[slot[k]] \in Nat
        BY <1>3, <3>1
      <4> HIDE DEF there, all
      <4> QED
        BY <1>1, <1>6, <3>1, <3>2, <4>1, <4>2, <4>3, <4>4 DEF Seat
    <3> QED
      BY <3>4, <3>5
  <2>2. pool'.pinned = {ConvOf[k] : k \in Seated'}
    BY <1>6, <1>9, <1>10 DEF Firm
  <2>3. prefilling' # NoJob => /\ pos'[prefilling'] < Prompt[prefilling']
                               /\ room'[prefilling'] = Prompt[prefilling'] + 1
    <3>1. prefilling # NoJob => prefilling \in Job /\ prefilling \notin all
      BY SeatedFly DEF Settled, Placed
    <3> QED
      BY <1>1, <1>10, <3>1 DEF Firm
  <2> QED
    BY <1>1, <1>9, <1>10, <2>1, <2>2, <2>3, FirmBySeats
<1> QED
  BY <1>8, <1>10

LEMMA PrefillIs ==
  ASSUME Settled, Typed, prefilling # NoJob
  PROVE  /\ prefilling \in Seated /\ prefilling \in InFlight /\ prefilling \in Job
         /\ ConvOf[prefilling] \in Conv /\ slot[prefilling] \in Slot /\ pos[prefilling] \in Nat
         /\ room[prefilling] \in Nat /\ Prompt[prefilling] \in Nat /\ prefilling \notin Elems(rows)
<1>1. prefilling \in Seated /\ prefilling \in InFlight /\ prefilling \notin Elems(rows)
  BY SeatedFly
<1> QED
  BY <1>1, JobIs

(* A chunk of the prompt beside the rows.                                   *)
LEMMA ChunkStands ==
  ASSUME Settled, Settled', Typed, PrefillChunk \/ JoinPrefilled
  PROVE  Typed' /\ (Firm => Firm')
<1> USE DEF lineVars, rowVars, standVars, otherVars
<1>1. /\ pc' \notin {"begin", "lone"} /\ UNCHANGED <<hand, parked>> /\ UNCHANGED <<slot, room>>
  BY DEF PrefillChunk, JoinPrefilled, LastChunk
<1>2. CASE prefilling = NoJob
  <2>1. UNCHANGED <<pos, pool>> /\ UNCHANGED <<rows, prefilling>>
    BY <1>2 DEF PrefillChunk, JoinPrefilled, LastChunk
  <2>2. InFlight' \in SUBSET InFlight
    BY <1>1, <2>1 DEF InFlight, Elems
  <2>3. /\ Sound(pool') /\ pool'.pinned = pool.pinned
        /\ \A d \in pool.pinned, t \in Slot : Keeps(pool, pool', d, t)
    BY <2>1, SamePool
  <2> QED
    BY <1>1, <2>1, <2>2, <2>3, QuietStands
<1>3. CASE prefilling # NoJob
  <2>1. PICK j : j = prefilling
    OBVIOUS
  <2>2. /\ j \in Seated /\ j \in InFlight /\ j \in Job /\ ConvOf[j] \in Conv /\ slot[j] \in Slot
        /\ pos[j] \in Nat /\ room[j] \in Nat /\ Prompt[j] \in Nat /\ j \notin Elems(rows)
    BY <1>3, <2>1, PrefillIs
  <2> DEFINE p == Select(pool, slot[j])
             s == slot[j]
  <2>3. /\ pos' = [pos EXCEPT ![j] = @ + 1] /\ pool' = [p EXCEPT !.filled[s] = @ + 1]
        /\ \/ rows' = rows /\ prefilling' = j /\ pos[j] + 1 < Prompt[j]
           \/ rows' = Append(rows, j) /\ prefilling' = NoJob /\ pos[j] + 1 = Prompt[j]
    BY <1>3, <2>1 DEF PrefillChunk, JoinPrefilled, LastChunk
  <2>4. pool \in Pool /\ Sound(pool)
    BY DEF Typed, Sound
  <2>5. /\ p \in Pool /\ Sound(p) /\ p.pinned = pool.pinned /\ p.filled = pool.filled
        /\ p.pages = pool.pages /\ p.occupant = pool.occupant
        /\ \A d, t : Keeps(pool, p, d, t)
    BY <2>2, <2>4, SelectIs
  <2>6. s \in Slot
    BY <2>2
  <2> HIDE DEF p, s
  <2>7. /\ Sound(pool') /\ pool'.filled[s] = p.filled[s] + 1
        /\ pool'.pinned = p.pinned /\ pool'.pages = p.pages /\ pool'.occupant = p.occupant
        /\ \A d : \A t \in Slot : t # s => Keeps(p, pool', d, t)
    BY <2>3, <2>5, <2>6, StepIs
  <2>8. pos' \in [Job -> Nat] /\ pos'[j] = pos[j] + 1 /\ \A k \in Job : k # j => pos'[k] = pos[k]
    BY <2>2, <2>3 DEF Typed
  <2>9. Typed'
    BY <1>1, <2>7, <2>8 DEF Typed
  <2>10. Seated' = Seated /\ InFlight' \in SUBSET InFlight
    <3>1. CASE rows' = rows /\ prefilling' = j
      BY <1>1, <2>1, <3>1 DEF Seated, InFlight, Elems
    <3>2. CASE rows' = Append(rows, j) /\ prefilling' = NoJob
      <4>1. Elems(rows') = Elems(rows) \cup {j}
        BY <2>2, <3>2, AppendKeeps DEF Settled, Placed, Once
      <4>2. j # NoJob
        BY <1>3, <2>1
      <4> QED
        BY <1>1, <2>1, <3>2, <4>1, <4>2 DEF Seated, InFlight, Elems
    <3> QED
      BY <2>3, <3>1, <3>2
  <2>11. ASSUME Firm PROVE Firm'
    <3>1. ASSUME NEW k \in Seated' PROVE Seat(k)'
      <4>1. k \in Seated /\ k \in Job /\ slot[k] \in Slot /\ Seat(k)
        BY <2>10, <2>11, <3>1, SeatedFly, JobIs DEF Firm
      <4>2. CASE k = j
        <5>1. room[j] = Prompt[j] + 1 /\ pos[j] < Prompt[j]
          BY <1>3, <2>1, <2>11 DEF Firm
        <5>2. pos[j] + 1 <= room[j]
          BY <2>2, <5>1
        <5> QED
          BY <1>1, <2>5, <2>7, <2>8, <4>1, <4>2, <5>2 DEF Seat, s
      <4>3. CASE k # j
        <5>1. slot[k] # s
          BY <2>2, <2>11, <4>1, <4>3, SeatsApart DEF s
        <5>2. Keeps(pool, p, ConvOf[k], slot[k]) /\ Keeps(p, pool', ConvOf[k], slot[k])
          BY <2>5, <2>7, <4>1, <5>1
        <5>3. Keeps(pool, pool', ConvOf[k], slot[k])
          BY <5>2, KeepsOn
        <5>4. slot'[k] = slot[k] /\ pos'[k] = pos[k] /\ room'[k] = room[k]
          BY <1>1, <2>8, <4>1, <4>3
        <5> QED
          BY <4>1, <5>3, <5>4, SeatKept
      <4> QED
        BY <4>2, <4>3
    <3>2. pool'.pinned = {ConvOf[k] : k \in Seated'}
      BY <2>5, <2>7, <2>10, <2>11 DEF Firm
    <3>3. prefilling' # NoJob => /\ pos'[prefilling'] < Prompt[prefilling']
                                 /\ room'[prefilling'] = Prompt[prefilling'] + 1
      BY <1>1, <1>3, <2>1, <2>3, <2>8, <2>11 DEF Firm
    <3> QED
      BY <1>1, <2>10, <2>11, <3>1, <3>2, <3>3, FirmBySeats
  <2> QED
    BY <2>9, <2>11
<1> QED
  BY <1>2, <1>3

LEMMA PrefilledGoesStands ==
  ASSUME Settled, Settled', Typed, PrefilledEnds \/ ChunkFails
  PROVE  Typed' /\ (Firm => Firm')
<1> USE DEF lineVars, rowVars, standVars, otherVars
<1>1. /\ prefilling # NoJob /\ prefilling' = NoJob /\ pc' \notin {"begin", "lone"}
      /\ UNCHANGED <<hand, parked, rows>> /\ UNCHANGED <<slot, room>>
  BY DEF PrefilledEnds, ChunkFails, LastChunk, Failed
<1>2. PICK j : j = prefilling
  OBVIOUS
<1>3. /\ j \in Seated /\ j \in InFlight /\ j \in Job /\ ConvOf[j] \in Conv /\ slot[j] \in Slot
      /\ pos[j] \in Nat /\ Prompt[j] \in Nat /\ j \notin Elems(rows)
  BY <1>1, <1>2, PrefillIs
<1> DEFINE c == ConvOf[j]
           s == slot[j]
           p == Select(pool, s)
<1>4. pool \in Pool /\ Sound(pool)
  BY DEF Typed, Sound
<1>5. /\ p \in Pool /\ Sound(p) /\ p.pinned = pool.pinned /\ p.cur = s
      /\ p.occupant = pool.occupant /\ \A d, t : Keeps(pool, p, d, t)
  BY <1>3, <1>4, SelectIs
<1>6. s \in Slot /\ c \in Conv
  BY <1>3
<1>7. Seated' = Seated \ {j} /\ InFlight' \in SUBSET InFlight
  BY <1>1, <1>2, <1>3 DEF Seated, InFlight, Elems
<1>8. pos' \in [Job -> Nat] /\ \A k \in Job : k # j => pos'[k] = pos[k]
  BY <1>2, <1>3 DEF PrefilledEnds, ChunkFails, LastChunk, Failed, Typed
<1>9. ASSUME Sound(pool'), pool'.pinned = p.pinned \ {c},
             \A d \in Conv, t \in Slot : d # c /\ t # s /\ d # p.occupant[s] => Keeps(p, pool', d, t)
      PROVE  Typed' /\ (Firm => Firm')
  <2>1. Typed'
    BY <1>1, <1>8, <1>9 DEF Typed
  <2>2. \A d \in Conv, t \in Slot : /\ d # ConvOf[j] /\ t # slot[j] /\ d # pool.occupant[slot[j]]
                                    => Keeps(pool, pool', d, t)
    BY <1>5, <1>9, KeepsOn
  <2>3. pool'.pinned = pool.pinned \ {ConvOf[j]}
    BY <1>5, <1>9
  <2>4. \A k \in Seated' : pos'[k] = pos[k] /\ room'[k] = room[k]
    <3>1. \A k \in Seated' : k \in Job /\ k # j
      BY <1>7, SeatedFly, JobIs
    <3> QED
      BY <1>1, <1>8, <3>1
  <2> HIDE DEF p
  <2> QED
    BY <1>1, <1>3, <1>7, <2>1, <2>2, <2>3, <2>4, LeavesStand
<1> HIDE DEF p
<1>10. CASE ChunkFails
  <2>1. pool' = Abandon(p, c)
    BY <1>2, <1>10 DEF ChunkFails, Failed, p
  <2> HIDE DEF c, s
  <2>2. /\ Sound(pool') /\ pool'.pinned = p.pinned \ {c}
        /\ \A d \in Conv, t \in Slot : d # c /\ t # p.cur => Keeps(p, pool', d, t)
    BY <1>5, <1>6, <2>1, AbandonIs DEF Sound
  <2> QED
    BY <1>5, <1>9, <2>2
<1>11. CASE PrefilledEnds
  <2> DEFINE r == [p EXCEPT !.filled[s] = @ + 1]
             n == Prompt[j]
             u == Unpin(End(r, c, n), c)
  <2>1. pool' \in {u, LeaveSlot(u)}
    BY <1>2, <1>11 DEF PrefilledEnds, p
  <2> HIDE DEF s
  <2>2. /\ r \in Pool /\ Sound(r) /\ r.pinned = p.pinned /\ r.occupant = p.occupant
        /\ r.cur = p.cur /\ \A d : \A t \in Slot : t # s => Keeps(p, r, d, t)
    BY <1>5, <1>6, StepIs
  <2>3. n \in Nat
    BY <1>3
  <2> HIDE DEF r, c, n
  <2>4. /\ Sound(pool') /\ pool'.pinned = r.pinned \ {c}
        /\ \A d \in Conv, t \in Slot : d # c /\ d # r.occupant[r.cur] => Keeps(r, pool', d, t)
    <3>1. r \in Pool /\ Sound(r) /\ c \in Conv /\ n \in Nat /\ pool' \in {u, LeaveSlot(u)}
      BY <1>6, <2>1, <2>2, <2>3
    <3> QED
      BY ONLY <3>1, EndingIs
  <2>5. \A d \in Conv, t \in Slot : d # c /\ t # s /\ d # p.occupant[s] => Keeps(p, pool', d, t)
    BY <1>5, <2>2, <2>4, KeepsOn
  <2> QED
    BY <1>9, <2>2, <2>4, <2>5
<1> QED
  BY <1>10, <1>11
-----------------------------------------------------------------------------
(* The invariant, and the theorems.                                         *)

LEMMA AroundStays ==
  ASSUME Settled, Typed, Around, [Next]_vars
  PROVE  Around'
<1> USE DEF lineVars, rowVars, standVars, otherVars
<1>1. wanted' \in SUBSET Outsider
  <2>1. \/ wanted' = wanted
        \/ \E o \in Outsider : wanted' = wanted \cup {o}
        \/ \E o : wanted' = wanted \ {o}
    BY DEF Next, Loop, vars, Take, NoneResumes, Resume, ResumeFails, NoneAdmitted, Admit, Charged,
           WaitForSlot, WaitForPages, Wait, Dismissed, BeginBeside, BeginAlone, NoRoomAlone,
           GoneAtHeaders, BeginFails, LoneGrow, LoneFails, LoneStep, LoneEnd, HandOver, RowGrows,
           RowParks, RowStarves, ParkFails, RowFails, Decode, StepFails, FailAll, EndRow, Dealt,
           PrefillChunk, JoinPrefilled, PrefilledEnds, LastChunk, ChunkFails, Yield, Erase,
           TrimIdle, Served, Submit, Want
  <2> QED
    BY <2>1 DEF Around
<1>2. outside' \in 0..MaxOutside
  <2>1. \/ outside' = outside
        \/ outside < MaxOutside /\ outside' = outside + 1
    BY DEF Next, Loop, vars, Take, NoneResumes, Resume, ResumeFails, NoneAdmitted, Admit, Charged,
           WaitForSlot, WaitForPages, Wait, Dismissed, BeginBeside, BeginAlone, NoRoomAlone,
           GoneAtHeaders, BeginFails, LoneGrow, LoneFails, LoneStep, LoneEnd, HandOver, RowGrows,
           RowParks, RowStarves, ParkFails, RowFails, Decode, StepFails, FailAll, EndRow, Dealt,
           PrefillChunk, JoinPrefilled, PrefilledEnds, LastChunk, ChunkFails, Yield, Erase,
           TrimIdle, Served, Submit, Want
  <2> QED
    BY <2>1, FallibleAssumption DEF Around
<1>3. cold' = cold \/ cold' = TRUE
  BY DEF Next, Loop, vars, Take, NoneResumes, Resume, ResumeFails, NoneAdmitted, Admit, Charged,
         WaitForSlot, WaitForPages, Wait, Dismissed, BeginBeside, BeginAlone, NoRoomAlone,
         GoneAtHeaders, BeginFails, LoneGrow, LoneFails, LoneStep, LoneEnd, HandOver, RowGrows,
         RowParks, RowStarves, ParkFails, RowFails, Decode, StepFails, FailAll, EndRow, Dealt,
         PrefillChunk, JoinPrefilled, PrefilledEnds, LastChunk, ChunkFails, Yield, Erase,
         TrimIdle, Served, Submit, Want
<1>4. cold' \in BOOLEAN
  BY <1>3 DEF Around
<1>5. resumable' \in SUBSET Conv
  <2>1. CASE RowParks
    <3>1. PICK i \in DOMAIN rows : resumable' = resumable \cup {ConvOf[rows[i]]}
      BY <2>1 DEF RowParks
    <3>2. rows[i] \in Elems(rows)
      BY DEF Elems
    <3>3. ConvOf[rows[i]] \in Conv
      BY <3>2, RowIs
    <3> QED
      BY <3>1, <3>3 DEF Around
  <2>2. CASE ~RowParks
    <3>1. resumable' = resumable \/ \E c : resumable' = resumable \ {c}
      BY <2>2 DEF Next, Loop, vars, Take, NoneResumes, Resume, ResumeFails, NoneAdmitted, Admit,
           Charged, WaitForSlot, WaitForPages, Wait, Dismissed, BeginBeside, BeginAlone,
           NoRoomAlone, GoneAtHeaders, BeginFails, Stands, LoneGrow, LoneFails, LoneStep, LoneEnd,
           HandOver, RowGrows, RowStarves, ParkFails, RowFails, Failed, Decode, StepFails,
           FailAll, EndRow, Dealt, PrefillChunk, JoinPrefilled, PrefilledEnds, LastChunk,
           ChunkFails, Yield, Erase, TrimIdle, Served, Submit, Want
    <3> QED
      BY <3>1 DEF Around
  <2> QED
    BY <2>1, <2>2
<1> QED
  BY <1>1, <1>2, <1>4, <1>5 DEF Around

LEMMA ColdStays ==
  ASSUME Around, [Next]_vars
  PROVE  cold => cold'
<1> USE DEF lineVars, rowVars, standVars, otherVars
<1>1. cold' = cold \/ cold' = TRUE
  BY DEF Next, Loop, vars, Take, NoneResumes, Resume, ResumeFails, NoneAdmitted, Admit, Charged,
         WaitForSlot, WaitForPages, Wait, Dismissed, BeginBeside, BeginAlone, NoRoomAlone,
         GoneAtHeaders, BeginFails, LoneGrow, LoneFails, LoneStep, LoneEnd, HandOver, RowGrows,
         RowParks, RowStarves, ParkFails, RowFails, Decode, StepFails, FailAll, EndRow, Dealt,
         PrefillChunk, JoinPrefilled, PrefilledEnds, LastChunk, ChunkFails, Yield, Erase,
         TrimIdle, Served, Submit, Want
<1> QED
  BY <1>1

LEMMA StepsStand ==
  ASSUME Settled, Settled', Typed, [Next]_vars
  PROVE  Typed' /\ ((Firm => Firm') \/ cold')
<1>1. CASE \/ \E j \in Job : Submit(j)
           \/ \E o \in Outsider : Want(o)
           \/ UNCHANGED vars
  BY <1>1, CallsStand
<1>2. CASE Take \/ NoneAdmitted \/ StepFails \/ Dealt \/ Yield \/ (FailAll /\ rows = <<>>)
  BY <1>2, PhasesStand
<1>3. CASE Erase \/ TrimIdle \/ NoneResumes \/ WaitForSlot \/ WaitForPages
  BY <1>3, DropsStand
<1>4. CASE Admit \/ Charged
  BY <1>4, AdmitStands, ChargedStands
<1>5. CASE Resume \/ ResumeFails
  BY <1>5, ResumeStands, ResumeFailsStands
<1>6. CASE BeginBeside \/ BeginAlone \/ BeginFails
  BY <1>6, BeginBesideStands, BeginAloneStands, BeginFailsStands
<1>7. CASE GoneAtHeaders \/ NoRoomAlone \/ LoneFails \/ LoneEnd
  BY <1>7, DismissedStands
<1>8. CASE LoneGrow \/ LoneStep \/ HandOver
  BY <1>8, LoneStands, HandOverStands
<1>9. CASE RowGrows \/ RowParks
  BY <1>9, RowGrowsStands, RowParksStands
<1>10. CASE RowStarves \/ ParkFails \/ (FailAll /\ rows # <<>>)
  BY <1>10, RowFailsStands
<1>11. CASE Decode \/ EndRow
  BY <1>11, DecodeStands, EndRowStands
<1>12. CASE PrefillChunk \/ JoinPrefilled \/ PrefilledEnds \/ ChunkFails
  BY <1>12, ChunkStands, PrefilledGoesStands
<1>13. CASE Loop
  <2>1. FailAll => Typed' /\ ((Firm => Firm') \/ cold')
    BY <1>2, <1>10
  <2> QED
    BY <1>13, <2>1, <1>2, <1>3, <1>4, <1>5, <1>6, <1>7, <1>8, <1>9, <1>10, <1>11, <1>12 DEF Loop
<1>14. \/ Loop \/ Erase \/ TrimIdle
       \/ (\E j \in Job : Submit(j)) \/ (\E o \in Outsider : Want(o)) \/ UNCHANGED vars
  BY DEF Next
<1> QED
  BY <1>1, <1>3, <1>13, <1>14

Running == Settled /\ Typed /\ Around /\ (cold \/ Firm)

LEMMA RunningInitially == Init => Running
<1> SUFFICES ASSUME Init PROVE Running
  OBVIOUS
<1>1. Settled
  BY SettledInitially
<1>2. EmptyPool \in Pool /\ EmptyPool.charged = {} /\ \A c \in Conv : EmptyPool.pages[c] = 0
  <2>1. 0 \in Slot /\ 0 \in 0..Capacity /\ 0 \in Nat
    BY CapacityAssumption, SlotsAssumption DEF Slot
  <2>2. /\ EmptyPool.pages = [c \in Conv |-> 0] /\ EmptyPool.occupant = [s \in Slot |-> NoConv]
        /\ EmptyPool.charged = {}
    BY DEF EmptyPool
  <2>3. [c \in Conv |-> 0] \in [Conv -> 0..Capacity]
    BY <2>1
  <2>4. [s \in Slot |-> NoConv] \in [Slot -> Conv \cup {NoConv}] /\ [s \in Slot |-> 0] \in [Slot -> Nat]
    BY <2>1
  <2>5. EmptyPool \in Pool
    BY <2>1, <2>3, <2>4 DEF EmptyPool, Pool
  <2> QED
    BY <2>2, <2>5
<1>3. Sound(EmptyPool)
  <2>1. EmptyPool.pages \in Pages /\ EmptyPool.charged \in SUBSET Slot
    BY <1>2, PoolIs
  <2>2. {} \in SUBSET Conv /\ \A c \in Conv : EmptyPool.pages[c] > 0 => FALSE
    BY <1>2
  <2>3. PagesOf(EmptyPool, Conv) = PagesOf(EmptyPool, {})
    BY <2>1, <2>2, SumSame
  <2>4. PagesOf(EmptyPool, {}) = 0
    <3>1. Stack(EmptyPool.pages, {}) = {}
      BY DEF Stack
    <3> QED
      BY <2>1, <2>2, <3>1, PagesAreStacked, FS_EmptySet
  <2>5. Withheld(EmptyPool) = 0
    BY <1>2, FS_EmptySet, CapacityAssumption DEF Withheld
  <2> QED
    BY <1>2, <2>3, <2>4, <2>5, CapacityAssumption DEF Sound, Unused
<1>4. Typed
  <2>1. 0 \in Slot
    BY SlotsAssumption DEF Slot
  <2> QED
    BY <1>3, <2>1 DEF Init, Typed
<1>5. Around
  <2>1. resumable = {} /\ wanted = {} /\ outside = 0 /\ cold = FALSE
    BY DEF Init
  <2>2. 0 \in 0..MaxOutside
    BY FallibleAssumption
  <2> QED
    BY <2>1, <2>2 DEF Around
<1>6. Seated = {} /\ InFlight = {}
  <2>1. Elems(<<>>) = {}
    BY DEF Elems
  <2>2. /\ Elems(channel) = {} /\ Elems(line) = {} /\ Elems(blocked) = {} /\ Elems(rows) = {}
        /\ Elems(parked) = {}
    BY <2>1 DEF Init
  <2>3. prefilling = NoJob /\ hand = NoJob /\ pc = "take"
    BY DEF Init
  <2> QED
    BY <2>2, <2>3 DEF Seated, InFlight
<1>7. Firm
  BY <1>6 DEF Init, Firm, EmptyPool
<1> QED
  BY <1>1, <1>4, <1>5, <1>7 DEF Running

LEMMA RunningStays == Running /\ [Next]_vars => Running'
<1> SUFFICES ASSUME Running, [Next]_vars PROVE Running'
  OBVIOUS
<1>1. Settled /\ Typed /\ Around /\ (cold \/ Firm)
  BY DEF Running
<1>2. Settled'
  BY <1>1, SettledStays
<1>3. Typed' /\ ((Firm => Firm') \/ cold')
  BY <1>1, <1>2, StepsStand
<1>4. Around' /\ (cold => cold')
  BY <1>1, AroundStays, ColdStays
<1> QED
  BY <1>1, <1>2, <1>3, <1>4 DEF Running

LEMMA RunningHolds == Spec => []Running
<1>1. Init => Running
  BY RunningInitially
<1>2. Running /\ [Next]_vars => Running'
  BY RunningStays
<1> QED
  BY <1>1, <1>2, PTL DEF Spec

LEMMA RunningTyped == Running => TypeOK
<1> SUFFICES ASSUME Running PROVE TypeOK
  OBVIOUS
<1>1. Settled /\ Typed /\ Around
  BY DEF Running
<1>2. \A i \in DOMAIN Places : Elems(Places[i]) \subseteq Job
  <2>1. DOMAIN Places = 1..5 /\ Places[1] = channel /\ Places[2] = line /\ Places[3] = blocked
        /\ Places[4] = rows /\ Places[5] = parked
    BY DEF Places
  <2>2. /\ Elems(channel) \in SUBSET Job /\ Elems(line) \in SUBSET Job
        /\ Elems(blocked) \in SUBSET Job /\ Elems(rows) \in SUBSET Job
        /\ Elems(parked) \in SUBSET Job
    BY <1>1, ElemsIn DEF Settled, Placed
  <2> QED
    BY <2>1, <2>2
<1>3. {prefilling, hand} \subseteq Job \cup {NoJob} /\ ending \subseteq Elems(rows)
      /\ stalled \in {"no", "held", "moved"}
  BY <1>1 DEF Settled, Placed, Phased
<1>4. inflight \in 0..Cardinality(Job)
  BY <1>1, InFlightFinite DEF Settled, Counted
<1>5. slot \in [Job -> Slot] /\ pos \in [Job -> Nat] /\ room \in [Job -> Nat]
      /\ pool \in Pool /\ Unused(pool) >= 0
  BY <1>1 DEF Typed, Sound
<1>6. resumable \subseteq Conv /\ wanted \subseteq Outsider /\ outside \in 0..MaxOutside
      /\ answered \subseteq Job /\ starved \subseteq answered
  BY <1>1 DEF Around, Settled, Placed, Phased
<1> QED
  BY <1>2, <1>3, <1>4, <1>5, <1>6 DEF TypeOK

LEMMA RunningSeated == Running => SeatedOnce
<1> SUFFICES ASSUME Running PROVE SeatedOnce
  OBVIOUS
<1>1. Settled /\ Typed /\ (cold \/ Firm)
  BY DEF Running
<1>2. OnePlace
  BY <1>1, PlacesCount
<1>3. ASSUME ~cold, NEW j \in Seated
      PROVE  LET s == slot[j]
                 c == ConvOf[j]
             IN  /\ pool.occupant[s] = c /\ c \in pool.pinned
                 /\ \A t \in Slot \ {s} : pool.occupant[t] # c
                 /\ \A k \in Seated \ {j} : slot[k] # s
                 /\ pool.filled[s] = pos[j] /\ room[j] = pool.pages[c]
                 /\ pc # "step" => pos[j] <= room[j]
  <2>1. Firm /\ Seat(j) /\ ConvOf[j] \in pool.pinned
    BY <1>1, <1>3 DEF Firm
  <2>2. \A k \in Seated \ {j} : slot[k] # slot[j]
    BY <1>1, <2>1, SeatsApart
  <2> QED
    BY <2>1, <2>2 DEF Seat
<1>4. RowsStand
  BY <1>3 DEF RowsStand
<1> QED
  BY <1>2, <1>4 DEF SeatedOnce

(* Types: the numbers of the engine loop stay numbers of the pool it sees,  *)
(* whose pages and charges never exceed the tier, whatever an allocation    *)
(* drops, a slot is charged or a conversation grows by.                     *)
THEOREM TypeCorrect == Spec => []TypeOK
<1>1. Running => TypeOK
  BY RunningTyped
<1> QED
  BY <1>1, RunningHolds, PTL

(* Every request is in one place from its submission to its answer, and who *)
(* runs beside others keeps a slot of its own with its conversation in it,  *)
(* pinned, its state at its position and pages for its room.                *)
THEOREM EveryoneSeatedOnce == Spec => []SeatedOnce
<1>1. Running => SeatedOnce
  BY RunningSeated
<1> QED
  BY <1>1, RunningHolds, PTL
-----------------------------------------------------------------------------
(* When there is no room to be made.                                        *)

LEMMA LeastOne ==
  ASSUME NEW S \in SUBSET Nat, S # {}
  PROVE  \E n \in S : \A m \in S : n <= m
<1> DEFINE T == {n \in Nat : \A m \in S : n < m}
<1>1. SUFFICES ASSUME ~ \E n \in S : \A m \in S : n <= m PROVE FALSE
  OBVIOUS
<1>2. 0 \in T
  <2>1. 0 \notin S
    BY <1>1
  <2> QED
    BY <2>1
<1>3. ASSUME NEW n \in Nat, n \in T PROVE n + 1 \in T
  <2>1. n + 1 \notin S
    <3>1. \A m \in S : n + 1 <= m
      BY <1>3
    <3> QED
      BY <1>1, <3>1
  <2>2. \A m \in S : n + 1 < m
    BY <1>3, <2>1
  <2> QED
    BY <2>2
<1>4. Nat \subseteq T
  <2> HIDE DEF T
  <2> QED
    BY <1>2, <1>3, SetInduction
<1>5. PICK m \in S : TRUE
  OBVIOUS
<1> QED
  BY <1>4, <1>5

(* Dropping the idle ones one after the other finds the room if dropping    *)
(* all of them does.                                                        *)
LEMMA RoomMade ==
  ASSUME NEW p \in Pool, NEW c, NEW n \in Int, Unused(Forget(p, Idle(p, c))) >= n
  PROVE  MakeRoom(p, c, n) # {}
<1>1. Idle(p, c) \in SUBSET Conv
  BY IdleIs
<1>2. CASE Suffices(p, {}, n)
  <2>1. Forget(p, {}) \in MakeRoom(p, c, n)
    BY <1>2 DEF MakeRoom
  <2> QED
    BY <2>1
<1>3. CASE ~Suffices(p, {}, n)
  <2> DEFINE Enough == {E \in SUBSET Idle(p, c) : Suffices(p, E, n)}
             Sizes == {Cardinality(E) : E \in Enough}
  <2>1. \A E \in Enough : IsFiniteSet(E) /\ Cardinality(E) \in Nat
    <3> SUFFICES ASSUME NEW E \in Enough PROVE IsFiniteSet(E) /\ Cardinality(E) \in Nat
      OBVIOUS
    <3>1. IsFiniteSet(E)
      BY <1>1, ConvAssumption, FS_Subset
    <3> QED
      BY <3>1, FS_CardinalityType
  <2>2. Idle(p, c) \in Enough
    BY DEF Suffices
  <2>3. Sizes \in SUBSET Nat /\ Sizes # {}
    BY <2>1, <2>2
  <2>4. PICK E \in Enough : \A F \in Enough : Cardinality(E) <= Cardinality(F)
    <3>1. PICK k \in Sizes : \A m \in Sizes : k <= m
      <4> HIDE DEF Sizes
      <4> QED
        BY <2>3, LeastOne
    <3> QED
      BY <3>1
  <2>5. PICK d \in E : TRUE
    BY <1>3, <2>4
  <2>6. Cardinality(E \ {d}) = Cardinality(E) - 1
    BY <2>1, <2>5, FS_RemoveElement
  <2>7. E \ {d} \notin Enough
    BY <2>1, <2>4, <2>6
  <2>8. ~Suffices(p, E \ {d}, n)
    BY <2>4, <2>7
  <2>9. Forget(p, E) \in MakeRoom(p, c, n)
    BY <1>3, <2>4, <2>5, <2>8 DEF MakeRoom
  <2> QED
    BY <2>9
<1> QED
  BY <1>2, <1>3

LEMMA FewPages ==
  ASSUME NEW p \in Pool, NEW c \in Conv
  PROVE  PagesOf(p, {}) = 0 /\ PagesOf(p, {c}) = p.pages[c]
<1>1. p.pages \in Pages /\ {} \in SUBSET Conv /\ {c} \in SUBSET Conv /\ p.pages[c] \in Nat
  BY CapacityAssumption DEF Pool, Pages
<1>2. PagesOf(p, {}) = 0
  <2>1. Stack(p.pages, {}) = {}
    BY DEF Stack
  <2> QED
    BY <1>1, <2>1, PagesAreStacked, FS_EmptySet
<1>3. PagesOf(p, {c}) = p.pages[c] + PagesOf(p, {c} \ {c})
  BY <1>1, SumIs
<1>4. {c} \ {c} = {}
  OBVIOUS
<1> QED
  BY <1>1, <1>2, <1>3, <1>4

LEMMA HeldIs ==
  ASSUME NEW p \in Pool
  PROVE  Held(p) \in SUBSET Conv
<1>1. p.pinned \in SUBSET Conv /\ p.occupant \in [Slot -> Conv \cup {NoConv}]
  BY PoolIs
<1> QED
  BY <1>1 DEF Held

(* What is left once the idle ones have gone.                               *)
LEMMA DroppedIs ==
  ASSUME NEW p \in Pool, NEW c \in Conv
  PROVE  Unused(Forget(p, Idle(p, c))) = Capacity - PagesOf(p, Held(p) \cup {c}) - Withheld(p)
<1> DEFINE q == Forget(p, Idle(p, c))
<1>1. Idle(p, c) \in SUBSET Conv /\ Held(p) \cup {c} \in SUBSET Conv
  BY IdleIs, HeldIs
<1>2. /\ q \in Pool /\ q.charged = p.charged
      /\ \A d \in Conv : q.pages[d] = IF d \in Idle(p, c) THEN 0 ELSE p.pages[d]
  BY <1>1, ForgetIs
<1> HIDE DEF q
<1>3. q.pages \in Pages /\ p.pages \in Pages
  BY <1>2, PoolIs
<1>4. \A d \in Conv : q.pages[d] > 0 => d \in Held(p) \cup {c} /\ q.pages[d] = p.pages[d]
  BY <1>2 DEF Idle
<1>5. \A d \in Held(p) \cup {c} : p.pages[d] > 0 => d \in Conv /\ q.pages[d] = p.pages[d]
  BY <1>1, <1>2 DEF Idle
<1>6. Conv \in SUBSET Conv
  OBVIOUS
<1>7. PagesOf(q, Conv) = PagesOf(p, Held(p) \cup {c})
  BY ONLY <1>1, <1>3, <1>4, <1>5, <1>6, SumSame
<1>8. Withheld(q) = Withheld(p)
  BY <1>2 DEF Withheld
<1> QED
  BY <1>7, <1>8 DEF Unused, q

(* One that is refused a page, beside nobody that is held, has no room in   *)
(* the whole tier.                                                          *)
LEMMA AloneNeeds ==
  ASSUME NEW p \in Pool, NEW c \in Conv, Held(p) \in SUBSET {c}, NEW n \in Int,
         MakeRoom(p, c, n - p.pages[c]) = {}
  PROVE  n + Withheld(p) > Capacity
<1>1. p.pages[c] \in Nat /\ Withheld(p) \in Nat /\ Capacity \in Nat
  BY UnusedIs, CapacityAssumption
<1>2. Held(p) \cup {c} = {c}
  OBVIOUS
<1>3. Unused(Forget(p, Idle(p, c))) = Capacity - p.pages[c] - Withheld(p)
  BY <1>2, DroppedIs, FewPages
<1>4. ~(Unused(Forget(p, Idle(p, c))) >= n - p.pages[c])
  BY <1>1, RoomMade
<1> QED
  BY <1>1, <1>3, <1>4

LEMMA EnterRefused ==
  ASSUME NEW p \in Pool, NEW c \in Conv, NEW n \in Nat, NEW f, Enter(p, c, n, f) = {}
  PROVE  LET mine == Forget(p, {c})
         IN  /\ mine \in Pool /\ Capacity - PagesOf(mine, Held(mine) \cup {c}) - Withheld(p) < n
             /\ PagesOf(mine, Held(mine) \cup {c}) \in Nat
<1> DEFINE mine == Forget(p, {c})
           there == p.occupant[p.cur] = c \/ p.occupant[p.cur] = NoConv
           roomy == IF there THEN MakeRoom(mine, c, n)
                    ELSE {q \in {Forget(mine, D) : D \in SUBSET Idle(mine, c)} : Unused(q) >= n}
<1>1. mine \in Pool /\ mine.charged = p.charged
  BY ForgetIs
<1>2. Idle(mine, c) \in SUBSET Conv /\ Held(mine) \cup {c} \in SUBSET Conv
  BY <1>1, IdleIs, HeldIs
<1>3. roomy = {}
  <2>1. Enter(p, c, n, f) = {[q EXCEPT !.pages[c] = n, !.occupant[p.cur] = c, !.filled[p.cur] = f]
                               : q \in roomy}
    BY DEF Enter
  <2> HIDE DEF roomy
  <2> QED
    BY <2>1
<1>4. Forget(mine, Idle(mine, c)) \in Pool
  <2> HIDE DEF mine
  <2> QED
    BY <1>1, <1>2, ForgetIs
<1>5. Unused(Forget(mine, Idle(mine, c))) \in Int
  BY <1>4, UnusedIs
<1>6. ~(Unused(Forget(mine, Idle(mine, c))) >= n)
  <2>1. CASE there
    <3>1. MakeRoom(mine, c, n) = {}
      BY <1>3, <2>1
    <3> QED
      BY <1>1, <3>1, RoomMade
  <2>2. CASE ~there
    BY <1>3, <2>2
  <2> QED
    BY <2>1, <2>2
<1>7. Unused(Forget(mine, Idle(mine, c))) = Capacity - PagesOf(mine, Held(mine) \cup {c}) - Withheld(mine)
  BY <1>1, DroppedIs
<1>8. Withheld(mine) = Withheld(p)
  BY <1>1 DEF Withheld
<1>9. PagesOf(mine, Held(mine) \cup {c}) \in Nat
  BY <1>1, <1>2, PoolIs, SumIs
<1> QED
  BY <1>1, <1>5, <1>6, <1>7, <1>8, <1>9

-----------------------------------------------------------------------------
(* Charges.  The selected slot and every slot somebody sits in is charged,  *)
(* but for the first, and who the pool takes for parked is parked.          *)

Paying(p, s) == s = 0 \/ SlotPages = 0 \/ s \in p.charged
Paid(p) == \A s \in Slot : s = p.cur \/ p.occupant[s] # NoConv => Paying(p, s)
Lighter(p, q) == q.parked \in SUBSET p.parked /\ (Paid(p) => Paid(q))

LEMMA LighterOn ==
  ASSUME NEW p, NEW q, NEW r, Lighter(p, q), Lighter(q, r)
  PROVE  Lighter(p, r)
  BY DEF Lighter

LEMMA FewerSit ==
  ASSUME NEW p \in Pool, NEW q \in Pool, p.charged \in SUBSET q.charged, q.cur = p.cur,
         \A s \in Slot : q.occupant[s] \in {p.occupant[s], NoConv},
         q.parked \in SUBSET p.parked
  PROVE  Lighter(p, q)
  BY DEF Lighter, Paid, Paying

LEMMA ForgetPays ==
  ASSUME NEW p \in Pool, NEW D \in SUBSET Conv
  PROVE  Lighter(p, Forget(p, D)) /\ Forget(p, D) \in Pool
         /\ Forget(p, D).parked = p.parked \ D /\ Forget(p, D).cur = p.cur
         /\ Forget(p, D).charged = p.charged
<1> DEFINE q == Forget(p, D)
<1>1. /\ q \in Pool /\ q.cur = p.cur /\ q.charged = p.charged /\ q.parked = p.parked \ D
      /\ \A s \in Slot : q.occupant[s] = IF p.occupant[s] \in D THEN NoConv ELSE p.occupant[s]
  BY ForgetIs
<1> HIDE DEF q
<1>2. Lighter(p, q)
  BY <1>1, FewerSit
<1> QED
  BY <1>1, <1>2 DEF q

LEMMA SelectPays ==
  ASSUME NEW p \in Pool, NEW s \in Slot, Paid(p) => Paying(p, s)
  PROVE  Lighter(p, Select(p, s)) /\ Select(p, s) \in Pool /\ Select(p, s).cur = s
         /\ Select(p, s).charged = p.charged /\ Select(p, s).occupant = p.occupant
<1> DEFINE q == Select(p, s)
<1>1. q \in Pool /\ q.cur = s /\ q.occupant = p.occupant /\ q.parked = p.parked /\ q.charged = p.charged
  BY SelectIs
<1> HIDE DEF q
<1>2. Lighter(p, q)
  BY <1>1 DEF Lighter, Paid, Paying
<1> QED
  BY <1>1, <1>2 DEF q

LEMMA SeatPays ==
  ASSUME NEW p \in Pool, NEW s \in Slot, p.occupant[s] # NoConv
  PROVE  Lighter(p, Select(p, s)) /\ Select(p, s) \in Pool /\ Select(p, s).cur = s
         /\ Select(p, s).charged = p.charged /\ Select(p, s).occupant = p.occupant
  BY SelectPays DEF Paid

(* What leaves occupants and charges as they are.                           *)
LEMMA SeatsSame ==
  ASSUME NEW p \in Pool, NEW q \in Pool, q.charged = p.charged, q.cur = p.cur,
         q.occupant = p.occupant, q.parked \in SUBSET p.parked
  PROVE  Lighter(p, q)
  BY FewerSit

LEMMA PinPays ==
  ASSUME NEW p \in Pool, NEW c \in Conv
  PROVE  Lighter(p, Pin(p, c)) /\ Pin(p, c).parked = p.parked
<1>1. /\ Pin(p, c) \in Pool /\ Pin(p, c).charged = p.charged /\ Pin(p, c).cur = p.cur
      /\ Pin(p, c).occupant = p.occupant
  BY PinIs
<1>2. Pin(p, c).parked = p.parked
  BY DEF Pin, Pool
<1> QED
  BY <1>1, <1>2, SeatsSame

LEMMA UnpinPays ==
  ASSUME NEW p \in Pool, NEW c
  PROVE  Lighter(p, Unpin(p, c)) /\ Unpin(p, c) \in Pool
<1>1. /\ Unpin(p, c) \in Pool /\ Unpin(p, c).charged = p.charged /\ Unpin(p, c).cur = p.cur
      /\ Unpin(p, c).occupant = p.occupant
  BY UnpinIs
<1>2. Unpin(p, c).parked = p.parked \ {c}
  BY DEF Unpin, Pool
<1> QED
  BY <1>1, <1>2, SeatsSame

LEMMA FilledPays ==
  ASSUME NEW p \in Pool, NEW f \in [Slot -> Nat]
  PROVE  Lighter(p, [p EXCEPT !.filled = f]) /\ [p EXCEPT !.filled = f] \in Pool
<1> DEFINE q == [p EXCEPT !.filled = f]
<1>1. /\ q \in Pool /\ q.charged = p.charged /\ q.cur = p.cur /\ q.occupant = p.occupant
  BY FilledIs
<1>2. q.parked = p.parked
  BY DEF Pool
<1> HIDE DEF q
<1>3. Lighter(p, q)
  BY <1>1, <1>2, SeatsSame
<1> QED
  BY <1>1, <1>3 DEF q

LEMMA StepPays ==
  ASSUME NEW p \in Pool, NEW s \in Slot
  PROVE  LET q == [p EXCEPT !.filled[s] = @ + 1] IN Lighter(p, q) /\ q \in Pool
<1> DEFINE q == [p EXCEPT !.filled[s] = @ + 1]
<1>1. /\ q \in Pool /\ q.charged = p.charged /\ q.cur = p.cur /\ q.occupant = p.occupant
  BY StepIs
<1>2. q.parked = p.parked
  BY DEF Pool
<1> HIDE DEF q
<1>3. Lighter(p, q)
  BY <1>1, <1>2, SeatsSame
<1> QED
  BY <1>1, <1>3 DEF q

LEMMA EndPays ==
  ASSUME NEW p \in Pool, NEW c \in Conv, NEW n \in Nat
  PROVE  Lighter(p, End(p, c, n)) /\ End(p, c, n) \in Pool
<1> DEFINE q == End(p, c, n)
<1>1. /\ q \in Pool /\ q.charged = p.charged /\ q.cur = p.cur /\ q.occupant = p.occupant
  BY EndIs
<1>2. q.parked = p.parked
  BY DEF Pool, End
<1> HIDE DEF q
<1>3. Lighter(p, q)
  BY <1>1, <1>2, SeatsSame
<1> QED
  BY <1>1, <1>3 DEF q

LEMMA LeavePays ==
  ASSUME NEW p \in Pool
  PROVE  Lighter(p, LeaveSlot(p)) /\ LeaveSlot(p) \in Pool
<1> DEFINE q == LeaveSlot(p)
<1>1. /\ q \in Pool /\ q.charged = p.charged /\ q.cur = p.cur
      /\ \A t \in Slot : q.occupant[t] = IF t = p.cur THEN NoConv ELSE p.occupant[t]
  BY LeaveIs
<1>2. q.parked = p.parked
  BY DEF Pool, LeaveSlot
<1> HIDE DEF q
<1>3. Lighter(p, q)
  BY <1>1, <1>2, FewerSit
<1> QED
  BY <1>1, <1>3 DEF q

LEMMA ParkPays ==
  ASSUME NEW p \in Pool, NEW c \in Conv, NEW n \in Nat
  PROVE  LET q == Park(p, c, n)
         IN  q.parked \in SUBSET (p.parked \cup {c}) /\ (Paid(p) => Paid(q))
<1> DEFINE e == End(p, c, n)
           u == Unpin(e, c)
           l == LeaveSlot(u)
           q == [l EXCEPT !.parked = @ \cup {c}]
<1>1. Lighter(p, e) /\ e \in Pool
  BY EndPays
<1>2. Lighter(e, u) /\ u \in Pool
  <2> HIDE DEF e
  <2> QED
    BY <1>1, UnpinPays
<1>3. Lighter(u, l) /\ l \in Pool
  <2> HIDE DEF u
  <2> QED
    BY <1>2, LeavePays
<1>4. /\ q.charged = l.charged /\ q.cur = l.cur /\ q.occupant = l.occupant
      /\ q.parked = l.parked \cup {c}
  <2> HIDE DEF l
  <2> QED
    BY <1>3 DEF Pool
<1> HIDE DEF e, u, l, q
<1>5. Lighter(p, l)
  BY <1>1, <1>2, <1>3, LighterOn
<1>6. q.parked \in SUBSET (p.parked \cup {c}) /\ (Paid(p) => Paid(q))
  BY <1>4, <1>5 DEF Lighter, Paid, Paying
<1>7. q = Park(p, c, n)
  BY DEF q, l, u, e, Park
<1> QED
  BY <1>6, <1>7

LEMMA AbandonPays ==
  ASSUME NEW p \in Pool, NEW c \in Conv
  PROVE  /\ Lighter(p, Abandon(p, c)) /\ Abandon(p, c) \in Pool /\ c \notin Abandon(p, c).parked
         /\ Abandon(p, c).cur = p.cur /\ Abandon(p, c).charged = p.charged
<1> DEFINE e == [p EXCEPT !.filled[p.cur] = 0]
<1>1. e.cur = p.cur /\ e.charged = p.charged /\ e.occupant = p.occupant /\ e.parked = p.parked
  BY DEF Pool
<1>2. e \in Pool
  BY DEF Pool
<1>3. Abandon(p, c) = Forget(e, {c})
  BY DEF Abandon
<1> HIDE DEF e
<1>4. Lighter(p, e)
  BY <1>1, <1>2, SeatsSame
<1>5. /\ Lighter(e, Forget(e, {c})) /\ Forget(e, {c}) \in Pool
      /\ Forget(e, {c}).parked = e.parked \ {c} /\ Forget(e, {c}).cur = e.cur
      /\ Forget(e, {c}).charged = e.charged
  BY <1>2, ForgetPays
<1> QED
  BY <1>1, <1>3, <1>4, <1>5, LighterOn

LEMMA UnchargedPays ==
  ASSUME NEW p \in Pool, NEW c
  PROVE  Lighter(p, Uncharged(p, c)) /\ Uncharged(p, c).cur = p.cur
<1>1. Idle(p, c) \in SUBSET Conv
  BY IdleIs
<1> QED
  BY <1>1, ForgetPays DEF Uncharged

LEMMA TrimPays ==
  ASSUME NEW p \in Pool
  PROVE  Lighter(p, Trim(p))
<1> DEFINE q == Forget(p, Conv \ Held(p))
           r == [q EXCEPT !.charged = {s \in @ : s = q.cur \/ q.occupant[s] # NoConv}]
<1>1. Lighter(p, q) /\ q \in Pool
  <2>1. Conv \ Held(p) \in SUBSET Conv
    OBVIOUS
  <2> QED
    BY <2>1, ForgetPays
<1>2. r = Trim(p)
  BY DEF Trim
<1> HIDE DEF q
<1>3. /\ r.cur = q.cur /\ r.occupant = q.occupant /\ r.parked = q.parked
      /\ r.charged = {s \in q.charged : s = q.cur \/ q.occupant[s] # NoConv}
  BY <1>1 DEF Pool
<1> HIDE DEF r
<1>4. Lighter(q, r)
  BY <1>3 DEF Lighter, Paid, Paying
<1> QED
  BY <1>1, <1>2, <1>4, LighterOn

LEMMA ChargePays ==
  ASSUME NEW p \in Pool, NEW s \in Slot, NEW c, NEW q \in Charge(p, s, c)
  PROVE  Lighter(p, q) /\ q \in Pool /\ Paying(q, s)
<1>1. q \in Pool
  BY ChargeIs
<1>2. CASE s = 0 \/ SlotPages = 0 \/ s \in p.charged
  <2>1. q = p
    BY <1>2 DEF Charge
  <2> QED
    BY <1>1, <1>2, <2>1 DEF Lighter, Paying
<1>3. CASE ~(s = 0 \/ SlotPages = 0 \/ s \in p.charged)
  <2>1. PICK r \in MakeRoom(p, c, SlotPages) : q = [r EXCEPT !.charged = @ \cup {s}]
    BY <1>3 DEF Charge
  <2>2. SlotPages \in Int
    BY CapacityAssumption
  <2>3. PICK D \in SUBSET Idle(p, c) : r = Forget(p, D)
    BY <2>1, <2>2, RoomIs
  <2>4. D \in SUBSET Conv
    BY IdleIs
  <2>5. Lighter(p, r) /\ r \in Pool
    BY <2>3, <2>4, ForgetPays
  <2>6. /\ q.charged = r.charged \cup {s} /\ q.cur = r.cur /\ q.occupant = r.occupant
        /\ q.parked = r.parked
    BY <2>1, <2>5 DEF Pool
  <2>7. Lighter(r, q)
    BY <1>1, <2>5, <2>6, FewerSit
  <2> QED
    BY <1>1, <2>5, <2>6, <2>7, LighterOn DEF Paying
<1> QED
  BY <1>2, <1>3

LEMMA EnterPays ==
  ASSUME NEW p \in Pool, NEW c \in Conv, NEW n \in Nat, NEW f \in Nat, NEW q \in Enter(p, c, n, f)
  PROVE  Lighter(p, q) /\ q \in Pool /\ c \notin q.parked
<1> DEFINE mine == Forget(p, {c})
<1>1. /\ Lighter(p, mine) /\ mine \in Pool /\ mine.parked = p.parked \ {c} /\ mine.cur = p.cur
      /\ mine.charged = p.charged
  BY ForgetPays
<1>2. PICK D \in SUBSET Conv : q = [Forget(mine, D) EXCEPT !.pages[c] = n, !.occupant[p.cur] = c,
                                                          !.filled[p.cur] = f]
  <2> DEFINE there == p.occupant[p.cur] = c \/ p.occupant[p.cur] = NoConv
             roomy == IF there THEN MakeRoom(mine, c, n)
                      ELSE {r \in {Forget(mine, D) : D \in SUBSET Idle(mine, c)} : Unused(r) >= n}
  <2>1. PICK r \in roomy : q = [r EXCEPT !.pages[c] = n, !.occupant[p.cur] = c, !.filled[p.cur] = f]
    BY DEF Enter
  <2> HIDE DEF mine
  <2>2. \E D \in SUBSET Idle(mine, c) : r = Forget(mine, D)
    <3>1. CASE there
      BY <2>1, <3>1 DEF MakeRoom
    <3>2. CASE ~there
      BY <2>1, <3>2
    <3> QED
      BY <3>1, <3>2
  <2>3. Idle(mine, c) \in SUBSET Conv
    BY <1>1, IdleIs
  <2> QED
    BY <2>1, <2>2, <2>3
<1> HIDE DEF mine
<1> DEFINE r == Forget(mine, D)
<1>3. /\ Lighter(mine, r) /\ r \in Pool /\ r.parked = mine.parked \ D /\ r.cur = mine.cur
      /\ r.charged = mine.charged
  BY <1>1, ForgetPays
<1>4. q = [r EXCEPT !.pages[c] = n, !.occupant[p.cur] = c, !.filled[p.cur] = f]
  BY <1>2
<1> HIDE DEF r
<1>5. /\ q.charged = r.charged /\ q.cur = r.cur /\ q.parked = r.parked
      /\ \A s \in Slot : s # r.cur => q.occupant[s] = r.occupant[s]
  BY <1>1, <1>3, <1>4 DEF Pool
<1>6. Lighter(r, q)
  BY <1>5 DEF Lighter, Paid, Paying
<1>7. q \in Pool
  BY EnterIs DEF Sound
<1> QED
  BY <1>1, <1>3, <1>5, <1>6, <1>7, LighterOn

LEMMA GrowPays ==
  ASSUME NEW p \in Pool, NEW c \in Conv, NEW n \in Nat, NEW q \in Grow(p, c, n)
  PROVE  Lighter(p, q)
<1>1. p.pages[c] \in Nat
  BY CapacityAssumption DEF Pool
<1>2. PICK r \in MakeRoom(p, c, n - p.pages[c]) : q = [r EXCEPT !.pages[c] = n]
  BY DEF Grow
<1>3. PICK D \in SUBSET Idle(p, c) : r = Forget(p, D)
  BY <1>1, <1>2, RoomIs
<1>4. D \in SUBSET Conv
  BY IdleIs
<1>5. Lighter(p, r) /\ r \in Pool
  BY <1>3, <1>4, ForgetPays
<1>6. q.charged = r.charged /\ q.cur = r.cur /\ q.occupant = r.occupant /\ q.parked = r.parked
  BY <1>2, <1>5 DEF Pool
<1>7. Lighter(r, q)
  BY <1>6 DEF Lighter, Paid, Paying
<1> QED
  BY <1>5, <1>7, LighterOn

(* Of the actions, all but parking take nothing from what is charged and    *)
(* add nobody to who is parked.                                             *)
LEMMA QuietLightens ==
  ASSUME Typed, \/ Take \/ NoneAdmitted \/ Admit \/ WaitForPages \/ StepFails \/ Dealt \/ Yield
                \/ (FailAll /\ rows = <<>>)
                \/ \E j \in Job : Submit(j)
                \/ \E o \in Outsider : Want(o)
                \/ UNCHANGED vars
  PROVE  Lighter(pool, pool') /\ parked' = parked
<1> USE DEF lineVars, rowVars, standVars, otherVars
<1>1. pool' = pool /\ parked' = parked
  <2>1. CASE Take \/ NoneAdmitted \/ Admit \/ WaitForPages
    BY <2>1 DEF Take, NoneAdmitted, Admit, WaitForPages, Wait
  <2>2. CASE StepFails \/ Dealt \/ Yield \/ (FailAll /\ rows = <<>>)
    BY <2>2 DEF StepFails, Dealt, Yield, FailAll
  <2>3. CASE \E j \in Job : Submit(j)
    BY <2>3 DEF Submit
  <2>4. CASE \E o \in Outsider : Want(o)
    BY <2>4 DEF Want
  <2>5. CASE UNCHANGED vars
    BY <2>5 DEF vars
  <2> QED
    BY <2>1, <2>2, <2>3, <2>4, <2>5
<1> QED
  BY <1>1 DEF Lighter

LEMMA DropsLighten ==
  ASSUME Settled, Typed, Erase \/ TrimIdle \/ NoneResumes \/ WaitForSlot
  PROVE  Lighter(pool, pool') /\ parked' = parked
<1> USE DEF lineVars, rowVars, standVars, otherVars
<1>1. pool \in Pool /\ Lighter(pool, pool)
  BY DEF Typed, Sound, Lighter
<1>2. parked' = parked
  BY DEF Erase, TrimIdle, NoneResumes, WaitForSlot, Served, Wait, Dismissed
<1>3. CASE Erase
  <2>1. PICK c \in Conv : pool' \in {pool, Forget(pool, {c})}
    BY <1>3 DEF Erase
  <2>2. Lighter(pool, Forget(pool, {c}))
    BY <1>1, ForgetPays
  <2> QED
    BY <1>1, <1>2, <2>1, <2>2
<1>4. CASE TrimIdle
  BY <1>1, <1>2, <1>4, TrimPays DEF TrimIdle
<1>5. CASE NoneResumes \/ WaitForSlot
  <2>1. \E c : pool' \in {pool, Uncharged(pool, c)}
    BY <1>5 DEF NoneResumes, WaitForSlot
  <2> QED
    BY <1>1, <1>2, <2>1, UnchargedPays
<1> QED
  BY <1>3, <1>4, <1>5

LEMMA ResumeIsHead ==
  ASSUME Settled, Typed, MayResume
  PROVE  /\ Head(parked) \in Elems(parked) /\ Head(parked) \in InFlight /\ Head(parked) \in Job
         /\ ConvOf[Head(parked)] \in Conv /\ pos[Head(parked)] \in Nat
         /\ Elems(Tail(parked)) = Elems(parked) \ {Head(parked)}
<1>1. parked \in Seq(Job) /\ Distinct(parked) /\ parked # <<>>
  BY DEF Settled, Placed, Once, MayResume
<1>2. Head(parked) \in Elems(parked) /\ Elems(Tail(parked)) = Elems(parked) \ {Head(parked)}
  BY <1>1, HeadGoes
<1>3. Head(parked) \in InFlight
  BY <1>2 DEF InFlight
<1> QED
  BY <1>2, <1>3, JobIs

LEMMA ResumeLightens ==
  ASSUME Settled, Typed, Resume \/ ResumeFails
  PROVE  /\ Lighter(pool, pool') /\ MayResume /\ parked' = Tail(parked)
         /\ ConvOf[Head(parked)] \notin pool'.parked
<1> DEFINE j == Head(parked)
           c == ConvOf[j]
<1>1. MayResume /\ parked' = Tail(parked)
  BY DEF Resume, ResumeFails
<1>2. c \in Conv /\ pos[j] \in Nat /\ pos[j] + 1 \in Nat /\ pool \in Pool
  <2>1. c \in Conv /\ pos[j] \in Nat
    BY <1>1, ResumeIsHead
  <2> QED
    BY <2>1 DEF Typed, Sound
<1>3. PICK s \in ChosenSlot(pool, c) : \E q \in Charge(pool, s, c) :
         \/ \E p \in Enter(Select(q, s), c, pos[j] + 1, pos[j]) : pool' = Pin(p, c)
         \/ pool' = Abandon(Select(q, s), c)
  BY DEF Resume, ResumeFails
<1>10. PICK q \in Charge(pool, s, c) :
         \/ \E p \in Enter(Select(q, s), c, pos[j] + 1, pos[j]) : pool' = Pin(p, c)
         \/ pool' = Abandon(Select(q, s), c)
  BY <1>3
<1> HIDE DEF c, j
<1>4. s \in Slot
  BY <1>2, ChosenIs
<1>5. Lighter(pool, q) /\ q \in Pool /\ Paying(q, s)
  BY <1>2, <1>4, ChargePays
<1> DEFINE r == Select(q, s)
<1>6. Lighter(q, r) /\ r \in Pool
  BY <1>4, <1>5, SelectPays
<1>7. Lighter(pool, r)
  BY <1>5, <1>6, LighterOn
<1> HIDE DEF r
<1>8. CASE \E p \in Enter(r, c, pos[j] + 1, pos[j]) : pool' = Pin(p, c)
  <2>1. PICK p \in Enter(r, c, pos[j] + 1, pos[j]) : pool' = Pin(p, c)
    BY <1>8
  <2>2. Lighter(r, p) /\ p \in Pool /\ c \notin p.parked
    BY <1>2, <1>6, EnterPays
  <2>3. Lighter(p, pool') /\ pool'.parked = p.parked
    BY <1>2, <2>1, <2>2, PinPays
  <2>4. Lighter(pool, pool') /\ c \notin pool'.parked
    BY <1>7, <2>2, <2>3, LighterOn
  <2> QED
    BY <1>1, <2>4 DEF c, j
<1>9. CASE pool' = Abandon(r, c)
  <2>1. Lighter(r, pool') /\ c \notin pool'.parked
    BY <1>2, <1>6, <1>9, AbandonPays
  <2>2. Lighter(pool, pool')
    BY <1>7, <2>1, LighterOn
  <2> QED
    BY <1>1, <2>1, <2>2 DEF c, j
<1> QED
  BY <1>10, <1>8, <1>9 DEF r

LEMMA ChargedLightens ==
  ASSUME Settled, Typed, Charged
  PROVE  Lighter(pool, pool') /\ parked' = parked
<1>1. parked' = parked
  BY DEF Charged, lineVars, rowVars
<1>2. HandConv \in Conv /\ pool \in Pool
  <2>1. pc \in Admitting
    BY DEF Charged, Admitting
  <2> QED
    BY <2>1, HandIs DEF Typed, Sound
<1>3. PICK s \in ChosenSlot(pool, HandConv) :
        \E q \in Charge(pool, s, HandConv) : pool' = Select(q, s)
  BY DEF Charged
<1>7. PICK q \in Charge(pool, s, HandConv) : pool' = Select(q, s)
  BY <1>3
<1>4. s \in Slot
  BY <1>2, ChosenIs
<1>5. Lighter(pool, q) /\ q \in Pool /\ Paying(q, s)
  BY <1>2, <1>4, ChargePays
<1>6. Lighter(q, pool')
  BY <1>7, <1>4, <1>5, SelectPays
<1> QED
  BY <1>1, <1>5, <1>6, LighterOn

LEMMA HandLightens ==
  ASSUME Settled, Typed,
         \/ BeginBeside \/ BeginAlone \/ NoRoomAlone \/ GoneAtHeaders \/ BeginFails
         \/ LoneGrow \/ LoneFails \/ LoneStep \/ LoneEnd \/ HandOver
  PROVE  Lighter(pool, pool') /\ parked' = parked
<1> USE DEF lineVars, rowVars, standVars, otherVars
<1>1. pc \in Admitting
  BY DEF BeginBeside, BeginAlone, NoRoomAlone, GoneAtHeaders, BeginFails, LoneGrow, LoneFails,
         LoneStep, LoneEnd, HandOver, Admitting
<1>2. /\ HandConv \in Conv /\ slot[hand] \in Slot /\ pos[hand] \in Nat /\ Prompt[hand] \in Nat
      /\ pool \in Pool /\ pos[hand] + 1 \in Nat /\ Prompt[hand] + 1 \in Nat
  <2>1. HandConv \in Conv /\ slot[hand] \in Slot /\ pos[hand] \in Nat /\ Prompt[hand] \in Nat
    BY <1>1, HandIs
  <2> QED
    BY <2>1 DEF Typed, Sound
<1>3. parked' = parked
  BY DEF BeginBeside, BeginAlone, NoRoomAlone, GoneAtHeaders, BeginFails, LoneGrow, LoneFails,
         LoneStep, LoneEnd, HandOver, Dismissed
<1>4. CASE BeginBeside
  <2>1. PICK n \in 0..(Prompt[hand] - 1) : \E q \in Entered(n) : pool' = Pin(q, HandConv)
    BY <1>4 DEF BeginBeside
  <2>2. PICK q \in Entered(n) : pool' = Pin(q, HandConv)
    BY <2>1
  <2>3. n \in Nat
    BY <1>2, <2>1
  <2>4. Lighter(pool, q) /\ q \in Pool
    BY <1>2, <2>2, <2>3, EnterPays DEF Entered
  <2>5. Lighter(q, pool')
    BY <1>2, <2>2, <2>4, PinPays
  <2> QED
    BY <1>3, <2>4, <2>5, LighterOn
<1>5. CASE BeginAlone \/ GoneAtHeaders
  <2>1. \E n \in Nat : pool' \in Enter(pool, HandConv, Prompt[hand] + 1, n)
    BY <1>2, <1>5 DEF BeginAlone, GoneAtHeaders, Entered
  <2> QED
    BY <1>2, <1>3, <2>1, EnterPays
<1>6. CASE NoRoomAlone \/ LoneFails
  <2>1. pool' = Abandon(pool, HandConv)
    BY <1>6 DEF NoRoomAlone, LoneFails
  <2> QED
    BY <1>2, <1>3, <2>1, AbandonPays
<1>7. CASE BeginFails \/ HandOver
  <2>1. pool' = Pin(pool, HandConv)
    BY <1>7 DEF BeginFails, HandOver
  <2> QED
    BY <1>2, <1>3, <2>1, PinPays
<1>8. CASE LoneGrow
  <2>1. pool' \in Grow(pool, HandConv, pos[hand] + 1)
    BY <1>8 DEF LoneGrow
  <2> QED
    BY <1>2, <1>3, <2>1, GrowPays
<1>9. CASE LoneStep
  <2>1. pool' = [pool EXCEPT !.filled[slot[hand]] = @ + 1]
    BY <1>9 DEF LoneStep
  <2> QED
    BY <1>2, <1>3, <2>1, StepPays
<1>10. CASE LoneEnd
  <2>1. pool' = End(pool, HandConv, pos[hand])
    BY <1>10 DEF LoneEnd
  <2> QED
    BY <1>2, <1>3, <2>1, EndPays
<1> QED
  BY <1>4, <1>5, <1>6, <1>7, <1>8, <1>9, <1>10

LEMMA SeatedIs ==
  ASSUME Settled, Typed, Firm, NEW j \in Seated
  PROVE  /\ j \in Job /\ ConvOf[j] \in Conv /\ slot[j] \in Slot /\ pos[j] \in Nat
         /\ Prompt[j] \in Nat /\ pool \in Pool
         /\ pool.occupant[slot[j]] = ConvOf[j] /\ pool.occupant[slot[j]] # NoConv
         /\ Lighter(pool, Select(pool, slot[j])) /\ Select(pool, slot[j]) \in Pool
<1>1. j \in InFlight
  BY SeatedFly
<1>2. /\ j \in Job /\ ConvOf[j] \in Conv /\ slot[j] \in Slot /\ pos[j] \in Nat /\ Prompt[j] \in Nat
  BY <1>1, JobIs
<1>3. pool \in Pool
  BY DEF Typed, Sound
<1>4. pool.occupant[slot[j]] = ConvOf[j] /\ pool.occupant[slot[j]] # NoConv
  BY <1>2, ConvAssumption DEF Firm, Seat
<1>5. Lighter(pool, Select(pool, slot[j])) /\ Select(pool, slot[j]) \in Pool
  BY <1>2, <1>3, <1>4, SeatPays
<1> QED
  BY <1>2, <1>3, <1>4, <1>5

LEMMA EndingLightens ==
  ASSUME NEW p \in Pool, NEW c \in Conv, NEW n \in Nat
  PROVE  LET u == Unpin(End(p, c, n), c) IN Lighter(p, u) /\ Lighter(p, LeaveSlot(u))
<1> DEFINE e == End(p, c, n)
           u == Unpin(e, c)
<1>1. Lighter(p, e) /\ e \in Pool
  BY EndPays
<1> HIDE DEF e
<1>2. Lighter(e, u) /\ u \in Pool
  BY <1>1, UnpinPays
<1> HIDE DEF u
<1>3. Lighter(u, LeaveSlot(u))
  BY <1>2, LeavePays
<1>4. Lighter(p, u) /\ Lighter(p, LeaveSlot(u))
  BY <1>1, <1>2, <1>3, LighterOn
<1> QED
  BY <1>4 DEF u, e

LEMMA RowsLighten ==
  ASSUME Settled, Typed, Firm,
         RowGrows \/ RowStarves \/ ParkFails \/ (FailAll /\ rows # <<>>) \/ Decode \/ EndRow
  PROVE  Lighter(pool, pool') /\ parked' = parked
<1> USE DEF lineVars, rowVars, standVars, otherVars
<1>1. parked' = parked
  BY DEF RowGrows, RowStarves, ParkFails, FailAll, RowFails, Decode, EndRow
<1>2. CASE RowGrows
  <2>1. PICK i \in DOMAIN rows : pool' \in Grow(Select(pool, slot[rows[i]]), ConvOf[rows[i]], pos[rows[i]] + 1)
    BY <1>2 DEF RowGrows
  <2>2. rows[i] \in Seated
    BY DEF Seated, Elems
  <2>3. /\ ConvOf[rows[i]] \in Conv /\ pos[rows[i]] + 1 \in Nat /\ Select(pool, slot[rows[i]]) \in Pool
        /\ Lighter(pool, Select(pool, slot[rows[i]]))
    BY <2>2, SeatedIs
  <2>4. Lighter(Select(pool, slot[rows[i]]), pool')
    BY <2>1, <2>3, GrowPays
  <2> QED
    BY <1>1, <2>3, <2>4, LighterOn
<1>3. CASE RowStarves \/ ParkFails \/ (FailAll /\ rows # <<>>)
  <2>1. PICK j \in Seated : pool' = Abandon(Select(pool, slot[j]), ConvOf[j])
    <3>1. CASE RowStarves \/ ParkFails
      <4>1. PICK i \in DOMAIN rows : RowFails(rows[i])
        BY <3>1 DEF RowStarves, ParkFails
      <4>2. rows[i] \in Seated
        BY DEF Seated, Elems
      <4> QED
        BY <4>1, <4>2 DEF RowFails, Failed
    <3>2. CASE FailAll /\ rows # <<>>
      <4>1. rows \in Seq(Job) /\ 1 \in DOMAIN rows /\ Head(rows) = rows[1]
        BY <3>2 DEF Settled, Placed
      <4>2. Head(rows) \in Seated
        BY <4>1 DEF Seated, Elems
      <4> QED
        BY <3>2, <4>2 DEF FailAll, RowFails, Failed
    <3> QED
      BY <1>3, <3>1, <3>2
  <2>2. ConvOf[j] \in Conv /\ Select(pool, slot[j]) \in Pool /\ Lighter(pool, Select(pool, slot[j]))
    BY SeatedIs
  <2>3. Lighter(Select(pool, slot[j]), pool')
    BY <2>1, <2>2, AbandonPays
  <2> QED
    BY <1>1, <2>2, <2>3, LighterOn
<1>4. CASE Decode
  <2> DEFINE f == [s \in Slot |-> pool.filled[s] + Cardinality({j \in Elems(rows) : slot[j] = s})]
  <2>1. pool' = [pool EXCEPT !.filled = f]
    BY <1>4 DEF Decode
  <2>2. pool \in Pool /\ pool.filled \in [Slot -> Nat]
    BY PoolIs DEF Typed, Sound
  <2>3. IsFiniteSet(Elems(rows))
    <3>1. rows \in Seq(Job) /\ Distinct(rows)
      BY DEF Settled, Placed, Once
    <3> QED
      BY <3>1, LenIsCount
  <2>4. \A s \in Slot : Cardinality({j \in Elems(rows) : slot[j] = s}) \in Nat
    <3> SUFFICES ASSUME NEW s \in Slot PROVE Cardinality({j \in Elems(rows) : slot[j] = s}) \in Nat
      OBVIOUS
    <3>1. {j \in Elems(rows) : slot[j] = s} \in SUBSET Elems(rows)
      OBVIOUS
    <3>2. IsFiniteSet({j \in Elems(rows) : slot[j] = s})
      BY <2>3, <3>1, FS_Subset
    <3> QED
      BY <3>2, FS_CardinalityType
  <2>5. f \in [Slot -> Nat]
    BY <2>2, <2>4
  <2> HIDE DEF f
  <2> QED
    BY <1>1, <2>1, <2>2, <2>5, FilledPays
<1>5. CASE EndRow
  <2>1. PICK i \in DOMAIN rows : RowEnded(rows[i], OthersThan(rows[i]))
    BY <1>5 DEF EndRow
  <2>2. rows[i] \in Seated
    BY DEF Seated, Elems
  <2>3. PICK j : j = rows[i]
    OBVIOUS
  <2>4. /\ ConvOf[j] \in Conv /\ pos[j] \in Nat /\ Select(pool, slot[j]) \in Pool
        /\ Lighter(pool, Select(pool, slot[j]))
    BY <2>2, <2>3, SeatedIs
  <2>5. LET u == Unpin(End(Select(pool, slot[j]), ConvOf[j], pos[j]), ConvOf[j])
        IN  pool' \in {u, LeaveSlot(u)}
    BY <2>1, <2>3 DEF RowEnded
  <2>6. Lighter(Select(pool, slot[j]), pool')
    BY <2>4, <2>5, EndingLightens
  <2> QED
    BY <1>1, <2>4, <2>6, LighterOn
<1> QED
  BY <1>2, <1>3, <1>4, <1>5

LEMMA PrefillLightens ==
  ASSUME Settled, Typed, Firm, PrefillChunk \/ JoinPrefilled \/ PrefilledEnds \/ ChunkFails
  PROVE  Lighter(pool, pool') /\ parked' = parked
<1> USE DEF lineVars, rowVars, standVars, otherVars
<1>1. parked' = parked
  BY DEF PrefillChunk, JoinPrefilled, PrefilledEnds, ChunkFails, LastChunk
<1>2. CASE pool' = pool
  BY <1>1, <1>2 DEF Lighter
<1>3. CASE pool' # pool
  <2> DEFINE j == prefilling
             r == Select(pool, slot[j])
             t == [r EXCEPT !.filled[slot[j]] = @ + 1]
  <2>1. prefilling # NoJob
    BY <1>3 DEF PrefillChunk, JoinPrefilled, PrefilledEnds, ChunkFails, LastChunk
  <2>2. j \in Seated
    BY <2>1, SeatedFly
  <2>3. /\ ConvOf[j] \in Conv /\ Prompt[j] \in Nat /\ slot[j] \in Slot /\ r \in Pool /\ Lighter(pool, r)
    BY <2>2, SeatedIs
  <2>4. \/ pool' = t
        \/ LET u == Unpin(End(t, ConvOf[j], Prompt[j]), ConvOf[j]) IN pool' \in {u, LeaveSlot(u)}
        \/ pool' = Abandon(r, ConvOf[j])
    BY <1>3 DEF PrefillChunk, JoinPrefilled, PrefilledEnds, ChunkFails, LastChunk, Failed
  <2> HIDE DEF r, j
  <2>5. Lighter(r, t) /\ t \in Pool
    BY <2>3, StepPays
  <2> HIDE DEF t
  <2>6. Lighter(pool, t)
    BY <2>3, <2>5, LighterOn
  <2>7. CASE pool' = t
    BY <1>1, <2>6, <2>7
  <2>8. CASE pool' = Abandon(r, ConvOf[j])
    <3>1. Lighter(r, pool')
      BY <2>3, <2>8, AbandonPays
    <3> QED
      BY <1>1, <2>3, <3>1, LighterOn
  <2>9. CASE LET u == Unpin(End(t, ConvOf[j], Prompt[j]), ConvOf[j]) IN pool' \in {u, LeaveSlot(u)}
    <3>1. Lighter(t, pool')
      BY <2>3, <2>5, <2>9, EndingLightens
    <3> QED
      BY <1>1, <2>6, <3>1, LighterOn
  <2> QED
    BY <2>4, <2>7, <2>8, <2>9
<1> QED
  BY <1>2, <1>3

Dues == Paid(pool) /\ pool.parked \in SUBSET {ConvOf[j] : j \in Elems(parked)}
InTurn == pc = "charge" => Len(rows) < Slots

LEMMA StepsLighten ==
  ASSUME Settled, Typed, Firm, [Next]_vars
  PROVE  (Lighter(pool, pool') /\ parked' = parked) \/ Resume \/ ResumeFails \/ RowParks
<1>1. \/ Loop \/ Erase \/ TrimIdle
      \/ (\E j \in Job : Submit(j)) \/ (\E o \in Outsider : Want(o)) \/ UNCHANGED vars
  BY DEF Next
<1>2. CASE Loop
  <2>1. FailAll => Lighter(pool, pool') /\ parked' = parked
    BY QuietLightens, RowsLighten
  <2>2. NoneResumes \/ WaitForSlot => Lighter(pool, pool') /\ parked' = parked
    BY DropsLighten
  <2>3. Charged => Lighter(pool, pool') /\ parked' = parked
    BY ChargedLightens
  <2>4. Take \/ NoneAdmitted \/ Admit \/ WaitForPages \/ StepFails \/ Dealt \/ Yield
          => Lighter(pool, pool') /\ parked' = parked
    BY QuietLightens
  <2>5. BeginBeside \/ BeginAlone \/ NoRoomAlone \/ GoneAtHeaders \/ BeginFails
        \/ LoneGrow \/ LoneFails \/ LoneStep \/ LoneEnd \/ HandOver
          => Lighter(pool, pool') /\ parked' = parked
    BY HandLightens
  <2>6. RowGrows \/ RowStarves \/ ParkFails \/ Decode \/ EndRow
          => Lighter(pool, pool') /\ parked' = parked
    BY RowsLighten
  <2>7. PrefillChunk \/ JoinPrefilled \/ PrefilledEnds \/ ChunkFails
          => Lighter(pool, pool') /\ parked' = parked
    BY PrefillLightens
  <2> QED
    BY <1>2, <2>1, <2>2, <2>3, <2>4, <2>5, <2>6, <2>7 DEF Loop
<1>3. CASE Erase \/ TrimIdle
  BY <1>3, DropsLighten
<1>4. CASE \/ \E j \in Job : Submit(j)
           \/ \E o \in Outsider : Want(o)
           \/ UNCHANGED vars
  BY <1>4, QuietLightens
<1> QED
  BY <1>1, <1>2, <1>3, <1>4

LEMMA DuesStay ==
  ASSUME Settled, Typed, Firm, Dues, [Next]_vars
  PROVE  Dues'
<1>1. CASE Lighter(pool, pool') /\ parked' = parked
  BY <1>1 DEF Lighter, Dues
<1>2. CASE Resume \/ ResumeFails
  <2>1. /\ Lighter(pool, pool') /\ MayResume /\ parked' = Tail(parked)
        /\ ConvOf[Head(parked)] \notin pool'.parked
    BY <1>2, ResumeLightens
  <2>2. Elems(parked') = Elems(parked) \ {Head(parked)}
    BY <2>1, ResumeIsHead
  <2> QED
    BY <2>1, <2>2 DEF Lighter, Dues
<1>3. CASE RowParks
  <2>1. PICK i \in DOMAIN rows : /\ pool' = Park(Select(pool, slot[rows[i]]), ConvOf[rows[i]], pos[rows[i]])
                                 /\ parked' = Append(parked, rows[i])
    BY <1>3 DEF RowParks
  <2>2. rows[i] \in Seated /\ rows[i] \in Elems(rows)
    BY DEF Seated, Elems
  <2>3. PICK j : j = rows[i]
    OBVIOUS
  <2>4. /\ j \in Job /\ ConvOf[j] \in Conv /\ pos[j] \in Nat /\ Select(pool, slot[j]) \in Pool
        /\ Lighter(pool, Select(pool, slot[j]))
    BY <2>2, <2>3, SeatedIs
  <2>5. /\ pool'.parked \in SUBSET (Select(pool, slot[j]).parked \cup {ConvOf[j]})
        /\ Paid(Select(pool, slot[j])) => Paid(pool')
    BY <2>1, <2>3, <2>4, ParkPays
  <2>6. Elems(parked') = Elems(parked) \cup {j}
    <3>1. parked \in Seq(Job) /\ Distinct(parked) /\ j \notin Elems(parked)
      BY <2>2, <2>3 DEF Settled, Placed, Once, Apart
    <3> QED
      BY <2>1, <2>3, <2>4, <3>1, AppendKeeps
  <2> QED
    BY <2>4, <2>5, <2>6 DEF Lighter, Dues
<1> QED
  BY <1>1, <1>2, <1>3, StepsLighten

LEMMA InTurnStays == Settled /\ InTurn /\ [Next]_vars => InTurn'
<1> SUFFICES ASSUME Settled, InTurn, [Next]_vars, pc' = "charge" PROVE Len(rows') < Slots
  BY DEF InTurn
<1> USE DEF lineVars, rowVars, standVars, otherVars
<1>1. CASE Admit
  BY <1>1 DEF Admit, MayAdmit
<1>2. CASE UNCHANGED <<rows, pc>>
  BY <1>2 DEF InTurn
<1>3. Admit \/ UNCHANGED <<rows, pc>>
  <2>1. \/ Loop \/ Erase \/ TrimIdle
        \/ (\E j \in Job : Submit(j)) \/ (\E o \in Outsider : Want(o)) \/ UNCHANGED vars
    BY DEF Next
  <2>2. CASE Erase \/ TrimIdle \/ (\E j \in Job : Submit(j)) \/ (\E o \in Outsider : Want(o))
             \/ UNCHANGED vars
    BY <2>2 DEF Erase, TrimIdle, Served, Submit, Want, vars
  <2>3. CASE Loop
    <3>1. pc \in {"take", "resume", "admit", "charge", "begin", "lone", "step", "fail", "deal",
                  "prefill", "yield"}
      BY DEF Settled, Phased, Admitting
    <3>2. CASE Take \/ NoneResumes \/ Resume \/ ResumeFails \/ NoneAdmitted \/ Admit \/ Charged
      BY <3>2 DEF Take, NoneResumes, Resume, ResumeFails, NoneAdmitted, Charged
    <3>3. CASE WaitForSlot \/ WaitForPages \/ BeginBeside \/ BeginAlone \/ NoRoomAlone \/ GoneAtHeaders
               \/ BeginFails
      BY <3>3 DEF WaitForSlot, WaitForPages, Wait, Dismissed, BeginBeside, BeginAlone,
                  NoRoomAlone, GoneAtHeaders, BeginFails
    <3>4. CASE LoneGrow \/ LoneFails \/ LoneStep \/ LoneEnd \/ HandOver
      BY <3>4 DEF LoneGrow, LoneFails, LoneStep, LoneEnd, HandOver, Dismissed
    <3>5. CASE RowGrows \/ RowParks \/ RowStarves \/ ParkFails \/ Decode \/ StepFails \/ FailAll
      BY <3>5 DEF RowGrows, RowParks, RowStarves, ParkFails, Decode, StepFails, FailAll, RowFails
    <3>6. CASE EndRow \/ Dealt \/ PrefillChunk \/ JoinPrefilled \/ PrefilledEnds \/ ChunkFails \/ Yield
      BY <3>6 DEF EndRow, Dealt, PrefillChunk, JoinPrefilled, PrefilledEnds, ChunkFails,
                  LastChunk, Yield
    <3> QED
      BY <2>3, <3>2, <3>3, <3>4, <3>5, <3>6 DEF Loop
  <2> QED
    BY <2>1, <2>2, <2>3
<1> QED
  BY <1>1, <1>2, <1>3

Provided == Running /\ (cold \/ Dues) /\ InTurn

LEMMA ProvidedHolds == Spec => []Provided
<1>1. Init => Provided
  <2> SUFFICES ASSUME Init PROVE Provided
    OBVIOUS
  <2>1. Running
    BY RunningInitially
  <2>2. InTurn
    BY DEF Init, InTurn
  <2>3. Dues
    <3>1. pool.parked = {} /\ pool.cur = 0 /\ \A s \in Slot : pool.occupant[s] = NoConv
      BY DEF Init, EmptyPool
    <3> QED
      BY <3>1 DEF Dues, Paid, Paying
  <2> QED
    BY <2>1, <2>2, <2>3 DEF Provided
<1>2. Provided /\ [Next]_vars => Provided'
  <2> SUFFICES ASSUME Provided, [Next]_vars PROVE Provided'
    OBVIOUS
  <2>1. Running' /\ InTurn'
    BY RunningStays, InTurnStays DEF Provided, Running
  <2>2. cold' \/ Dues'
    <3>1. cold => cold'
      BY ColdStays DEF Provided, Running
    <3>2. ~cold => Dues'
      BY DuesStay DEF Provided, Running
    <3> QED
      BY <3>1, <3>2
  <2> QED
    BY <2>1, <2>2 DEF Provided
<1> QED
  BY <1>1, <1>2, PTL DEF Spec

-----------------------------------------------------------------------------
(* Who fails for want of room.                                              *)

LEMMA LowestThere ==
  ASSUME NEW S \in SUBSET Slot, S # {}
  PROVE  LowestOf(S) # {}
<1>1. S \in SUBSET Nat
  BY DEF Slot
<1>2. PICK s \in S : \A t \in S : s <= t
  BY <1>1, LeastOne
<1> QED
  BY <1>2 DEF LowestOf

LEMMA NoneBeside ==
  ASSUME Firm, rows = <<>>, prefilling = NoJob
  PROVE  pool.pinned = {}
<1>1. Elems(rows) = {}
  BY DEF Elems
<1> QED
  BY <1>1 DEF Firm, Seated

LEMMA HeldAreRunning ==
  ASSUME NEW p \in Pool, \A s \in Slot \ {p.cur} : p.occupant[s] \in p.pinned \cup {NoConv}
  PROVE  Held(p) = p.pinned
<1>1. p.pinned \in SUBSET Conv /\ NoConv \notin Conv
  BY PoolIs, ConvAssumption
<1> QED
  BY <1>1 DEF Held

(* A slot is to be had: fewer run than there are slots, each in one.        *)
LEMMA SlotIsFree ==
  ASSUME Settled, Typed, Firm, Dues, InTurn, pc = "charge"
  PROVE  ~Seatless
<1> SUFFICES ASSUME Seatless PROVE FALSE
  OBVIOUS
<1>1. HandConv \in Conv /\ Seated = Elems(rows) /\ parked = <<>> /\ pool \in Pool
  BY HandIs DEF Admitting, Typed, Sound
<1>2. pool.parked = {}
  <2>1. Elems(parked) = {}
    BY <1>1 DEF Elems
  <2> QED
    BY <2>1 DEF Dues
<1>3. \A s \in Slot : pool.occupant[s] # NoConv /\ pool.occupant[s] \in pool.pinned
  <2> DEFINE own == {s \in Slot : pool.occupant[s] = HandConv}
             empty == {s \in Slot : pool.occupant[s] = NoConv}
             idle == {s \in Slot : pool.occupant[s] = NoConv \/ ~IsRunning(pool, pool.occupant[s])}
  <2>1. ChosenSlot(pool, HandConv) =
          IF own # {} THEN own ELSE IF pool.cur \in idle THEN {pool.cur}
          ELSE IF empty # {} THEN LowestOf(empty) ELSE LowestOf(idle)
    BY DEF ChosenSlot
  <2>2. empty \in SUBSET Slot /\ idle \in SUBSET Slot /\ empty \in SUBSET idle
    OBVIOUS
  <2>3. idle = {}
    <3> HIDE DEF own, empty, idle
    <3>1. ChosenSlot(pool, HandConv) = {}
      BY DEF Seatless
    <3> QED
      BY <2>1, <2>2, <3>1, LowestThere
  <2> QED
    BY <1>2, <2>3 DEF IsRunning
<1>4. \A s \in Slot : \E j \in Elems(rows) : slot[j] = s
  <2> SUFFICES ASSUME NEW s \in Slot PROVE \E j \in Elems(rows) : slot[j] = s
    OBVIOUS
  <2>1. PICK j \in Seated : pool.occupant[s] = ConvOf[j]
    BY <1>3 DEF Firm
  <2>2. Seat(j)
    BY DEF Firm
  <2> QED
    BY <1>1, <2>1, <2>2 DEF Seat
<1>5. rows \in Seq(Job) /\ Distinct(rows)
  BY DEF Settled, Placed, Once
<1>6. IsFiniteSet(Elems(rows)) /\ Cardinality(Elems(rows)) = Len(rows)
  BY <1>5, LenIsCount
<1>7. \A j \in Elems(rows) : slot[j] \in Slot
  BY <1>5, ElemsIn DEF Typed
<1> DEFINE f == [j \in Elems(rows) |-> slot[j]]
<1>8. f \in Surjection(Elems(rows), Slot)
  <2>1. f \in [Elems(rows) -> Slot]
    BY <1>7
  <2>2. \A s \in Slot : \E j \in Elems(rows) : f[j] = s
    BY <1>4
  <2> HIDE DEF f
  <2> QED
    BY <2>1, <2>2 DEF Surjection
<1>9. Cardinality(Slot) <= Cardinality(Elems(rows))
  <2> HIDE DEF f
  <2> QED
    BY <1>6, <1>8, FS_Surjection
<1>10. Cardinality(Slot) = Slots
  <2>1. 0 \in Int /\ Slots - 1 \in Int /\ Slots \in Nat /\ ~(0 > Slots - 1) /\ (Slots - 1) - 0 + 1 = Slots
    BY SlotsAssumption
  <2>2. Cardinality(0 .. (Slots - 1)) = IF 0 > Slots - 1 THEN 0 ELSE (Slots - 1) - 0 + 1
    BY <2>1, FS_Interval
  <2> QED
    BY <2>1, <2>2 DEF Slot
<1>11. Len(rows) < Slots /\ Len(rows) \in Nat
  BY <1>5 DEF InTurn
<1> QED
  BY <1>6, <1>9, <1>10, <1>11, SlotsAssumption

LEMMA SlotWaits ==
  ASSUME Settled, Typed, Firm, Dues, InTurn, WaitForSlot
  PROVE  starved' = starved \/ Stranded
<1> SUFFICES ASSUME starved' # starved, ~Stranded PROVE FALSE
  OBVIOUS
<1>1. pc = "charge" /\ NotCharged /\ ~Seatless
  BY SlotIsFree DEF WaitForSlot
<1>2. rows = <<>> /\ pool' = Uncharged(pool, HandConv)
  BY <1>1 DEF WaitForSlot, Wait
<1>3. HandConv \in Conv /\ parked = <<>> /\ prefilling = NoJob /\ pool \in Pool
  BY <1>1, HandIs DEF Admitting, Typed, Sound
<1>4. pool.pinned = {} /\ pool.parked = {}
  <2>1. Elems(parked) = {}
    BY <1>3 DEF Elems
  <2> QED
    BY <1>2, <1>3, <2>1, NoneBeside DEF Dues
<1>5. pool'.cur = pool.cur /\ pool.cur \in Slot
  BY <1>2, <1>3, UnchargedPays, PoolIs
<1>6. \A s \in Slot \ {pool.cur} : pool.occupant[s] = NoConv
  BY <1>4, <1>5 DEF Stranded
<1>7. PICK s \in ChosenSlot(pool, HandConv) : Charge(pool, s, HandConv) = {}
  BY <1>1 DEF Seatless, NotCharged
<1>8. s = pool.cur
  <2>1. \A t \in Slot : pool.occupant[t] = HandConv => t = pool.cur
    BY <1>3, <1>6, ConvAssumption
  <2>2. pool.cur \in {t \in Slot : pool.occupant[t] = NoConv \/ ~IsRunning(pool, pool.occupant[t])}
    BY <1>4, <1>5 DEF IsRunning
  <2> QED
    BY <1>7, <2>1, <2>2 DEF ChosenSlot
<1>9. Paying(pool, pool.cur)
  BY <1>5 DEF Dues, Paid
<1>10. Charge(pool, s, HandConv) = {pool}
  BY <1>8, <1>9 DEF Charge, Paying
<1> QED
  BY <1>7, <1>10

(* Whoever comes in beside nobody that is held finds the room its pages     *)
(* need, or the tier is too small for it.                                   *)
LEMMA EnterAlone ==
  ASSUME NEW p \in Pool, NEW c \in Conv, NEW n \in Nat, NEW f, p.pinned = {},
         \A s \in Slot \ {p.cur} : p.occupant[s] = NoConv, Enter(p, c, n, f) = {}
  PROVE  n + Withheld(p) > Capacity
<1> DEFINE mine == Forget(p, {c})
<1>1. mine \in Pool /\ Capacity - PagesOf(mine, Held(mine) \cup {c}) - Withheld(p) < n
  BY EnterRefused
<1>2. /\ mine.pinned = {} /\ mine.cur = p.cur /\ mine.pages[c] = 0
      /\ \A s \in Slot : s # p.cur => mine.occupant[s] = NoConv
  <2>1. /\ mine.pinned = p.pinned \ {c} /\ mine.cur = p.cur
        /\ \A d \in Conv : mine.pages[d] = IF d \in {c} THEN 0 ELSE p.pages[d]
        /\ \A s \in Slot : mine.occupant[s] = IF p.occupant[s] \in {c} THEN NoConv ELSE p.occupant[s]
    BY ForgetIs
  <2> HIDE DEF mine
  <2> QED
    BY <2>1
<1> HIDE DEF mine
<1>3. Held(mine) = {}
  BY <1>1, <1>2, HeldAreRunning
<1>4. PagesOf(mine, Held(mine) \cup {c}) = 0
  <2>1. Held(mine) \cup {c} = {c}
    BY <1>3
  <2> QED
    BY <1>1, <1>2, <2>1, FewPages
<1>5. Withheld(p) \in Nat /\ Capacity \in Nat
  BY UnusedIs, CapacityAssumption
<1> QED
  BY <1>1, <1>4, <1>5

LEMMA NoRoomStarves ==
  ASSUME Settled, Typed, Firm, NoRoomAlone, ~Stranded
  PROVE  TooLarge(hand)
<1>1. pc = "begin" /\ rows = <<>> /\ Entered(Prompt[hand]) = {} /\ pool' = Abandon(pool, HandConv)
  BY DEF NoRoomAlone
<1>2. HandConv \in Conv /\ Prompt[hand] \in Nat /\ prefilling = NoJob /\ pool \in Pool
  BY <1>1, HandIs DEF Admitting, Typed, Sound
<1>3. pool.pinned = {} /\ pool'.cur = pool.cur
  BY <1>1, <1>2, NoneBeside, AbandonPays
<1>4. \A s \in Slot \ {pool.cur} : pool.occupant[s] = NoConv
  BY <1>3 DEF Stranded
<1>5. Prompt[hand] + 1 \in Nat
  BY <1>2
<1>6. Enter(pool, HandConv, Prompt[hand] + 1, Prompt[hand]) = {}
  BY <1>1 DEF Entered
<1>7. Prompt[hand] + 1 + Withheld(pool) > Capacity
  BY <1>2, <1>3, <1>4, <1>5, <1>6, EnterAlone
<1> QED
  BY <1>1, <1>7 DEF TooLarge, Reached

LEMMA LoneStarves ==
  ASSUME Settled, Typed, Firm, LoneFails, ~Stranded
  PROVE  TooLarge(hand)
<1>1. /\ pc = "lone" /\ Grow(pool, HandConv, pos[hand] + 1) = {} /\ pool' = Abandon(pool, HandConv)
  BY DEF LoneFails
<1>2. /\ HandConv \in Conv /\ pos[hand] \in Nat /\ room[hand] \in Nat /\ prefilling = NoJob
      /\ pool \in Pool /\ rows = <<>>
  <2>1. rows = <<>>
    BY <1>1 DEF Settled, Phased
  <2> QED
    BY <1>1, <2>1, HandIs DEF Admitting, Typed, Sound
<1>3. pool.pinned = {} /\ pool'.cur = pool.cur
  BY <1>1, <1>2, NoneBeside, AbandonPays
<1>4. pool.pages[HandConv] = room[hand] /\ room[hand] > 0
  BY <1>1 DEF Firm, Seat, HandConv
<1>5. Held(pool) = {}
  <2>1. \A s \in Slot \ {pool.cur} : pool.occupant[s] \in pool.pinned \cup {NoConv}
    BY <1>3 DEF Stranded
  <2> QED
    BY <1>2, <1>3, <2>1, HeldAreRunning
<1>6. MakeRoom(pool, HandConv, (pos[hand] + 1) - pool.pages[HandConv]) = {}
  <2> DEFINE roomy == MakeRoom(pool, HandConv, (pos[hand] + 1) - pool.pages[HandConv])
  <2>1. Grow(pool, HandConv, pos[hand] + 1) = {[q EXCEPT !.pages[HandConv] = pos[hand] + 1] : q \in roomy}
    <3>1. pool.pages[HandConv] # 0
      BY <1>2, <1>4
    <3> QED
      BY <3>1 DEF Grow
  <2> HIDE DEF roomy
  <2>2. roomy = {}
    BY <1>1, <2>1
  <2> QED
    BY <2>2 DEF roomy
<1>7. Held(pool) \in SUBSET {HandConv} /\ pos[hand] + 1 \in Int
  BY <1>2, <1>5
<1>8. pos[hand] + 1 + Withheld(pool) > Capacity
  BY <1>2, <1>6, <1>7, AloneNeeds
<1> QED
  BY <1>1, <1>8 DEF TooLarge, Reached

(* A row fails for want of a page only when it is the last one: beside      *)
(* others it parks.                                                         *)
LEMMA RowStarvesAlone ==
  ASSUME Settled, Typed, Firm, NEW j \in Elems(rows), pc = "step", pos[j] >= room[j],
         LET p == Select(pool, slot[j])
         IN  /\ ~(OthersThan(j) /\ Obtainable(p) = 0)
             /\ Grow(p, ConvOf[j], pos[j] + 1) = {},
         pool'.cur = slot[j], ~Stranded
  PROVE  TooLarge(j)
<1> DEFINE p == Select(pool, slot[j])
           c == ConvOf[j]
<1>1. /\ j \in Seated /\ j \in InFlight /\ c \in Conv /\ slot[j] \in Slot /\ pos[j] \in Nat
      /\ room[j] \in Nat /\ pool \in Pool
  BY RowIs DEF Typed, Sound
<1>2. Seat(j) /\ c \in pool.pinned
  BY <1>1 DEF Firm
<1>3. /\ p \in Pool /\ p.cur = slot[j] /\ p.pages = pool.pages /\ p.occupant = pool.occupant
      /\ p.pinned = pool.pinned /\ p.charged = pool.charged
  BY <1>1, SelectIs
<1>4. p.pages[c] = room[j] /\ room[j] > 0 /\ pos[j] = room[j]
  BY <1>1, <1>2, <1>3 DEF Seat
<1>5. Grow(p, c, pos[j] + 1) = {} /\ ~(OthersThan(j) /\ Obtainable(p) = 0)
  OBVIOUS
<1>6. Unused(p) >= 0 /\ Unused(p) = Unused(pool) /\ Withheld(p) = Withheld(pool)
  <2>1. Unused(p) = Unused(pool)
    BY <1>1, SelectIs
  <2>2. Unused(pool) >= 0
    BY DEF Typed, Sound
  <2>3. Withheld(p) = Withheld(pool)
    BY <1>3 DEF Withheld
  <2> QED
    BY <2>1, <2>2, <2>3
<1> HIDE DEF p
<1>7. MakeRoom(p, c, (pos[j] + 1) - p.pages[c]) = {}
  <2> DEFINE roomy == MakeRoom(p, c, (pos[j] + 1) - p.pages[c])
  <2>1. Grow(p, c, pos[j] + 1) = {[q EXCEPT !.pages[c] = pos[j] + 1] : q \in roomy}
    <3>1. p.pages[c] # 0
      BY <1>1, <1>4
    <3> QED
      BY <3>1 DEF Grow
  <2> HIDE DEF roomy
  <2>2. roomy = {}
    BY <1>5, <2>1
  <2> QED
    BY <2>2 DEF roomy
<1>8. Held(p) = p.pinned
  <2>1. \A s \in Slot \ {p.cur} : p.occupant[s] \in p.pinned \cup {NoConv}
    BY <1>3 DEF Stranded
  <2> QED
    BY <1>3, <2>1, HeldAreRunning
<1>9. Obtainable(p) = 0
  <2>1. Held(p) \cup {c} = Held(p)
    BY <1>2, <1>3, <1>8
  <2>2. Unused(Forget(p, Idle(p, c))) = Obtainable(p)
    BY <1>1, <1>3, <2>1, DroppedIs DEF Obtainable
  <2>3. ~(Obtainable(p) >= 1)
    <3>1. (pos[j] + 1) - p.pages[c] = 1
      BY <1>1, <1>4
    <3> QED
      BY <1>3, <1>7, <2>2, <3>1, RoomMade
  <2>4. Unused(Forget(p, Idle(p, c))) >= Unused(p)
    BY <1>3, IdleIs, ForgetIs
  <2>5. Unused(p) \in Int /\ Obtainable(p) \in Int
    <3>1. Forget(p, Idle(p, c)) \in Pool
      BY <1>3, IdleIs, ForgetIs
    <3> QED
      BY <1>3, <2>2, <3>1, UnusedIs
  <2> QED
    BY <1>6, <2>2, <2>3, <2>4, <2>5
<1>10. Held(p) \in SUBSET {c}
  <2>1. Len(rows) <= 1 /\ prefilling = NoJob
    <3>1. rows \in Seq(Job)
      BY DEF Settled, Placed
    <3> QED
      BY <1>5, <1>9, <3>1 DEF OthersThan
  <2>2. \A k \in Elems(rows) : k = j
    <3>1. rows \in Seq(Job)
      BY DEF Settled, Placed
    <3> QED
      BY <2>1, <3>1 DEF Elems
  <2>3. Seated \in SUBSET {j}
    BY <2>1, <2>2 DEF Seated
  <2> QED
    BY <1>3, <1>8, <2>3 DEF Firm
<1>11. pos[j] + 1 + Withheld(pool) > Capacity
  <2>1. pos[j] + 1 \in Int
    BY <1>1
  <2> QED
    BY <1>1, <1>3, <1>6, <1>7, <1>10, <2>1, AloneNeeds
<1> QED
  BY <1>11 DEF TooLarge, Reached

LEMMA RowStarvesFor ==
  ASSUME Settled, Typed, Firm, RowStarves, ~Stranded, NEW k \in starved' \ starved
  PROVE  TooLarge(k)
<1>1. PICK i \in DOMAIN rows :
        /\ ~(OthersThan(rows[i]) /\ Obtainable(Select(pool, slot[rows[i]])) = 0)
        /\ Grow(Select(pool, slot[rows[i]]), ConvOf[rows[i]], pos[rows[i]] + 1) = {}
        /\ pos[rows[i]] >= room[rows[i]]
        /\ pool' = Abandon(Select(pool, slot[rows[i]]), ConvOf[rows[i]])
        /\ starved' = starved \cup {rows[i]}
  BY DEF RowStarves, Short, RowFails, Failed
<1>2. PICK j : j = rows[i]
  OBVIOUS
<1>3. j \in Elems(rows) /\ k = j /\ pc = "step"
  BY <1>1, <1>2 DEF Elems, RowStarves
<1>4. pool'.cur = slot[j]
  <2>1. slot[j] \in Slot /\ ConvOf[j] \in Conv /\ pool \in Pool
    BY <1>3, RowIs DEF Typed, Sound
  <2>2. Select(pool, slot[j]) \in Pool /\ Select(pool, slot[j]).cur = slot[j]
    BY <2>1, SelectIs
  <2>3. pool' = Abandon(Select(pool, slot[j]), ConvOf[j])
    BY <1>1, <1>2
  <2> QED
    BY <2>1, <2>2, <2>3, AbandonPays
<1>5. /\ pos[j] >= room[j]
      /\ ~(OthersThan(j) /\ Obtainable(Select(pool, slot[j])) = 0)
      /\ Grow(Select(pool, slot[j]), ConvOf[j], pos[j] + 1) = {}
  BY <1>1, <1>2
<1>6. TooLarge(j)
  BY <1>3, <1>4, <1>5, RowStarvesAlone
<1> QED
  BY <1>3, <1>6

(* A row comes back where its pages were counted for it, unless its slot is *)
(* charged after the count.                                                 *)
LEMMA ResumeStarves ==
  ASSUME Settled, Typed, Firm, ResumeFails, ~Stranded, ~ChargedLate, NEW k \in starved' \ starved
  PROVE  TooLarge(k)
<1> DEFINE j == Head(parked)
           c == ConvOf[j]
<1>1. pc = "resume" /\ MayResume
  BY DEF ResumeFails
<1>2. c \in Conv /\ pos[j] \in Nat /\ pos[j] + 1 \in Nat /\ pool \in Pool
  <2>1. c \in Conv /\ pos[j] \in Nat
    BY <1>1, ResumeIsHead
  <2> QED
    BY <2>1 DEF Typed, Sound
<1>3. PICK s \in ChosenSlot(pool, c) : \E q \in Charge(pool, s, c) :
        /\ pool' = Abandon(Select(q, s), c)
        /\ starved' = IF c \in resumable /\ Enter(Select(q, s), c, pos[j] + 1, pos[j]) = {}
                      THEN starved \cup {j} ELSE starved
  BY DEF ResumeFails
<1>4. PICK q \in Charge(pool, s, c) :
        /\ pool' = Abandon(Select(q, s), c)
        /\ starved' = IF c \in resumable /\ Enter(Select(q, s), c, pos[j] + 1, pos[j]) = {}
                      THEN starved \cup {j} ELSE starved
  BY <1>3
<1>5. k = j /\ Enter(Select(q, s), c, pos[j] + 1, pos[j]) = {}
  BY <1>4
<1>6. pc = "resume" /\ (Len(rows) + Beside > 0 => Obtainable(pool) >= (pos[j] + 1) + (Len(rows) + Beside))
  BY <1>1 DEF MayResume, Fits
<1> HIDE DEF c, j
<1>7. s \in Slot
  BY <1>2, ChosenIs
<1>8. q \in Pool /\ (q.charged = pool.charged => q = pool)
  BY <1>2, <1>7, ChargeIs
<1>9. Select(q, s) \in Pool /\ Select(q, s).cur = s /\ Select(q, s).charged = q.charged
  BY <1>7, <1>8, SelectIs
<1>10. pool'.cur = s /\ pool'.charged = q.charged
  BY <1>2, <1>4, <1>9, AbandonPays
<1>11. q = pool
  BY <1>1, <1>8, <1>10 DEF ChargedLate
<1> DEFINE r == Select(pool, s)
<1>12. /\ r \in Pool /\ r.cur = s /\ r.pages = pool.pages /\ r.occupant = pool.occupant
       /\ r.pinned = pool.pinned /\ r.charged = pool.charged
  BY <1>2, <1>7, SelectIs
<1>13. Enter(r, c, pos[j] + 1, pos[j]) = {}
  BY <1>5, <1>11
<1>14. Withheld(r) = Withheld(pool) /\ Withheld(pool) \in Nat
  BY <1>2, <1>12, UnusedIs DEF Withheld
<1> HIDE DEF r
<1>15. \A t \in Slot \ {s} : pool.occupant[t] \in pool.pinned \cup {NoConv}
  BY <1>10 DEF Stranded
<1>16. CASE rows = <<>> /\ prefilling = NoJob
  <2>1. pool.pinned = {}
    BY <1>16, NoneBeside
  <2>2. r.pinned = {} /\ \A t \in Slot \ {r.cur} : r.occupant[t] = NoConv
    BY <1>12, <1>15, <2>1
  <2>3. (pos[j] + 1) + Withheld(r) > Capacity
    BY <1>2, <1>12, <1>13, <2>2, EnterAlone
  <2> QED
    BY <1>5, <1>6, <1>14, <2>3 DEF TooLarge, Reached
<1>17. CASE ~(rows = <<>> /\ prefilling = NoJob)
  <2>1. Len(rows) + Beside > 0 /\ Len(rows) + Beside \in Nat
    <3>1. rows \in Seq(Job)
      BY DEF Settled, Placed
    <3> QED
      BY <1>17, <3>1 DEF Beside
  <2>2. Obtainable(pool) >= (pos[j] + 1) + (Len(rows) + Beside)
    BY <1>6, <2>1
  <2> DEFINE mine == Forget(r, {c})
  <2>3. /\ mine \in Pool /\ Capacity - PagesOf(mine, Held(mine) \cup {c}) - Withheld(r) < pos[j] + 1
        /\ PagesOf(mine, Held(mine) \cup {c}) \in Nat
    BY <1>2, <1>12, <1>13, EnterRefused
  <2>4. /\ mine.pinned = r.pinned \ {c} /\ mine.cur = s
        /\ \A d \in Conv : mine.pages[d] = IF d \in {c} THEN 0 ELSE r.pages[d]
        /\ \A t \in Slot : mine.occupant[t] = IF r.occupant[t] \in {c} THEN NoConv ELSE r.occupant[t]
    BY <1>2, <1>12, ForgetIs
  <2> HIDE DEF mine
  <2>5. Held(mine) = pool.pinned \ {c}
    <3>1. \A t \in Slot \ {mine.cur} : mine.occupant[t] \in mine.pinned \cup {NoConv}
      BY <1>12, <1>15, <2>4
    <3> QED
      BY <1>12, <2>3, <2>4, <3>1, HeldAreRunning
  <2>6. PagesOf(mine, Held(mine) \cup {c}) <= PagesOf(pool, Held(pool))
    <3>1. mine.pages \in Pages /\ pool.pages \in Pages /\ pool.pinned \in SUBSET Conv
      BY <1>2, <2>3, PoolIs
    <3>2. Held(mine) \cup {c} \in SUBSET Conv /\ Held(pool) \in SUBSET Conv
      BY <1>2, <2>3, HeldIs
    <3>3. \A d \in Held(mine) \cup {c} : mine.pages[d] > 0 => d \in Held(pool) /\ mine.pages[d] <= pool.pages[d]
      <4> SUFFICES ASSUME NEW d \in Held(mine) \cup {c}, mine.pages[d] > 0
                   PROVE  d \in Held(pool) /\ mine.pages[d] <= pool.pages[d]
        OBVIOUS
      <4>1. d \in Conv /\ d # c
        BY <1>2, <2>4, <3>2
      <4>2. mine.pages[d] = pool.pages[d] /\ pool.pages[d] \in Nat
        BY <1>2, <1>12, <2>4, <4>1, UnusedIs
      <4>3. d \in pool.pinned
        BY <2>5, <4>1
      <4> QED
        BY <4>2, <4>3 DEF Held
    <3> QED
      BY ONLY <3>1, <3>2, <3>3, SumFewer
  <2>7. PagesOf(pool, Held(pool)) \in Nat
    <3>1. Held(pool) \in SUBSET Conv /\ pool.pages \in Pages
      BY <1>2, HeldIs, PoolIs
    <3> QED
      BY <3>1, SumIs
  <2>8. Obtainable(pool) = Capacity - PagesOf(pool, Held(pool)) - Withheld(pool) /\ Capacity \in Nat
    BY CapacityAssumption DEF Obtainable
  <2>9. FALSE
    BY <1>2, <1>14, <2>1, <2>2, <2>3, <2>6, <2>7, <2>8
  <2> QED
    BY <2>9
<1> QED
  BY <1>16, <1>17

LEMMA OthersStarveNobody ==
  ASSUME [Next]_vars
  PROVE  starved' = starved \/ WaitForSlot \/ NoRoomAlone \/ LoneFails \/ RowStarves \/ ResumeFails
<1>1. \/ Loop \/ Erase \/ TrimIdle
      \/ (\E j \in Job : Submit(j)) \/ (\E o \in Outsider : Want(o)) \/ UNCHANGED vars
  BY DEF Next
<1>2. CASE Erase \/ TrimIdle \/ (\E j \in Job : Submit(j)) \/ (\E o \in Outsider : Want(o))
           \/ UNCHANGED vars
  BY <1>2 DEF Erase, TrimIdle, Served, Submit, Want, vars
<1>3. CASE Loop
  <2>1. Take \/ NoneResumes \/ Resume \/ NoneAdmitted \/ Admit \/ Charged => starved' = starved
    BY DEF Take, NoneResumes, Resume, NoneAdmitted, Admit, Charged
  <2>2. WaitForPages \/ BeginBeside \/ BeginAlone \/ GoneAtHeaders \/ BeginFails => starved' = starved
    BY DEF WaitForPages, Wait, BeginBeside, BeginAlone, GoneAtHeaders, BeginFails
  <2>3. LoneGrow \/ LoneStep \/ LoneEnd \/ HandOver => starved' = starved
    BY DEF LoneGrow, LoneStep, LoneEnd, HandOver
  <2>4. RowGrows \/ RowParks \/ ParkFails \/ Decode \/ StepFails \/ FailAll => starved' = starved
    BY DEF RowGrows, RowParks, ParkFails, Decode, StepFails, FailAll
  <2>5. EndRow \/ Dealt \/ PrefillChunk \/ JoinPrefilled \/ PrefilledEnds \/ ChunkFails \/ Yield
          => starved' = starved
    BY DEF EndRow, Dealt, PrefillChunk, JoinPrefilled, PrefilledEnds, ChunkFails, LastChunk, Yield
  <2> QED
    BY <1>3, <2>1, <2>2, <2>3, <2>4, <2>5 DEF Loop
<1> QED
  BY <1>1, <1>2, <1>3

LEMMA NobodyStarves ==
  ASSUME Provided, [Next]_vars, NEW k \in starved' \ starved
  PROVE  cold \/ TooLarge(k) \/ Stranded \/ ChargedLate
<1> SUFFICES ASSUME ~cold, ~Stranded, ~ChargedLate PROVE TooLarge(k)
  OBVIOUS
<1>1. Settled /\ Typed /\ Firm /\ Dues /\ InTurn
  BY DEF Provided, Running
<1>2. WaitForSlot \/ NoRoomAlone \/ LoneFails \/ RowStarves \/ ResumeFails
  BY OthersStarveNobody
<1>3. CASE WaitForSlot
  BY <1>1, <1>3, SlotWaits
<1>4. CASE NoRoomAlone
  <2>1. TooLarge(hand)
    BY <1>1, <1>4, NoRoomStarves
  <2>2. k = hand
    BY <1>4 DEF NoRoomAlone
  <2> QED
    BY <2>1, <2>2
<1>5. CASE LoneFails
  <2>1. TooLarge(hand)
    BY <1>1, <1>5, LoneStarves
  <2>2. k = hand
    BY <1>5 DEF LoneFails
  <2> QED
    BY <2>1, <2>2
<1>6. CASE RowStarves
  BY <1>1, <1>6, RowStarvesFor
<1>7. CASE ResumeFails
  BY <1>1, <1>7, ResumeStarves
<1> QED
  BY <1>2, <1>3, <1>4, <1>5, <1>6, <1>7

(* Nobody is failed or refused for want of a page or a slot that could have *)
(* it (the checks of admit, step and resume in sched.rs, and the refusal of *)
(* main.rs): whoever is, does not fit in the tier with nobody beside it,    *)
(* unless an idle conversation is stranded in a slot that is not selected,  *)
(* the row resumed into a slot charged after the count, or some begin has   *)
(* failed before.                                                           *)
THEOREM NobodyIsShortOfRoom == Spec => NeverShortOfRoom
<1> DEFINE Spared == \A j \in starved' \ starved : cold \/ TooLarge(j) \/ Stranded \/ ChargedLate
<1>1. Spec => []Provided
  BY ProvidedHolds
<1>2. Provided /\ [Next]_vars => [Spared]_vars
  BY NobodyStarves
<1> HIDE DEF Spared
<1>3. Spec => [][Spared]_vars
  BY <1>1, <1>2, PTL DEF Spec
<1> QED
  BY <1>3 DEF NeverShortOfRoom, Spared
=============================================================================
