--------------------------- MODULE StoreIndexProofs ---------------------------
(* StoreIndex for any number of conversations, streams, commits, sweeps,    *)
(* kills and lookups.                                                       *)
EXTENDS StoreIndex, FiniteSetTheorems, WellFoundedInduction, TLAPS

-----------------------------------------------------------------------------
(* Induction and recursion over the naturals.                               *)

(* Induction, over a set instead of a predicate.                            *)
LEMMA SetInduction ==
  ASSUME NEW S, 0 \in S, \A n \in Nat : n \in S => n + 1 \in S
  PROVE  Nat \subseteq S
<1> DEFINE R == OpToRel(<, Nat)
<1>1. IsWellFoundedOn(R, Nat)
  BY NatLessThanWellFounded
<1>2. \A x, y \in Nat : x < y => <<x, y>> \in R
  BY DEF OpToRel
<1> HIDE DEF R
<1>3. SUFFICES ASSUME Nat \ S # {} PROVE FALSE
  OBVIOUS
<1>4. \E x \in Nat \ S : \A y \in Nat \ S : ~ (<<y, x>> \in R)
  <2>1. Nat \ S \subseteq Nat
    OBVIOUS
  <2> QED
    BY <1>1, <1>3, <2>1, WFMin
<1>5. PICK n \in Nat \ S : \A y \in Nat \ S : ~ (<<y, n>> \in R)
  BY <1>4
<1>6. n # 0 /\ n - 1 \in Nat /\ n - 1 < n
  OBVIOUS
<1>7. <<n - 1, n>> \in R
  BY <1>2, <1>6
<1>8. n - 1 \in S
  BY <1>5, <1>6, <1>7
<1> QED
  BY <1>6, <1>8

(* A recursion of n steps over a set A defines a function.                  *)
LEMMA Recursion ==
  ASSUME NEW A, NEW a \in A, NEW n \in Nat, NEW G \in [1..n -> [A -> A]]
  PROVE  \E f \in [0..n -> A] : f[0] = a /\ \A i \in 1..n : f[i] = G[i][f[i - 1]]
<1> DEFINE Upto(k) == k <= n => \E f \in [0..k -> A] : f[0] = a /\ \A i \in 1..k : f[i] = G[i][f[i - 1]]
           S == {k \in Nat : Upto(k)}
<1>1. 0 \in S
  <2>1. /\ [i \in 0..0 |-> a] \in [0..0 -> A] /\ [i \in 0..0 |-> a][0] = a
        /\ \A i \in 1..0 : [j \in 0..0 |-> a][i] = G[i][[j \in 0..0 |-> a][i - 1]]
    OBVIOUS
  <2> QED
    BY <2>1
<1>2. ASSUME NEW k \in Nat, k \in S PROVE k + 1 \in S
  <2> SUFFICES ASSUME k + 1 <= n
               PROVE  \E f \in [0..k + 1 -> A] : f[0] = a /\ \A i \in 1..k + 1 : f[i] = G[i][f[i - 1]]
    OBVIOUS
  <2>1. PICK f \in [0..k -> A] : f[0] = a /\ \A i \in 1..k : f[i] = G[i][f[i - 1]]
    BY <1>2
  <2> DEFINE g == [i \in 0..k + 1 |-> IF i <= k THEN f[i] ELSE G[k + 1][f[k]]]
  <2>2. g \in [0..k + 1 -> A]
    <3>1. G[k + 1] \in [A -> A] /\ f[k] \in A
      BY <2>1
    <3> QED BY <3>1, <2>1
  <2>3. g[0] = a /\ \A i \in 1..k + 1 : g[i] = G[i][g[i - 1]]
    BY <2>1
  <2> QED
    BY <2>2, <2>3
<1> HIDE DEF S
<1>3. Nat \subseteq S
  BY <1>1, <1>2, SetInduction
<1> QED
  BY <1>3 DEF S

-----------------------------------------------------------------------------
(* What lines say.  The parse of a file is a fold over its lines; of a      *)
(* conversation they say the prefixes claimed for it since it was last      *)
(* retracted.                                                               *)

Maps == [Name -> SUBSET Stream]

Retracts(x, n) == x.kind = "gone" /\ x.name = n
Claims(x, p, n) == x.kind = "at" /\ x.name = n /\ x.prefix = p
Retracted(lines, i, n) == \E j \in 1..i : Retracts(lines[j], n)
Claimed(lines, i, n) ==
  {p \in Stream : \E j \in 1..i : Claims(lines[j], p, n) /\ \A k \in (j + 1)..i : ~Retracts(lines[k], n)}

LEMMA LineIs ==
  ASSUME NEW x \in Line
  PROVE  /\ x.name \in Name /\ x.kind \in {"at", "gone"}
         /\ x.kind = "at" => x.prefix \in Stream /\ x = At(x.prefix, x.name)
         /\ x.kind = "gone" => x = Gone(x.name)
  BY DEF Line, At, Gone

LEMMA SaysOfLines ==
  /\ \A p \in Stream, n \in Name : At(p, n) \in Line
  /\ \A n \in Name : Gone(n) \in Line
  /\ \A p, q, m, n : Claims(At(p, m), q, n) <=> p = q /\ m = n
  /\ \A p, m, n : ~Retracts(At(p, m), n)
  /\ \A q, m, n : ~Claims(Gone(m), q, n)
  /\ \A m, n : Retracts(Gone(m), n) <=> m = n
<1>1. (\A p \in Stream, n \in Name : At(p, n) \in Line) /\ (\A n \in Name : Gone(n) \in Line)
  BY DEF Line
<1>2. \A p, q, m, n : Claims(At(p, m), q, n) <=> p = q /\ m = n
  BY DEF At, Claims
<1>3. (\A p, m, n : ~Retracts(At(p, m), n)) /\ (\A m, n : Retracts(Gone(m), n) <=> m = n)
  BY DEF At, Gone, Retracts
<1>4. \A q, m, n : ~Claims(Gone(m), q, n)
  BY DEF Gone, Claims
<1> QED
  BY <1>1, <1>2, <1>3, <1>4

LEMMA ApplyIs ==
  ASSUME NEW map \in Maps, NEW x \in Line
  PROVE  /\ Apply(map, x) \in Maps
         /\ \A n \in Name : Apply(map, x)[n] =
              IF Retracts(x, n) THEN {} ELSE map[n] \cup {p \in Stream : Claims(x, p, n)}
<1>1. /\ x.name \in Name /\ x.kind \in {"at", "gone"} /\ (x.kind = "at" => x.prefix \in Stream)
  BY LineIs
<1>2. Apply(map, x) \in Maps
  BY <1>1 DEF Apply, Maps
<1>3. ASSUME NEW n \in Name
      PROVE  Apply(map, x)[n] =
               IF Retracts(x, n) THEN {} ELSE map[n] \cup {p \in Stream : Claims(x, p, n)}
  <2>1. Apply(map, x)[n] = IF n # x.name THEN map[n]
                           ELSE IF x.kind = "gone" THEN {} ELSE map[n] \union {x.prefix}
    BY DEF Apply
  <2>2. CASE n # x.name
    BY <2>1, <2>2 DEF Retracts, Claims
  <2>3. CASE n = x.name /\ x.kind = "gone"
    BY <2>1, <2>3 DEF Retracts
  <2>4. CASE n = x.name /\ x.kind = "at"
    <3>1. {p \in Stream : Claims(x, p, n)} = {x.prefix}
      BY <1>1, <2>4 DEF Claims
    <3> QED
      BY <2>1, <2>4, <3>1 DEF Retracts
  <2> QED
    BY <1>1, <2>2, <2>3, <2>4
<1> QED
  BY <1>2, <1>3

(* One line more.                                                           *)
LEMMA OneLineMore ==
  ASSUME NEW lines \in Seq(Line), NEW i \in Nat, i + 1 <= Len(lines), NEW n \in Name
  PROVE  /\ Retracted(lines, i + 1, n) <=> Retracted(lines, i, n) \/ Retracts(lines[i + 1], n)
         /\ Claimed(lines, i + 1, n) =
              IF Retracts(lines[i + 1], n) THEN {}
              ELSE Claimed(lines, i, n) \cup {p \in Stream : Claims(lines[i + 1], p, n)}
<1>1. \A j : j \in 1..(i + 1) <=> j \in 1..i \/ j = i + 1
  OBVIOUS
<1>2. \A j \in 1..i : \A k : k \in (j + 1)..(i + 1) <=> k \in (j + 1)..i \/ k = i + 1
  OBVIOUS
<1>3. \A k : k \notin (i + 1 + 1)..(i + 1)
  OBVIOUS
<1>4. Retracted(lines, i + 1, n) <=> Retracted(lines, i, n) \/ Retracts(lines[i + 1], n)
  BY <1>1 DEF Retracted
<1>5. CASE Retracts(lines[i + 1], n)
  <2>1. \A p : ~Claims(lines[i + 1], p, n)
    BY <1>5 DEF Claims, Retracts
  <2>2. ASSUME NEW p \in Claimed(lines, i + 1, n) PROVE FALSE
    BY <1>1, <1>2, <1>5, <2>1, <2>2 DEF Claimed
  <2> QED
    BY <1>4, <1>5, <2>2
<1>6. CASE ~Retracts(lines[i + 1], n)
  <2>1. ASSUME NEW p \in Stream
        PROVE  p \in Claimed(lines, i + 1, n) <=> p \in Claimed(lines, i, n) \/ Claims(lines[i + 1], p, n)
    BY <1>1, <1>2, <1>3, <1>6 DEF Claimed
  <2>2. Claimed(lines, i + 1, n) \in SUBSET Stream /\ Claimed(lines, i, n) \in SUBSET Stream
    BY DEF Claimed
  <2> QED
    BY <1>4, <1>6, <2>1, <2>2
<1> QED
  BY <1>5, <1>6

LEMMA Parsing ==
  ASSUME NEW map \in Maps, NEW n \in Nat, NEW H \in [1..n -> [Maps -> Maps]]
  PROVE  \E f \in [0..n -> Maps] : f[0] = map /\ \A i \in 1..n : f[i] = H[i][f[i - 1]]
  BY Recursion

LEMMA ReplayIs ==
  ASSUME NEW map \in Maps, NEW lines \in Seq(Line)
  PROVE  /\ Replay(map, lines) \in Maps
         /\ \A n \in Name : Replay(map, lines)[n] =
              (IF Retracted(lines, Len(lines), n) THEN {} ELSE map[n]) \cup Claimed(lines, Len(lines), n)
<1> DEFINE G == [i \in 1..Len(lines) |-> [x \in Maps |-> Apply(x, lines[i])]]
           after == CHOOSE f : f = [i \in 0..Len(lines) |->
                                     IF i = 0 THEN map ELSE Apply(f[i - 1], lines[i])]
<1>0. Replay(map, lines) = after[Len(lines)]
  BY DEF Replay
<1>1. Len(lines) \in Nat /\ \A i \in 1..Len(lines) : lines[i] \in Line
  OBVIOUS
<1>2. \A x \in Maps, i \in 1..Len(lines) : Apply(x, lines[i]) \in Maps
  BY <1>1, ApplyIs
<1>3. PICK f \in [0..Len(lines) -> Maps] : f[0] = map /\ \A i \in 1..Len(lines) : f[i] = G[i][f[i - 1]]
  <2>1. PICK H : H = G
    OBVIOUS
  <2>2. H \in [1..Len(lines) -> [Maps -> Maps]]
    BY <1>2, <2>1
  <2> HIDE DEF G
  <2>3. \E f \in [0..Len(lines) -> Maps] : f[0] = map /\ \A i \in 1..Len(lines) : f[i] = H[i][f[i - 1]]
    BY <1>1, <2>2, Parsing, Zenon
  <2> QED
    BY <2>1, <2>3
<1>4. \A i \in 1..Len(lines) : i - 1 \in 0..Len(lines) /\ f[i] = Apply(f[i - 1], lines[i])
  <2>1. Len(lines) \in Nat
    BY <1>1
  <2>2. \A i \in 1..Len(lines) : i - 1 \in 0..Len(lines)
    BY <2>1
  <2> QED
    BY <1>3, <2>2
<1>5. f = [i \in 0..Len(lines) |-> IF i = 0 THEN map ELSE Apply(f[i - 1], lines[i])]
  <2>1. \A i \in 0..Len(lines) : f[i] = IF i = 0 THEN map ELSE Apply(f[i - 1], lines[i])
    <3> SUFFICES ASSUME NEW i \in 0..Len(lines), i # 0 PROVE f[i] = Apply(f[i - 1], lines[i])
      BY <1>3
    <3>1. i \in 1..Len(lines)
      BY <1>1
    <3> QED BY <3>1, <1>4, Zenon
  <2> QED BY <2>1
<1>6. after = [i \in 0..Len(lines) |-> IF i = 0 THEN map ELSE Apply(after[i - 1], lines[i])]
  BY <1>5
<1> HIDE DEF after
<1>7. after[0] = map /\ \A i \in 1..Len(lines) : after[i] = Apply(after[i - 1], lines[i])
  <2>1. after[0] = map
    BY <1>6, <1>1
  <2>2. ASSUME NEW i \in 1..Len(lines) PROVE after[i] = Apply(after[i - 1], lines[i])
    <3>1. i \in 0..Len(lines) /\ i # 0
      BY <1>1
    <3>2. after[i] = IF i = 0 THEN map ELSE Apply(after[i - 1], lines[i])
      BY <3>1, <1>6, Zenon
    <3> QED BY <3>1, <3>2, Zenon
  <2> QED BY <2>1, <2>2
<1> DEFINE Right(i) == /\ after[i] \in Maps
                       /\ \A n \in Name : after[i][n] =
                            (IF Retracted(lines, i, n) THEN {} ELSE map[n]) \cup Claimed(lines, i, n)
<1>8. \A i \in Nat : i <= Len(lines) => Right(i)
  <2> DEFINE I == {i \in Nat : i <= Len(lines) => Right(i)}
  <2>1. 0 \in I
    <3>1. ASSUME NEW n \in Name PROVE ~Retracted(lines, 0, n) /\ Claimed(lines, 0, n) = {}
      BY DEF Retracted, Claimed
    <3>2. Right(0)
      BY <1>7, <3>1
    <3> QED
      BY <3>2
  <2>2. ASSUME NEW i \in Nat, i \in I PROVE i + 1 \in I
    <3> SUFFICES ASSUME i + 1 <= Len(lines) PROVE Right(i + 1)
      OBVIOUS
    <3>1. Right(i)
      BY <2>2, <1>1
    <3>2. i + 1 \in 1..Len(lines) /\ (i + 1) - 1 = i /\ lines[i + 1] \in Line
      BY <1>1
    <3>3. after[i + 1] = Apply(after[i], lines[i + 1])
      BY <3>2, <1>7
    <3>4. /\ after[i + 1] \in Maps
          /\ \A n \in Name : after[i + 1][n] =
               IF Retracts(lines[i + 1], n) THEN {}
               ELSE after[i][n] \cup {p \in Stream : Claims(lines[i + 1], p, n)}
      BY <3>1, <3>2, <3>3, ApplyIs
    <3>5. ASSUME NEW n \in Name
          PROVE  after[i + 1][n] =
                   (IF Retracted(lines, i + 1, n) THEN {} ELSE map[n]) \cup Claimed(lines, i + 1, n)
      <4>1. after[i][n] = (IF Retracted(lines, i, n) THEN {} ELSE map[n]) \cup Claimed(lines, i, n)
        BY <3>1
      <4>2. /\ Retracted(lines, i + 1, n) <=> Retracted(lines, i, n) \/ Retracts(lines[i + 1], n)
            /\ Claimed(lines, i + 1, n) =
                 IF Retracts(lines[i + 1], n) THEN {}
                 ELSE Claimed(lines, i, n) \cup {p \in Stream : Claims(lines[i + 1], p, n)}
        BY OneLineMore
      <4>3. after[i + 1][n] = IF Retracts(lines[i + 1], n) THEN {}
               ELSE after[i][n] \cup {p \in Stream : Claims(lines[i + 1], p, n)}
        BY <3>4
      <4>4. CASE Retracts(lines[i + 1], n)
        BY <4>2, <4>3, <4>4
      <4>5. CASE ~Retracts(lines[i + 1], n)
        BY <4>1, <4>2, <4>3, <4>5
      <4> QED
        BY <4>4, <4>5
    <3> QED
      BY <3>4, <3>5
  <2> HIDE DEF I
  <2>3. Nat \subseteq I
    BY <2>1, <2>2, SetInduction
  <2> QED
    BY <2>3 DEF I
<1>9. Right(Len(lines))
  <2> HIDE DEF Right
  <2> QED
    BY <1>1, <1>8
<1> QED
  BY <1>0, <1>9

Retracting(lines, n) == Retracted(lines, Len(lines), n)
Said(lines, n) == Claimed(lines, Len(lines), n)

LEMMA ReplaySays ==
  ASSUME NEW map \in Maps, NEW lines \in Seq(Line), NEW n \in Name
  PROVE  /\ Replay(map, lines) \in Maps
         /\ Replay(map, lines)[n] = (IF Retracting(lines, n) THEN {} ELSE map[n]) \cup Said(lines, n)
  BY ReplayIs DEF Retracting, Said

LEMMA NothingIs == Nothing \in Maps /\ \A n \in Name : Nothing[n] = {}
  BY DEF Nothing, Maps

LEMMA FileSays ==
  ASSUME NEW lines \in Seq(Line), NEW n \in Name
  PROVE  Replay(Nothing, lines) \in Maps /\ Replay(Nothing, lines)[n] = Said(lines, n)
<1>1. /\ Replay(Nothing, lines) \in Maps
      /\ Replay(Nothing, lines)[n] = (IF Retracting(lines, n) THEN {} ELSE Nothing[n]) \cup Said(lines, n)
  BY NothingIs, ReplaySays
<1> QED
  BY <1>1, NothingIs

LEMMA NoLines ==
  ASSUME NEW n \in Name
  PROVE  ~Retracting(<<>>, n) /\ Said(<<>>, n) = {}
<1>1. Len(<<>>) = 0 /\ 1..0 = {}
  OBVIOUS
<1> QED
  BY <1>1 DEF Retracting, Said, Retracted, Claimed

(* One behind the other.                                                    *)
LEMMA JoinIs ==
  ASSUME NEW T, NEW a \in Seq(T), NEW b \in Seq(T)
  PROVE  /\ a \o b \in Seq(T) /\ Len(a \o b) = Len(a) + Len(b)
         /\ \A i \in 1..Len(a) : i \in 1..Len(a \o b) /\ (a \o b)[i] = a[i]
         /\ \A i \in 1..Len(b) : Len(a) + i \in 1..Len(a \o b) /\ (a \o b)[Len(a) + i] = b[i]
         /\ \A i \in 1..Len(a \o b) : i \in 1..Len(a) \/ \E k \in 1..Len(b) : i = Len(a) + k
<1>1. a \o b \in Seq(T) /\ Len(a \o b) = Len(a) + Len(b) /\ Len(a) \in Nat /\ Len(b) \in Nat
  OBVIOUS
<1>2. \A i \in 1..Len(a) : i \in 1..Len(a \o b) /\ (a \o b)[i] = a[i]
  OBVIOUS
<1>3. \A i \in 1..Len(b) : Len(a) + i \in 1..Len(a \o b) /\ (a \o b)[Len(a) + i] = b[i]
  OBVIOUS
<1>4. \A i \in 1..Len(a \o b) : i \in 1..Len(a) \/ \E k \in 1..Len(b) : i = Len(a) + k
  <2> SUFFICES ASSUME NEW i \in 1..Len(a \o b), i \notin 1..Len(a)
               PROVE  \E k \in 1..Len(b) : i = Len(a) + k
    OBVIOUS
  <2>1. i - Len(a) \in 1..Len(b) /\ i = Len(a) + (i - Len(a))
    BY <1>1
  <2> QED
    BY <2>1
<1> QED
  BY <1>1, <1>2, <1>3, <1>4

LEMMA JoinRetracts ==
  ASSUME NEW a \in Seq(Line), NEW b \in Seq(Line), NEW n \in Name
  PROVE  Retracting(a \o b, n) <=> Retracting(a, n) \/ Retracting(b, n)
<1>1. /\ \A i \in 1..Len(a) : i \in 1..Len(a \o b) /\ (a \o b)[i] = a[i]
      /\ \A i \in 1..Len(b) : Len(a) + i \in 1..Len(a \o b) /\ (a \o b)[Len(a) + i] = b[i]
      /\ \A i \in 1..Len(a \o b) : i \in 1..Len(a) \/ \E k \in 1..Len(b) : i = Len(a) + k
  BY JoinIs
<1>2. ASSUME Retracting(a \o b, n) PROVE Retracting(a, n) \/ Retracting(b, n)
  <2>1. PICK i \in 1..Len(a \o b) : Retracts((a \o b)[i], n)
    BY <1>2 DEF Retracting, Retracted
  <2>2. CASE i \in 1..Len(a)
    BY <1>1, <2>1, <2>2 DEF Retracting, Retracted
  <2>3. CASE \E k \in 1..Len(b) : i = Len(a) + k
    BY <1>1, <2>1, <2>3 DEF Retracting, Retracted
  <2> QED
    BY <1>1, <2>2, <2>3
<1>3. ASSUME Retracting(a, n) PROVE Retracting(a \o b, n)
  <2>1. PICK i \in 1..Len(a) : Retracts(a[i], n)
    BY <1>3 DEF Retracting, Retracted
  <2>2. i \in 1..Len(a \o b) /\ (a \o b)[i] = a[i]
    BY <1>1
  <2> QED
    BY <2>1, <2>2 DEF Retracting, Retracted
<1>4. ASSUME Retracting(b, n) PROVE Retracting(a \o b, n)
  <2>1. PICK i \in 1..Len(b) : Retracts(b[i], n)
    BY <1>4 DEF Retracting, Retracted
  <2>2. Len(a) + i \in 1..Len(a \o b) /\ (a \o b)[Len(a) + i] = b[i]
    BY <1>1
  <2> QED
    BY <2>1, <2>2 DEF Retracting, Retracted
<1> QED
  BY <1>2, <1>3, <1>4

LEMMA JoinSays ==
  ASSUME NEW a \in Seq(Line), NEW b \in Seq(Line), NEW n \in Name
  PROVE  Said(a \o b, n) = (IF Retracting(b, n) THEN {} ELSE Said(a, n)) \cup Said(b, n)
<1> DEFINE c == a \o b
<1>1. /\ \A i \in 1..Len(a) : i \in 1..Len(c) /\ c[i] = a[i]
      /\ \A i \in 1..Len(b) : Len(a) + i \in 1..Len(c) /\ c[Len(a) + i] = b[i]
      /\ \A i \in 1..Len(c) : i \in 1..Len(a) \/ \E k \in 1..Len(b) : i = Len(a) + k
      /\ Len(c) = Len(a) + Len(b)
  BY JoinIs
<1>2. Len(a) \in Nat /\ Len(b) \in Nat
  OBVIOUS
<1> HIDE DEF c
<1>3. ASSUME NEW p \in Said(c, n)
      PROVE  p \in (IF Retracting(b, n) THEN {} ELSE Said(a, n)) \cup Said(b, n)
  <2>1. PICK j \in 1..Len(c) : Claims(c[j], p, n) /\ \A k \in (j + 1)..Len(c) : ~Retracts(c[k], n)
    BY <1>3 DEF Said, Claimed
  <2>2. p \in Stream
    BY <1>3 DEF Said, Claimed
  <2>3. CASE j \in 1..Len(a)
    <3>1. ~Retracting(b, n)
      <4> SUFFICES ASSUME NEW k \in 1..Len(b), Retracts(b[k], n) PROVE FALSE
        BY DEF Retracting, Retracted
      <4>1. Len(a) + k \in (j + 1)..Len(c) /\ c[Len(a) + k] = b[k]
        BY <1>1, <1>2, <2>3
      <4> QED
        BY <2>1, <4>1
    <3>2. \A k \in (j + 1)..Len(a) : ~Retracts(a[k], n)
      <4> SUFFICES ASSUME NEW k \in (j + 1)..Len(a) PROVE ~Retracts(a[k], n)
        OBVIOUS
      <4>1. k \in 1..Len(a) /\ k \in (j + 1)..Len(c)
        BY <1>1, <1>2, <2>3
      <4> QED
        BY <1>1, <2>1, <4>1
    <3>3. Claims(a[j], p, n)
      BY <1>1, <2>1, <2>3
    <3>4. p \in Said(a, n)
      BY <2>2, <2>3, <3>2, <3>3 DEF Said, Claimed
    <3> QED
      BY <3>1, <3>4
  <2>4. CASE \E i \in 1..Len(b) : j = Len(a) + i
    <3>1. PICK i \in 1..Len(b) : j = Len(a) + i
      BY <2>4
    <3>2. \A k \in (i + 1)..Len(b) : ~Retracts(b[k], n)
      <4> SUFFICES ASSUME NEW k \in (i + 1)..Len(b) PROVE ~Retracts(b[k], n)
        OBVIOUS
      <4>1. k \in 1..Len(b) /\ Len(a) + k \in (j + 1)..Len(c)
        BY <1>1, <1>2, <3>1
      <4> QED
        BY <1>1, <2>1, <4>1
    <3>3. Claims(b[i], p, n)
      BY <1>1, <2>1, <3>1
    <3> QED
      BY <2>2, <3>2, <3>3 DEF Said, Claimed
  <2> QED
    BY <1>1, <2>3, <2>4
<1>4. ASSUME NEW p \in Said(b, n) PROVE p \in Said(c, n)
  <2>1. PICK i \in 1..Len(b) : Claims(b[i], p, n) /\ \A k \in (i + 1)..Len(b) : ~Retracts(b[k], n)
    BY <1>4 DEF Said, Claimed
  <2>2. p \in Stream
    BY <1>4 DEF Said, Claimed
  <2>3. Len(a) + i \in 1..Len(c) /\ Claims(c[Len(a) + i], p, n)
    BY <1>1, <2>1
  <2>4. \A k \in (Len(a) + i + 1)..Len(c) : ~Retracts(c[k], n)
    <3> SUFFICES ASSUME NEW k \in (Len(a) + i + 1)..Len(c) PROVE ~Retracts(c[k], n)
      OBVIOUS
    <3>1. k - Len(a) \in (i + 1)..Len(b) /\ k - Len(a) \in 1..Len(b) /\ k = Len(a) + (k - Len(a))
      BY <1>1, <1>2
    <3> QED
      BY <1>1, <2>1, <3>1
  <2> QED
    BY <2>2, <2>3, <2>4 DEF Said, Claimed
<1>5. ASSUME ~Retracting(b, n), NEW p \in Said(a, n) PROVE p \in Said(c, n)
  <2>1. PICK i \in 1..Len(a) : Claims(a[i], p, n) /\ \A k \in (i + 1)..Len(a) : ~Retracts(a[k], n)
    BY <1>5 DEF Said, Claimed
  <2>2. p \in Stream
    BY <1>5 DEF Said, Claimed
  <2>3. i \in 1..Len(c) /\ Claims(c[i], p, n)
    BY <1>1, <2>1
  <2>4. \A k \in (i + 1)..Len(c) : ~Retracts(c[k], n)
    <3> SUFFICES ASSUME NEW k \in (i + 1)..Len(c) PROVE ~Retracts(c[k], n)
      OBVIOUS
    <3>1. k \in 1..Len(c) /\ k \in Nat
      BY <1>1, <1>2
    <3>2. CASE k \in 1..Len(a)
      BY <1>1, <2>1, <3>2
    <3>3. CASE \E m \in 1..Len(b) : k = Len(a) + m
      BY <1>1, <1>5, <3>3 DEF Retracting, Retracted
    <3> QED
      BY <1>1, <3>1, <3>2, <3>3
  <2> QED
    BY <2>2, <2>3, <2>4 DEF Said, Claimed
<1> QED
  BY <1>3, <1>4, <1>5 DEF c

LEMMA JoinedSays ==
  ASSUME NEW map \in Maps, NEW a \in Seq(Line), NEW b \in Seq(Line), NEW n \in Name
  PROVE  Replay(map, a \o b)[n] =
           (IF Retracting(a, n) \/ Retracting(b, n) THEN {} ELSE map[n])
             \cup (IF Retracting(b, n) THEN {} ELSE Said(a, n)) \cup Said(b, n)
<1>1. a \o b \in Seq(Line)
  OBVIOUS
<1>2. Replay(map, a \o b)[n] = (IF Retracting(a \o b, n) THEN {} ELSE map[n]) \cup Said(a \o b, n)
  BY <1>1, ReplaySays
<1> QED
  BY <1>2, JoinRetracts, JoinSays

LEMMA ReplayJoin ==
  ASSUME NEW map \in Maps, NEW a \in Seq(Line), NEW b \in Seq(Line), NEW n \in Name
  PROVE  Replay(Replay(map, a), b)[n] = Replay(map, a \o b)[n]
<1>1. /\ Replay(map, a) \in Maps
      /\ Replay(map, a)[n] = (IF Retracting(a, n) THEN {} ELSE map[n]) \cup Said(a, n)
  BY ReplaySays
<1>2. Replay(Replay(map, a), b)[n] = (IF Retracting(b, n) THEN {} ELSE Replay(map, a)[n]) \cup Said(b, n)
  BY <1>1, ReplaySays
<1> QED
  BY <1>1, <1>2, JoinedSays

(* A parse that took in lines already and is given them again.              *)
LEMMA ReplayTwice ==
  ASSUME NEW map \in Maps, NEW a \in Seq(Line), NEW b \in Seq(Line), NEW n \in Name
  PROVE  Replay(Replay(map, b), a \o b)[n] = Replay(map, a \o b)[n]
<1>1. /\ Replay(map, b) \in Maps
      /\ Replay(map, b)[n] = (IF Retracting(b, n) THEN {} ELSE map[n]) \cup Said(b, n)
  BY ReplaySays
<1>2. Replay(Replay(map, b), a \o b)[n] =
        (IF Retracting(a, n) \/ Retracting(b, n) THEN {} ELSE Replay(map, b)[n])
          \cup (IF Retracting(b, n) THEN {} ELSE Said(a, n)) \cup Said(b, n)
  BY <1>1, JoinedSays
<1> QED
  BY <1>1, <1>2, JoinedSays

(* A parse that says what the file says is not changed by any end of it.    *)
LEMMA SplitIs ==
  ASSUME NEW T, NEW s \in Seq(T), NEW k \in 0..Len(s)
  PROVE  /\ SubSeq(s, 1, k) \in Seq(T) /\ SubSeq(s, k + 1, Len(s)) \in Seq(T)
         /\ s = SubSeq(s, 1, k) \o SubSeq(s, k + 1, Len(s))
<1> DEFINE a == SubSeq(s, 1, k)
           b == SubSeq(s, k + 1, Len(s))
<1>1. a \in Seq(T) /\ Len(a) = k
  OBVIOUS
<1>2. b \in Seq(T) /\ Len(b) = Len(s) - k
  OBVIOUS
<1>3. ASSUME NEW i \in 1..k PROVE a[i] = s[i]
  OBVIOUS
<1>4. ASSUME NEW i \in 1..(Len(s) - k) PROVE b[i] = s[k + i]
  <2>1. i \in 1..(Len(s) - (k + 1) + 1) /\ i + (k + 1) - 1 = k + i
    OBVIOUS
  <2>2. b[i] = s[i + (k + 1) - 1]
    BY <2>1
  <2> QED
    BY <2>1, <2>2
<1>0. Len(s) \in Nat /\ k \in Nat
  OBVIOUS
<1> HIDE DEF a, b
<1> DEFINE c == a \o b
<1>50. a \in Seq(T) /\ b \in Seq(T)
  BY <1>1, <1>2
<1>51. /\ a \o b \in Seq(T) /\ Len(a \o b) = Len(a) + Len(b)
       /\ \A i \in 1..Len(a) : i \in 1..Len(a \o b) /\ (a \o b)[i] = a[i]
       /\ \A i \in 1..Len(b) : Len(a) + i \in 1..Len(a \o b) /\ (a \o b)[Len(a) + i] = b[i]
       /\ \A i \in 1..Len(a \o b) : i \in 1..Len(a) \/ \E m \in 1..Len(b) : i = Len(a) + m
  BY ONLY <1>50, JoinIs
<1>5. /\ c \in Seq(T) /\ Len(c) = Len(a) + Len(b)
      /\ \A i \in 1..Len(a) : c[i] = a[i]
      /\ \A i \in 1..Len(b) : c[Len(a) + i] = b[i]
      /\ \A i \in 1..Len(c) : i \in 1..Len(a) \/ \E m \in 1..Len(b) : i = Len(a) + m
  BY <1>51
<1> HIDE DEF c
<1>6. Len(c) = Len(s)
  BY <1>0, <1>1, <1>2, <1>5
<1>7. ASSUME NEW i \in 1..Len(s) PROVE s[i] = c[i]
  <2>1. CASE i \in 1..Len(a)
    BY <1>1, <1>3, <1>5, <2>1
  <2>2. CASE \E m \in 1..Len(b) : i = Len(a) + m
    BY <1>1, <1>2, <1>4, <1>5, <2>2
  <2> QED
    BY <1>5, <1>6, <2>1, <2>2
<1>8. s = c
  BY <1>5, <1>6, <1>7
<1> QED
  BY <1>1, <1>2, <1>8 DEF a, b, c

LEMMA ReplayEnd ==
  ASSUME NEW map \in Maps, NEW lines \in Seq(Line), NEW k \in Nat, NEW n \in Name,
         map[n] = Said(lines, n)
  PROVE  Replay(map, SubSeq(lines, k + 1, Len(lines)))[n] = Said(lines, n)
<1> DEFINE suf == SubSeq(lines, k + 1, Len(lines))
           pre == SubSeq(lines, 1, k)
<1>1. CASE k <= Len(lines)
  <2>1. suf \in Seq(Line) /\ pre \in Seq(Line) /\ lines = pre \o suf
    <3>1. k \in 0..Len(lines)
      BY <1>1
    <3> QED
      BY <3>1, SplitIs
  <2> HIDE DEF suf, pre
  <2>2. Said(lines, n) = (IF Retracting(suf, n) THEN {} ELSE Said(pre, n)) \cup Said(suf, n)
    BY <2>1, JoinSays
  <2>3. Replay(map, suf)[n] = (IF Retracting(suf, n) THEN {} ELSE map[n]) \cup Said(suf, n)
    BY <2>1, ReplaySays
  <2>4. Replay(map, suf)[n] = Said(lines, n)
    BY <2>2, <2>3
  <2> QED
    BY <2>4 DEF suf
<1>2. CASE ~(k <= Len(lines))
  <2>1. suf = <<>> /\ <<>> \in Seq(Line)
    BY <1>2
  <2>2. Replay(map, <<>>)[n] = (IF Retracting(<<>>, n) THEN {} ELSE map[n]) \cup Said(<<>>, n)
    BY <2>1, ReplaySays
  <2> QED
    BY <2>1, <2>2, NoLines
<1> QED
  BY <1>1, <1>2

-----------------------------------------------------------------------------
(* What a compaction writes: every line that is to be kept, once.           *)

Lists(s, E) ==
  /\ s \in Seq(Line)
  /\ \A i, j \in 1..Len(s) : s[i] = s[j] => i = j
  /\ \A i \in 1..Len(s) : s[i] \in E
  /\ \A x \in E : \E i \in 1..Len(s) : s[i] = x

Ats(n, X) == {At(p, n) : p \in X}

LEMMA AtIs == \A p, q, m, n : At(p, m) = At(q, n) <=> p = q /\ m = n
  BY DEF At

LEMMA EmptyLists == Lists(<<>>, {})
<1>1. <<>> \in Seq(Line) /\ 1..Len(<<>>) = {}
  OBVIOUS
<1> QED
  BY <1>1 DEF Lists

LEMMA ListsJoin ==
  ASSUME NEW a, NEW b, NEW E, NEW F, Lists(a, E), Lists(b, F), E \cap F = {}
  PROVE  Lists(a \o b, E \cup F)
<1> DEFINE c == a \o b
<1>0. a \in Seq(Line) /\ b \in Seq(Line)
  BY DEF Lists
<1>1. /\ a \o b \in Seq(Line) /\ Len(a \o b) = Len(a) + Len(b)
      /\ \A i \in 1..Len(a) : i \in 1..Len(a \o b) /\ (a \o b)[i] = a[i]
      /\ \A i \in 1..Len(b) : Len(a) + i \in 1..Len(a \o b) /\ (a \o b)[Len(a) + i] = b[i]
      /\ \A i \in 1..Len(a \o b) : i \in 1..Len(a) \/ \E k \in 1..Len(b) : i = Len(a) + k
  BY ONLY <1>0, JoinIs
<1>2. /\ c \in Seq(Line)
      /\ \A i \in 1..Len(a) : i \in 1..Len(c) /\ c[i] = a[i]
      /\ \A i \in 1..Len(b) : Len(a) + i \in 1..Len(c) /\ c[Len(a) + i] = b[i]
      /\ \A i \in 1..Len(c) : i \in 1..Len(a) \/ \E k \in 1..Len(b) : i = Len(a) + k
  BY <1>1
<1>3. /\ \A i, j \in 1..Len(a) : a[i] = a[j] => i = j
      /\ \A i \in 1..Len(a) : a[i] \in E
      /\ \A x \in E : \E i \in 1..Len(a) : a[i] = x
      /\ \A i, j \in 1..Len(b) : b[i] = b[j] => i = j
      /\ \A i \in 1..Len(b) : b[i] \in F
      /\ \A x \in F : \E i \in 1..Len(b) : b[i] = x
  BY DEF Lists
<1> HIDE DEF c
<1>4. ASSUME NEW i \in 1..Len(c), NEW j \in 1..Len(c), c[i] = c[j] PROVE i = j
  <2>1. CASE i \in 1..Len(a) /\ j \in 1..Len(a)
    BY <1>2, <1>3, <1>4, <2>1
  <2>2. CASE i \in 1..Len(a) /\ \E k \in 1..Len(b) : j = Len(a) + k
    <3>1. c[i] \in E /\ c[j] \in F
      BY <1>2, <1>3, <2>2
    <3> QED
      BY <1>4, <3>1
  <2>3. CASE j \in 1..Len(a) /\ \E k \in 1..Len(b) : i = Len(a) + k
    <3>1. c[j] \in E /\ c[i] \in F
      BY <1>2, <1>3, <2>3
    <3> QED
      BY <1>4, <3>1
  <2>4. CASE (\E k \in 1..Len(b) : i = Len(a) + k) /\ (\E k \in 1..Len(b) : j = Len(a) + k)
    <3>1. PICK k \in 1..Len(b) : i = Len(a) + k
      BY <2>4
    <3>2. PICK m \in 1..Len(b) : j = Len(a) + m
      BY <2>4
    <3>3. b[k] = b[m]
      BY <1>2, <1>4, <3>1, <3>2
    <3>4. k = m
      BY <1>3, <3>3
    <3> QED
      BY <3>1, <3>2, <3>4
  <2> QED
    BY <1>2, <2>1, <2>2, <2>3, <2>4
<1>5. ASSUME NEW i \in 1..Len(c) PROVE c[i] \in E \cup F
  <2>1. CASE i \in 1..Len(a)
    BY <1>2, <1>3, <2>1
  <2>2. CASE \E k \in 1..Len(b) : i = Len(a) + k
    BY <1>2, <1>3, <2>2
  <2> QED
    BY <1>2, <2>1, <2>2
<1>6. ASSUME NEW x \in E \cup F PROVE \E i \in 1..Len(c) : c[i] = x
  <2>1. CASE x \in E
    BY <1>2, <1>3, <2>1
  <2>2. CASE x \in F
    <3>1. PICK k \in 1..Len(b) : b[k] = x
      BY <1>3, <2>2
    <3>2. Len(a) + k \in 1..Len(c) /\ c[Len(a) + k] = x
      BY <1>2, <3>1
    <3> QED
      BY <3>2
  <2> QED
    BY <1>6, <2>1, <2>2
<1>7. Lists(c, E \cup F)
  BY <1>2, <1>4, <1>5, <1>6 DEF Lists
<1> QED
  BY <1>7 DEF c

(* A finite set in some order.                                              *)
LEMMA InOrder ==
  ASSUME NEW X, IsFiniteSet(X)
  PROVE  /\ SetToSeq(X) \in [1..Cardinality(X) -> X]
         /\ \A i, j \in 1..Cardinality(X) : SetToSeq(X)[i] = SetToSeq(X)[j] => i = j
         /\ \A x \in X : \E i \in 1..Cardinality(X) : SetToSeq(X)[i] = x
         /\ Cardinality(X) \in Nat
<1>1. Cardinality(X) \in Nat /\ ExistsBijection(1..Cardinality(X), X)
  BY FS_CardinalityType
<1>2. PICK f : f \in Bijection(1..Cardinality(X), X)
  BY <1>1 DEF ExistsBijection
<1>3. f \in [1..Cardinality(X) -> X] /\ IsInjective(f)
  BY <1>2 DEF Bijection, Injection, IsInjective
<1>4. SetToSeq(X) \in [1..Cardinality(X) -> X] /\ IsInjective(SetToSeq(X))
  BY <1>3 DEF SetToSeq
<1>5. \A i, j \in 1..Cardinality(X) : SetToSeq(X)[i] = SetToSeq(X)[j] => i = j
  BY <1>4 DEF IsInjective
<1>6. SetToSeq(X) \in Surjection(1..Cardinality(X), X)
  <2>1. SetToSeq(X) \in Injection(1..Cardinality(X), X)
    BY <1>4 DEF Injection
  <2>2. 0 \in Int /\ 1 \in Int /\ Cardinality(X) \in Int
    BY <1>1
  <2>3. Cardinality(1..Cardinality(X)) = Cardinality(X)
    <3>1. Cardinality(1..Cardinality(X)) = IF 1 > Cardinality(X) THEN 0 ELSE Cardinality(X) - 1 + 1
      BY <2>2, FS_Interval
    <3> QED
      BY <1>1, <3>1
  <2> QED
    BY <2>1, <2>3, FS_Injection
<1>7. \A x \in X : \E i \in 1..Cardinality(X) : SetToSeq(X)[i] = x
  BY <1>6 DEF Surjection
<1> QED
  BY <1>1, <1>4, <1>5, <1>7

LEMMA LinesOfLists ==
  ASSUME NEW n \in Name, NEW X \in SUBSET Stream, IsFiniteSet(X)
  PROVE  Lists(LinesOf(n, X), Ats(n, X))
<1> DEFINE k == Cardinality(X)
           f == SetToSeq(X)
           s == [i \in 1..k |-> At(f[i], n)]
<1>1. /\ f \in [1..k -> X]
      /\ \A i, j \in 1..k : f[i] = f[j] => i = j
      /\ \A x \in X : \E i \in 1..k : f[i] = x
      /\ k \in Nat
  BY InOrder
<1>2. LinesOf(n, X) = s
  BY DEF LinesOf
<1> HIDE DEF k, f
<1>3. s \in Seq(Line) /\ Len(s) = k
  <2>1. \A i \in 1..k : At(f[i], n) \in Line
    BY <1>1, SaysOfLines
  <2> QED
    BY <1>1, <2>1
<1>4. \A i \in 1..k : s[i] = At(f[i], n)
  OBVIOUS
<1> HIDE DEF s
<1>5. \A i, j \in 1..Len(s) : s[i] = s[j] => i = j
  BY <1>1, <1>3, <1>4, AtIs
<1>6. \A i \in 1..Len(s) : s[i] \in Ats(n, X)
  BY <1>1, <1>3, <1>4 DEF Ats
<1>7. \A x \in Ats(n, X) : \E i \in 1..Len(s) : s[i] = x
  BY <1>1, <1>3, <1>4 DEF Ats
<1>8. Lists(s, Ats(n, X))
  BY <1>3, <1>5, <1>6, <1>7 DEF Lists
<1> QED
  BY <1>2, <1>8

Files == Seq(Line)

LEMMA Flattening ==
  ASSUME NEW n \in Nat, NEW a \in Files, NEW H \in [1..n -> [Files -> Files]]
  PROVE  \E f \in [0..n -> Files] : f[0] = a /\ \A i \in 1..n : f[i] = H[i][f[i - 1]]
  BY Recursion

LEMMA FlattenIs ==
  ASSUME NEW n \in Nat, NEW s \in [1..n -> Seq(Line)]
  PROVE  \E f \in [0..n -> Seq(Line)] :
           /\ f[0] = <<>> /\ f[n] = FlattenSeq(s)
           /\ \A i \in 1..n : f[i] = f[i - 1] \o s[i]
<1> DEFINE G == [i \in 1..n |-> [x \in Seq(Line) |-> x \o s[i]]]
<1>1. s \in Seq(Seq(Line)) /\ Len(s) = n
  OBVIOUS
<1>2. <<>> \in Seq(Line)
  OBVIOUS
<1>3. PICK H : H = G
  OBVIOUS
<1>4. H \in [1..n -> [Seq(Line) -> Seq(Line)]]
  BY <1>3
<1>5. \A i \in 1..n, x \in Seq(Line) : H[i][x] = x \o s[i]
  BY <1>3
<1> HIDE DEF G
<1>6. PICK f \in [0..n -> Seq(Line)] : f[0] = <<>> /\ \A i \in 1..n : f[i] = H[i][f[i - 1]]
  <2>1. <<>> \in Files /\ H \in [1..n -> [Files -> Files]]
    BY <1>2, <1>4 DEF Files
  <2>2. \E f \in [0..n -> Files] : f[0] = <<>> /\ \A i \in 1..n : f[i] = H[i][f[i - 1]]
    BY <2>1, Flattening, Zenon
  <2> QED
    BY <2>2 DEF Files
<1>7. \A i \in 1..n : i - 1 \in 0..n /\ f[i - 1] \in Seq(Line)
  BY <1>6
<1>8. \A i \in 1..n : f[i] = f[i - 1] \o s[i]
  BY <1>5, <1>6, <1>7
<1>9. f[n] = FlattenSeq(s)
  <2>1. CASE n = 0
    <3>1. FlattenSeq(s) = s
      BY <1>1, <2>1 DEF FlattenSeq
    <3>2. s = <<>>
      BY <1>1, <2>1
    <3> QED
      BY <1>6, <2>1, <3>1, <3>2
  <2>2. CASE n # 0
    <3> DEFINE flatten == CHOOSE g : g = [i \in 1..n |-> IF i = 1 THEN s[i] ELSE g[i - 1] \o s[i]]
    <3>1. FlattenSeq(s) = flatten[n]
      BY <1>1, <2>2 DEF FlattenSeq
    <3> DEFINE h == [i \in 1..n |-> f[i]]
    <3>2. h = [i \in 1..n |-> IF i = 1 THEN s[i] ELSE h[i - 1] \o s[i]]
      <4>1. ASSUME NEW i \in 1..n PROVE h[i] = IF i = 1 THEN s[i] ELSE h[i - 1] \o s[i]
        <5>1. CASE i = 1
          <6>1. f[1] = f[1 - 1] \o s[1] /\ s[1] \in Seq(Line) /\ 1 - 1 = 0
            BY <1>8, <5>1
          <6>2. f[1] = <<>> \o s[1]
            BY <1>6, <6>1
          <6> QED
            BY <5>1, <6>1, <6>2
        <5>2. CASE i # 1
          <6>1. i - 1 \in 1..n
            BY <5>2
          <6> QED
            BY <1>8, <5>2, <6>1
        <5> QED
          BY <5>1, <5>2
      <4> QED
        BY <4>1
    <3>3. flatten = [i \in 1..n |-> IF i = 1 THEN s[i] ELSE flatten[i - 1] \o s[i]]
      BY <3>2
    <3> HIDE DEF flatten, h
    <3> DEFINE I == {i \in Nat : i + 1 <= n => flatten[i + 1] = f[i + 1]}
    <3>4. 0 \in I
      <4>1. 1 \in 1..n
        BY <2>2
      <4>2. flatten[1] = s[1]
        BY <3>3, <4>1
      <4>3. f[1] = f[1 - 1] \o s[1] /\ s[1] \in Seq(Line) /\ 1 - 1 = 0
        BY <1>8, <4>1
      <4>4. f[1] = <<>> \o s[1]
        BY <1>6, <4>3
      <4> QED
        BY <4>2, <4>3, <4>4
    <3>5. ASSUME NEW i \in Nat, i \in I PROVE i + 1 \in I
      <4> SUFFICES ASSUME i + 1 + 1 <= n PROVE flatten[i + 1 + 1] = f[i + 1 + 1]
        OBVIOUS
      <4>1. i + 1 + 1 \in 1..n /\ i + 1 + 1 # 1 /\ (i + 1 + 1) - 1 = i + 1 /\ i + 1 <= n
        OBVIOUS
      <4>2. flatten[i + 1 + 1] = flatten[i + 1] \o s[i + 1 + 1]
        BY <3>3, <4>1
      <4>3. f[i + 1 + 1] = f[i + 1] \o s[i + 1 + 1]
        BY <1>8, <4>1
      <4>4. flatten[i + 1] = f[i + 1]
        BY <3>5, <4>1
      <4> QED
        BY <4>2, <4>3, <4>4
    <3> HIDE DEF I
    <3>6. Nat \subseteq I
      BY <3>4, <3>5, SetInduction
    <3>7. n - 1 \in I /\ n - 1 + 1 = n
      BY <2>2, <3>6
    <3>8. flatten[n] = f[n]
      BY <3>7 DEF I
    <3> QED
      BY <3>1, <3>8
  <2> QED
    BY <2>1, <2>2
<1> QED
  BY <1>6, <1>8, <1>9

LEMMA NamesAreAll ==
  ASSUME NEW names \in SetToSeqs(Name)
  PROVE  /\ names \in [1..Cardinality(Name) -> Name] /\ Cardinality(Name) \in Nat
         /\ \A i, j \in 1..Cardinality(Name) : names[i] = names[j] => i = j
         /\ \A n \in Name : \E i \in 1..Cardinality(Name) : names[i] = n
<1>1. IsFiniteSet(Name) /\ Cardinality(Name) \in Nat
  BY IndexAssumption, FS_CardinalityType
<1>2. names \in [1..Cardinality(Name) -> Name]
  BY DEF SetToSeqs
<1>3. \A i, j \in 1..Cardinality(Name) : names[i] = names[j] => i = j
  BY DEF SetToSeqs
<1>4. names \in Injection(1..Cardinality(Name), Name)
  BY <1>2, <1>3 DEF Injection, IsInjective
<1>5. Cardinality(1..Cardinality(Name)) = Cardinality(Name)
  <2>1. 1 \in Int /\ Cardinality(Name) \in Int
    BY <1>1
  <2>2. Cardinality(1..Cardinality(Name)) = IF 1 > Cardinality(Name) THEN 0 ELSE Cardinality(Name) - 1 + 1
    BY <2>1, FS_Interval
  <2> QED
    BY <1>1, <2>2
<1>6. names \in Surjection(1..Cardinality(Name), Name)
  BY <1>1, <1>4, <1>5, FS_Injection
<1> QED
  BY <1>1, <1>2, <1>3, <1>6 DEF Surjection

(* Lines of every conversation, one after the other in some order.          *)
LEMMA InTurnLists ==
  ASSUME NEW names \in SetToSeqs(Name), NEW X \in [Name -> SUBSET Stream],
         \A n \in Name : IsFiniteSet(X[n])
  PROVE  Lists(FlattenSeq([i \in DOMAIN names |-> LinesOf(names[i], X[names[i]])]),
               UNION {Ats(n, X[n]) : n \in Name})
<1> DEFINE k == Cardinality(Name)
           s == [i \in 1..k |-> LinesOf(names[i], X[names[i]])]
           E(i) == UNION {Ats(names[j], X[names[j]]) : j \in 1..i}
<1>1. /\ names \in [1..k -> Name] /\ k \in Nat
      /\ \A i, j \in 1..k : names[i] = names[j] => i = j
      /\ \A n \in Name : \E i \in 1..k : names[i] = n
  BY NamesAreAll
<1>2. [i \in DOMAIN names |-> LinesOf(names[i], X[names[i]])] = s
  BY <1>1
<1> HIDE DEF k
<1>3. \A i \in 1..k : Lists(LinesOf(names[i], X[names[i]]), Ats(names[i], X[names[i]]))
  BY <1>1, LinesOfLists
<1>4. s \in [1..k -> Seq(Line)]
  BY <1>3 DEF Lists
<1>5. \A i \in 1..k : Lists(s[i], Ats(names[i], X[names[i]]))
  BY <1>3
<1> HIDE DEF s
<1>6. PICK f \in [0..k -> Seq(Line)] :
        /\ f[0] = <<>> /\ f[k] = FlattenSeq(s)
        /\ \A i \in 1..k : f[i] = f[i - 1] \o s[i]
  BY <1>1, <1>4, FlattenIs
<1> DEFINE I == {i \in Nat : i <= k => Lists(f[i], E(i))}
<1>7. 0 \in I
  <2>1. E(0) = {}
    OBVIOUS
  <2> QED
    BY <1>6, <2>1, EmptyLists
<1>8. ASSUME NEW i \in Nat, i \in I PROVE i + 1 \in I
  <2> SUFFICES ASSUME i + 1 <= k PROVE Lists(f[i + 1], E(i + 1))
    OBVIOUS
  <2>1. i + 1 \in 1..k /\ (i + 1) - 1 = i /\ i <= k
    BY <1>1
  <2>2. Lists(f[i], E(i))
    BY <1>8, <2>1
  <2>3. f[i + 1] = f[i] \o s[i + 1]
    BY <1>6, <2>1
  <2>4. Lists(s[i + 1], Ats(names[i + 1], X[names[i + 1]]))
    BY <1>5, <2>1
  <2>5. E(i) \cap Ats(names[i + 1], X[names[i + 1]]) = {}
    <3> SUFFICES ASSUME NEW j \in 1..i, NEW x \in Ats(names[j], X[names[j]]),
                        x \in Ats(names[i + 1], X[names[i + 1]])
                 PROVE  FALSE
      OBVIOUS
    <3>1. names[j] = names[i + 1]
      BY AtIs DEF Ats
    <3>2. j \in 1..k /\ j # i + 1
      BY <1>1, <2>1
    <3> QED
      BY <1>1, <2>1, <3>1, <3>2
  <2>6. E(i + 1) = E(i) \cup Ats(names[i + 1], X[names[i + 1]])
    <3>1. \A j : j \in 1..(i + 1) <=> j \in 1..i \/ j = i + 1
      OBVIOUS
    <3> QED
      BY <3>1
  <2> HIDE DEF E
  <2>7. Lists(f[i] \o s[i + 1], E(i) \cup Ats(names[i + 1], X[names[i + 1]]))
    BY ONLY <2>2, <2>4, <2>5, ListsJoin
  <2> QED
    BY <2>3, <2>6, <2>7
<1> HIDE DEF I
<1>9. Nat \subseteq I
  BY <1>7, <1>8, SetInduction
<1>10. Lists(f[k], E(k))
  <2>1. k \in I /\ k \in Nat /\ k <= k
    BY <1>1, <1>9
  <2> HIDE DEF E
  <2> QED
    BY <2>1 DEF I
<1>11. E(k) = UNION {Ats(n, X[n]) : n \in Name}
  <2>1. ASSUME NEW i \in 1..k PROVE Ats(names[i], X[names[i]]) \subseteq UNION {Ats(n, X[n]) : n \in Name}
    BY <1>1
  <2>2. ASSUME NEW n \in Name PROVE Ats(n, X[n]) \subseteq E(k)
    <3>1. PICK i \in 1..k : names[i] = n
      BY <1>1
    <3> QED
      BY <3>1
  <2> QED
    BY <2>1, <2>2
<1> QED
  BY <1>2, <1>6, <1>10, <1>11

Of(X) == UNION {Ats(n, X[n]) : n \in Name}

(* Lines without a retraction say what they claim.                          *)
LEMMA ListsSay ==
  ASSUME NEW s, NEW X \in [Name -> SUBSET Stream], Lists(s, Of(X)), NEW n \in Name
  PROVE  s \in Seq(Line) /\ ~Retracting(s, n) /\ Said(s, n) = X[n]
<1>1. /\ s \in Seq(Line)
      /\ \A i \in 1..Len(s) : s[i] \in Of(X)
      /\ \A x \in Of(X) : \E i \in 1..Len(s) : s[i] = x
  BY DEF Lists
<1>2. \A i \in 1..Len(s) : \E m \in Name : \E p \in X[m] : s[i] = At(p, m)
  BY <1>1 DEF Of, Ats
<1>3. \A i \in 1..Len(s) : ~Retracts(s[i], n)
  BY <1>2, SaysOfLines
<1>4. ~Retracting(s, n)
  BY <1>3 DEF Retracting, Retracted
<1>5. ASSUME NEW p \in Said(s, n) PROVE p \in X[n]
  <2>1. PICK i \in 1..Len(s) : Claims(s[i], p, n)
    BY <1>5 DEF Said, Claimed
  <2>2. PICK m \in Name, q \in Stream : q \in X[m] /\ s[i] = At(q, m)
    BY <1>2
  <2> QED
    BY <2>1, <2>2, SaysOfLines
<1>6. ASSUME NEW p \in X[n] PROVE p \in Said(s, n)
  <2>1. p \in Stream /\ At(p, n) \in Of(X)
    BY DEF Of, Ats
  <2>2. PICK i \in 1..Len(s) : s[i] = At(p, n)
    BY <1>1, <2>1
  <2>3. Claims(s[i], p, n)
    BY <2>2, SaysOfLines
  <2>4. \A k \in (i + 1)..Len(s) : ~Retracts(s[k], n)
    <3>1. \A k \in (i + 1)..Len(s) : k \in 1..Len(s)
      OBVIOUS
    <3> QED
      BY <1>3, <3>1
  <2> QED
    BY <2>1, <2>3, <2>4 DEF Said, Claimed
<1> QED
  BY <1>1, <1>4, <1>5, <1>6

LEMMA SaidIsLines ==
  ASSUME NEW s \in Seq(Line), NEW n \in Name
  PROVE  /\ Said(s, n) \in SUBSET Stream
         /\ \A p \in Said(s, n) : \E i \in 1..Len(s) : s[i] = At(p, n)
<1>1. Said(s, n) \in SUBSET Stream
  BY DEF Said, Claimed
<1>2. ASSUME NEW p \in Said(s, n) PROVE \E i \in 1..Len(s) : s[i] = At(p, n)
  <2>1. PICK i \in 1..Len(s) : Claims(s[i], p, n)
    BY <1>2 DEF Said, Claimed
  <2>2. s[i] \in Line
    OBVIOUS
  <2>3. s[i] = At(p, n)
    BY <2>1, <2>2, LineIs DEF Claims
  <2> QED
    BY <2>3
<1> QED
  BY <1>1, <1>2

LEMMA UptoIsFinite ==
  ASSUME NEW k \in Nat
  PROVE  IsFiniteSet(1..k) /\ Cardinality(1..k) = k
<1>1. 1 \in Int /\ k \in Int
  OBVIOUS
<1>2. IsFiniteSet(1..k) /\ Cardinality(1..k) = IF 1 > k THEN 0 ELSE k - 1 + 1
  BY <1>1, FS_Interval
<1> QED
  BY <1>2

LEMMA SaidIsFinite ==
  ASSUME NEW s \in Seq(Line), NEW n \in Name
  PROVE  IsFiniteSet(Said(s, n))
<1> DEFINE S == 1..Len(s)
           f == [i \in S |-> s[i].prefix]
           T == {f[i] : i \in S}
<1>1. IsFiniteSet(S)
  <2>1. Len(s) \in Nat
    OBVIOUS
  <2> QED
    BY <2>1, UptoIsFinite
<1>2. f \in Surjection(S, T)
  BY DEF Surjection
<1>3. Said(s, n) \subseteq T
  <2>1. \A p \in Said(s, n) : \E i \in S : s[i] = At(p, n)
    BY SaidIsLines
  <2>2. \A p : At(p, n).prefix = p
    BY DEF At
  <2> QED
    BY <2>1, <2>2
<1> HIDE DEF S, f, T
<1>4. IsFiniteSet(T)
  BY <1>1, <1>2, FS_Surjection
<1> QED
  BY <1>3, <1>4, FS_Subset

(* A file is no shorter than the lines in it.                               *)
LEMMA ListsNoLonger ==
  ASSUME NEW s, NEW E, Lists(s, E), NEW lines \in Seq(Line),
         \A x \in E : \E i \in 1..Len(lines) : lines[i] = x
  PROVE  /\ Len(s) \in Nat /\ Len(s) <= Len(lines)
         /\ \A i \in 1..Len(lines) : lines[i] \notin E => Len(s) < Len(lines)
<1> DEFINE S == 1..Len(s)
           T == 1..Len(lines)
           f == [i \in S |-> CHOOSE j \in T : lines[j] = s[i]]
<1>1. /\ s \in Seq(Line) /\ Len(s) \in Nat /\ Len(lines) \in Nat
      /\ \A i, j \in S : s[i] = s[j] => i = j
      /\ \A i \in S : s[i] \in E
  BY DEF Lists
<1>2. \A i \in S : \E j \in T : lines[j] = s[i]
  BY <1>1
<1>3. \A i \in S : f[i] \in T /\ lines[f[i]] = s[i]
  BY <1>2
<1>4. IsFiniteSet(S) /\ Cardinality(S) = Len(s) /\ IsFiniteSet(T) /\ Cardinality(T) = Len(lines)
  BY <1>1, UptoIsFinite
<1> HIDE DEF S, T
<1>5. f \in [S -> T]
  BY <1>3
<1> HIDE DEF f
<1>6. \A i, j \in S : f[i] = f[j] => i = j
  BY <1>1, <1>3
<1>7. f \in Injection(S, T)
  BY <1>5, <1>6 DEF Injection, IsInjective
<1>8. /\ Cardinality(S) <= Cardinality(T)
      /\ Cardinality(S) = Cardinality(T) <=> f \in Surjection(S, T)
  BY <1>4, <1>7, FS_Injection
<1>9. ASSUME NEW i \in T, lines[i] \notin E PROVE Len(s) # Len(lines)
  <2>1. SUFFICES ASSUME Len(s) = Len(lines) PROVE FALSE
    OBVIOUS
  <2>2. f \in Surjection(S, T)
    BY <1>4, <1>8, <2>1
  <2>3. PICK j \in S : f[j] = i
    BY <2>2 DEF Surjection
  <2> QED
    BY <1>1, <1>3, <1>9, <2>3
<1>10. \A i \in 1..Len(lines) : lines[i] \notin E => Len(s) # Len(lines)
  BY <1>9 DEF T
<1>11. Len(s) <= Len(lines)
  BY <1>4, <1>8
<1> QED
  BY <1>1, <1>10, <1>11

LEMMA KeptIs ==
  ASSUME file \in Seq(Line)
  PROVE  /\ Kept \in [Name -> SUBSET Stream]
         /\ \A n \in Name : /\ Kept[n] = IF manifest[n] = None THEN {} ELSE Said(file, n)
                            /\ IsFiniteSet(Kept[n])
<1>1. \A n \in Name : Replay(Nothing, file)[n] = Said(file, n) /\ Said(file, n) \in SUBSET Stream
  BY FileSays, SaidIsLines
<1>2. \A n \in Name : IsFiniteSet(Said(file, n))
  BY SaidIsFinite
<1>3. IsFiniteSet({})
  BY FS_EmptySet
<1> QED
  BY <1>1, <1>2, <1>3 DEF Kept

LEMMA CanonicalIs ==
  ASSUME file \in Seq(Line), NEW names \in SetToSeqs(Name), NEW c, c = Canonical(names)
  PROVE  /\ c \in Seq(Line) /\ Len(c) \in Nat /\ Len(c) <= Len(file)
         /\ \A n \in Name : /\ ~Retracting(c, n) /\ Said(c, n) = Kept[n]
                            /\ Kept[n] # Said(file, n) => Len(c) < Len(file)
<1>1. /\ Kept \in [Name -> SUBSET Stream]
      /\ \A n \in Name : Kept[n] = IF manifest[n] = None THEN {} ELSE Said(file, n)
      /\ \A n \in Name : IsFiniteSet(Kept[n])
  BY KeptIs
<1>2. Lists(FlattenSeq([i \in DOMAIN names |-> LinesOf(names[i], Kept[names[i]])]),
            UNION {Ats(n, Kept[n]) : n \in Name})
  BY <1>1, InTurnLists
<1>3. Lists(c, Of(Kept))
  BY <1>2 DEF Canonical, Of
<1>4. \A n \in Name : c \in Seq(Line) /\ ~Retracting(c, n) /\ Said(c, n) = Kept[n]
  BY <1>1, <1>3, ListsSay
<1>5. \A x \in Of(Kept) : \E i \in 1..Len(file) : file[i] = x
  <2> SUFFICES ASSUME NEW n \in Name, NEW p \in Kept[n] PROVE \E i \in 1..Len(file) : file[i] = At(p, n)
    BY DEF Of, Ats
  <2>1. p \in Said(file, n)
    BY <1>1
  <2> QED
    BY <2>1, SaidIsLines
<1>6. /\ Len(c) \in Nat /\ Len(c) <= Len(file)
      /\ \A i \in 1..Len(file) : file[i] \notin Of(Kept) => Len(c) < Len(file)
  BY <1>3, <1>5, ListsNoLonger
<1>7. ASSUME NEW n \in Name, Kept[n] # Said(file, n) PROVE Len(c) < Len(file)
  <2>1. Kept[n] = {}
    BY <1>1, <1>7
  <2>2. PICK p \in Said(file, n) : TRUE
    BY <1>7, <2>1
  <2>3. PICK i \in 1..Len(file) : file[i] = At(p, n)
    BY SaidIsLines
  <2>4. file[i] \notin Of(Kept)
    <3> SUFFICES ASSUME NEW m \in Name, NEW q \in Kept[m], At(p, n) = At(q, m) PROVE FALSE
      BY <2>3 DEF Of, Ats
    <3>1. m = n
      BY AtIs
    <3> QED
      BY <2>1, <3>1
  <2> QED
    BY <1>6, <2>4
<1> QED
  BY <1>3, <1>4, <1>6, <1>7 DEF Lists

LEMMA LinesSay ==
  ASSUME NEW n \in Name, NEW X \in SUBSET Stream, IsFiniteSet(X)
  PROVE  /\ LinesOf(n, X) \in Seq(Line)
         /\ \A m \in Name : /\ ~Retracting(LinesOf(n, X), m)
                            /\ Said(LinesOf(n, X), m) = IF m = n THEN X ELSE {}
         /\ X # {} => /\ LinesOf(n, X) # <<>> /\ LinesOf(n, X)[1].kind = "at"
         /\ X = {} => LinesOf(n, X) = <<>>
<1> DEFINE s == LinesOf(n, X)
           Y == [m \in Name |-> IF m = n THEN X ELSE {}]
<1>1. Lists(s, Ats(n, X))
  BY LinesOfLists
<1>2. Ats(n, X) = Of(Y)
  BY DEF Of, Ats
<1>3. Y \in [Name -> SUBSET Stream]
  OBVIOUS
<1>4. /\ s \in Seq(Line)
      /\ \A i \in 1..Len(s) : s[i] \in Ats(n, X)
      /\ \A x \in Ats(n, X) : \E i \in 1..Len(s) : s[i] = x
  BY <1>1 DEF Lists
<1> HIDE DEF s
<1>5. ASSUME NEW m \in Name PROVE ~Retracting(s, m) /\ Said(s, m) = IF m = n THEN X ELSE {}
  <2>1. ~Retracting(s, m) /\ Said(s, m) = Y[m]
    <3> HIDE DEF Y
    <3> QED
      BY <1>1, <1>2, <1>3, ListsSay
  <2> QED
    BY <2>1
<1>6. ASSUME X # {} PROVE s # <<>> /\ s[1].kind = "at"
  <2>1. PICK x \in Ats(n, X) : TRUE
    BY <1>6 DEF Ats
  <2>2. PICK i \in 1..Len(s) : s[i] = x
    BY <1>4, <2>1
  <2>3. 1 \in 1..Len(s)
    BY <1>4, <2>2
  <2>4. s[1] \in Ats(n, X)
    BY <1>4, <2>3
  <2>5. s[1].kind = "at"
    BY <2>4 DEF Ats, At
  <2> QED
    BY <1>4, <2>3, <2>5
<1>7. ASSUME X = {} PROVE s = <<>>
  <2>1. Ats(n, X) = {}
    BY <1>7 DEF Ats
  <2>2. \A i \in 1..Len(s) : FALSE
    BY <1>4, <2>1
  <2>3. Len(s) \in Nat
    BY <1>4
  <2>4. Len(s) = 0
    <3>1. Len(s) # 0 => 1 \in 1..Len(s)
      BY <2>3
    <3> QED
      BY <2>2, <3>1
  <2> QED
    BY <1>4, <2>4
<1> QED
  BY <1>4, <1>5, <1>6, <1>7 DEF s

LEMMA GoneSays ==
  ASSUME NEW n \in Name
  PROVE  /\ <<Gone(n)>> \in Seq(Line) /\ Len(<<Gone(n)>>) = 1
         /\ \A m \in Name : /\ Retracting(<<Gone(n)>>, m) <=> m = n
                            /\ Said(<<Gone(n)>>, m) = {}
<1> DEFINE s == <<Gone(n)>>
<1>1. s \in Seq(Line) /\ Len(s) = 1 /\ s[1] = Gone(n)
  BY SaysOfLines
<1>2. 1..1 = {1}
  OBVIOUS
<1> HIDE DEF s
<1>3. ASSUME NEW m \in Name PROVE (Retracting(s, m) <=> m = n) /\ Said(s, m) = {}
  <2>1. Retracts(s[1], m) <=> m = n
    BY <1>1, SaysOfLines
  <2>2. \A p : ~Claims(s[1], p, m)
    BY <1>1, SaysOfLines
  <2> QED
    BY <1>1, <1>2, <2>1, <2>2 DEF Retracting, Retracted, Said, Claimed
<1> QED
  BY <1>1, <1>3 DEF s

Rewrite(n, X) == <<Gone(n)>> \o LinesOf(n, X)

LEMMA RewriteSays ==
  ASSUME NEW n \in Name, NEW X \in SUBSET Stream, IsFiniteSet(X), NEW b, b = Rewrite(n, X)
  PROVE  /\ b \in Seq(Line) /\ b # <<>> /\ b[1].kind = "gone"
         /\ \A m \in Name : /\ Retracting(b, m) <=> m = n
                            /\ Said(b, m) = IF m = n THEN X ELSE {}
<1> DEFINE g == <<Gone(n)>>
           s == LinesOf(n, X)
<1>1. /\ s \in Seq(Line)
      /\ \A m \in Name : ~Retracting(s, m) /\ Said(s, m) = IF m = n THEN X ELSE {}
  BY LinesSay
<1>2. /\ g \in Seq(Line) /\ Len(g) = 1 /\ g[1] = Gone(n)
      /\ \A m \in Name : (Retracting(g, m) <=> m = n) /\ Said(g, m) = {}
  BY GoneSays
<1> HIDE DEF g, s
<1>3. b = g \o s
  BY DEF g, s, Rewrite
<1>4. /\ g \o s \in Seq(Line) /\ Len(g \o s) = Len(g) + Len(s)
      /\ \A i \in 1..Len(g) : i \in 1..Len(g \o s) /\ (g \o s)[i] = g[i]
  <2>1. g \in Seq(Line) /\ s \in Seq(Line)
    BY <1>1, <1>2
  <2> QED
    BY ONLY <2>1, JoinIs
<1>5. 1 \in 1..Len(g)
  BY <1>2
<1>6. b \in Seq(Line) /\ 1 \in 1..Len(b) /\ b[1] = Gone(n)
  BY <1>2, <1>3, <1>4, <1>5
<1>7. b # <<>> /\ b[1].kind = "gone"
  BY <1>6 DEF Gone
<1>8. ASSUME NEW m \in Name
      PROVE  (Retracting(b, m) <=> m = n) /\ Said(b, m) = IF m = n THEN X ELSE {}
  <2>0. g \in Seq(Line) /\ s \in Seq(Line) /\ m \in Name
    BY <1>1, <1>2
  <2>1. Retracting(g \o s, m) <=> Retracting(g, m) \/ Retracting(s, m)
    BY ONLY <2>0, JoinRetracts
  <2>2. Said(g \o s, m) = (IF Retracting(s, m) THEN {} ELSE Said(g, m)) \cup Said(s, m)
    BY ONLY <2>0, JoinSays
  <2> QED
    BY <1>1, <1>2, <1>3, <2>1, <2>2
<1> QED
  BY <1>6, <1>7, <1>8

LEMMA ManifestIs ==
  ASSUME NEW m \in Manifest
  PROVE  /\ m.stream \in Stream /\ m.stream \in Seq(ToSet(m.stream))
         /\ m.ends \in SUBSET (1..Len(m.stream)) /\ m.ends # {}
         /\ \A e \in m.ends : SubSeq(m.stream, 1, e) \in Stream
         /\ PrefixesAt(m) \in SUBSET Stream /\ PrefixesAt(m) # {} /\ IsFiniteSet(PrefixesAt(m))
<1>0. PICK s \in Stream : m \in {[stream |-> s, ends |-> e] : e \in (SUBSET DOMAIN s) \ {{}}}
  BY DEF Manifest
<1>1. PICK e \in (SUBSET DOMAIN s) \ {{}} : m = [stream |-> s, ends |-> e]
  BY <1>0
<1>2. /\ s \in Seq(ToSet(s)) /\ \A k \in 1..Len(s) : SubSeq(s, 1, k) \in Stream
  BY IndexAssumption
<1>3. DOMAIN s = 1..Len(s) /\ Len(s) \in Nat
  BY <1>2
<1>4. m.stream = s /\ m.ends \in SUBSET (1..Len(s)) /\ m.ends # {}
  BY <1>1, <1>3
<1>5. \A k \in m.ends : SubSeq(m.stream, 1, k) \in Stream
  <2> SUFFICES ASSUME NEW k \in m.ends PROVE SubSeq(m.stream, 1, k) \in Stream
    OBVIOUS
  <2>1. k \in 1..Len(s) /\ m.stream = s
    BY <1>4
  <2>2. SubSeq(s, 1, k) \in Stream
    BY <1>2, <2>1, Zenon
  <2> QED
    BY <2>1, <2>2
<1>6. PrefixesAt(m) \in SUBSET Stream /\ PrefixesAt(m) # {}
  BY <1>4, <1>5 DEF PrefixesAt
<1>7. IsFiniteSet(PrefixesAt(m))
  <2> DEFINE S == m.ends
             f == [i \in S |-> SubSeq(m.stream, 1, i)]
             T == {f[i] : i \in S}
  <2>1. IsFiniteSet(S)
    <3>1. IsFiniteSet(1..Len(s))
      BY <1>3, UptoIsFinite
    <3> QED
      BY <1>4, <3>1, FS_Subset
  <2>2. f \in Surjection(S, T)
    BY DEF Surjection
  <2>3. PrefixesAt(m) = T
    BY DEF PrefixesAt
  <2> HIDE DEF S, f, T
  <2> QED
    BY <2>1, <2>2, <2>3, FS_Surjection
<1> QED
  BY <1>2, <1>4, <1>5, <1>6, <1>7

-----------------------------------------------------------------------------
(* What a reader makes of the file, and of the index for a prompt.          *)

Caches == [len : Nat, map : Maps, compacted : Nat]
Beyond(len) == SubSeq(file, len + 1, Len(file))

LEMMA BeyondIs ==
  ASSUME file \in Seq(Line), NEW k \in Nat
  PROVE  Beyond(k) \in Seq(Line) /\ (k = 0 => Beyond(k) = file) /\ (k >= Len(file) => Beyond(k) = <<>>)
<1>1. Len(file) \in Nat
  OBVIOUS
<1>2. CASE k >= Len(file)
  <2>1. Beyond(k) = <<>>
    BY <1>1, <1>2 DEF Beyond
  <2>2. <<>> \in Seq(Line)
    OBVIOUS
  <2>3. k = 0 => file = <<>>
    BY <1>1, <1>2
  <2> QED
    BY <2>1, <2>2, <2>3
<1>3. CASE ~(k >= Len(file))
  <2>1. k \in 0..Len(file)
    BY <1>1, <1>3
  <2>2. Beyond(k) \in Seq(Line)
    BY <2>1, SplitIs DEF Beyond
  <2>3. k = 0 => Beyond(k) = file
    BY <1>1 DEF Beyond
  <2> QED
    BY <1>3, <2>2, <2>3
<1> QED
  BY <1>2, <1>3

LEMMA RefreshedIs ==
  ASSUME cache \in Caches, file \in Seq(Line), NEW len \in Nat
  PROVE  /\ Refreshed(len) \in Caches /\ Refreshed(len).len = len
         /\ Refreshed(len).map = IF cache.len = len THEN cache.map
                                 ELSE IF len < cache.len THEN Replay(Nothing, file)
                                 ELSE Replay(cache.map, Beyond(cache.len))
<1>0. cache.len \in Nat /\ cache.map \in Maps /\ cache.compacted \in Nat
  BY DEF Caches
<1>1. CASE cache.len = len
  <2>1. Refreshed(len) = cache
    BY <1>1 DEF Refreshed
  <2> QED
    BY <1>1, <2>1
<1>2. CASE len < cache.len
  <2>0. cache.len # len
    BY <1>0, <1>2
  <2>1. Refreshed(len) = [[EmptyCache EXCEPT !.compacted = len] EXCEPT !.len = len,
                             !.map = Replay(@, SubSeq(file, [EmptyCache EXCEPT !.compacted = len].len + 1, Len(file)))]
    BY <1>2, <2>0 DEF Refreshed
  <2>5. [EmptyCache EXCEPT !.compacted = len] = [len |-> 0, map |-> Nothing, compacted |-> len]
    BY DEF EmptyCache
  <2>6. PICK base \in Caches : base = [len |-> 0, map |-> Nothing, compacted |-> len]
    BY NothingIs DEF Caches
  <2>7. Refreshed(len) = [base EXCEPT !.len = len, !.map = Replay(@, SubSeq(file, base.len + 1, Len(file)))]
    BY <2>1, <2>5, <2>6
  <2>8. PICK M : M = Replay(base.map, SubSeq(file, base.len + 1, Len(file)))
    OBVIOUS
  <2>9. Refreshed(len) = [len |-> len, map |-> M, compacted |-> base.compacted]
    BY <2>6, <2>7, <2>8 DEF Caches
  <2>3. SubSeq(file, 0 + 1, Len(file)) = file
    BY BeyondIs DEF Beyond
  <2>4. Replay(Nothing, file) \in Maps
    BY NothingIs, ReplayIs
  <2>10. M = Replay(Nothing, file) /\ base.compacted = len
    <3>1. base.map = Nothing /\ base.len = 0 /\ base.compacted = len
      BY <2>6
    <3>2. M = Replay(Nothing, SubSeq(file, 0 + 1, Len(file)))
      BY <2>8, <3>1
    <3> QED
      BY <2>3, <3>1, <3>2
  <2> QED
    BY <1>2, <2>0, <2>4, <2>9, <2>10 DEF Caches
<1>3. CASE ~(cache.len = len) /\ ~(len < cache.len)
  <2>1. Refreshed(len) = [cache EXCEPT !.len = len, !.map = Replay(@, SubSeq(file, cache.len + 1, Len(file)))]
    BY <1>3 DEF Refreshed
  <2>2. Beyond(cache.len) \in Seq(Line)
    BY <1>0, BeyondIs
  <2>3. Replay(cache.map, Beyond(cache.len)) \in Maps
    BY <1>0, <2>2, ReplayIs
  <2>4. Replay(cache.map, Beyond(cache.len)) = Replay(cache.map, SubSeq(file, cache.len + 1, Len(file)))
    BY DEF Beyond
  <2> HIDE DEF Beyond
  <2>5. PICK M \in Maps : M = Replay(cache.map, SubSeq(file, cache.len + 1, Len(file)))
    BY <2>3, <2>4
  <2>6. Refreshed(len) = [len |-> len, map |-> M, compacted |-> cache.compacted]
    BY <1>0, <2>1, <2>5 DEF Caches
  <2> QED
    BY <1>0, <1>3, <2>4, <2>5, <2>6 DEF Caches
<1> QED
  BY <1>1, <1>2, <1>3

LEMMA LastOf ==
  ASSUME NEW k \in Nat, NEW S \in SUBSET (1..k), S # {}
  PROVE  \E p \in S : \A q \in S : q <= p
<1> DEFINE I == {i \in Nat : \A T \in SUBSET (1..i) : T # {} => \E p \in T : \A q \in T : q <= p}
<1>1. 0 \in I
  <2>1. 1..0 = {}
    OBVIOUS
  <2> QED
    BY <2>1
<1>2. ASSUME NEW i \in Nat, i \in I PROVE i + 1 \in I
  <2> SUFFICES ASSUME NEW T \in SUBSET (1..(i + 1)), T # {} PROVE \E p \in T : \A q \in T : q <= p
    OBVIOUS
  <2>1. CASE i + 1 \in T
    <3>1. \A q \in T : q <= i + 1
      OBVIOUS
    <3> QED
      BY <2>1, <3>1
  <2>2. CASE i + 1 \notin T
    <3>1. T \in SUBSET (1..i)
      BY <2>2
    <3> QED
      BY <1>2, <3>1
  <2> QED
    BY <2>1, <2>2
<1> HIDE DEF I
<1>3. k \in I
  BY <1>1, <1>2, SetInduction
<1> QED
  BY <1>3 DEF I

LEMMA StreamIs ==
  ASSUME NEW s \in Stream
  PROVE  DOMAIN s = 1..Len(s) /\ Len(s) \in Nat /\ s \in Seq(ToSet(s))
<1>1. s \in Seq(ToSet(s))
  BY IndexAssumption
<1> QED
  BY <1>1

LEMMA DeepestIs ==
  ASSUME NEW map \in Maps, NEW prompt \in Stream, NEW d, d = Deepest(map, prompt)
  PROVE  /\ DOMAIN d \subseteq Name /\ d \in [DOMAIN d -> Nat]
         /\ \A n \in Name : n \in DOMAIN d <=> \E p \in DOMAIN prompt : SubSeq(prompt, 1, p) \in map[n]
         /\ \A n \in DOMAIN d : /\ d[n] \in DOMAIN prompt /\ SubSeq(prompt, 1, d[n]) \in map[n]
                                /\ \A p \in DOMAIN prompt : SubSeq(prompt, 1, p) \in map[n] => p <= d[n]
<1> DEFINE common(n) == {p \in DOMAIN prompt : SubSeq(prompt, 1, p) \in map[n]}
           deepest(n) == CHOOSE p \in common(n) : \A q \in common(n) : q <= p
           D == {n \in Name : common(n) # {}}
<1>1. d = [n \in D |-> deepest(n)]
  BY DEF Deepest
<1>2. DOMAIN prompt = 1..Len(prompt) /\ Len(prompt) \in Nat
  BY StreamIs
<1>3. ASSUME NEW n \in D PROVE deepest(n) \in common(n) /\ \A q \in common(n) : q <= deepest(n)
  <2>1. common(n) \in SUBSET (1..Len(prompt)) /\ common(n) # {}
    BY <1>2
  <2> HIDE DEF common
  <2>2. \E p \in common(n) : \A q \in common(n) : q <= p
    BY <1>2, <2>1, LastOf
  <2> QED
    BY <2>2
<1>4. \A n \in D : d[n] = deepest(n)
  BY <1>1
<1>5. DOMAIN d = D
  BY <1>1
<1> HIDE DEF deepest
<1>6. \A n \in D : d[n] \in common(n) /\ \A q \in common(n) : q <= d[n]
  BY <1>3, <1>4
<1>7. \A n \in D : d[n] \in Nat
  BY <1>2, <1>6
<1>8. d \in [D -> Nat]
  BY <1>1, <1>4, <1>7
<1> QED
  BY <1>5, <1>6, <1>8

-----------------------------------------------------------------------------
(* Types.                                                                   *)

Places == {"idle", "stat", "read", "append", "measure", "compact", "forget", "sweep"}
Writers == [at : Places, name : Name \union {None}, want : SUBSET Stream, len : Nat, body : Seq(Line)]
Hit == [name : Name, of : Manifest, cuts : SUBSET Nat]
Hits == Seq(Hit)
Depths == UNION {[D -> Nat] : D \in SUBSET Name}
Lookups == [at : {"idle", "read", "manifests"}, prompt : Stream \cup {<<>>}, len : Nat,
            deepest : Depths, hits : Hits, disturbed : SUBSET Name]

(* What a commit is to append is finite, and it appends something.          *)
Writing ==
  /\ writer \in Writers /\ IsFiniteSet(writer.want)
  /\ writer.at \in {"stat", "read", "append"} => writer.name \in Name
  /\ writer.at = "append" => writer.body # <<>>

Looking ==
  /\ lookup \in Lookups
  /\ lookup.at # "idle" => lookup.prompt \in Stream

Typed ==
  /\ file \in Seq(Line)
  /\ manifest \in [Name -> Manifest \union {None}]
  /\ cache \in Caches
  /\ Writing
  /\ Looking
  /\ behind \in SUBSET Name
  /\ apart \in SUBSET Name

LEMMA TypedIsOK == Typed => TypeOK
<1> SUFFICES ASSUME Typed PROVE TypeOK
  OBVIOUS
<1>1. /\ file \in Seq(Line) /\ manifest \in [Name -> Manifest \union {None}] /\ cache \in Caches
      /\ writer \in Writers /\ lookup \in Lookups /\ behind \subseteq Name /\ apart \subseteq Name
  BY DEF Typed, Writing, Looking
<1>2. cache \in [len : Nat, map : [Name -> SUBSET Stream], compacted : Nat]
  BY <1>1 DEF Caches, Maps
<1>3. writer \in [at : {"idle", "stat", "read", "append", "measure", "compact", "forget", "sweep"},
                  name : Name \union {None}, want : SUBSET Stream, len : Nat, body : Seq(Line)]
  BY <1>1 DEF Writers, Places
<1>4. /\ lookup.at \in {"idle", "read", "manifests"}
      /\ lookup.deepest \in Depths /\ lookup.hits \in Seq(Hit)
  BY <1>1 DEF Lookups, Hits
<1>5. DOMAIN lookup.deepest \subseteq Name
  BY <1>4 DEF Depths
<1>6. \A i \in DOMAIN lookup.hits : lookup.hits[i].of \in Manifest
  <2> SUFFICES ASSUME NEW i \in DOMAIN lookup.hits PROVE lookup.hits[i].of \in Manifest
    OBVIOUS
  <2>1. lookup.hits[i] \in Hit
    BY <1>4
  <2> QED
    BY <2>1 DEF Hit
<1> QED
  BY <1>1, <1>2, <1>3, <1>4, <1>5, <1>6 DEF TypeOK

LEMMA IdleTyped ==
  /\ IdleWriter \in Writers /\ IdleWriter.at = "idle" /\ IsFiniteSet(IdleWriter.want)
  /\ [IdleWriter EXCEPT !.at = "sweep"] \in Writers /\ IsFiniteSet([IdleWriter EXCEPT !.at = "sweep"].want)
  /\ [IdleWriter EXCEPT !.at = "compact"] \in Writers /\ IsFiniteSet([IdleWriter EXCEPT !.at = "compact"].want)
  /\ IdleLookup \in Lookups /\ IdleLookup.at = "idle"
  /\ EmptyCache \in Caches
<1>1. <<>> \in Seq(Line) /\ <<>> \in Hits
  BY DEF Hits
<1>2. IsFiniteSet({})
  BY FS_EmptySet
<1>3. /\ IdleWriter \in Writers /\ IdleWriter.at = "idle" /\ IdleWriter.want = {}
      /\ [IdleWriter EXCEPT !.at = "sweep"] \in Writers /\ [IdleWriter EXCEPT !.at = "sweep"].want = {}
      /\ [IdleWriter EXCEPT !.at = "compact"] \in Writers /\ [IdleWriter EXCEPT !.at = "compact"].want = {}
  BY <1>1 DEF IdleWriter, Writers, Places
<1>4. <<>> \in Depths
  <2>1. <<>> = [x \in {} |-> 0]
    OBVIOUS
  <2>2. [x \in {} |-> 0] \in [{} -> Nat]
    OBVIOUS
  <2> QED
    BY <2>1, <2>2 DEF Depths
<1>5. IdleLookup \in Lookups /\ IdleLookup.at = "idle"
  BY <1>1, <1>4 DEF IdleLookup, Lookups
<1>6. EmptyCache \in Caches
  BY NothingIs DEF EmptyCache, Caches
<1> QED
  BY <1>2, <1>3, <1>5, <1>6

LEMMA InitTyped == Init => Typed
<1> SUFFICES ASSUME Init PROVE Typed
  OBVIOUS
<1>1. file = <<>> /\ writer = IdleWriter /\ lookup = IdleLookup /\ cache = EmptyCache
      /\ manifest = [n \in Name |-> None] /\ behind = {} /\ apart = {}
  BY DEF Init
<1>2. Writing
  BY <1>1, IdleTyped DEF Writing
<1>3. Looking
  BY <1>1, IdleTyped DEF Looking
<1>4. file \in Seq(Line)
  BY <1>1
<1> QED
  BY <1>1, <1>2, <1>3, <1>4, IdleTyped DEF Typed

(* What a commit appends.                                                   *)
LEMMA ExtensionIs ==
  ASSUME NEW have \in SUBSET Stream, NEW n \in Name, NEW want \in SUBSET Stream, IsFiniteSet(want),
         NEW b, b = Extension(have, n, want)
  PROVE  /\ b \in Seq(Line)
         /\ have \subseteq want => b = LinesOf(n, want \ have) /\ (b = <<>> => have = want)
         /\ ~(have \subseteq want) => b = <<Gone(n)>> \o LinesOf(n, want) /\ b # <<>>
<1>1. CASE have \subseteq want
  <2>1. b = LinesOf(n, want \ have)
    BY <1>1 DEF Extension
  <2>2. PICK X \in SUBSET Stream : X = want \ have
    OBVIOUS
  <2>3. X \in SUBSET want /\ IsFiniteSet(X)
    BY <2>2, FS_Subset
  <2>4. b \in Seq(Line) /\ (want \ have # {} => b # <<>>)
    <3>1. LinesOf(n, X) \in Seq(Line) /\ (X # {} => LinesOf(n, X) # <<>>)
      BY <2>3, LinesSay
    <3> QED
      BY <2>1, <2>2, <3>1
  <2> QED
    BY <1>1, <2>1, <2>4
<1>2. CASE ~(have \subseteq want)
  <2>1. b = <<Gone(n)>> \o LinesOf(n, want)
    BY <1>2 DEF Extension
  <2>2. b \in Seq(Line) /\ b # <<>>
    BY <2>1, RewriteSays DEF Rewrite
  <2> QED
    BY <1>2, <2>1, <2>2
<1> QED
  BY <1>1, <1>2

LEMMA DisturbTyped ==
  ASSUME Looking, NEW n \in Name, Disturb(n)
  PROVE  Looking'
<1>1. CASE LookupAt("idle")
  BY <1>1 DEF Disturb, Looking
<1>2. CASE ~LookupAt("idle")
  <2>1. lookup' = [lookup EXCEPT !.disturbed = @ \union {n}]
    BY <1>2 DEF Disturb
  <2>2. lookup \in Lookups
    BY DEF Looking
  <2>4. lookup.disturbed \in SUBSET Name
    BY <2>2 DEF Lookups
  <2>5. PICK D \in SUBSET Name : D = lookup.disturbed \cup {n}
    BY <2>4
  <2>6. lookup' = [lookup EXCEPT !.disturbed = D]
    BY <2>1, <2>5
  <2>3. lookup' \in Lookups /\ lookup'.at = lookup.at /\ lookup'.prompt = lookup.prompt
    BY <2>2, <2>6 DEF Lookups
  <2> QED
    BY <2>3 DEF Looking
<1> QED
  BY <1>1, <1>2

LEMMA TypedStep == Typed /\ [Next]_vars => Typed'
<1> SUFFICES ASSUME Typed, [Next]_vars PROVE Typed'
  OBVIOUS
<1>0. /\ file \in Seq(Line) /\ manifest \in [Name -> Manifest \union {None}] /\ cache \in Caches
      /\ Writing /\ Looking /\ behind \in SUBSET Name /\ apart \in SUBSET Name
      /\ writer \in Writers /\ IsFiniteSet(writer.want) /\ lookup \in Lookups
  BY DEF Typed, Writing, Looking
<1>00. /\ writer.len \in Nat /\ writer.want \in SUBSET Stream /\ writer.body \in Seq(Line)
       /\ cache.map \in Maps /\ cache.len \in Nat /\ lookup.len \in Nat /\ Len(file) \in Nat
       /\ lookup.disturbed \in SUBSET Name /\ lookup.hits \in Hits /\ lookup.deepest \in Depths
  BY <1>0 DEF Writers, Caches, Lookups
<1>1. CASE UNCHANGED vars
  BY <1>0, <1>1 DEF vars, Typed, Writing, Looking
<1>2. ASSUME NEW n \in Name, NEW m \in Manifest, Commit(n, m) PROVE Typed'
  <2>1. /\ manifest' = [manifest EXCEPT ![n] = m]
        /\ writer' = [IdleWriter EXCEPT !.at = "stat", !.name = n, !.want = PrefixesAt(m)]
        /\ Disturb(n) /\ UNCHANGED <<file, cache, behind, apart>>
    BY <1>2 DEF Commit
  <2>2. PrefixesAt(m) \in SUBSET Stream /\ IsFiniteSet(PrefixesAt(m))
    BY ManifestIs
  <2>3. <<>> \in Seq(Line)
    OBVIOUS
  <2>4. writer' = [at |-> "stat", name |-> n, want |-> PrefixesAt(m), len |-> 0, body |-> <<>>]
    BY <2>1 DEF IdleWriter
  <2>5. writer' \in Writers /\ writer'.at = "stat" /\ writer'.name = n /\ writer'.want = PrefixesAt(m)
    BY <2>2, <2>3, <2>4 DEF Writers, Places
  <2>6. Writing'
    BY <2>2, <2>5 DEF Writing
  <2>7. Looking'
    BY <1>0, <2>1, DisturbTyped
  <2>8. manifest' \in [Name -> Manifest \union {None}]
    BY <1>0, <2>1
  <2> QED
    BY <1>0, <2>1, <2>6, <2>7, <2>8 DEF Typed
<1>3. CASE Measure
  <2>1. writer' = [writer EXCEPT !.at = "read", !.len = Len(file)] /\ writer.at = "stat"
        /\ UNCHANGED <<file, manifest, cache, lookup, behind, apart>>
    BY <1>3 DEF Measure, WriterAt
  <2>2. writer' \in Writers /\ writer'.at = "read" /\ writer'.name = writer.name /\ writer'.want = writer.want
    BY <1>0, <1>00, <2>1 DEF Writers, Places
  <2>3. Writing'
    BY <1>0, <2>1, <2>2 DEF Writing
  <2> QED
    BY <1>0, <2>1, <2>3 DEF Typed, Looking
<1>4. CASE DecideExtension
  <2> DEFINE c == Refreshed(writer.len)
             body == Extension(c.map[writer.name], writer.name, writer.want)
  <2>1. /\ writer.at = "read" /\ cache' = c /\ UNCHANGED <<file, manifest, lookup, apart>>
        /\ \/ writer' = IdleWriter /\ behind' = behind \ {writer.name}
           \/ body # <<>> /\ writer' = [writer EXCEPT !.at = "append", !.body = body] /\ UNCHANGED behind
    BY <1>4 DEF DecideExtension, WriterAt
  <2>2. c \in Caches /\ writer.name \in Name
    BY <1>0, <1>00, <2>1, RefreshedIs DEF Writing
  <2> HIDE DEF c
  <2>3. c.map[writer.name] \in SUBSET Stream
    BY <2>2 DEF Caches, Maps
  <2>4. body \in Seq(Line)
    <3>1. PICK h \in SUBSET Stream : h = c.map[writer.name]
      BY <2>3
    <3>2. writer.name \in Name /\ writer.want \in SUBSET Stream /\ IsFiniteSet(writer.want)
      BY <1>0, <1>00, <2>2
    <3>3. Extension(h, writer.name, writer.want) \in Seq(Line)
      BY <3>2, ExtensionIs
    <3> QED
      BY <3>1, <3>3
  <2> HIDE DEF body
  <2>5. CASE writer' = IdleWriter /\ behind' = behind \ {writer.name}
    <3>1. Writing'
      BY <2>5, IdleTyped DEF Writing
    <3> QED
      BY <1>0, <2>1, <2>2, <2>5, <3>1 DEF Typed, Looking
  <2>6. CASE body # <<>> /\ writer' = [writer EXCEPT !.at = "append", !.body = body] /\ UNCHANGED behind
    <3>1. writer' \in Writers /\ writer'.at = "append" /\ writer'.name = writer.name
          /\ writer'.want = writer.want /\ writer'.body = body
      BY <1>0, <2>4, <2>6 DEF Writers, Places
    <3>2. Writing'
      BY <1>0, <2>2, <2>6, <3>1 DEF Writing
    <3> QED
      BY <1>0, <2>1, <2>2, <2>6, <3>2 DEF Typed, Looking
  <2> QED
    BY <2>1, <2>5, <2>6
<1>5. CASE AppendLines
  <2>1. /\ writer.at = "append" /\ file' = file \o writer.body
        /\ cache' = [cache EXCEPT !.map = Replay(@, writer.body),
                                  !.len = IF @ = Len(file) THEN @ + Len(writer.body) ELSE @]
        /\ writer' = [writer EXCEPT !.at = "measure"] /\ behind' = behind \ {writer.name}
        /\ (apart' = apart \/ apart' = apart \ {writer.name}) /\ UNCHANGED <<manifest, lookup>>
    BY <1>5 DEF AppendLines, WriterAt
  <2>2. file' \in Seq(Line)
    BY <1>0, <1>00, <2>1
  <2>3. Replay(cache.map, writer.body) \in Maps /\ Len(writer.body) \in Nat
    BY <1>00, ReplayIs
  <2>4. cache' \in Caches
    <3>1. PICK M \in Maps : M = Replay(cache.map, writer.body)
      BY <2>3
    <3>2. PICK k \in Nat : k = IF cache.len = Len(file) THEN cache.len + Len(writer.body) ELSE cache.len
      BY <1>00, <2>3
    <3>3. cache' = [cache EXCEPT !.map = M, !.len = k]
      BY <1>0, <2>1, <3>1, <3>2 DEF Caches
    <3> QED
      BY <1>0, <3>3 DEF Caches
  <2>5. writer' \in Writers /\ writer'.at = "measure" /\ writer'.want = writer.want
    BY <1>0, <2>1 DEF Writers, Places
  <2>6. Writing'
    BY <1>0, <2>5 DEF Writing
  <2> QED
    BY <1>0, <2>1, <2>2, <2>4, <2>6 DEF Typed, Looking
<1>6. CASE AppendFails
  <2>1. /\ writer.at = "append" /\ writer' = [writer EXCEPT !.at = "measure"]
        /\ behind' = behind \union {writer.name} /\ UNCHANGED <<file, manifest, cache, lookup, apart>>
    BY <1>6 DEF AppendFails, WriterAt
  <2>2. writer' \in Writers /\ writer'.at = "measure" /\ writer'.want = writer.want /\ writer.name \in Name
    BY <1>0, <2>1 DEF Writers, Places, Writing
  <2>3. Writing'
    BY <1>0, <2>2 DEF Writing
  <2> QED
    BY <1>0, <2>1, <2>2, <2>3 DEF Typed, Looking
<1>7. CASE CheckDoubled
  <2>1. /\ writer' = IdleWriter \/ writer' = [IdleWriter EXCEPT !.at = "compact"]
        /\ UNCHANGED <<file, manifest, cache, lookup, behind, apart>>
    BY <1>7 DEF CheckDoubled
  <2>2. Writing'
    BY <2>1, IdleTyped DEF Writing, IdleWriter
  <2> QED
    BY <1>0, <2>1, <2>2 DEF Typed, Looking
<1>8. ASSUME Compact PROVE file' \in Seq(Line) /\ apart' \in SUBSET Name
  <2>1. PICK names \in SetToSeqs(Name) : file' = Canonical(names)
    BY <1>8 DEF Compact
  <2>2. PICK c : c = Canonical(names)
    OBVIOUS
  <2>3. c \in Seq(Line)
    BY <1>0, <2>2, CanonicalIs
  <2>4. apart' \in SUBSET Name
    BY <1>0, <1>8 DEF Compact, Unnoticed
  <2> QED
    BY <2>1, <2>2, <2>3, <2>4
<1>9. CASE CompactDoubled
  <2>1. /\ Compact /\ writer' = [writer EXCEPT !.at = "forget"]
        /\ UNCHANGED <<manifest, cache, lookup, behind>>
    BY <1>9 DEF CompactDoubled
  <2>2. writer' \in Writers /\ writer'.at = "forget" /\ writer'.want = writer.want
    BY <1>0, <2>1 DEF Writers, Places
  <2>3. Writing'
    BY <1>0, <2>2 DEF Writing
  <2> QED
    BY <1>0, <1>8, <2>1, <2>3 DEF Typed, Looking
<1>10. CASE ForgetParse
  <2>1. /\ cache' = [EmptyCache EXCEPT !.compacted = Len(file)] /\ writer' = IdleWriter
        /\ UNCHANGED <<file, manifest, lookup, behind, apart>>
    BY <1>10 DEF ForgetParse
  <2>2. cache' \in Caches
    BY <1>00, <2>1, IdleTyped DEF Caches
  <2>3. Writing'
    BY <2>1, IdleTyped DEF Writing
  <2> QED
    BY <1>0, <2>1, <2>2, <2>3 DEF Typed, Looking
<1>11. ASSUME NEW n \in Name, RemoveManifest(n) PROVE Typed'
  <2>1. /\ manifest' = [manifest EXCEPT ![n] = None] /\ writer' = [IdleWriter EXCEPT !.at = "sweep"]
        /\ Disturb(n) /\ UNCHANGED <<file, cache, behind, apart>>
    BY <1>11 DEF RemoveManifest
  <2>2. Writing'
    BY <2>1, IdleTyped DEF Writing, IdleWriter
  <2>3. Looking'
    BY <1>0, <2>1, DisturbTyped
  <2>4. manifest' \in [Name -> Manifest \union {None}]
    BY <1>0, <2>1
  <2> QED
    BY <1>0, <2>1, <2>2, <2>3, <2>4 DEF Typed
<1>12. CASE Sweep
  <2>1. /\ Compact \/ UNCHANGED <<file, apart>>
        /\ writer' = IdleWriter /\ UNCHANGED <<manifest, cache, lookup, behind>>
    BY <1>12 DEF Sweep
  <2>2. Writing'
    BY <2>1, IdleTyped DEF Writing
  <2>3. file' \in Seq(Line) /\ apart' \in SUBSET Name
    BY <1>0, <1>8, <2>1
  <2> QED
    BY <1>0, <2>1, <2>2, <2>3 DEF Typed, Looking
<1>13. ASSUME NEW prompt \in Stream, Probe(prompt) PROVE Typed'
  <2>1. /\ lookup' = [IdleLookup EXCEPT !.at = "read", !.prompt = prompt, !.len = Len(file),
                                       !.disturbed = Unindexed]
        /\ UNCHANGED <<file, manifest, cache, writer, behind, apart>>
    BY <1>13 DEF Probe
  <2>2. Unindexed \in SUBSET Name
    BY <1>0 DEF Unindexed, Writing
  <2>3. IdleLookup \in Lookups
    BY IdleTyped
  <2>4. lookup' \in Lookups /\ lookup'.prompt = prompt
    BY <1>00, <2>1, <2>2, <2>3 DEF Lookups
  <2>5. Looking'
    BY <2>4 DEF Looking
  <2> QED
    BY <1>0, <2>1, <2>5 DEF Typed, Writing
<1>14. CASE Shortlist
  <2>1. /\ lookup.at = "read" /\ cache' = Refreshed(lookup.len)
        /\ lookup' = [lookup EXCEPT !.at = "manifests", !.deepest = Deepest(cache'.map, lookup.prompt)]
        /\ UNCHANGED <<file, manifest, writer, behind, apart>>
    BY <1>14 DEF Shortlist, LookupAt
  <2>2. cache' \in Caches
    BY <1>0, <1>00, <2>1, RefreshedIs
  <2>3. cache'.map \in Maps /\ lookup.prompt \in Stream
    BY <1>0, <2>1, <2>2 DEF Caches, Looking
  <2>4. PICK d : d = Deepest(cache'.map, lookup.prompt)
    OBVIOUS
  <2>5. DOMAIN d \subseteq Name /\ d \in [DOMAIN d -> Nat]
    BY <2>3, <2>4, DeepestIs
  <2>6. d \in Depths
    BY <2>5 DEF Depths
  <2>7. lookup' = [lookup EXCEPT !.at = "manifests", !.deepest = d]
    BY <2>1, <2>4
  <2>8. lookup' \in Lookups /\ lookup'.prompt = lookup.prompt
    BY <1>0, <2>6, <2>7 DEF Lookups
  <2>9. Looking'
    BY <2>3, <2>8 DEF Looking
  <2> QED
    BY <1>0, <2>1, <2>2, <2>9 DEF Typed, Writing
<1>15. ASSUME NEW n \in Name, ReadManifest(n) PROVE Typed'
  <2> DEFINE m == manifest[n]
             hit == IF m = None THEN {} ELSE AgreedCuts(m, lookup.deepest[n])
  <2>1. /\ lookup.at = "manifests" /\ n \in DOMAIN lookup.deepest
        /\ lookup' = [lookup EXCEPT
             !.deepest = [o \in DOMAIN @ \ {n} |-> @[o]],
             !.hits = IF hit = {} THEN @ ELSE Append(@, [name |-> n, of |-> m, cuts |-> hit])]
        /\ UNCHANGED <<file, manifest, cache, writer, behind, apart>>
    BY <1>15 DEF ReadManifest, LookupAt
  <2>2. PICK D \in SUBSET Name : lookup.deepest \in [D -> Nat]
    BY <1>00 DEF Depths
  <2>3. PICK d : d = [o \in DOMAIN lookup.deepest \ {n} |-> lookup.deepest[o]]
    OBVIOUS
  <2>4. d \in [D \ {n} -> Nat] /\ D \ {n} \in SUBSET Name
    BY <2>2, <2>3
  <2>5. d \in Depths
    BY <2>4 DEF Depths
  <2>6. PICK h : h = IF hit = {} THEN lookup.hits ELSE Append(lookup.hits, [name |-> n, of |-> m, cuts |-> hit])
    OBVIOUS
  <2>7. h \in Hits
    <3>1. CASE hit = {}
      BY <1>00, <2>6, <3>1
    <3>2. CASE hit # {}
      <4>1. m \in Manifest
        BY <1>0, <3>2
      <4>2. hit \in SUBSET Nat
        <5>1. m.ends \in SUBSET (1..Len(m.stream)) /\ m.stream \in Seq(ToSet(m.stream))
          BY <4>1, ManifestIs
        <5>2. m.ends \in SUBSET Nat
          BY <5>1
        <5> QED
          BY <3>2, <5>2 DEF AgreedCuts
      <4> HIDE DEF hit
      <4>3. [name |-> n, of |-> m, cuts |-> hit] \in Hit
        BY <4>1, <4>2 DEF Hit
      <4> QED
        BY <1>00, <2>6, <3>2, <4>3 DEF Hits
    <3> QED
      BY <3>1, <3>2
  <2> HIDE DEF hit
  <2>8. lookup' = [lookup EXCEPT !.deepest = d, !.hits = h]
    BY <2>1, <2>3, <2>6
  <2>9. lookup' \in Lookups /\ lookup'.prompt = lookup.prompt
    BY <1>0, <2>5, <2>7, <2>8 DEF Lookups
  <2>10. Looking'
    BY <1>0, <2>1, <2>9 DEF Looking
  <2> QED
    BY <1>0, <2>1, <2>10 DEF Typed, Writing
<1>16. CASE Return
  <2>1. lookup' = IdleLookup /\ UNCHANGED <<file, manifest, cache, writer, behind, apart>>
    BY <1>16 DEF Return
  <2>2. Looking'
    BY <2>1, IdleTyped DEF Looking
  <2> QED
    BY <1>0, <2>1, <2>2 DEF Typed, Writing
<1>17. CASE Kill
  <2>1. /\ cache' = [EmptyCache EXCEPT !.len = Len(file), !.map = Replay(Nothing, file)]
        /\ writer' = IdleWriter /\ lookup' = IdleLookup
        /\ behind' = behind \union apart \union Unindexed /\ apart' = {} /\ UNCHANGED <<file, manifest>>
    BY <1>17 DEF Kill
  <2>2. Unindexed \in SUBSET Name
    BY <1>0 DEF Unindexed, Writing
  <2>3. PICK M \in Maps : M = Replay(Nothing, file)
    BY <1>0, NothingIs, ReplayIs
  <2>4. cache' = [EmptyCache EXCEPT !.len = Len(file), !.map = M]
    BY <2>1, <2>3
  <2>5. cache' \in Caches
    BY <1>00, <2>4, IdleTyped DEF Caches
  <2>6. Writing' /\ Looking'
    BY <2>1, IdleTyped DEF Writing, Looking
  <2> QED
    BY <1>0, <2>1, <2>2, <2>5, <2>6 DEF Typed
<1> QED
  BY <1>1, <1>2, <1>3, <1>4, <1>5, <1>6, <1>7, <1>9, <1>10, <1>11, <1>12, <1>13, <1>14, <1>15,
     <1>16, <1>17 DEF Next

LEMMA AlwaysTyped == Spec => []Typed
<1>1. Init => Typed
  BY InitTyped
<1>2. Typed /\ [Next]_vars => Typed'
  BY TypedStep
<1> QED
  BY <1>1, <1>2, PTL DEF Spec

(* Types of the file, the manifests, the parse and both threads.            *)
THEOREM TypeCorrect == Spec => []TypeOK
<1>1. Spec => []Typed
  BY AlwaysTyped
<1>2. Typed => TypeOK
  BY TypedIsOK
<1> QED
  BY <1>1, <1>2, PTL

-----------------------------------------------------------------------------
(* When a parse of a part of the file comes to what the whole file says.    *)

ExactIn(c, f, n) == Replay(c.map, SubSeq(f, c.len + 1, Len(f)))[n] = Said(f, n)

LEMMA ExactIfSaid ==
  ASSUME NEW c \in Caches, NEW f \in Seq(Line), NEW n \in Name, c.map[n] = Said(f, n)
  PROVE  ExactIn(c, f, n)
<1>1. c.map \in Maps /\ c.len \in Nat
  BY DEF Caches
<1>2. Replay(c.map, SubSeq(f, c.len + 1, Len(f)))[n] = Said(f, n)
  BY <1>1, ReplayEnd
<1> QED
  BY <1>2 DEF ExactIn

LEMMA ReplayNone ==
  ASSUME NEW map \in Maps, NEW n \in Name
  PROVE  Replay(map, <<>>)[n] = map[n]
<1>1. <<>> \in Seq(Line)
  OBVIOUS
<1>2. Replay(map, <<>>)[n] = (IF Retracting(<<>>, n) THEN {} ELSE map[n]) \cup Said(<<>>, n)
  BY <1>1, ReplaySays
<1> QED
  BY <1>2, NoLines

LEMMA PastTheEnd ==
  ASSUME NEW f \in Seq(Line), NEW k \in Nat, k >= Len(f)
  PROVE  SubSeq(f, k + 1, Len(f)) = <<>>
  OBVIOUS

LEMMA ExactAtEnd ==
  ASSUME NEW c \in Caches, NEW f \in Seq(Line), NEW n \in Name, c.len >= Len(f), ExactIn(c, f, n)
  PROVE  c.map[n] = Said(f, n)
<1>1. c.map \in Maps /\ c.len \in Nat
  BY DEF Caches
<1>2. SubSeq(f, c.len + 1, Len(f)) = <<>>
  BY <1>1, PastTheEnd
<1>3. Replay(c.map, <<>>)[n] = Said(f, n)
  BY <1>2 DEF ExactIn
<1> QED
  BY <1>1, <1>3, ReplayNone

LEMMA EndOfJoin ==
  ASSUME NEW T, NEW f \in Seq(T), NEW b \in Seq(T), NEW k \in Nat, k <= Len(f)
  PROVE  SubSeq(f \o b, k + 1, Len(f \o b)) = SubSeq(f, k + 1, Len(f)) \o b
<1> DEFINE p == SubSeq(f, 1, k)
           a == SubSeq(f, k + 1, Len(f))
           j == f \o b
           e == SubSeq(j, k + 1, Len(j))
           g == a \o b
<1>0. Len(f) \in Nat /\ Len(b) \in Nat
  OBVIOUS
<1>1. j \in Seq(T) /\ Len(j) = Len(f) + Len(b)
  OBVIOUS
<1>2. a \in Seq(T) /\ Len(a) = Len(f) - k
  OBVIOUS
<1>3. \A i \in 1..(Len(f) - k) : a[i] = f[k + i]
  <2> SUFFICES ASSUME NEW i \in 1..(Len(f) - k) PROVE a[i] = f[k + i]
    OBVIOUS
  <2>1. i \in 1..(Len(f) - (k + 1) + 1) /\ i + (k + 1) - 1 = k + i
    OBVIOUS
  <2>2. a[i] = f[i + (k + 1) - 1]
    BY <2>1
  <2> QED
    BY <2>1, <2>2
<1>4. \A i \in 1..Len(f) : j[i] = f[i]
  OBVIOUS
<1>5. \A i \in 1..Len(b) : j[Len(f) + i] = b[i]
  OBVIOUS
<1> HIDE DEF j, a
<1>6. Len(j) \in Nat /\ k <= Len(j)
  BY <1>0, <1>1
<1>7. e \in Seq(T) /\ Len(e) = Len(j) - k
  BY <1>1, <1>6
<1>8. \A i \in 1..(Len(j) - k) : e[i] = j[k + i]
  <2> SUFFICES ASSUME NEW i \in 1..(Len(j) - k) PROVE e[i] = j[k + i]
    OBVIOUS
  <2>1. i \in 1..(Len(j) - (k + 1) + 1) /\ i + (k + 1) - 1 = k + i
    BY <1>6
  <2>2. e[i] = j[i + (k + 1) - 1]
    BY <1>1, <1>6, <2>1
  <2> QED
    BY <2>1, <2>2
<1>9. /\ g \in Seq(T) /\ Len(g) = Len(a) + Len(b)
      /\ \A i \in 1..Len(a) : g[i] = a[i]
      /\ \A i \in 1..Len(b) : g[Len(a) + i] = b[i]
  BY <1>2
<1> HIDE DEF e, g
<1>10. Len(e) = Len(g) /\ Len(e) \in Nat
  BY <1>0, <1>1, <1>2, <1>6, <1>7, <1>9
<1>11. ASSUME NEW i \in 1..Len(e) PROVE e[i] = g[i]
  <2>1. i \in 1..(Len(j) - k) /\ e[i] = j[k + i]
    BY <1>7, <1>8
  <2>2. CASE i <= Len(f) - k
    <3>1. i \in 1..(Len(f) - k) /\ k + i \in 1..Len(f) /\ i \in 1..Len(a)
      BY <1>0, <1>2, <1>10, <2>2
    <3>2. g[i] = f[k + i] /\ j[k + i] = f[k + i]
      BY <1>3, <1>4, <1>9, <3>1
    <3> QED
      BY <2>1, <3>2
  <2>3. CASE ~(i <= Len(f) - k)
    <3>1. i - Len(a) \in 1..Len(b) /\ Len(a) + (i - Len(a)) = i /\ Len(f) + (i - Len(a)) = k + i
      BY <1>0, <1>1, <1>2, <1>6, <1>7, <1>10, <2>3
    <3>2. g[i] = b[i - Len(a)] /\ j[k + i] = b[i - Len(a)]
      <4>1. g[Len(a) + (i - Len(a))] = b[i - Len(a)] /\ j[Len(f) + (i - Len(a))] = b[i - Len(a)]
        BY <1>5, <1>9, <3>1
      <4> QED
        BY <3>1, <4>1
    <3> QED
      BY <2>1, <3>2
  <2> QED
    BY <2>2, <2>3
<1>12. e = g
  BY <1>7, <1>9, <1>10, <1>11
<1> QED
  BY <1>12 DEF e, g, j, a

LEMMA ExactAppended ==
  ASSUME NEW c \in Caches, NEW f \in Seq(Line), NEW b \in Seq(Line), NEW n \in Name, ExactIn(c, f, n),
         NEW d \in Caches, d.map = Replay(c.map, b),
         d.len = IF c.len = Len(f) THEN c.len + Len(b) ELSE c.len
  PROVE  ExactIn(d, f \o b, n)
<1> DEFINE a == SubSeq(f, c.len + 1, Len(f))
           j == f \o b
<1>1. c.map \in Maps /\ c.len \in Nat /\ Len(f) \in Nat /\ Len(b) \in Nat
  BY DEF Caches
<1>2. j \in Seq(Line) /\ Len(j) = Len(f) + Len(b)
  OBVIOUS
<1>3. Said(j, n) = (IF Retracting(b, n) THEN {} ELSE Said(f, n)) \cup Said(b, n)
  BY JoinSays
<1>4. CASE c.len >= Len(f)
  <2>1. c.map[n] = Said(f, n)
    BY <1>4, ExactAtEnd
  <2>2. Replay(c.map, b)[n] = (IF Retracting(b, n) THEN {} ELSE c.map[n]) \cup Said(b, n)
    BY <1>1, ReplaySays
  <2>3. d.map[n] = Said(j, n)
    BY <1>3, <2>1, <2>2
  <2> HIDE DEF j
  <2>4. ExactIn(d, j, n)
    BY <1>2, <2>3, ExactIfSaid
  <2> QED
    BY <2>4 DEF j
<1>5. CASE ~(c.len >= Len(f))
  <2>1. d.len = c.len /\ c.len <= Len(f)
    BY <1>1, <1>5
  <2>2. SubSeq(j, c.len + 1, Len(j)) = a \o b
    BY <1>1, <2>1, EndOfJoin
  <2>3. a \in Seq(Line)
    <3>1. c.len \in 0..Len(f)
      BY <1>1, <2>1
    <3> QED
      BY <3>1, SplitIs
  <2>4. Replay(c.map, a)[n] = Said(f, n)
    BY DEF ExactIn
  <2> HIDE DEF a, j
  <2>5. Replay(Replay(c.map, b), a \o b)[n] = Replay(c.map, a \o b)[n]
    BY <1>1, <2>3, ReplayTwice
  <2>6. Replay(Replay(c.map, a), b)[n] = Replay(c.map, a \o b)[n]
    BY <1>1, <2>3, ReplayJoin
  <2>7. Replay(c.map, a) \in Maps
    BY <1>1, <2>3, ReplayIs
  <2>8. PICK M \in Maps : M = Replay(c.map, a)
    BY <2>7
  <2>9. Replay(M, b)[n] = (IF Retracting(b, n) THEN {} ELSE M[n]) \cup Said(b, n)
    BY ReplaySays
  <2>10. Replay(d.map, SubSeq(j, d.len + 1, Len(j)))[n] = Said(j, n)
    BY <1>3, <2>1, <2>2, <2>4, <2>5, <2>6, <2>8, <2>9
  <2> QED
    BY <2>10 DEF ExactIn, j
<1> QED
  BY <1>4, <1>5

(* What with_index leaves in the cache, for any length a reader measured.   *)
LEMMA RefreshedExact ==
  ASSUME cache \in Caches, file \in Seq(Line), NEW len \in Nat, NEW n \in Name,
         ExactIn(cache, file, n)
  PROVE  /\ ExactIn(Refreshed(len), file, n)
         /\ cache.len # len => Refreshed(len).map[n] = Said(file, n)
<1>1. /\ Refreshed(len) \in Caches
      /\ Refreshed(len).map = IF cache.len = len THEN cache.map
                              ELSE IF len < cache.len THEN Replay(Nothing, file)
                              ELSE Replay(cache.map, Beyond(cache.len))
  BY RefreshedIs
<1>2. CASE cache.len = len
  BY <1>2 DEF Refreshed
<1>3. CASE cache.len # len
  <2>1. Refreshed(len).map[n] = Said(file, n)
    <3>1. CASE len < cache.len
      BY <1>1, <1>3, <3>1, FileSays
    <3>2. CASE ~(len < cache.len)
      <4>1. Refreshed(len).map = Replay(cache.map, Beyond(cache.len))
        BY <1>1, <1>3, <3>2
      <4> QED
        BY <4>1 DEF ExactIn, Beyond
    <3> QED
      BY <3>1, <3>2
  <2>2. PICK c \in Caches : c = Refreshed(len)
    BY <1>1
  <2>3. ExactIn(c, file, n)
    BY <2>1, <2>2, ExactIfSaid
  <2> QED
    BY <2>1, <2>2, <2>3
<1> QED
  BY <1>2, <1>3

LEMMA RestartExact ==
  ASSUME cache \in Caches, file \in Seq(Line), NEW len \in Nat, NEW n \in Name, len < cache.len
  PROVE  Refreshed(len).map[n] = Said(file, n) /\ ExactIn(Refreshed(len), file, n)
<1>1. cache.len \in Nat /\ cache.len # len
  BY DEF Caches
<1>2. Refreshed(len) \in Caches /\ Refreshed(len).map = Replay(Nothing, file)
  BY <1>1, RefreshedIs
<1>3. Refreshed(len).map[n] = Said(file, n)
  BY <1>2, FileSays
<1>4. PICK c \in Caches : c = Refreshed(len)
  BY <1>2
<1>5. ExactIn(c, file, n)
  BY <1>3, <1>4, ExactIfSaid
<1> QED
  BY <1>3, <1>4, <1>5

-----------------------------------------------------------------------------
(* The index: what the parse, the writer and the file know of each other.   *)

Exact(n) == ExactIn(cache, file, n)

(* The rest of the file, taken into the parse, says what the file says.     *)
(* Only a cache longer than the file may be wrong, which starts over when   *)
(* the next reader measures, and never of a conversation that is there.     *)
Parsed(n) ==
  /\ Exact(n) \/ (cache.len > Len(file) /\ writer.at # "append")
  /\ manifest[n] # None => Exact(n) \/ n \in Unindexed
CacheInv == \A n \in Name \ apart : Parsed(n)

(* A commit knows the length of the file, which nobody else changes, and    *)
(* what its manifest claims.                                                *)
WriterInv ==
  /\ writer.at = "read" => writer.len = Len(file)
  /\ \A n \in Unindexed : writer.want = PrefixesAt(manifest[n])

(* What it appends makes the file say just that.                            *)
Rewrites == writer.body = <<Gone(writer.name)>> \o LinesOf(writer.name, writer.want)
Extends ==
  \E X \in SUBSET writer.want :
    /\ X # {} /\ writer.body = LinesOf(writer.name, X)
    /\ writer.name \notin apart => Said(file, writer.name) \cup X = writer.want
AppendInv == writer.at = "append" => Rewrites \/ Extends

FileInv ==
  \A n \in Name \ (behind \union apart \union Unindexed) :
    manifest[n] # None => Said(file, n) = PrefixesAt(manifest[n])

Faithful == CacheInv /\ WriterInv /\ AppendInv /\ FileInv

LEMMA InitFaithful == Init => Faithful
<1> SUFFICES ASSUME Init PROVE Faithful
  OBVIOUS
<1>0. Typed
  BY InitTyped
<1>1. /\ file = <<>> /\ writer.at = "idle" /\ cache = EmptyCache /\ manifest = [n \in Name |-> None]
  BY IdleTyped DEF Init
<1>2. ASSUME NEW n \in Name PROVE Exact(n)
  <2>1. cache.map[n] = {}
    BY <1>1, NothingIs DEF EmptyCache
  <2>2. Said(file, n) = {}
    BY <1>1, NoLines
  <2>3. cache \in Caches /\ file \in Seq(Line)
    BY <1>0 DEF Typed
  <2>4. ExactIn(cache, file, n)
    BY <2>1, <2>2, <2>3, ExactIfSaid
  <2> QED
    BY <2>4 DEF Exact
<1>3. CacheInv
  BY <1>2 DEF CacheInv, Parsed
<1>4. WriterInv /\ AppendInv
  BY <1>1 DEF WriterInv, AppendInv, Unindexed
<1>5. FileInv
  BY <1>1 DEF FileInv
<1> QED
  BY <1>3, <1>4, <1>5 DEF Faithful

(* A step that leaves the file and the parse alone.                         *)
LEMMA SameParse ==
  ASSUME UNCHANGED <<file, cache>>
  PROVE  \A n \in Name : Exact(n)' <=> Exact(n)
  BY DEF Exact

LEMMA CommitFaithful ==
  ASSUME Typed, Faithful, NEW n \in Name, NEW m \in Manifest, Commit(n, m)
  PROVE  Faithful'
<1>1. /\ writer.at = "idle" /\ manifest' = [manifest EXCEPT ![n] = m]
      /\ writer' = [IdleWriter EXCEPT !.at = "stat", !.name = n, !.want = PrefixesAt(m)]
      /\ UNCHANGED <<file, cache, behind, apart>>
      /\ manifest \in [Name -> Manifest \union {None}]
  BY DEF Commit, WriterAt, Typed
<1>2. writer'.at = "stat" /\ writer'.name = n /\ writer'.want = PrefixesAt(m)
  BY <1>1 DEF IdleWriter
<1>3. Unindexed = {} /\ Unindexed' = {n}
  BY <1>1, <1>2 DEF Unindexed
<1>4. manifest'[n] = m /\ \A k \in Name \ {n} : manifest'[k] = manifest[k]
  BY <1>1
<1>5. CacheInv'
  <2> SUFFICES ASSUME NEW k \in Name \ apart PROVE Parsed(k)'
    BY <1>1 DEF CacheInv
  <2>1. Parsed(k)
    BY DEF Faithful, CacheInv
  <2>2. Exact(k)' <=> Exact(k)
    BY <1>1, SameParse
  <2> QED
    BY <1>1, <1>2, <1>3, <1>4, <2>1, <2>2 DEF Parsed
<1>7. WriterInv'
  BY <1>2, <1>3, <1>4 DEF WriterInv
<1>8. AppendInv'
  BY <1>2 DEF AppendInv
<1>9. FileInv'
  BY <1>1, <1>3, <1>4 DEF Faithful, FileInv
<1> QED
  BY <1>5, <1>7, <1>8, <1>9 DEF Faithful

LEMMA MeasureFaithful ==
  ASSUME Typed, Faithful, Measure
  PROVE  Faithful'
<1>1. /\ writer.at = "stat" /\ writer' = [writer EXCEPT !.at = "read", !.len = Len(file)]
      /\ UNCHANGED <<file, manifest, cache, behind, apart>> /\ writer \in Writers
  BY DEF Measure, WriterAt, Typed, Writing
<1>2. writer'.at = "read" /\ writer'.name = writer.name /\ writer'.want = writer.want /\ writer'.len = Len(file)
  BY <1>1 DEF Writers
<1>3. Unindexed' = Unindexed
  BY <1>1, <1>2 DEF Unindexed
<1>4. CacheInv'
  BY <1>1, <1>2, <1>3, SameParse DEF Faithful, CacheInv, Parsed
<1>5. WriterInv'
  BY <1>1, <1>2, <1>3 DEF Faithful, WriterInv
<1>6. AppendInv' /\ FileInv'
  BY <1>1, <1>2, <1>3 DEF Faithful, AppendInv, FileInv
<1> QED
  BY <1>4, <1>5, <1>6 DEF Faithful

LEMMA DecideFaithful ==
  ASSUME Typed, Faithful, DecideExtension
  PROVE  Faithful' /\ cache'.len = Len(file) /\ \A n \in Name \ apart : cache'.map[n] = Said(file, n)
<1> DEFINE c == Refreshed(writer.len)
           body == Extension(c.map[writer.name], writer.name, writer.want)
<1>0. /\ writer.at = "read" /\ cache' = c /\ UNCHANGED <<file, manifest, apart>>
      /\ \/ body = <<>> /\ writer' = IdleWriter /\ behind' = behind \ {writer.name}
         \/ body # <<>> /\ writer' = [writer EXCEPT !.at = "append", !.body = body] /\ UNCHANGED behind
  BY DEF DecideExtension, WriterAt
<1>1. /\ file \in Seq(Line) /\ cache \in Caches /\ writer \in Writers /\ IsFiniteSet(writer.want)
      /\ writer.name \in Name
  BY <1>0 DEF Typed, Writing
<1>2. /\ cache.len \in Nat /\ cache.map \in Maps /\ Len(file) \in Nat /\ writer.want \in SUBSET Stream
      /\ writer.len = Len(file)
  BY <1>0, <1>1 DEF Caches, Writers, Faithful, WriterInv
<1>3. c \in Caches /\ c.len = Len(file)
  BY <1>1, <1>2, RefreshedIs
<1>4. ASSUME NEW n \in Name \ apart PROVE c.map[n] = Said(file, n) /\ ExactIn(c, file, n)
  <2>1. Parsed(n)
    BY DEF Faithful, CacheInv
  <2>2. CASE cache.len > Len(file)
    BY <1>1, <1>2, <2>2, RestartExact
  <2>3. CASE ~(cache.len > Len(file))
    <3>1. ExactIn(cache, file, n)
      BY <2>1, <2>3 DEF Parsed, Exact
    <3>2. ExactIn(c, file, n) /\ (cache.len # Len(file) => c.map[n] = Said(file, n))
      BY <1>1, <1>2, <3>1, RefreshedExact
    <3>3. cache.len = Len(file) => c.map[n] = Said(file, n)
      <4> SUFFICES ASSUME cache.len = Len(file) PROVE c.map[n] = Said(file, n)
        OBVIOUS
      <4>1. c = cache
        BY <1>2 DEF Refreshed
      <4>2. cache.len >= Len(file)
        BY <1>2
      <4> QED
        BY <1>1, <3>1, <4>1, <4>2, ExactAtEnd
    <3> QED
      BY <3>2, <3>3
  <2> QED
    BY <2>2, <2>3
<1> HIDE DEF c
<1>5. \A n \in Name \ apart : Exact(n)'
  BY <1>0, <1>4 DEF Exact
<1>6. CacheInv'
  BY <1>0, <1>5 DEF CacheInv, Parsed
<1>7. Unindexed = {writer.name} /\ writer.want = PrefixesAt(manifest[writer.name])
  BY <1>0 DEF Unindexed, Faithful, WriterInv
<1>8. PICK have \in SUBSET Stream : have = c.map[writer.name]
  BY <1>1, <1>3 DEF Caches, Maps
<1>91. ASSUME have \subseteq writer.want
       PROVE  body = LinesOf(writer.name, writer.want \ have) /\ (body = <<>> => have = writer.want)
  <2>1. body = LinesOf(writer.name, writer.want \ have)
    BY <1>8, <1>91 DEF Extension
  <2>2. PICK X \in SUBSET writer.want : X = writer.want \ have
    OBVIOUS
  <2>3. X \in SUBSET Stream /\ IsFiniteSet(X)
    BY <1>1, <1>2, FS_Subset
  <2>4. X # {} => LinesOf(writer.name, X) # <<>>
    BY <1>1, <2>3, LinesSay
  <2> QED
    BY <1>91, <2>1, <2>2, <2>4
<1>92. ASSUME ~(have \subseteq writer.want)
       PROVE  body = <<Gone(writer.name)>> \o LinesOf(writer.name, writer.want) /\ body # <<>>
  <2>1. body = <<Gone(writer.name)>> \o LinesOf(writer.name, writer.want)
    BY <1>8, <1>92 DEF Extension
  <2> HIDE DEF body
  <2> QED
    BY <1>1, <1>2, <2>1, RewriteSays DEF Rewrite
<1>9. /\ have \subseteq writer.want => body = LinesOf(writer.name, writer.want \ have) /\ (body = <<>> => have = writer.want)
      /\ ~(have \subseteq writer.want) => body = <<Gone(writer.name)>> \o LinesOf(writer.name, writer.want) /\ body # <<>>
  <2> HIDE DEF body
  <2> QED
    BY <1>91, <1>92
<1> HIDE DEF body
<1>10. CASE body = <<>> /\ writer' = IdleWriter /\ behind' = behind \ {writer.name}
  <2>1. writer'.at = "idle" /\ Unindexed' = {}
    BY <1>10, IdleTyped DEF Unindexed
  <2>2. WriterInv' /\ AppendInv'
    BY <2>1 DEF WriterInv, AppendInv
  <2>3. writer.name \notin apart => Said(file, writer.name) = PrefixesAt(manifest[writer.name])
    BY <1>1, <1>4, <1>7, <1>8, <1>9, <1>10
  <2>4. FileInv'
    BY <1>0, <1>7, <1>10, <2>1, <2>3 DEF Faithful, FileInv
  <2> QED
    BY <1>0, <1>3, <1>4, <1>6, <2>2, <2>4 DEF Faithful
<1>11. CASE body # <<>> /\ writer' = [writer EXCEPT !.at = "append", !.body = body] /\ UNCHANGED behind
  <2>1. writer'.at = "append" /\ writer'.name = writer.name /\ writer'.want = writer.want /\ writer'.body = body
    BY <1>1, <1>11 DEF Writers
  <2>2. Unindexed' = Unindexed
    BY <1>7, <2>1 DEF Unindexed
  <2>3. WriterInv'
    BY <1>0, <1>7, <2>1, <2>2 DEF WriterInv
  <2>4. CASE have \subseteq writer.want
    <3>1. PICK X \in SUBSET writer.want : X = writer.want \ have
      OBVIOUS
    <3>2. X # {}
      <4>1. X = {} => LinesOf(writer.name, X) = <<>>
        <5> SUFFICES ASSUME X = {} PROVE LinesOf(writer.name, X) = <<>>
          OBVIOUS
        <5>1. {} \in SUBSET Stream /\ IsFiniteSet({})
          BY FS_EmptySet
        <5> QED
          BY <1>1, <5>1, LinesSay
      <4> QED
        BY <1>9, <1>11, <2>4, <3>1, <4>1
    <3>3. writer.name \notin apart => Said(file, writer.name) \cup X = writer.want
      BY <1>1, <1>4, <1>8, <2>4, <3>1
    <3>4. body = LinesOf(writer.name, X)
      BY <1>9, <2>4, <3>1
    <3>5. X \in SUBSET writer'.want /\ body = LinesOf(writer'.name, X)
          /\ (writer'.name \notin apart' => Said(file', writer'.name) \cup X = writer'.want)
      BY <1>0, <2>1, <3>3, <3>4
    <3>6. Extends'
      BY <2>1, <3>2, <3>5 DEF Extends
    <3>7. AppendInv'
      BY <3>6 DEF AppendInv
    <3>8. FileInv'
      BY <1>0, <1>11, <2>2 DEF Faithful, FileInv
    <3> QED
      BY <1>0, <1>3, <1>4, <1>6, <2>3, <3>7, <3>8 DEF Faithful
  <2>5. CASE ~(have \subseteq writer.want)
    <3>1. Rewrites'
      BY <1>9, <2>1, <2>5 DEF Rewrites
    <3>2. AppendInv'
      BY <3>1 DEF AppendInv
    <3>3. FileInv'
      BY <1>0, <1>11, <2>2 DEF Faithful, FileInv
    <3> QED
      BY <1>0, <1>3, <1>4, <1>6, <2>3, <3>2, <3>3 DEF Faithful
  <2> QED
    BY <2>4, <2>5
<1> QED
  BY <1>0, <1>10, <1>11

(* What is about to be appended says something of its conversation only.    *)
LEMMA BodySays ==
  ASSUME Typed, Faithful, writer.at = "append"
  PROVE  /\ \A k \in Name \ {writer.name} : ~Retracting(writer.body, k) /\ Said(writer.body, k) = {}
         /\ writer.body[1].kind = "gone" =>
              Retracting(writer.body, writer.name) /\ Said(writer.body, writer.name) = writer.want
         /\ writer.body[1].kind # "gone" =>
              /\ ~Retracting(writer.body, writer.name)
              /\ writer.name \notin apart => Said(file, writer.name) \cup Said(writer.body, writer.name) = writer.want
<1>1. writer.name \in Name /\ writer.want \in SUBSET Stream /\ IsFiniteSet(writer.want)
  BY DEF Typed, Writing, Writers
<1>2. CASE Rewrites
  <2>1. PICK n \in Name, X \in SUBSET Stream : n = writer.name /\ X = writer.want
    BY <1>1
  <2>2. PICK b : b = writer.body
    OBVIOUS
  <2>3. IsFiniteSet(X) /\ b = Rewrite(n, X)
    BY <1>1, <1>2, <2>1, <2>2 DEF Rewrites, Rewrite
  <2>4. /\ b[1].kind = "gone"
        /\ \A m \in Name : (Retracting(b, m) <=> m = n) /\ Said(b, m) = IF m = n THEN X ELSE {}
    BY <2>3, RewriteSays
  <2> QED
    BY <2>1, <2>2, <2>4
<1>3. CASE Extends
  <2>1. PICK Y \in SUBSET writer.want :
          /\ Y # {} /\ writer.body = LinesOf(writer.name, Y)
          /\ writer.name \notin apart => Said(file, writer.name) \cup Y = writer.want
    BY <1>3 DEF Extends
  <2>2. PICK n \in Name, X \in SUBSET Stream : n = writer.name /\ X = Y
    BY <1>1
  <2>3. IsFiniteSet(X) /\ X # {}
    BY <1>1, <2>1, <2>2, FS_Subset
  <2>4. /\ \A m \in Name : ~Retracting(LinesOf(n, X), m) /\ Said(LinesOf(n, X), m) = IF m = n THEN X ELSE {}
        /\ LinesOf(n, X)[1].kind = "at"
    BY <2>3, LinesSay
  <2> QED
    BY <2>1, <2>2, <2>4
<1> QED
  BY <1>2, <1>3 DEF Faithful, AppendInv

LEMMA AppendFaithful ==
  ASSUME Typed, Faithful, AppendLines
  PROVE  Faithful' /\ \A k \in Name \ {writer.name} : Said(file', k) = Said(file, k)
<1>0. /\ writer.at = "append" /\ file' = file \o writer.body
      /\ cache' = [cache EXCEPT !.map = Replay(@, writer.body),
                                !.len = IF @ = Len(file) THEN @ + Len(writer.body) ELSE @]
      /\ writer' = [writer EXCEPT !.at = "measure"] /\ behind' = behind \ {writer.name}
      /\ apart' = IF writer.body[1].kind = "gone" THEN apart \ {writer.name} ELSE apart
      /\ UNCHANGED <<manifest, lookup>>
  BY DEF AppendLines, WriterAt
<1>1. /\ file \in Seq(Line) /\ cache \in Caches /\ writer \in Writers /\ writer.body \in Seq(Line)
      /\ writer.name \in Name /\ cache' \in Caches /\ file' \in Seq(Line)
  <2>1. Typed'
    BY TypedStep DEF Next
  <2> QED
    BY <1>0, <2>1 DEF Typed, Writing, Writers
<1>2. /\ cache'.map = Replay(cache.map, writer.body)
      /\ cache'.len = IF cache.len = Len(file) THEN cache.len + Len(writer.body) ELSE cache.len
  BY <1>0, <1>1 DEF Caches
<1>3. writer'.at = "measure" /\ Unindexed' = {} /\ Unindexed = {writer.name}
      /\ writer.want = PrefixesAt(manifest[writer.name])
  BY <1>0, <1>1 DEF Writers, Unindexed, Faithful, WriterInv
<1>4. /\ \A k \in Name \ {writer.name} : ~Retracting(writer.body, k) /\ Said(writer.body, k) = {}
      /\ writer.body[1].kind = "gone" =>
           Retracting(writer.body, writer.name) /\ Said(writer.body, writer.name) = writer.want
      /\ writer.body[1].kind # "gone" =>
           /\ ~Retracting(writer.body, writer.name)
           /\ writer.name \notin apart => Said(file, writer.name) \cup Said(writer.body, writer.name) = writer.want
  BY <1>0, BodySays
<1>5. \A k \in Name : Said(file', k) =
        (IF Retracting(writer.body, k) THEN {} ELSE Said(file, k)) \cup Said(writer.body, k)
  BY <1>0, <1>1, JoinSays
<1>6. \A k \in Name \ {writer.name} : Said(file', k) = Said(file, k)
  BY <1>4, <1>5
<1>7. ASSUME NEW k \in Name \ apart PROVE Exact(k)'
  <2>1. ExactIn(cache, file, k)
    BY <1>0 DEF Faithful, CacheInv, Parsed, Exact
  <2>2. PICK c \in Caches, d \in Caches : c = cache /\ d = cache'
    BY <1>1
  <2>3. PICK f \in Seq(Line), b \in Seq(Line) : f = file /\ b = writer.body
    BY <1>1
  <2>4. ExactIn(c, f, k) /\ d.map = Replay(c.map, b) /\ d.len = IF c.len = Len(f) THEN c.len + Len(b) ELSE c.len
    BY <1>2, <2>1, <2>2, <2>3
  <2>5. ExactIn(d, f \o b, k)
    BY <2>4, ExactAppended
  <2> QED
    BY <1>0, <2>2, <2>3, <2>5 DEF Exact
<1>8. ASSUME writer.body[1].kind = "gone" PROVE ExactIn(cache', file', writer.name)
  <2>1. PICK n \in Name : n = writer.name
    BY <1>1
  <2>2. Said(file', n) = writer.want
    BY <1>4, <1>5, <1>8, <2>1
  <2>3. cache.map \in Maps
    BY <1>1 DEF Caches
  <2>4. Replay(cache.map, writer.body)[n] =
          (IF Retracting(writer.body, n) THEN {} ELSE cache.map[n]) \cup Said(writer.body, n)
    BY <1>1, <2>3, ReplaySays
  <2>5. cache'.map[n] = Said(file', n)
    BY <1>2, <1>4, <1>8, <2>1, <2>2, <2>4
  <2>6. PICK c \in Caches, f \in Seq(Line) : c = cache' /\ f = file'
    BY <1>1
  <2>7. c.map[n] = Said(f, n)
    BY <2>5, <2>6
  <2>8. ExactIn(c, f, n)
    BY <2>7, ExactIfSaid
  <2> QED
    BY <2>1, <2>6, <2>8
<1>9. \A k \in Name \ apart' : Exact(k)'
  BY <1>0, <1>7, <1>8 DEF Exact
<1>10. CacheInv'
  BY <1>9 DEF CacheInv, Parsed
<1>11. WriterInv' /\ AppendInv'
  BY <1>3 DEF WriterInv, AppendInv
<1>12. FileInv'
  <2> SUFFICES ASSUME NEW k \in Name, k \notin behind', k \notin apart', manifest[k] # None
               PROVE  Said(file', k) = PrefixesAt(manifest[k])
    BY <1>0 DEF FileInv
  <2>1. CASE k # writer.name
    <3>1. Said(file, k) = PrefixesAt(manifest[k])
      BY <1>0, <1>3, <2>1 DEF Faithful, FileInv
    <3> QED
      BY <1>6, <2>1, <3>1
  <2>2. CASE k = writer.name
    BY <1>0, <1>3, <1>4, <1>5, <2>2
  <2> QED
    BY <2>1, <2>2
<1> QED
  BY <1>6, <1>10, <1>11, <1>12 DEF Faithful

LEMMA AppendFailsFaithful ==
  ASSUME Typed, Faithful, AppendFails
  PROVE  Faithful'
<1>0. /\ writer.at = "append" /\ writer' = [writer EXCEPT !.at = "measure"]
      /\ behind' = behind \union {writer.name} /\ UNCHANGED <<file, manifest, cache, apart>>
      /\ writer \in Writers
  BY DEF AppendFails, WriterAt, Typed, Writing
<1>1. writer'.at = "measure" /\ Unindexed' = {} /\ Unindexed = {writer.name}
  BY <1>0 DEF Writers, Unindexed
<1>2. \A k \in Name \ apart : Exact(k)'
  BY <1>0, SameParse DEF Faithful, CacheInv, Parsed
<1>3. CacheInv'
  BY <1>0, <1>2 DEF CacheInv, Parsed
<1>4. WriterInv' /\ AppendInv'
  BY <1>1 DEF WriterInv, AppendInv
<1>5. FileInv'
  BY <1>0, <1>1 DEF Faithful, FileInv
<1> QED
  BY <1>3, <1>4, <1>5 DEF Faithful

(* A step of the writer that has nothing more to index.                     *)
LEMMA RestFaithful ==
  ASSUME Typed, Faithful, UNCHANGED <<file, cache, behind, apart>>,
         writer.at \notin {"stat", "read", "append"}, writer'.at \notin {"stat", "read", "append"},
         \A n \in Name : manifest'[n] = None \/ manifest'[n] = manifest[n]
  PROVE  Faithful'
<1>1. Unindexed = {} /\ Unindexed' = {}
  BY DEF Unindexed
<1>2. CacheInv'
  BY <1>1, SameParse DEF Faithful, CacheInv, Parsed
<1>3. WriterInv' /\ AppendInv'
  BY <1>1 DEF WriterInv, AppendInv
<1>4. FileInv'
  BY <1>1 DEF Faithful, FileInv
<1> QED
  BY <1>2, <1>3, <1>4 DEF Faithful

(* A compaction, which the parse need not notice.                           *)
LEMMA CompactFaithful ==
  ASSUME Typed, Faithful, Compact, UNCHANGED <<manifest, cache, behind>>,
         writer.at \notin {"stat", "read", "append"}, writer'.at \notin {"stat", "read", "append"}
  PROVE  Faithful' /\ \A n \in Name : manifest[n] # None => Said(file', n) = Said(file, n)
<1>0. file \in Seq(Line) /\ cache \in Caches /\ cache.len \in Nat /\ Len(file) \in Nat
  BY DEF Typed, Caches
<1>1. PICK names \in SetToSeqs(Name) : file' = Canonical(names)
  BY DEF Compact
<1>2. PICK c : c = Canonical(names)
  OBVIOUS
<1>3. /\ c \in Seq(Line) /\ Len(c) \in Nat /\ Len(c) <= Len(file)
      /\ \A n \in Name : Said(c, n) = Kept[n] /\ (Kept[n] # Said(file, n) => Len(c) < Len(file))
  BY <1>0, <1>2, CanonicalIs
<1>4. \A n \in Name : Kept[n] = IF manifest[n] = None THEN {} ELSE Said(file, n)
  BY <1>0, KeptIs
<1>5. file' = c /\ apart' = apart \union Unnoticed
  BY <1>1, <1>2 DEF Compact
<1>6. Unindexed = {} /\ Unindexed' = {}
  BY DEF Unindexed
<1>7. \A n \in Name : cache.map[n] = Said(c, n) => ExactIn(cache, c, n)
  BY <1>0, <1>3, ExactIfSaid
<1>8. ASSUME NEW n \in Name, n \notin apart' PROVE Parsed(n)'
  <2>1. n \notin apart /\ Parsed(n)
    BY <1>5, <1>8 DEF Faithful, CacheInv
  <2>2. CASE cache.len < Len(file)
    <3>1. cache.map[n] = Kept[n]
      BY <1>5, <1>8, <2>2 DEF Unnoticed
    <3>2. ExactIn(cache, c, n)
      BY <1>3, <1>7, <3>1
    <3> QED
      BY <1>5, <3>2 DEF Parsed, Exact
  <2>3. CASE ~(cache.len < Len(file))
    <3>1. cache.len >= Len(file)
      BY <1>0, <2>3
    <3>2. Exact(n) => cache.map[n] = Said(file, n)
      BY <1>0, <3>1, ExactAtEnd DEF Exact
    <3>3. manifest[n] # None => ExactIn(cache, c, n)
      BY <1>3, <1>4, <1>6, <1>7, <2>1, <3>2 DEF Parsed
    <3>4. CASE cache.len > Len(c)
      BY <1>5, <3>3, <3>4 DEF Parsed, Exact
    <3>5. CASE ~(cache.len > Len(c))
      <4>1. cache.len = Len(file) /\ Len(c) = Len(file)
        BY <1>0, <1>3, <3>1, <3>5
      <4>2. cache.map[n] = Said(file, n)
        BY <1>0, <2>1, <3>2, <4>1 DEF Parsed
      <4>3. Kept[n] = Said(file, n)
        BY <1>0, <1>3, <4>1
      <4>4. ExactIn(cache, c, n)
        BY <1>3, <1>7, <4>2, <4>3
      <4> QED
        BY <1>5, <4>4 DEF Parsed, Exact
    <3> QED
      BY <3>4, <3>5
  <2> QED
    BY <2>2, <2>3
<1>9. CacheInv'
  BY <1>8 DEF CacheInv
<1>10. WriterInv' /\ AppendInv'
  BY <1>6 DEF WriterInv, AppendInv
<1>11. \A n \in Name : manifest[n] # None => Said(file', n) = Said(file, n)
  BY <1>3, <1>4, <1>5
<1>12. FileInv'
  BY <1>5, <1>6, <1>11 DEF Faithful, FileInv
<1> QED
  BY <1>9, <1>10, <1>11, <1>12 DEF Faithful

LEMMA ForgetFaithful ==
  ASSUME Typed, Faithful, ForgetParse
  PROVE  Faithful' /\ cache'.len = 0
<1>0. /\ writer.at = "forget" /\ cache' = [EmptyCache EXCEPT !.compacted = Len(file)] /\ writer' = IdleWriter
      /\ UNCHANGED <<file, manifest, behind, apart>> /\ file \in Seq(Line) /\ Len(file) \in Nat
  BY DEF ForgetParse, WriterAt, Typed
<1>1. writer'.at = "idle" /\ Unindexed = {} /\ Unindexed' = {}
  BY <1>0, IdleTyped DEF Unindexed
<1>2. cache'.len = 0 /\ cache'.map = Nothing
  BY <1>0 DEF EmptyCache
<1>3. \A n \in Name : Exact(n)'
  <2> SUFFICES ASSUME NEW n \in Name PROVE ExactIn(cache', file, n)
    BY <1>0 DEF Exact
  <2>1. SubSeq(file, 0 + 1, Len(file)) = file
    BY <1>0, BeyondIs DEF Beyond
  <2>2. Replay(Nothing, file)[n] = Said(file, n)
    BY <1>0, FileSays
  <2> QED
    BY <1>2, <2>1, <2>2 DEF ExactIn
<1>4. CacheInv'
  BY <1>3 DEF CacheInv, Parsed
<1>5. WriterInv' /\ AppendInv'
  BY <1>1 DEF WriterInv, AppendInv
<1>6. FileInv'
  BY <1>0, <1>1 DEF Faithful, FileInv
<1> QED
  BY <1>2, <1>4, <1>5, <1>6 DEF Faithful

LEMMA ShortlistFaithful ==
  ASSUME Typed, Faithful, Shortlist
  PROVE  Faithful'
<1>0. /\ cache' = Refreshed(lookup.len) /\ UNCHANGED <<file, manifest, writer, behind, apart>>
      /\ cache \in Caches /\ file \in Seq(Line) /\ lookup.len \in Nat /\ cache.len \in Nat /\ Len(file) \in Nat
  BY DEF Shortlist, Typed, Looking, Lookups, Caches
<1>1. Unindexed' = Unindexed
  BY <1>0 DEF Unindexed
<1>2. ASSUME NEW n \in Name \ apart PROVE Parsed(n)'
  <2>1. Parsed(n)
    BY DEF Faithful, CacheInv
  <2>2. CASE Exact(n)
    <3>1. ExactIn(Refreshed(lookup.len), file, n)
      BY <1>0, <2>2, RefreshedExact DEF Exact
    <3> QED
      BY <1>0, <3>1 DEF Parsed, Exact
  <2>3. CASE lookup.len < cache.len
    <3>1. ExactIn(Refreshed(lookup.len), file, n)
      BY <1>0, <2>3, RestartExact
    <3> QED
      BY <1>0, <3>1 DEF Parsed, Exact
  <2>4. CASE ~Exact(n) /\ ~(lookup.len < cache.len)
    <3>1. /\ cache.len > Len(file) /\ writer.at # "append" /\ (manifest[n] # None => n \in Unindexed)
      BY <2>1, <2>4 DEF Parsed
    <3>2. cache'.len = lookup.len
      BY <1>0, RefreshedIs
    <3>3. cache'.len > Len(file)
      BY <1>0, <2>4, <3>1, <3>2
    <3> QED
      BY <1>0, <1>1, <3>1, <3>3 DEF Parsed
  <2> QED
    BY <2>2, <2>3, <2>4
<1>3. CacheInv'
  BY <1>0, <1>2 DEF CacheInv
<1>4. WriterInv' /\ FileInv'
  BY <1>0, <1>1 DEF Faithful, WriterInv, FileInv
<1>5. AppendInv'
  BY <1>0 DEF Faithful, AppendInv, Rewrites, Extends
<1> QED
  BY <1>3, <1>4, <1>5 DEF Faithful

LEMMA KillFaithful ==
  ASSUME Typed, Faithful, Kill
  PROVE  Faithful'
<1>0. /\ cache' = [EmptyCache EXCEPT !.len = Len(file), !.map = Replay(Nothing, file)]
      /\ writer' = IdleWriter /\ behind' = behind \union apart \union Unindexed /\ apart' = {}
      /\ UNCHANGED <<file, manifest>> /\ file \in Seq(Line) /\ cache' \in Caches
  <2>1. Typed'
    BY TypedStep DEF Next
  <2> QED
    BY <2>1 DEF Kill, Typed
<1>1. writer'.at = "idle" /\ Unindexed' = {}
  BY <1>0, IdleTyped DEF Unindexed
<1>2. cache'.map = Replay(Nothing, file)
  BY <1>0 DEF EmptyCache
<1>3. \A n \in Name : Exact(n)'
  <2> SUFFICES ASSUME NEW n \in Name PROVE ExactIn(cache', file, n)
    BY <1>0 DEF Exact
  <2>1. cache'.map[n] = Said(file, n)
    BY <1>0, <1>2, FileSays
  <2> QED
    BY <1>0, <2>1, ExactIfSaid
<1>4. CacheInv'
  BY <1>3 DEF CacheInv, Parsed
<1>5. WriterInv' /\ AppendInv'
  BY <1>1 DEF WriterInv, AppendInv
<1>6. FileInv'
  BY <1>0, <1>1 DEF Faithful, FileInv
<1> QED
  BY <1>4, <1>5, <1>6 DEF Faithful

(* A step of the lookup that touches nothing else.                          *)
LEMMA LookingFaithful ==
  ASSUME Faithful, UNCHANGED <<file, manifest, cache, writer, behind, apart>>
  PROVE  Faithful'
<1>1. Unindexed' = Unindexed
  BY DEF Unindexed
<1>2. CacheInv'
  BY <1>1, SameParse DEF Faithful, CacheInv, Parsed
<1>3. WriterInv' /\ FileInv'
  BY <1>1 DEF Faithful, WriterInv, FileInv
<1>4. AppendInv'
  BY DEF Faithful, AppendInv, Rewrites, Extends
<1> QED
  BY <1>2, <1>3, <1>4 DEF Faithful

LEMMA FaithfulStep == Typed /\ Faithful /\ [Next]_vars => Faithful'
<1> SUFFICES ASSUME Typed, Faithful, [Next]_vars PROVE Faithful'
  OBVIOUS
<1>1. CASE UNCHANGED vars
  BY <1>1, LookingFaithful DEF vars
<1>2. ASSUME NEW n \in Name, NEW m \in Manifest, Commit(n, m) PROVE Faithful'
  BY <1>2, CommitFaithful
<1>3. CASE Measure
  BY <1>3, MeasureFaithful
<1>4. CASE DecideExtension
  BY <1>4, DecideFaithful
<1>5. CASE AppendLines
  BY <1>5, AppendFaithful
<1>6. CASE AppendFails
  BY <1>6, AppendFailsFaithful
<1>7. CASE CheckDoubled
  <2>1. /\ writer.at = "measure" /\ UNCHANGED <<file, manifest, cache, behind, apart>>
        /\ writer' = IdleWriter \/ writer' = [IdleWriter EXCEPT !.at = "compact"]
    BY <1>7 DEF CheckDoubled, WriterAt
  <2>2. writer'.at \in {"idle", "compact"}
    BY <2>1 DEF IdleWriter
  <2> QED
    BY <2>1, <2>2, RestFaithful
<1>8. CASE CompactDoubled
  <2>1. /\ writer.at = "compact" /\ Compact /\ UNCHANGED <<manifest, cache, behind>>
        /\ writer' = [writer EXCEPT !.at = "forget"] /\ writer \in Writers
    BY <1>8 DEF CompactDoubled, WriterAt, Typed, Writing
  <2>2. writer'.at = "forget"
    BY <2>1 DEF Writers
  <2> QED
    BY <2>1, <2>2, CompactFaithful
<1>9. CASE ForgetParse
  BY <1>9, ForgetFaithful
<1>10. ASSUME NEW n \in Name, RemoveManifest(n) PROVE Faithful'
  <2>1. /\ writer.at \in {"idle", "sweep"} /\ UNCHANGED <<file, cache, behind, apart>>
        /\ manifest' = [manifest EXCEPT ![n] = None] /\ writer' = [IdleWriter EXCEPT !.at = "sweep"]
        /\ manifest \in [Name -> Manifest \union {None}]
    BY <1>10 DEF RemoveManifest, Typed
  <2>2. writer'.at = "sweep"
    BY <2>1 DEF IdleWriter
  <2>3. \A k \in Name : manifest'[k] = None \/ manifest'[k] = manifest[k]
    BY <2>1
  <2> QED
    BY <2>1, <2>2, <2>3, RestFaithful
<1>11. CASE Sweep
  <2>1. /\ writer.at = "sweep"
        /\ Compact \/ UNCHANGED <<file, apart>>
        /\ writer' = IdleWriter /\ UNCHANGED <<manifest, cache, behind>>
    BY <1>11 DEF Sweep, WriterAt
  <2>2. writer'.at = "idle"
    BY <2>1, IdleTyped
  <2>3. CASE Compact
    BY <2>1, <2>2, <2>3, CompactFaithful
  <2>4. CASE UNCHANGED <<file, apart>>
    BY <2>1, <2>2, <2>4, RestFaithful
  <2> QED
    BY <2>1, <2>3, <2>4
<1>12. CASE Shortlist
  BY <1>12, ShortlistFaithful
<1>13. CASE (\E prompt \in Stream : Probe(prompt)) \/ (\E n \in Name : ReadManifest(n)) \/ Return
  BY <1>13, LookingFaithful DEF Probe, ReadManifest, Return
<1>14. CASE Kill
  BY <1>14, KillFaithful
<1> QED
  BY <1>1, <1>2, <1>3, <1>4, <1>5, <1>6, <1>7, <1>8, <1>9, <1>10, <1>11, <1>12, <1>13, <1>14 DEF Next

LEMMA AlwaysFaithful == Spec => [](Typed /\ Faithful)
<1>1. Init => Typed /\ Faithful
  BY InitTyped, InitFaithful
<1>2. Typed /\ Faithful /\ [Next]_vars => Typed' /\ Faithful'
  BY TypedStep, FaithfulStep
<1> QED
  BY <1>1, <1>2, PTL DEF Spec

LEMMA FaithfulIsTrue == Typed /\ Faithful => IndexTrue
<1> SUFFICES ASSUME Typed, Faithful PROVE IndexTrue
  OBVIOUS
<1>0. file \in Seq(Line) /\ cache \in Caches /\ Len(file) \in Nat
  BY DEF Typed
<1>1. \A n \in Name : Replay(Nothing, file)[n] = Said(file, n)
  BY <1>0, FileSays
<1>2. FileIsTheManifests
  BY <1>1 DEF FileIsTheManifests, Faithful, FileInv
<1>3. CacheIsTheFile
  <2> SUFFICES ASSUME cache.len = Len(file), NEW n \in Name \ apart, manifest[n] # None
               PROVE  cache.map[n] = Said(file, n)
    BY <1>1 DEF CacheIsTheFile
  <2>1. ~(cache.len > Len(file)) /\ cache.len >= Len(file)
    BY <1>0
  <2>2. ExactIn(cache, file, n)
    BY <2>1 DEF Faithful, CacheInv, Parsed, Exact
  <2> QED
    BY <1>0, <2>1, <2>2, ExactAtEnd
<1> QED
  BY <1>2, <1>3 DEF IndexTrue

(* The index says of each conversation what its manifest says, once its     *)
(* commit is through, and a cache as long as the file says what the file    *)
(* says (extend_index, compact_index and with_index of store.rs).           *)
THEOREM IndexIsTrue == Spec => []IndexTrue
<1>1. Spec => [](Typed /\ Faithful)
  BY AlwaysFaithful
<1>2. Typed /\ Faithful => IndexTrue
  BY FaithfulIsTrue
<1> QED
  BY <1>1, <1>2, PTL

-----------------------------------------------------------------------------
(* A lookup.                                                                *)

LEMMA StartIs ==
  ASSUME NEW T, NEW s \in Seq(T), NEW k \in 1..Len(s)
  PROVE  /\ SubSeq(s, 1, k) \in Seq(T) /\ Len(SubSeq(s, 1, k)) = k
         /\ \A i \in 1..k : SubSeq(s, 1, k)[i] = s[i]
  OBVIOUS

LEMMA StartOfStart ==
  ASSUME NEW T, NEW s \in Seq(T), NEW k \in 1..Len(s), NEW j \in 1..k
  PROVE  SubSeq(SubSeq(s, 1, k), 1, j) = SubSeq(s, 1, j)
<1> DEFINE t == SubSeq(s, 1, k)
           u == SubSeq(t, 1, j)
           v == SubSeq(s, 1, j)
<1>1. t \in Seq(T) /\ Len(t) = k /\ (\A i \in 1..k : t[i] = s[i])
  BY StartIs
<1>2. j \in 1..Len(s)
  OBVIOUS
<1>3. v \in Seq(T) /\ Len(v) = j /\ (\A i \in 1..j : v[i] = s[i])
  BY <1>2, StartIs
<1> HIDE DEF t
<1>4. u \in Seq(T) /\ Len(u) = j /\ (\A i \in 1..j : u[i] = t[i])
  <2>1. j \in 1..Len(t)
    BY <1>1
  <2> QED
    BY <1>1, <2>1, StartIs
<1> HIDE DEF u, v
<1>5. \A i \in 1..j : i \in 1..k
  OBVIOUS
<1>6. \A i \in 1..j : u[i] = v[i]
  BY <1>1, <1>3, <1>4, <1>5
<1>7. u = v
  BY <1>3, <1>4, <1>6
<1> QED
  BY <1>7 DEF u, v, t

LEMMA PrefixIs ==
  ASSUME NEW T, NEW s \in Seq(T), NEW k \in 1..Len(s), NEW t
  PROVE  IsPrefix(SubSeq(s, 1, k), t) <=> k <= Len(t) /\ SubSeq(s, 1, k) = SubSeq(t, 1, k)
<1>1. Len(SubSeq(s, 1, k)) = k
  BY StartIs
<1>2. SubSeq(SubSeq(s, 1, k), 1, k) = SubSeq(s, 1, k)
  <2>1. k \in 1..k
    OBVIOUS
  <2> QED
    BY <2>1, StartOfStart
<1> QED
  BY <1>1, <1>2 DEF IsPrefix

(* What the index of a conversation has in common with a prompt are the     *)
(* cuts its manifest shares with it; with a cut all shallower ones.         *)
LEMMA SharedIs ==
  ASSUME NEW m \in Manifest, NEW prompt \in Stream
  PROVE  /\ SharedCuts(m, prompt) \in SUBSET m.ends
         /\ \A p : p \in SharedCuts(m, prompt) <=> p \in DOMAIN prompt /\ SubSeq(prompt, 1, p) \in PrefixesAt(m)
         /\ \A d \in SharedCuts(m, prompt), e \in m.ends : e <= d => e \in SharedCuts(m, prompt)
<1> DEFINE s == m.stream
           S == SharedCuts(m, prompt)
<1>1. s \in Seq(ToSet(s)) /\ m.ends \in SUBSET (1..Len(s))
  BY ManifestIs
<1>2. prompt \in Seq(ToSet(prompt)) /\ DOMAIN prompt = 1..Len(prompt) /\ Len(prompt) \in Nat
  BY StreamIs
<1>3. PICK T : T = ToSet(s)
  OBVIOUS
<1>4. PICK U : U = ToSet(prompt)
  OBVIOUS
<1>5. s \in Seq(T) /\ prompt \in Seq(U) /\ Len(s) \in Nat
  BY <1>1, <1>2, <1>3, <1>4
<1> HIDE DEF s
<1>6. \A e \in m.ends : e \in S <=> e <= Len(prompt) /\ SubSeq(s, 1, e) = SubSeq(prompt, 1, e)
  <2> SUFFICES ASSUME NEW e \in m.ends
               PROVE  e \in S <=> e <= Len(prompt) /\ SubSeq(s, 1, e) = SubSeq(prompt, 1, e)
    OBVIOUS
  <2>1. e \in 1..Len(s)
    BY <1>1
  <2>2. IsPrefix(SubSeq(s, 1, e), prompt) <=> e <= Len(prompt) /\ SubSeq(s, 1, e) = SubSeq(prompt, 1, e)
    BY <1>5, <2>1, PrefixIs
  <2>3. e \in S <=> IsPrefix(SubSeq(s, 1, e), prompt)
    BY DEF SharedCuts, s
  <2> QED
    BY <2>2, <2>3
<1>7. S \in SUBSET m.ends
  BY DEF SharedCuts
<1> HIDE DEF S
<1>8. ASSUME NEW p \in S PROVE p \in DOMAIN prompt /\ SubSeq(prompt, 1, p) \in PrefixesAt(m)
  <2>1. p \in m.ends /\ p \in 1..Len(s)
    BY <1>1, <1>7
  <2>2. p <= Len(prompt) /\ SubSeq(s, 1, p) = SubSeq(prompt, 1, p)
    BY <1>6, <1>8, <2>1
  <2>3. SubSeq(s, 1, p) \in PrefixesAt(m)
    BY <2>1 DEF PrefixesAt, s
  <2>4. p \in 1..Len(prompt)
    BY <1>2, <1>5, <2>1, <2>2
  <2>5. p \in DOMAIN prompt
    BY <1>2, <2>4
  <2> QED
    BY <2>2, <2>3, <2>5, Zenon
<1>9. ASSUME NEW p \in DOMAIN prompt, SubSeq(prompt, 1, p) \in PrefixesAt(m) PROVE p \in S
  <2>1. PICK e \in m.ends : SubSeq(prompt, 1, p) = SubSeq(s, 1, e)
    BY <1>9 DEF PrefixesAt, s
  <2>2. p \in 1..Len(prompt) /\ e \in 1..Len(s)
    BY <1>1, <1>2
  <2>3. Len(SubSeq(prompt, 1, p)) = p
    BY <1>5, <2>2, StartIs
  <2>4. Len(SubSeq(s, 1, e)) = e
    BY <1>5, <2>2, StartIs
  <2>5. p = e
    BY <2>1, <2>3, <2>4
  <2>6. p <= Len(prompt)
    BY <1>2, <2>2
  <2> QED
    BY <1>6, <2>1, <2>5, <2>6
<1>10. ASSUME NEW d \in S, NEW e \in m.ends, e <= d PROVE e \in S
  <2>1. d \in m.ends /\ d \in 1..Len(s) /\ e \in 1..Len(s) /\ e \in 1..d
    BY <1>1, <1>5, <1>7, <1>10
  <2>2. d <= Len(prompt) /\ SubSeq(s, 1, d) = SubSeq(prompt, 1, d)
    BY <1>6, <1>10, <2>1
  <2>3. SubSeq(SubSeq(s, 1, d), 1, e) = SubSeq(s, 1, e)
    BY <1>5, <2>1, StartOfStart
  <2>4. d \in 1..Len(prompt)
    BY <1>2, <2>1, <2>2
  <2>5. SubSeq(SubSeq(prompt, 1, d), 1, e) = SubSeq(prompt, 1, e)
    BY <1>5, <2>1, <2>4, StartOfStart
  <2>6. e <= Len(prompt)
    BY <1>2, <2>1, <2>2
  <2> QED
    BY <1>6, <2>2, <2>3, <2>5, <2>6
<1> QED
  BY <1>7, <1>8, <1>9, <1>10 DEF S

CutsOf(hits, n) == {hits[i].cuts : i \in {j \in DOMAIN hits : hits[j].name = n}}
Answers(n) == CutsOf(lookup.hits, n)

(* Nothing was done to it since the lookup began.                           *)
Quiet(n) == n \notin lookup.disturbed \union behind \union apart /\ manifest[n] # None

Watched == lookup.at # "idle" => Unindexed \subseteq lookup.disturbed

(* A reader that has measured: should the parse be as long, it is right.    *)
Reading ==
  lookup.at = "read" =>
    /\ lookup.hits = <<>>
    /\ \A n \in Name : Quiet(n) =>
         /\ lookup.len # 0
         /\ cache.len = lookup.len => cache.map[n] = Said(file, n)

(* A reader with its shortlist: what it is to find is what is shared.       *)
Told(n) ==
  LET shared == SharedCuts(manifest[n], lookup.prompt)
  IN  IF n \in DOMAIN lookup.deepest
      THEN Answers(n) = {} /\ shared # {} /\ shared = AgreedCuts(manifest[n], lookup.deepest[n])
      ELSE Answers(n) = {shared} \ {{}}
Answering == lookup.at = "manifests" => \A n \in Name : Quiet(n) => Told(n)

Watching == Watched /\ Reading /\ Answering

LEMMA IdleWatching == lookup.at = "idle" => Watching
  BY DEF Watching, Watched, Reading, Answering

(* A step of the writer, seen from a lookup.                                *)
LEMMA QuietStep ==
  ASSUME Watching, lookup.at # "idle",
         lookup'.at = lookup.at, lookup'.prompt = lookup.prompt, lookup'.len = lookup.len,
         lookup'.deepest = lookup.deepest, lookup'.hits = lookup.hits,
         Unindexed' \subseteq lookup'.disturbed,
         \A n \in Name : Quiet(n)' => Quiet(n) /\ manifest'[n] = manifest[n],
         \A n \in Name : Quiet(n)' /\ lookup.at = "read" /\ cache'.len = lookup.len => cache'.map[n] = Said(file', n)
  PROVE  Watching'
<1>1. Watched'
  BY DEF Watched
<1>2. Reading'
  <2> SUFFICES ASSUME lookup.at = "read" PROVE Reading'
    BY DEF Reading
  <2>1. lookup'.hits = <<>>
    BY DEF Watching, Reading
  <2>2. ASSUME NEW n \in Name, Quiet(n)'
        PROVE  lookup'.len # 0 /\ (cache'.len = lookup'.len => cache'.map[n] = Said(file', n))
    BY <2>2 DEF Watching, Reading
  <2> QED
    BY <2>1, <2>2 DEF Reading
<1>3. Answering'
  <2> SUFFICES ASSUME lookup.at = "manifests", NEW n \in Name, Quiet(n)' PROVE Told(n)'
    BY DEF Answering
  <2>1. Told(n) /\ manifest'[n] = manifest[n]
    BY DEF Watching, Answering
  <2> QED
    BY <2>1 DEF Told, Answers
<1> QED
  BY <1>1, <1>2, <1>3 DEF Watching

LEMMA CommitWatching ==
  ASSUME Typed, Watching, NEW n \in Name, NEW m \in Manifest, Commit(n, m)
  PROVE  Watching'
<1>0. /\ manifest' = [manifest EXCEPT ![n] = m] /\ Disturb(n) /\ writer.at = "idle"
      /\ writer' = [IdleWriter EXCEPT !.at = "stat", !.name = n, !.want = PrefixesAt(m)]
      /\ UNCHANGED <<file, cache, behind, apart>>
      /\ manifest \in [Name -> Manifest \union {None}] /\ lookup \in Lookups
  BY DEF Commit, WriterAt, Typed, Looking
<1>1. Unindexed' = {n}
  BY <1>0 DEF Unindexed, IdleWriter
<1>2. CASE lookup.at = "idle"
  <2>1. lookup'.at = "idle"
    BY <1>0, <1>2 DEF Disturb, LookupAt
  <2> QED
    BY <2>1 DEF Watching, Watched, Reading, Answering
<1>3. CASE lookup.at # "idle"
  <2>1. lookup' = [lookup EXCEPT !.disturbed = @ \union {n}]
    BY <1>0, <1>3 DEF Disturb, LookupAt
  <2>2. /\ lookup'.at = lookup.at /\ lookup'.prompt = lookup.prompt /\ lookup'.len = lookup.len
        /\ lookup'.deepest = lookup.deepest /\ lookup'.hits = lookup.hits
        /\ lookup'.disturbed = lookup.disturbed \cup {n}
    BY <1>0, <2>1 DEF Lookups
  <2>3. \A k \in Name : Quiet(k)' => Quiet(k) /\ manifest'[k] = manifest[k]
    BY <1>0, <2>2 DEF Quiet
  <2>4. \A k \in Name : Quiet(k)' /\ lookup.at = "read" /\ cache'.len = lookup.len => cache'.map[k] = Said(file', k)
    BY <1>0, <2>3 DEF Watching, Reading
  <2>5. Unindexed' \subseteq lookup'.disturbed
    BY <1>1, <2>2
  <2> QED
    BY <1>3, <2>2, <2>3, <2>4, <2>5, QuietStep
<1> QED
  BY <1>2, <1>3

LEMMA RemoveWatching ==
  ASSUME Typed, Watching, NEW n \in Name, RemoveManifest(n)
  PROVE  Watching'
<1>0. /\ manifest' = [manifest EXCEPT ![n] = None] /\ Disturb(n)
      /\ writer' = [IdleWriter EXCEPT !.at = "sweep"]
      /\ UNCHANGED <<file, cache, behind, apart>>
      /\ manifest \in [Name -> Manifest \union {None}] /\ lookup \in Lookups
  BY DEF RemoveManifest, Typed, Looking
<1>1. Unindexed' = {}
  BY <1>0 DEF Unindexed, IdleWriter
<1>2. CASE lookup.at = "idle"
  <2>1. lookup'.at = "idle"
    BY <1>0, <1>2 DEF Disturb, LookupAt
  <2> QED
    BY <2>1 DEF Watching, Watched, Reading, Answering
<1>3. CASE lookup.at # "idle"
  <2>1. lookup' = [lookup EXCEPT !.disturbed = @ \union {n}]
    BY <1>0, <1>3 DEF Disturb, LookupAt
  <2>2. /\ lookup'.at = lookup.at /\ lookup'.prompt = lookup.prompt /\ lookup'.len = lookup.len
        /\ lookup'.deepest = lookup.deepest /\ lookup'.hits = lookup.hits
        /\ lookup'.disturbed = lookup.disturbed \cup {n}
    BY <1>0, <2>1 DEF Lookups
  <2>3. \A k \in Name : Quiet(k)' => Quiet(k) /\ manifest'[k] = manifest[k]
    BY <1>0, <2>2 DEF Quiet
  <2>4. \A k \in Name : Quiet(k)' /\ lookup.at = "read" /\ cache'.len = lookup.len => cache'.map[k] = Said(file', k)
    BY <1>0, <2>3 DEF Watching, Reading
  <2>5. Unindexed' \subseteq lookup'.disturbed
    BY <1>1
  <2> QED
    BY <1>3, <2>2, <2>3, <2>4, <2>5, QuietStep
<1> QED
  BY <1>2, <1>3

(* The other steps of the writer leave the manifests alone.                 *)
LEMMA WriterWatching ==
  ASSUME Watching, UNCHANGED <<manifest, lookup>>,
         Unindexed' \subseteq Unindexed, behind \subseteq behind' \cup Unindexed, apart \subseteq apart' \cup Unindexed,
         \A n \in Name : Quiet(n) /\ n \notin apart' /\ n \notin Unindexed /\ lookup.at = "read" /\ cache'.len = lookup.len
                           => cache'.map[n] = Said(file', n)
  PROVE  Watching'
<1>1. CASE lookup.at = "idle"
  BY <1>1 DEF Watching, Watched, Reading, Answering
<1>2. CASE lookup.at # "idle"
  <2>1. Unindexed \subseteq lookup.disturbed
    BY <1>2 DEF Watching, Watched
  <2>2. \A n \in Name : Quiet(n)' => Quiet(n) /\ manifest'[n] = manifest[n] /\ n \notin apart' /\ n \notin Unindexed
    BY <2>1 DEF Quiet
  <2>3. \A n \in Name : Quiet(n)' /\ lookup.at = "read" /\ cache'.len = lookup.len => cache'.map[n] = Said(file', n)
    BY <2>2
  <2>4. Unindexed' \subseteq lookup'.disturbed
    BY <2>1
  <2> QED
    BY <1>2, <2>2, <2>3, <2>4, QuietStep
<1> QED
  BY <1>1, <1>2

LEMMA WriterStepsWatching ==
  ASSUME Typed, Faithful, Watching,
         Measure \/ DecideExtension \/ AppendLines \/ AppendFails \/ CheckDoubled \/ CompactDoubled \/ ForgetParse \/ Sweep
  PROVE  Watching'
<1>0. /\ file \in Seq(Line) /\ cache \in Caches /\ writer \in Writers /\ lookup \in Lookups
      /\ cache.len \in Nat /\ cache.map \in Maps /\ Len(file) \in Nat /\ writer.body \in Seq(Line) /\ lookup.len \in Nat
  BY DEF Typed, Writing, Looking, Caches, Writers, Lookups
<1>1. \A n \in Name : Quiet(n) /\ lookup.at = "read" /\ cache.len = lookup.len => cache.map[n] = Said(file, n)
  BY DEF Watching, Reading
<1>2. CASE Measure \/ CheckDoubled
  <2>1. UNCHANGED <<file, manifest, cache, lookup, behind, apart>>
    BY <1>2 DEF Measure, CheckDoubled
  <2>2. Unindexed' \subseteq Unindexed
    <3>1. CASE Measure
      <4>1. writer.at = "stat" /\ writer' = [writer EXCEPT !.at = "read", !.len = Len(file)]
        BY <3>1 DEF Measure, WriterAt
      <4>2. writer'.name = writer.name
        BY <1>0, <4>1 DEF Writers
      <4> QED
        BY <4>1, <4>2 DEF Unindexed
    <3>2. CASE CheckDoubled
      BY <3>2 DEF CheckDoubled, Unindexed, IdleWriter
    <3> QED
      BY <1>2, <3>1, <3>2
  <2>3. \A n \in Name : Quiet(n) /\ n \notin apart' /\ n \notin Unindexed /\ lookup.at = "read" /\ cache'.len = lookup.len
                           => cache'.map[n] = Said(file', n)
    BY <1>1, <2>1
  <2>4. manifest' = manifest /\ lookup' = lookup /\ behind \subseteq behind' \cup Unindexed /\ apart \subseteq apart' \cup Unindexed
    BY <2>1
  <2> QED
    BY <2>2, <2>3, <2>4, WriterWatching
<1>3. CASE DecideExtension
  <2>1. /\ writer.at = "read" /\ UNCHANGED <<file, manifest, lookup, apart>>
        /\ (behind' = behind \ {writer.name} /\ writer' = IdleWriter)
             \/ (behind' = behind /\ \E b : writer' = [writer EXCEPT !.at = "append", !.body = b])
    BY <1>3 DEF DecideExtension, WriterAt
  <2>2. Unindexed = {writer.name}
    BY <2>1 DEF Unindexed
  <2>3. Unindexed' \subseteq Unindexed
    <3>1. CASE writer' = IdleWriter
      BY <3>1, IdleTyped DEF Unindexed
    <3>2. CASE \E b : writer' = [writer EXCEPT !.at = "append", !.body = b]
      <4>1. writer'.name = writer.name
        BY <1>0, <3>2 DEF Writers
      <4> QED
        BY <2>2, <4>1 DEF Unindexed
    <3> QED
      BY <2>1, <3>1, <3>2
  <2>4. \A n \in Name : Quiet(n) /\ n \notin apart' /\ n \notin Unindexed /\ lookup.at = "read" /\ cache'.len = lookup.len
                           => cache'.map[n] = Said(file', n)
    BY <1>3, <2>1, DecideFaithful
  <2>5. manifest' = manifest /\ lookup' = lookup /\ behind \subseteq behind' \cup Unindexed /\ apart \subseteq apart' \cup Unindexed
    BY <2>1, <2>2
  <2> QED
    BY <2>3, <2>4, <2>5, WriterWatching
<1>4. CASE AppendLines
  <2>1. /\ writer.at = "append" /\ UNCHANGED <<manifest, lookup>> /\ behind' = behind \ {writer.name}
        /\ (apart' = apart \/ apart' = apart \ {writer.name})
        /\ cache' = [cache EXCEPT !.map = Replay(@, writer.body),
                                  !.len = IF @ = Len(file) THEN @ + Len(writer.body) ELSE @]
        /\ writer' = [writer EXCEPT !.at = "measure"]
    BY <1>4 DEF AppendLines, WriterAt
  <2>2. Unindexed = {writer.name} /\ Unindexed' = {}
    BY <1>0, <2>1 DEF Unindexed, Writers
  <2>3. /\ cache'.map = Replay(cache.map, writer.body)
        /\ cache'.len = IF cache.len = Len(file) THEN cache.len + Len(writer.body) ELSE cache.len
    BY <1>0, <2>1 DEF Caches
  <2>4. ASSUME NEW n \in Name, Quiet(n), n \notin Unindexed, lookup.at = "read", cache'.len = lookup.len
        PROVE  cache'.map[n] = Said(file', n)
    <3>1. Said(file', n) = Said(file, n)
      BY <1>4, <2>2, <2>4, AppendFaithful
    <3>2. ~Retracting(writer.body, n) /\ Said(writer.body, n) = {}
      BY <2>1, <2>2, <2>4, BodySays
    <3>3. Replay(cache.map, writer.body)[n] =
            (IF Retracting(writer.body, n) THEN {} ELSE cache.map[n]) \cup Said(writer.body, n)
      BY <1>0, ReplaySays
    <3>4. cache.map[n] = Said(file, n)
      <4>1. CASE cache.len = Len(file)
        <5>1. ExactIn(cache, file, n)
          BY <2>1, <2>4 DEF Quiet, Faithful, CacheInv, Parsed, Exact
        <5>2. cache.len >= Len(file)
          BY <1>0, <4>1
        <5> QED
          BY <1>0, <5>1, <5>2, ExactAtEnd
      <4>2. CASE cache.len # Len(file)
        BY <1>1, <2>3, <2>4, <4>2
      <4> QED
        BY <4>1, <4>2
    <3> QED
      BY <2>3, <3>1, <3>2, <3>3, <3>4
  <2>5. manifest' = manifest /\ lookup' = lookup /\ behind \subseteq behind' \cup Unindexed /\ apart \subseteq apart' \cup Unindexed
        /\ Unindexed' \subseteq Unindexed
    BY <2>1, <2>2
  <2> QED
    BY <2>4, <2>5, WriterWatching
<1>5. CASE AppendFails
  <2>1. /\ writer.at = "append" /\ UNCHANGED <<file, manifest, cache, lookup, apart>>
        /\ behind' = behind \union {writer.name} /\ writer' = [writer EXCEPT !.at = "measure"]
    BY <1>5 DEF AppendFails, WriterAt
  <2>2. Unindexed' = {}
    BY <1>0, <2>1 DEF Unindexed, Writers
  <2>3. \A n \in Name : Quiet(n) /\ n \notin apart' /\ n \notin Unindexed /\ lookup.at = "read" /\ cache'.len = lookup.len
                           => cache'.map[n] = Said(file', n)
    BY <1>1, <2>1
  <2>4. manifest' = manifest /\ lookup' = lookup /\ behind \subseteq behind' \cup Unindexed /\ apart \subseteq apart' \cup Unindexed
        /\ Unindexed' \subseteq Unindexed
    BY <2>1, <2>2
  <2> QED
    BY <2>3, <2>4, WriterWatching
<1>6. ASSUME Compact, UNCHANGED <<manifest, cache, lookup, behind>>,
             writer.at \notin {"stat", "read", "append"}, writer'.at \notin {"stat", "read", "append"}
      PROVE  Watching'
  <2>1. \A n \in Name : manifest[n] # None => Said(file', n) = Said(file, n)
    BY <1>6, CompactFaithful
  <2>2. \A n \in Name : Quiet(n) /\ n \notin apart' /\ n \notin Unindexed /\ lookup.at = "read" /\ cache'.len = lookup.len
                           => cache'.map[n] = Said(file', n)
    BY <1>1, <1>6, <2>1 DEF Quiet
  <2>3. Unindexed' = {} /\ apart \subseteq apart' /\ behind' = behind
    BY <1>6 DEF Unindexed, Compact
  <2>4. manifest' = manifest /\ lookup' = lookup /\ behind \subseteq behind' \cup Unindexed /\ apart \subseteq apart' \cup Unindexed
        /\ Unindexed' \subseteq Unindexed
    BY <1>6, <2>3
  <2> QED
    BY <2>2, <2>4, WriterWatching
<1>7. CASE CompactDoubled
  <2>1. /\ writer.at = "compact" /\ Compact /\ UNCHANGED <<manifest, cache, lookup, behind>>
        /\ writer' = [writer EXCEPT !.at = "forget"]
    BY <1>7 DEF CompactDoubled, WriterAt
  <2>2. writer'.at = "forget"
    BY <1>0, <2>1 DEF Writers
  <2> QED
    BY <1>6, <2>1, <2>2
<1>8. CASE ForgetParse
  <2>1. /\ writer.at = "forget" /\ writer' = IdleWriter /\ UNCHANGED <<file, manifest, lookup, behind, apart>>
    BY <1>8 DEF ForgetParse, WriterAt
  <2>2. cache'.len = 0
    BY <1>8, ForgetFaithful
  <2>3. \A n \in Name : Quiet(n) /\ n \notin apart' /\ n \notin Unindexed /\ lookup.at = "read" /\ cache'.len = lookup.len
                           => cache'.map[n] = Said(file', n)
    BY <2>2 DEF Watching, Reading
  <2>4. Unindexed' = {}
    BY <2>1, IdleTyped DEF Unindexed
  <2>5. manifest' = manifest /\ lookup' = lookup /\ behind \subseteq behind' \cup Unindexed /\ apart \subseteq apart' \cup Unindexed
        /\ Unindexed' \subseteq Unindexed
    BY <2>1, <2>4
  <2> QED
    BY <2>3, <2>5, WriterWatching
<1>9. CASE Sweep
  <2>1. /\ writer.at = "sweep"
        /\ Compact \/ UNCHANGED <<file, apart>>
        /\ writer' = IdleWriter /\ UNCHANGED <<manifest, cache, lookup, behind>>
    BY <1>9 DEF Sweep, WriterAt
  <2>2. writer'.at = "idle" /\ Unindexed' = {}
    BY <2>1, IdleTyped DEF Unindexed
  <2>3. CASE Compact
    BY <1>6, <2>1, <2>2, <2>3
  <2>4. CASE UNCHANGED <<file, apart>>
    <3>1. \A n \in Name : Quiet(n) /\ n \notin apart' /\ n \notin Unindexed /\ lookup.at = "read" /\ cache'.len = lookup.len
                           => cache'.map[n] = Said(file', n)
      BY <1>1, <2>1, <2>4
    <3>2. manifest' = manifest /\ lookup' = lookup /\ behind \subseteq behind' \cup Unindexed /\ apart \subseteq apart' \cup Unindexed
          /\ Unindexed' \subseteq Unindexed
      BY <2>1, <2>2, <2>4
    <3> QED
      BY <3>1, <3>2, WriterWatching
  <2> QED
    BY <2>1, <2>3, <2>4
<1> QED
  BY <1>2, <1>3, <1>4, <1>5, <1>7, <1>8, <1>9

LEMMA ProbeWatching ==
  ASSUME Typed, Faithful, NEW prompt \in Stream, Probe(prompt)
  PROVE  Watching'
<1>0. /\ lookup' = [IdleLookup EXCEPT !.at = "read", !.prompt = prompt, !.len = Len(file), !.disturbed = Unindexed]
      /\ UNCHANGED <<file, manifest, cache, writer, behind, apart>>
      /\ file \in Seq(Line) /\ cache \in Caches /\ cache.len \in Nat /\ Len(file) \in Nat
      /\ manifest \in [Name -> Manifest \union {None}]
  BY DEF Probe, Typed, Caches
<1>1. lookup'.at = "read" /\ lookup'.len = Len(file) /\ lookup'.disturbed = Unindexed /\ lookup'.hits = <<>>
  BY <1>0 DEF IdleLookup
<1>2. Unindexed' = Unindexed
  BY <1>0 DEF Unindexed
<1>3. ASSUME NEW n \in Name, Quiet(n)'
      PROVE  lookup'.len # 0 /\ (cache'.len = lookup'.len => cache'.map[n] = Said(file', n))
  <2>1. n \notin Unindexed \cup behind \cup apart /\ manifest[n] # None
    BY <1>0, <1>1, <1>3 DEF Quiet
  <2>2. manifest[n] \in Manifest
    BY <1>0, <2>1
  <2>3. Said(file, n) = PrefixesAt(manifest[n])
    BY <2>1 DEF Faithful, FileInv
  <2>4. PICK p : p \in Said(file, n)
    BY <2>2, <2>3, ManifestIs
  <2>5. \E i \in 1..Len(file) : file[i] = At(p, n)
    BY <1>0, <2>4, SaidIsLines
  <2>6. Len(file) # 0
    BY <1>0, <2>5
  <2>7. CASE cache.len = Len(file)
    <3>1. cache.len >= Len(file)
      BY <1>0, <2>7
    <3>2. ExactIn(cache, file, n)
      BY <2>1 DEF Faithful, CacheInv, Parsed, Exact
    <3>3. cache.map[n] = Said(file, n)
      BY <1>0, <3>1, <3>2, ExactAtEnd
    <3> QED
      BY <1>0, <1>1, <2>6, <3>3
  <2>8. CASE cache.len # Len(file)
    BY <1>0, <1>1, <2>6, <2>8
  <2> QED
    BY <2>7, <2>8
<1>4. Watched' /\ Answering'
  BY <1>1, <1>2 DEF Watched, Answering
<1>5. Reading'
  BY <1>1, <1>3 DEF Reading
<1> QED
  BY <1>4, <1>5 DEF Watching

(* The deepest position in common with the index is the deepest cut shared. *)
LEMMA DeepestIsShared ==
  ASSUME NEW map \in Maps, NEW prompt \in Stream, NEW d, d = Deepest(map, prompt),
         NEW n \in Name, NEW m \in Manifest, map[n] = PrefixesAt(m)
  PROVE  IF n \in DOMAIN d
         THEN SharedCuts(m, prompt) # {} /\ SharedCuts(m, prompt) = AgreedCuts(m, d[n])
         ELSE SharedCuts(m, prompt) = {}
<1> DEFINE S == SharedCuts(m, prompt)
<1>1. /\ S \in SUBSET m.ends
      /\ \A p : p \in S <=> p \in DOMAIN prompt /\ SubSeq(prompt, 1, p) \in PrefixesAt(m)
      /\ \A k \in S, e \in m.ends : e <= k => e \in S
  BY SharedIs
<1>2. /\ n \in DOMAIN d <=> \E p \in DOMAIN prompt : SubSeq(prompt, 1, p) \in map[n]
      /\ n \in DOMAIN d =>
           /\ d[n] \in DOMAIN prompt /\ SubSeq(prompt, 1, d[n]) \in map[n]
           /\ \A p \in DOMAIN prompt : SubSeq(prompt, 1, p) \in map[n] => p <= d[n]
  BY DeepestIs
<1> HIDE DEF S
<1>3. n \in DOMAIN d <=> S # {}
  BY <1>1, <1>2
<1>4. ASSUME n \in DOMAIN d PROVE S = AgreedCuts(m, d[n])
  <2>1. d[n] \in S /\ \A p \in S : p <= d[n]
    BY <1>1, <1>2, <1>4
  <2>2. \A e \in m.ends : e \in S <=> e <= d[n]
    BY <1>1, <2>1
  <2> QED
    BY <1>1, <2>2 DEF AgreedCuts
<1> QED
  BY <1>3, <1>4 DEF S

LEMMA ShortlistWatching ==
  ASSUME Typed, Faithful, Watching, Shortlist
  PROVE  Watching'
<1>0. /\ lookup.at = "read" /\ cache' = Refreshed(lookup.len)
      /\ UNCHANGED <<file, manifest, writer, behind, apart>>
      /\ lookup' = [lookup EXCEPT !.at = "manifests", !.deepest = Deepest(cache'.map, lookup.prompt)]
      /\ file \in Seq(Line) /\ cache \in Caches /\ cache.len \in Nat /\ Len(file) \in Nat
      /\ manifest \in [Name -> Manifest \union {None}] /\ lookup \in Lookups /\ lookup.len \in Nat
      /\ lookup.prompt \in Stream
  BY DEF Shortlist, LookupAt, Typed, Looking, Lookups, Caches
<1>1. cache'.map \in Maps
  BY <1>0, RefreshedIs DEF Caches
<1>2. PICK d : d = Deepest(cache'.map, lookup.prompt)
  OBVIOUS
<1>3. /\ lookup'.at = "manifests" /\ lookup'.deepest = d /\ lookup'.hits = lookup.hits
      /\ lookup'.prompt = lookup.prompt /\ lookup'.disturbed = lookup.disturbed
  BY <1>0, <1>2 DEF Lookups
<1>4. lookup.hits = <<>> /\ Unindexed \subseteq lookup.disturbed
  BY <1>0 DEF Watching, Watched, Reading
<1>5. Unindexed' = Unindexed
  BY <1>0 DEF Unindexed
<1>6. ASSUME NEW n \in Name, Quiet(n)' PROVE Told(n)'
  <2>1. Quiet(n) /\ n \notin Unindexed \cup behind \cup apart /\ manifest[n] # None /\ manifest'[n] = manifest[n]
    BY <1>0, <1>3, <1>4, <1>6 DEF Quiet
  <2>2. manifest[n] \in Manifest
    BY <1>0, <2>1
  <2>3. Said(file, n) = PrefixesAt(manifest[n])
    BY <2>1 DEF Faithful, FileInv
  <2>4. cache'.map[n] = Said(file, n)
    <3>1. CASE cache.len = lookup.len
      <4>1. cache.map[n] = Said(file, n)
        BY <1>0, <2>1, <3>1 DEF Watching, Reading
      <4>2. cache' = cache
        BY <1>0, <3>1 DEF Refreshed
      <4> QED
        BY <4>1, <4>2
    <3>2. CASE cache.len # lookup.len
      <4>1. ExactIn(cache, file, n)
        BY <2>1 DEF Faithful, CacheInv, Parsed, Exact
      <4> QED
        BY <1>0, <3>2, <4>1, RefreshedExact
    <3> QED
      BY <3>1, <3>2
  <2>5. cache'.map[n] = PrefixesAt(manifest[n])
    BY <2>3, <2>4
  <2>6. PICK map \in Maps, prompt \in Stream, m \in Manifest :
          map = cache'.map /\ prompt = lookup.prompt /\ m = manifest[n]
    BY <1>0, <1>1, <2>2
  <2>7. d = Deepest(map, prompt) /\ map[n] = PrefixesAt(m)
    BY <1>2, <2>5, <2>6
  <2>8. IF n \in DOMAIN d
        THEN SharedCuts(m, prompt) # {} /\ SharedCuts(m, prompt) = AgreedCuts(m, d[n])
        ELSE SharedCuts(m, prompt) = {}
    BY ONLY <2>7, DeepestIsShared, n \in Name, map \in Maps, prompt \in Stream, m \in Manifest
  <2>9. Answers(n)' = {}
    BY <1>3, <1>4 DEF Answers, CutsOf
  <2>10. manifest'[n] = m /\ lookup'.prompt = prompt /\ lookup'.deepest = d
    BY <1>3, <2>1, <2>6
  <2> QED
    BY <2>8, <2>9, <2>10 DEF Told
<1>7. Watched' /\ Reading'
  BY <1>3, <1>4, <1>5 DEF Watched, Reading
<1>8. Answering'
  BY <1>6 DEF Answering
<1> QED
  BY <1>7, <1>8 DEF Watching

OneMore(h, x) == Append(h, x)

LEMMA HitsAppended ==
  ASSUME NEW h \in Hits, NEW x \in Hit, NEW n
  PROVE  CutsOf(OneMore(h, x), n) = CutsOf(h, n) \cup (IF x.name = n THEN {x.cuts} ELSE {})
<1>0. PICK g : g = OneMore(h, x)
  OBVIOUS
<1>1. /\ Len(h) \in Nat /\ Len(g) = Len(h) + 1 /\ DOMAIN h = 1..Len(h) /\ DOMAIN g = 1..Len(g)
      /\ \A i \in 1..Len(h) : g[i] = h[i]
      /\ g[Len(h) + 1] = x
  BY <1>0 DEF Hits, OneMore
<1>2. \A i : i \in DOMAIN g <=> i \in DOMAIN h \/ i = Len(h) + 1
  BY <1>1
<1>3. \A i \in DOMAIN h : g[i] = h[i]
  BY <1>1
<1>4. CutsOf(g, n) = CutsOf(h, n) \cup (IF x.name = n THEN {x.cuts} ELSE {})
  BY <1>1, <1>2, <1>3, Zenon DEF CutsOf
<1> QED
  BY <1>0, <1>4

LEMMA ReadManifestWatching ==
  ASSUME Typed, Watching, NEW k \in Name, ReadManifest(k)
  PROVE  Watching'
<1> DEFINE hit == IF manifest[k] = None THEN {} ELSE AgreedCuts(manifest[k], lookup.deepest[k])
           x == [name |-> k, of |-> manifest[k], cuts |-> hit]
<1>0. /\ lookup.at = "manifests" /\ k \in DOMAIN lookup.deepest
      /\ lookup' = [lookup EXCEPT
             !.deepest = [o \in DOMAIN @ \ {k} |-> @[o]],
             !.hits = IF hit = {} THEN @ ELSE Append(@, x)]
      /\ UNCHANGED <<file, manifest, cache, writer, behind, apart>>
      /\ lookup \in Lookups /\ manifest \in [Name -> Manifest \union {None}]
      /\ lookup.hits \in Hits
  BY DEF ReadManifest, LookupAt, Typed, Looking, Lookups
<1>1. PICK d : d = [o \in DOMAIN lookup.deepest \ {k} |-> lookup.deepest[o]]
  OBVIOUS
<1>2. PICK g : g = IF hit = {} THEN lookup.hits ELSE Append(lookup.hits, x)
  OBVIOUS
<1>3. hit # {} => manifest[k] \in Manifest /\ hit \in SUBSET Nat
  <2> SUFFICES ASSUME hit # {} PROVE manifest[k] \in Manifest /\ hit \in SUBSET Nat
    OBVIOUS
  <2>1. manifest[k] \in Manifest
    BY <1>0
  <2>2. /\ manifest[k].ends \in SUBSET (1..Len(manifest[k].stream))
        /\ manifest[k].stream \in Seq(ToSet(manifest[k].stream))
    BY <2>1, ManifestIs
  <2>3. manifest[k].ends \in SUBSET Nat
    BY <2>2
  <2> QED
    BY <2>1, <2>3 DEF AgreedCuts
<1> HIDE DEF hit
<1>4. lookup' = [lookup EXCEPT !.deepest = d, !.hits = g]
  BY <1>0, <1>1, <1>2
<1>5. /\ lookup'.at = "manifests" /\ lookup'.deepest = d /\ lookup'.hits = g
      /\ lookup'.prompt = lookup.prompt /\ lookup'.disturbed = lookup.disturbed
  BY <1>0, <1>4 DEF Lookups
<1>6. \A n \in Name : Answers(n)' = Answers(n) \cup (IF k = n /\ hit # {} THEN {hit} ELSE {})
  <2>1. CASE hit = {}
    BY <1>2, <1>5, <2>1 DEF Answers
  <2>2. CASE hit # {}
    <3>1. x \in Hit
      BY <1>3, <2>2 DEF Hit
    <3>2. x.name = k /\ x.cuts = hit
      OBVIOUS
    <3>3. PICK h \in Hits, y \in Hit : h = lookup.hits /\ y = x
      BY <1>0, <3>1
    <3>4. g = OneMore(h, y)
      BY <1>2, <2>2, <3>3 DEF OneMore
    <3> HIDE DEF x
    <3>5. ASSUME NEW n
          PROVE  CutsOf(g, n) = CutsOf(h, n) \cup (IF y.name = n THEN {y.cuts} ELSE {})
      <4>1. CutsOf(OneMore(h, y), n) = CutsOf(h, n) \cup (IF y.name = n THEN {y.cuts} ELSE {})
        BY HitsAppended
      <4> QED
        BY <3>4, <4>1
    <3>6. y.name = k /\ y.cuts = hit
      BY <3>2, <3>3
    <3>7. ASSUME NEW n \in Name
          PROVE  Answers(n)' = Answers(n) \cup (IF k = n /\ hit # {} THEN {hit} ELSE {})
      <4>1. Answers(n)' = CutsOf(g, n) /\ Answers(n) = CutsOf(h, n)
        BY <1>5, <3>3 DEF Answers
      <4>2. CutsOf(g, n) = CutsOf(h, n) \cup (IF k = n THEN {hit} ELSE {})
        BY <3>5, <3>6
      <4> QED
        BY <2>2, <4>1, <4>2
    <3> QED
      BY <3>7
  <2> QED
    BY <2>1, <2>2
<1>7. /\ \A n : n \in DOMAIN d <=> n \in DOMAIN lookup.deepest /\ n # k
      /\ \A n \in DOMAIN d : d[n] = lookup.deepest[n]
  BY <1>1
<1>8. ASSUME NEW n \in Name, Quiet(n)' PROVE Told(n)'
  <2>1. Quiet(n) /\ manifest'[n] = manifest[n] /\ manifest[n] # None
    BY <1>0, <1>5, <1>8 DEF Quiet
  <2>2. Told(n)
    BY <1>0, <2>1 DEF Watching, Answering
  <2>3. CASE n # k
    <3>1. Answers(n)' = Answers(n)
      BY <1>6, <2>3
    <3> QED
      BY <1>5, <1>7, <2>1, <2>2, <2>3, <3>1 DEF Told
  <2>4. CASE n = k
    <3>1. /\ Answers(n) = {} /\ SharedCuts(manifest[n], lookup.prompt) # {}
          /\ SharedCuts(manifest[n], lookup.prompt) = AgreedCuts(manifest[n], lookup.deepest[n])
      BY <1>0, <2>2, <2>4 DEF Told
    <3>2. hit = SharedCuts(manifest[n], lookup.prompt)
      BY <2>1, <2>4, <3>1 DEF hit
    <3>3. Answers(n)' = {SharedCuts(manifest[n], lookup.prompt)} /\ n \notin DOMAIN d
      BY <1>6, <1>7, <2>4, <3>1, <3>2
    <3> QED
      BY <1>5, <2>1, <3>1, <3>3 DEF Told
  <2> QED
    BY <2>3, <2>4
<1>9. Watched' /\ Reading'
  BY <1>0, <1>5 DEF Watching, Watched, Reading, Unindexed
<1>10. Answering'
  BY <1>8 DEF Answering
<1> QED
  BY <1>9, <1>10 DEF Watching

LEMMA WatchingStep == Typed /\ Faithful /\ Watching /\ [Next]_vars => Watching'
<1> SUFFICES ASSUME Typed, Faithful, Watching, [Next]_vars PROVE Watching'
  OBVIOUS
<1>1. CASE UNCHANGED vars
  <2>1. UNCHANGED <<file, manifest, cache, writer, lookup, behind, apart>>
    BY <1>1 DEF vars
  <2>2. \A n \in Name : Quiet(n)' <=> Quiet(n)
    BY <2>1 DEF Quiet
  <2>3. \A n \in Name : Told(n)' <=> Told(n)
    BY <2>1 DEF Told, Answers
  <2> QED
    BY <2>1, <2>2, <2>3 DEF Watching, Watched, Reading, Answering, Unindexed
<1>2. ASSUME NEW n \in Name, NEW m \in Manifest, Commit(n, m) PROVE Watching'
  BY <1>2, CommitWatching
<1>3. CASE Measure \/ DecideExtension \/ AppendLines \/ AppendFails \/ CheckDoubled \/ CompactDoubled \/ ForgetParse \/ Sweep
  BY <1>3, WriterStepsWatching
<1>4. ASSUME NEW n \in Name, RemoveManifest(n) PROVE Watching'
  BY <1>4, RemoveWatching
<1>5. ASSUME NEW prompt \in Stream, Probe(prompt) PROVE Watching'
  BY <1>5, ProbeWatching
<1>6. CASE Shortlist
  BY <1>6, ShortlistWatching
<1>7. ASSUME NEW n \in Name, ReadManifest(n) PROVE Watching'
  BY <1>7, ReadManifestWatching
<1>8. CASE Return \/ Kill
  <2>1. lookup'.at = "idle"
    BY <1>8, IdleTyped DEF Return, Kill
  <2> QED
    BY <2>1 DEF Watching, Watched, Reading, Answering
<1> QED
  BY <1>1, <1>2, <1>3, <1>4, <1>5, <1>6, <1>7, <1>8 DEF Next

LEMMA AlwaysWatching == Spec => [](Typed /\ Faithful /\ Watching)
<1>1. Init => Typed /\ Faithful /\ Watching
  <2>1. Init => lookup.at = "idle"
    BY IdleTyped DEF Init
  <2> QED
    BY <2>1, InitTyped, InitFaithful, IdleWatching
<1>2. Typed /\ Faithful /\ Watching /\ [Next]_vars => Typed' /\ Faithful' /\ Watching'
  BY TypedStep, FaithfulStep, WatchingStep
<1> QED
  BY <1>1, <1>2, PTL DEF Spec

(* A lookup that has read its manifests has found of each conversation       *)
(* nothing was done to meanwhile exactly the cuts it shares with the prompt,  *)
(* whichever length it had measured and whoever refreshed the cache since     *)
(* (probe and with_index of store.rs).                                       *)
THEOREM QuietLookupsExact == Spec => []QuietLookupsAreExact
<1>1. Spec => [](Typed /\ Faithful /\ Watching)
  BY AlwaysWatching
<1>2. Watching => QuietLookupsAreExact
  <2> SUFFICES ASSUME Watching, Answered,
                      NEW n \in Name \ (lookup.disturbed \union behind \union apart), manifest[n] # None
               PROVE  Answers(n) = {SharedCuts(manifest[n], lookup.prompt)} \ {{}}
    BY DEF QuietLookupsAreExact, Answers, CutsOf
  <2>1. lookup.at = "manifests" /\ n \notin DOMAIN lookup.deepest /\ Quiet(n)
    BY DEF Answered, LookupAt, Quiet
  <2>2. Told(n)
    BY <2>1 DEF Watching, Answering
  <2> QED
    BY <2>1, <2>2 DEF Told
<1> QED
  BY <1>1, <1>2, PTL
=============================================================================
