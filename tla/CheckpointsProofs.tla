-------------------------- MODULE CheckpointsProofs --------------------------
(* Checkpoints for every set of conversations and steps, window, ring, caps *)
(* and bounds: types, what the lookup accepts assembles, and no eviction    *)
(* takes what an entry in memory chains from.                               *)
EXTENDS Checkpoints, FiniteSetTheorems, WellFoundedInduction, TLAPS

(* Induction over the naturals, with a set for the property; a recursive   *)
(* definition over 0..n has a value in a set its steps stay in.             *)
LEMMA SetInduction ==
  ASSUME NEW S, 0 \in S, \A n \in Nat : n \in S => n + 1 \in S
  PROVE  Nat \subseteq S
<1> DEFINE R == OpToRel(<, Nat)
<1>1. IsWellFoundedOn(R, Nat)
  BY NatLessThanWellFounded
<1>2. \A x, y \in Nat : x < y => <<x, y>> \in R
  BY DEF OpToRel
<1> HIDE DEF R
<1>3. SUFFICES ASSUME Nat \ S # {} PROVE FALSE
  OBVIOUS
<1>4. \E x \in Nat \ S : \A y \in Nat \ S : ~ (<<y, x>> \in R)
  <2>1. Nat \ S \subseteq Nat
    OBVIOUS
  <2> QED
    BY <1>1, <1>3, <2>1, WFMin
<1>5. PICK n \in Nat \ S : \A y \in Nat \ S : ~ (<<y, n>> \in R)
  BY <1>4
<1>6. n # 0 /\ n - 1 \in Nat /\ n - 1 < n
  OBVIOUS
<1>7. <<n - 1, n>> \in R
  BY <1>2, <1>6
<1>8. n - 1 \in S
  BY <1>5, <1>6, <1>7
<1> QED
  BY <1>6, <1>8

(* A recursion of n steps over a set A defines a function.                  *)
LEMMA Recursion ==
  ASSUME NEW A, NEW a \in A, NEW n \in Nat, NEW G \in [1..n -> [A -> A]]
  PROVE  \E f \in [0..n -> A] : f[0] = a /\ \A i \in 1..n : f[i] = G[i][f[i - 1]]
<1> DEFINE Upto(k) == k <= n => \E f \in [0..k -> A] : f[0] = a /\ \A i \in 1..k : f[i] = G[i][f[i - 1]]
           S == {k \in Nat : Upto(k)}
<1>1. 0 \in S
  <2>1. /\ [i \in 0..0 |-> a] \in [0..0 -> A] /\ [i \in 0..0 |-> a][0] = a
        /\ \A i \in 1..0 : [j \in 0..0 |-> a][i] = G[i][[j \in 0..0 |-> a][i - 1]]
    OBVIOUS
  <2> QED
    BY <2>1
<1>2. ASSUME NEW k \in Nat, k \in S PROVE k + 1 \in S
  <2> SUFFICES ASSUME k + 1 <= n
               PROVE  \E f \in [0..k + 1 -> A] : f[0] = a /\ \A i \in 1..k + 1 : f[i] = G[i][f[i - 1]]
    OBVIOUS
  <2>1. PICK f \in [0..k -> A] : f[0] = a /\ \A i \in 1..k : f[i] = G[i][f[i - 1]]
    BY <1>2
  <2> DEFINE g == [i \in 0..k + 1 |-> IF i <= k THEN f[i] ELSE G[k + 1][f[k]]]
  <2>2. g \in [0..k + 1 -> A]
    <3>1. G[k + 1] \in [A -> A] /\ f[k] \in A
      BY <2>1
    <3> QED BY <3>1, <2>1
  <2>3. g[0] = a /\ \A i \in 1..k + 1 : g[i] = G[i][g[i - 1]]
    BY <2>1
  <2> QED
    BY <2>2, <2>3
<1> HIDE DEF S
<1>3. Nat \subseteq S
  BY <1>1, <1>2, SetInduction
<1> QED
  BY <1>3 DEF S

(* A set of bounded numbers has a greatest.                                 *)
LEMMA LastOf ==
  ASSUME NEW n \in Nat, NEW S \in SUBSET (1 .. n), S # {}
  PROVE  \E i \in S : \A k \in S : k <= i
<1> DEFINE D == {d \in Nat : \E i \in S : d = n - i}
           R == OpToRel(<, Nat)
<1>1. D \subseteq Nat /\ D # {}
  <2>1. PICK i \in S : TRUE
    OBVIOUS
  <2>2. n - i \in D
    BY <2>1
  <2> QED
    BY <2>2
<1>2. IsWellFoundedOn(R, Nat)
  BY NatLessThanWellFounded
<1>3. \A x, y \in Nat : x < y => <<x, y>> \in R
  BY DEF OpToRel
<1> HIDE DEF D, R
<1>4. \E d \in D : \A e \in D : ~(<<e, d>> \in R)
  BY ONLY <1>1, <1>2, WFMin
<1>5. PICK d \in D : \A e \in D : ~(e < d)
  BY <1>1, <1>3, <1>4
<1> USE DEF D
<1>6. PICK i \in S : d = n - i
  BY <1>5
<1>7. ASSUME NEW k \in S PROVE k <= i
  <2>1. n - k \in D
    BY <1>7
  <2>2. ~(n - k < n - i)
    BY <1>5, <1>6, <2>1
  <2> QED
    BY <2>2
<1> QED
  BY <1>7

(* Two functions that take the same steps end alike.                        *)
LEMMA SameCourse ==
  ASSUME NEW n \in Nat, NEW f, NEW g, f[0] = g[0],
         \A i \in 1..n : f[i - 1] = g[i - 1] => f[i] = g[i]
  PROVE  \A i \in 0..n : f[i] = g[i]
<1> DEFINE S == {i \in Nat : i <= n => f[i] = g[i]}
<1>1. 0 \in S
  OBVIOUS
<1>2. ASSUME NEW i \in Nat, i \in S PROVE i + 1 \in S
  <2> SUFFICES ASSUME i + 1 <= n PROVE f[i + 1] = g[i + 1]
    OBVIOUS
  <2>1. f[i] = g[i] /\ i + 1 \in 1..n /\ (i + 1) - 1 = i
    BY <1>2
  <2>2. f[(i + 1) - 1] = g[(i + 1) - 1]
    BY <2>1
  <2> QED
    BY <2>1, <2>2
<1> HIDE DEF S
<1>3. Nat \subseteq S
  BY <1>1, <1>2, SetInduction
<1> QED
  BY <1>3 DEF S

(* The same two as facts about named parts.                                 *)
StepsIn(G, A, n) == G \in [1..n -> [A -> A]]
Course(f, A, a, n, G) ==
  f \in [0..n -> A] /\ f[0] = a /\ \A i \in 1..n : f[i] = G[i][f[i - 1]]
Follows(f, g, n) == f[0] = g[0] /\ \A i \in 1..n : f[i - 1] = g[i - 1] => f[i] = g[i]
Alike(f, g, n) == \A i \in 0..n : f[i] = g[i]

LEMMA CourseIs ==
  \A A, a, n, G : a \in A /\ n \in Nat /\ StepsIn(G, A, n) => \E f : Course(f, A, a, n, G)
<1> SUFFICES ASSUME NEW A, NEW a \in A, NEW n \in Nat, NEW G \in [1..n -> [A -> A]]
             PROVE  \E f \in [0..n -> A] : f[0] = a /\ \A i \in 1..n : f[i] = G[i][f[i - 1]]
  BY DEF StepsIn, Course
<1> QED
  BY Recursion

LEMMA AlikeIs == \A n, f, g : n \in Nat /\ Follows(f, g, n) => Alike(f, g, n)
<1> SUFFICES ASSUME NEW n \in Nat, NEW f, NEW g, f[0] = g[0],
                    \A i \in 1..n : f[i - 1] = g[i - 1] => f[i] = g[i]
             PROVE  \A i \in 0..n : f[i] = g[i]
  BY DEF Follows, Alike
<1> QED
  BY SameCourse

-----------------------------------------------------------------------------
(* The values of the state.                                                 *)
RingContents == Streams \cup {<<>>}
RowsOf(from, b) == [Base(from, b) + 1..b -> RingContents]

(* A link lies below its boundary and holds the window rows there.          *)
Link ==
  {d \in [boundary : Nat, from : Nat, rows : UNION {[S -> RingContents] : S \in SUBSET Nat}] :
     d.from < d.boundary /\ d.rows \in RowsOf(d.from, d.boundary)}

Entry == [delta : Link, prev : Streams \cup {None}, turn : BOOLEAN]

Elements(order) == {order[i] : i \in 1..Len(order)}
Apart(order) == \A i, j \in 1..Len(order) : order[i] = order[j] => i = j

(* A checkpoint is of the prefix it is kept under, and chains from a        *)
(* shorter prefix of that.                                                  *)
Under(p, k) == Len(p) < Len(k) /\ p = Prefix(k, Len(p))

Entered(m) ==
  \A k \in DOMAIN m.at :
    /\ m.at[k].delta.boundary = Len(k)
    /\ m.at[k].prev \in Streams => Under(m.at[k].prev, k)

Memories ==
  {m \in [at : UNION {[S -> Entry] : S \in SUBSET Streams}, order : Seq(Streams)] :
     DOMAIN m.at = Elements(m.order) /\ Apart(m.order) /\ Entered(m)}

Kept == [delta : Link, turn : BOOLEAN]
Distinct(K) == \A c, d \in K : c.delta.boundary = d.delta.boundary => c = d
KeptSets == {K \in SUBSET Kept : IsFiniteSet(K) /\ Distinct(K)}

Cuts == SUBSET (1..MaxSteps)
ConvRec == [tokens : RingContents, cuts : Cuts, disk : KeptSets, committed : 0..MaxSteps]
RunRec ==
  {r \in [conv : Conv, prompt : Streams, at : 0..MaxSteps, branched : BOOLEAN] :
     r.at <= Len(r.prompt)}
ManRec ==
  {m \in [stream : Streams, cuts : Cuts, ckpts : KeptSets, boundary : 0..MaxSteps] :
     m.boundary = Len(m.stream)}

Rings == [0..RingSteps - 1 -> RingContents]

Typed ==
  /\ conv \in [Conv -> ConvRec \cup {None}]
  /\ memory \in Memories
  /\ units \in SUBSET Streams
  /\ ring \in Rings
  /\ owner \in Conv \cup {None}
  /\ run \in RunRec \cup {None}
  /\ run # None => conv[run.conv] \in ConvRec
  /\ manifests \in [Conv -> ManRec \cup {None}]

-----------------------------------------------------------------------------
(* Streams.                                                                 *)
LEMMA StreamIs ==
  ASSUME NEW s \in Streams
  PROVE  s \in Seq(Step) /\ Len(s) \in 1..MaxSteps /\ s # <<>> /\ s # None
<1>0. MaxSteps \in Nat
  BY BoundAssumption
<1>1. PICK n \in 1..MaxSteps : s \in [1..n -> Step]
  BY DEF Streams
<1>2. n \in Nat /\ n >= 1
  BY <1>0, <1>1
<1>3. s \in Seq(Step) /\ Len(s) = n
  BY <1>1, <1>2
<1> QED
  BY <1>1, <1>2, <1>3, NoneAssumption

LEMMA SequenceIs ==
  ASSUME NEW S, NEW n \in Nat, NEW p \in Seq(S), Len(p) = n
  PROVE  p \in [1..n -> S]
OBVIOUS

LEMMA PrefixIs ==
  ASSUME NEW s \in Streams, NEW n \in 1..Len(s)
  PROVE  Prefix(s, n) \in Streams /\ Len(Prefix(s, n)) = n
<1>0. MaxSteps \in Nat
  BY BoundAssumption
<1>1. s \in Seq(Step) /\ Len(s) \in 1..MaxSteps
  BY StreamIs
<1>2. Prefix(s, n) \in [1..n -> Step] /\ Len(Prefix(s, n)) = n
  <2>1. n \in Nat /\ \A i \in 1..n : s[i] \in Step
    BY <1>1
  <2>2. SubSeq(s, 1, n) \in Seq(Step) /\ Len(SubSeq(s, 1, n)) = n
    BY <1>1, <2>1
  <2>3. PICK p \in Seq(Step) : p = SubSeq(s, 1, n) /\ Len(p) = n
    BY <2>2
  <2>4. p \in [1..n -> Step]
    BY <2>1, <2>3, SequenceIs
  <2> QED
    BY <2>2, <2>3, <2>4 DEF Prefix
<1>3. n \in 1..MaxSteps
  BY <1>0, <1>1
<1> QED
  BY <1>2, <1>3 DEF Streams

LEMMA PrefixOfPrefix ==
  ASSUME NEW s \in Streams, NEW n \in 1..Len(s), NEW i \in 1..n
  PROVE  Prefix(Prefix(s, n), i) = Prefix(s, i)
<1>1. s \in Seq(Step) /\ n \in Nat /\ i \in Nat /\ i <= n /\ n <= Len(s) /\ i >= 1
  BY StreamIs
<1>2. SubSeq(s, 1, n) \in Seq(Step) /\ Len(SubSeq(s, 1, n)) = n
      /\ \A j \in 1..n : SubSeq(s, 1, n)[j] = s[j]
  BY <1>1
<1> QED
  BY <1>1, <1>2 DEF Prefix

LEMMA WholePrefix == ASSUME NEW s \in Streams PROVE Prefix(s, Len(s)) = s
BY StreamIs DEF Prefix

LEMMA NoneIsNoStream == None \notin Streams
BY StreamIs

LEMMA PrefixOfIs ==
  ASSUME NEW s \in Streams, NEW t \in Streams, IsPrefix(s, t)
  PROVE  Len(s) <= Len(t) /\ s = Prefix(t, Len(s))
<1>1. Len(s) <= Len(t) /\ Prefix(s, Len(s)) = Prefix(t, Len(s))
  BY DEF IsPrefix, Prefix
<1> QED
  BY <1>1, WholePrefix

(* The deepest of a set of streams is one of them.                          *)
LEMMA DeepestIs ==
  ASSUME NEW K \in SUBSET Streams
  PROVE  /\ K = {} => DeepestOf(K) = None
         /\ K # {} => DeepestOf(K) \in K
<1>0. MaxSteps \in Nat
  BY BoundAssumption
<1>1. K = {} => DeepestOf(K) = None
  BY DEF DeepestOf
<1>2. ASSUME K # {} PROVE DeepestOf(K) \in K
  <2> DEFINE L == {n \in 1..MaxSteps : \E k \in K : Len(k) = n}
  <2>1. PICK k0 \in K : TRUE
    BY <1>2
  <2>2. Len(k0) \in L
    BY <2>1, StreamIs
  <2>3. L \in SUBSET (1..MaxSteps) /\ L # {}
    BY <2>2
  <2>4. PICK n \in L : \A i \in L : i <= n
    <3> HIDE DEF L
    <3> QED
      BY <1>0, <2>3, LastOf
  <2>5. PICK k \in K : Len(k) = n
    BY <2>4
  <2>6. \A j \in K : Len(j) \in L
    BY StreamIs
  <2>7. \A j \in K : Len(j) <= Len(k)
    BY <2>4, <2>5, <2>6
  <2> QED
    BY <1>2, <2>5, <2>7 DEF DeepestOf
<1> QED
  BY <1>1, <1>2

LEMMA PrevIs ==
  ASSUME NEW K \in SUBSET Streams, NEW s \in Streams, NEW b \in 1..Len(s)
  PROVE  /\ PrevOf(K, s, b) \in K \cup {None}
         /\ PrevOf(K, s, b) # None => /\ PrevOf(K, s, b) \in Streams /\ Len(PrevOf(K, s, b)) < b
                                      /\ Under(PrevOf(K, s, b), Prefix(s, b))
         /\ FromOf(PrevOf(K, s, b)) \in 0..b - 1
<1> DEFINE M == Matching(K, s, b - 1)
<1>1. M \in SUBSET K /\ \A k \in M : Len(k) <= b - 1 /\ IsPrefix(k, s)
  BY DEF Matching
<1>2. M \in SUBSET Streams
  BY <1>1
<1>3. PrevOf(K, s, b) = DeepestOf(M)
  BY DEF PrevOf
<1>4. b \in Nat /\ b >= 1
  BY StreamIs
<1> HIDE DEF M
<1>5. DeepestOf(M) = None \/ DeepestOf(M) \in M
  BY <1>2, DeepestIs
<1>6. CASE DeepestOf(M) = None
  BY <1>3, <1>4, <1>6 DEF FromOf
<1>7. CASE DeepestOf(M) \in M
  <2>1. DeepestOf(M) \in K /\ DeepestOf(M) \in Streams /\ Len(DeepestOf(M)) <= b - 1
    BY <1>1, <1>2, <1>7
  <2>2. DeepestOf(M) # None /\ Len(DeepestOf(M)) \in Nat
    BY <2>1, StreamIs
  <2>3. PICK p \in Streams : p = DeepestOf(M) /\ IsPrefix(p, s) /\ Len(p) < b /\ Len(p) \in 1..b
    BY <1>1, <1>4, <1>7, <2>1, StreamIs
  <2>4. p = Prefix(s, Len(p)) /\ Len(Prefix(s, b)) = b
    BY <2>3, PrefixOfIs, PrefixIs
  <2>5. Prefix(Prefix(s, b), Len(p)) = Prefix(s, Len(p))
    BY <2>3, PrefixOfPrefix
  <2>6. Under(p, Prefix(s, b))
    BY <2>3, <2>4, <2>5 DEF Under
  <2> QED
    BY <1>3, <1>4, <2>1, <2>2, <2>3, <2>6 DEF FromOf
<1> QED
  BY <1>5, <1>6, <1>7

-----------------------------------------------------------------------------
(* Orders.  What of an order is in a set: nothing else, each once, and the  *)
(* newest stays the newest.                                                 *)
AddIf(x, k, S) == IF k \in S THEN Append(x, k) ELSE x

LEMMA AppendIs ==
  ASSUME NEW T, NEW x \in Seq(T), NEW k \in T
  PROVE  /\ Append(x, k) \in Seq(T) /\ Len(Append(x, k)) = Len(x) + 1
         /\ \A i \in 1..Len(x) : Append(x, k)[i] = x[i]
         /\ Append(x, k)[Len(x) + 1] = k
OBVIOUS

(* A recursive function goes the way its steps say.  It is defined as what  *)
(* satisfies them, so that there is one must be shown first (CourseIs); two *)
(* that take the same steps are alike (AlikeIs).  Here and in the lemmas    *)
(* called ...Unfolds below.                                                 *)
LEMMA OnlyUnfolds ==
  ASSUME NEW order \in Seq(Streams), NEW S
  PROVE  \E f \in [0..Len(order) -> Seq(Streams)] :
           /\ f[0] = <<>>
           /\ \A i \in 1..Len(order) : f[i] = AddIf(f[i - 1], order[i], S)
           /\ Only(order, S) = f[Len(order)]
<1> DEFINE len == Len(order)
           Vals == Seq(Streams)
           start == <<>>
           Goes(x, i) == AddIf(x, order[i], S)
           after == CHOOSE f : f = [i \in 0..len |-> IF i = 0 THEN start ELSE Goes(f[i - 1], i)]
           G == [i \in 1..len |-> [x \in Vals |-> Goes(x, i)]]
<1>0. Only(order, S) = after[len]
  BY DEF Only, AddIf
<1>1. len \in Nat /\ start \in Vals
  OBVIOUS
<1>2. \A x \in Vals, i \in 1..len : Goes(x, i) \in Vals
  BY AppendIs DEF AddIf
<1>3. PICK f \in [0..len -> Vals] :
        f[0] = start /\ \A i \in 1..len : f[i] = G[i][f[i - 1]]
  <2>1. PICK H : H = G
    OBVIOUS
  <2>2. H \in [1..len -> [Vals -> Vals]]
    BY <1>2, <2>1
  <2> HIDE DEF G, after
  <2>3. PICK R : R = Vals
    OBVIOUS
  <2>4. PICK a \in R : a = start
    BY <1>1, <2>3
  <2>5. PICK top \in Nat : top = len
    BY <1>1
  <2>6. StepsIn(H, R, top)
    BY <2>2, <2>3, <2>5, Zenon DEF StepsIn
  <2>7. PICK f : Course(f, R, a, top, H)
    BY <2>6, CourseIs
  <2> QED
    BY <2>1, <2>3, <2>4, <2>5, <2>7, Zenon DEF Course
<1>4. \A i \in 1..len : i - 1 \in 0..len /\ f[i] = Goes(f[i - 1], i)
  <2>1. \A i \in 1..len : i - 1 \in 0..len
    BY <1>1
  <2> QED
    BY <1>3, <2>1
<1>5. f = [i \in 0..len |-> IF i = 0 THEN start ELSE Goes(f[i - 1], i)]
  <2>1. \A i \in 0..len : f[i] = IF i = 0 THEN start ELSE Goes(f[i - 1], i)
    <3> SUFFICES ASSUME NEW i \in 0..len, i # 0 PROVE f[i] = Goes(f[i - 1], i)
      BY <1>3
    <3>1. i \in 1..len
      BY <1>1
    <3> QED
      BY <3>1, <1>4, Zenon
  <2> QED
    BY <1>3, <2>1, Zenon
<1>6. after = [i \in 0..len |-> IF i = 0 THEN start ELSE Goes(after[i - 1], i)]
  BY <1>5, Zenon
<1> HIDE DEF after, G
<1>7. after[0] = start /\ \A i \in 1..len : after[i] = Goes(after[i - 1], i)
  <2>0. 0 \in 0..len
    BY <1>1
  <2>1. after[0] = start
    BY <1>6, <2>0, Zenon
  <2>2. ASSUME NEW i \in 1..len PROVE after[i] = Goes(after[i - 1], i)
    <3>1. i \in 0..len /\ i # 0
      BY <1>1
    <3>2. after[i] = IF i = 0 THEN start ELSE Goes(after[i - 1], i)
      BY <3>1, <1>6, Zenon
    <3> QED
      BY <3>1, <3>2, Zenon
  <2> QED
    BY <2>1, <2>2
<1>8. \A i \in 0..len : f[i] = after[i]
  <2>1. f[0] = after[0]
    BY <1>3, <1>7
  <2>2. \A i \in 1..len : f[i - 1] = after[i - 1] => f[i] = after[i]
    BY <1>4, <1>7, Zenon
  <2>3. PICK top \in Nat : top = len
    BY <1>1
  <2>4. PICK g : g = after
    OBVIOUS
  <2>5. PICK h : h = f
    OBVIOUS
  <2>6. Follows(h, g, top)
    BY <2>1, <2>2, <2>3, <2>4, <2>5, Zenon DEF Follows
  <2>7. Alike(h, g, top)
    BY <2>6, AlikeIs
  <2> QED
    BY <2>3, <2>4, <2>5, <2>7, Zenon DEF Alike
<1>9. f[len] = after[len]
  <2>1. len \in 0..len
    BY <1>1
  <2> QED
    BY <1>8, <2>1
<1> QED
  BY <1>0, <1>3, <1>4, <1>9, Zenon

(* What was passed of an order after i of its entries.                      *)
Upto(order, i) == {order[j] : j \in 1..i}

LEMMA OnlyIs ==
  ASSUME NEW order \in Seq(Streams), Apart(order), NEW S
  PROVE  /\ Only(order, S) \in Seq(Streams)
         /\ Apart(Only(order, S))
         /\ Elements(Only(order, S)) = Elements(order) \cap S
         /\ Len(order) > 0 /\ order[Len(order)] \in S =>
              /\ Len(Only(order, S)) > 0
              /\ Only(order, S)[Len(Only(order, S))] = order[Len(order)]
<1> DEFINE n == Len(order)
           Good(x, i) == /\ x \in Seq(Streams) /\ Apart(x) /\ Elements(x) = Upto(order, i) \cap S
                         /\ i > 0 /\ order[i] \in S => Len(x) > 0 /\ x[Len(x)] = order[i]
<1>1. n \in Nat /\ \A i \in 1..n : order[i] \in Streams
  OBVIOUS
<1>2. PICK f \in [0..n -> Seq(Streams)] :
        /\ f[0] = <<>>
        /\ \A i \in 1..n : f[i] = AddIf(f[i - 1], order[i], S)
        /\ Only(order, S) = f[n]
  BY OnlyUnfolds
<1> DEFINE I == {i \in Nat : i <= n => Good(f[i], i)}
<1>3. 0 \in I
  <2>1. Upto(order, 0) = {}
    BY DEF Upto
  <2>2. <<>> \in Seq(Streams) /\ Apart(<<>>) /\ Elements(<<>>) = {}
    BY DEF Apart, Elements
  <2> QED
    BY <1>2, <2>1, <2>2
<1>4. ASSUME NEW i \in Nat, i \in I PROVE i + 1 \in I
  <2> SUFFICES ASSUME i + 1 <= n PROVE Good(f[i + 1], i + 1)
    OBVIOUS
  <2>1. Good(f[i], i) /\ i + 1 \in 1..n /\ (i + 1) - 1 = i
    BY <1>1, <1>4
  <2>2. f[i + 1] = AddIf(f[i], order[i + 1], S)
    BY <1>2, <2>1
  <2>3. PICK k \in Streams : k = order[i + 1]
    BY <1>1, <2>1
  <2>4. Upto(order, i + 1) = Upto(order, i) \cup {k}
    <3>1. 1..(i + 1) = (1..i) \cup {i + 1}
      OBVIOUS
    <3> QED
      BY <2>3, <3>1 DEF Upto
  <2>5. k \notin Upto(order, i)
    <3>1. \A j \in 1..i : j \in 1..n /\ j # i + 1
      BY <1>1, <2>1
    <3> QED
      BY <2>1, <2>3, <3>1 DEF Upto, Apart
  <2>6. PICK x \in Seq(Streams) : x = f[i]
    BY <2>1
  <2>7. CASE k \notin S
    <3>1. f[i + 1] = x
      BY <2>2, <2>3, <2>6, <2>7 DEF AddIf
    <3>2. Upto(order, i + 1) \cap S = Upto(order, i) \cap S
      BY <2>4, <2>7
    <3> QED
      BY <2>1, <2>3, <2>6, <2>7, <3>1, <3>2
  <2>8. CASE k \in S
    <3>1. PICK y : y = Append(x, k)
      OBVIOUS
    <3>2. f[i + 1] = y
      BY <2>2, <2>3, <2>6, <2>8, <3>1 DEF AddIf
    <3>3. /\ y \in Seq(Streams) /\ Len(y) = Len(x) + 1 /\ Len(x) \in Nat
          /\ \A j \in 1..Len(x) : y[j] = x[j]
          /\ y[Len(x) + 1] = k
      BY <3>1, AppendIs
    <3>4. k \notin Elements(x)
      BY <2>1, <2>5, <2>6
    <3>5. Elements(y) = Elements(x) \cup {k}
      <4>1. 1..Len(y) = (1..Len(x)) \cup {Len(x) + 1}
        BY <3>3
      <4>2. Elements(y) = {y[j] : j \in 1..Len(x)} \cup {y[Len(x) + 1]}
        BY <4>1, Zenon DEF Elements
      <4>3. {y[j] : j \in 1..Len(x)} = Elements(x)
        BY <3>3 DEF Elements
      <4> QED
        BY <3>3, <4>2, <4>3
    <3>6. Apart(y)
      <4> SUFFICES ASSUME NEW p \in 1..Len(y), NEW q \in 1..Len(y), y[p] = y[q] PROVE p = q
        BY DEF Apart
      <4>1. \A j \in 1..Len(y) : j \in 1..Len(x) \/ j = Len(x) + 1
        BY <3>3
      <4>2. \A j \in 1..Len(x) : y[j] \in Elements(x)
        BY <3>3 DEF Elements
      <4>3. Apart(x)
        BY <2>1, <2>6
      <4> QED
        BY <3>3, <3>4, <4>1, <4>2, <4>3 DEF Apart
    <3>7. Upto(order, i + 1) \cap S = (Upto(order, i) \cap S) \cup {k}
      BY <2>4, <2>8
    <3>8. Len(y) > 0 /\ y[Len(y)] = order[i + 1]
      BY <2>3, <3>3
    <3>9. Elements(y) = Upto(order, i + 1) \cap S
      BY <2>1, <2>6, <3>5, <3>7
    <3> QED
      BY <3>2, <3>3, <3>6, <3>8, <3>9
  <2> QED
    BY <2>7, <2>8
<1>5. Good(f[n], n)
  <2> HIDE DEF Good
  <2>1. Nat \subseteq I
    <3> HIDE DEF I
    <3> QED
      BY <1>3, <1>4, SetInduction
  <2> QED
    BY <1>1, <2>1
<1>6. Upto(order, n) = Elements(order)
  BY DEF Upto, Elements
<1> QED
  BY <1>1, <1>2, <1>5, <1>6

-----------------------------------------------------------------------------
(* The memory of checkpoints.                                               *)
Tip(order) == order[Len(order)]

LEMMA MemoryIs ==
  ASSUME NEW m \in Memories
  PROVE  /\ m.at \in [DOMAIN m.at -> Entry] /\ DOMAIN m.at \in SUBSET Streams
         /\ m.order \in Seq(Streams) /\ DOMAIN m.at = Elements(m.order) /\ Apart(m.order)
         /\ Entered(m) /\ m = [at |-> m.at, order |-> m.order]
BY DEF Memories

LEMMA MemoryMade ==
  ASSUME NEW D \in SUBSET Streams, NEW at \in [D -> Entry], NEW order \in Seq(Streams),
         D = Elements(order), Apart(order), Entered([at |-> at, order |-> order])
  PROVE  [at |-> at, order |-> order] \in Memories
BY DEF Memories

LEMMA NothingRemembered == NoMemory \in Memories
<1>1. {} \in SUBSET Streams /\ <<>> \in [{} -> Entry] /\ <<>> \in Seq(Streams)
  OBVIOUS
<1>2. Elements(<<>>) = {} /\ Apart(<<>>)
  BY DEF Elements, Apart
<1>3. Entered([at |-> <<>>, order |-> <<>>])
  BY DEF Entered
<1> QED
  BY <1>1, <1>2, <1>3, MemoryMade DEF NoMemory

LEMMA KeptOfIs ==
  ASSUME NEW m \in Memories, NEW S
  PROVE  /\ KeptOf(m, S) \in Memories
         /\ DOMAIN KeptOf(m, S).at = DOMAIN m.at \cap S
         /\ \A k \in DOMAIN m.at \cap S : KeptOf(m, S).at[k] = m.at[k]
         /\ Len(m.order) > 0 /\ Tip(m.order) \in S =>
              Len(KeptOf(m, S).order) > 0 /\ Tip(KeptOf(m, S).order) = Tip(m.order)
<1>1. /\ m.at \in [DOMAIN m.at -> Entry] /\ DOMAIN m.at \in SUBSET Streams
      /\ m.order \in Seq(Streams) /\ DOMAIN m.at = Elements(m.order) /\ Apart(m.order)
      /\ Entered(m)
  BY MemoryIs
<1>2. PICK D : D = DOMAIN m.at \cap S
  OBVIOUS
<1>3. PICK at : at = [k \in D |-> m.at[k]]
  OBVIOUS
<1>4. PICK o \in Seq(Streams) : o = m.order
  BY <1>1
<1>5. Apart(o)
  BY <1>1, <1>4
<1>6. PICK w : w = Only(o, S)
  OBVIOUS
<1>7. /\ w \in Seq(Streams) /\ Apart(w) /\ Elements(w) = Elements(o) \cap S
      /\ Len(o) > 0 /\ o[Len(o)] \in S => Len(w) > 0 /\ w[Len(w)] = o[Len(o)]
  BY <1>5, <1>6, OnlyIs
<1>8. KeptOf(m, S) = [at |-> at, order |-> w]
  BY <1>2, <1>3, <1>4, <1>6 DEF KeptOf
<1>9. D \in SUBSET Streams /\ at \in [D -> Entry] /\ D = Elements(w)
  BY <1>1, <1>2, <1>3, <1>4, <1>7
<1>10. Entered([at |-> at, order |-> w])
  BY <1>1, <1>2, <1>3 DEF Entered
<1>11. KeptOf(m, S) \in Memories
  BY <1>7, <1>8, <1>9, <1>10, MemoryMade
<1> QED
  BY <1>2, <1>3, <1>4, <1>7, <1>8, <1>11 DEF Tip

LEMMA FrontIs ==
  ASSUME NEW T, NEW x \in Seq(T), Len(x) > 0
  PROVE  /\ SubSeq(x, 1, Len(x) - 1) \in Seq(T)
         /\ Len(SubSeq(x, 1, Len(x) - 1)) = Len(x) - 1
         /\ \A i \in 1..Len(x) - 1 : SubSeq(x, 1, Len(x) - 1)[i] = x[i]
<1>1. PICK n \in Nat : n = Len(x) - 1
  OBVIOUS
<1>2. \A i \in 1..n : x[i] \in T
  BY <1>1
<1>3. SubSeq(x, 1, n) \in Seq(T)
  BY <1>1, <1>2
<1>4. Len(SubSeq(x, 1, n)) = n
  BY <1>1, <1>2
<1>5. \A i \in 1..n : SubSeq(x, 1, n)[i] = x[i]
  BY <1>1, <1>2
<1> QED
  BY <1>1, <1>3, <1>4, <1>5

(* What is evicted is an entry, never the newest, and nothing chains from   *)
(* it.                                                                      *)
LEMMA EvictableIs ==
  ASSUME NEW m \in Memories, Len(m.order) > 0, Evictable(m) # <<>>
  PROVE  /\ Head(Evictable(m)) \in DOMAIN m.at /\ Head(Evictable(m)) # Tip(m.order)
         /\ \A k \in DOMAIN m.at : m.at[k].prev # Head(Evictable(m))
<1>1. m.order \in Seq(Streams) /\ DOMAIN m.at = Elements(m.order) /\ Apart(m.order)
  BY MemoryIs
<1>2. PICK o \in Seq(Streams) : o = m.order
  BY <1>1
<1>3. PICK F : F = DOMAIN m.at \ {m.at[k].prev : k \in DOMAIN m.at}
  OBVIOUS
<1>4. PICK r : r = SubSeq(o, 1, Len(o) - 1)
  OBVIOUS
<1>5. Len(o) \in Nat /\ Len(o) > 0
  BY <1>2
<1>6. /\ r \in Seq(Streams) /\ Len(r) = Len(o) - 1
      /\ \A i \in 1..Len(o) - 1 : r[i] = o[i]
  BY <1>4, <1>5, FrontIs
<1>7. Apart(r)
  BY <1>1, <1>2, <1>5, <1>6 DEF Apart
<1>8. PICK x : x = Only(r, F)
  OBVIOUS
<1>9. x \in Seq(Streams) /\ Elements(x) = Elements(r) \cap F
  BY <1>6, <1>7, <1>8, OnlyIs
<1>10. Evictable(m) = x
  BY <1>2, <1>3, <1>4, <1>8 DEF Evictable, Front
<1>11. PICK h : h = Head(x)
  OBVIOUS
<1>12. h \in Elements(x)
  <2>1. x # <<>>
    BY <1>10
  <2>2. Len(x) > 0 /\ h = x[1] /\ Len(x) \in Nat
    BY <1>9, <1>11, <2>1
  <2> QED
    BY <2>2 DEF Elements
<1>13. h \in Elements(r) /\ h \in F
  BY <1>9, <1>12
<1>14. h # o[Len(o)]
  BY <1>1, <1>2, <1>5, <1>6, <1>13 DEF Elements, Apart
<1> QED
  BY <1>2, <1>3, <1>10, <1>11, <1>13, <1>14 DEF Tip

(* What an entry chains from is in memory, as far as it was in D.           *)
Closed(m, D) == \A k \in DOMAIN m.at : m.at[k].prev \in D => m.at[k].prev \in DOMAIN m.at

(* A memory that gave up some of new, but nothing new chains from.          *)
Shrinks(new, key) ==
  {m \in Memories :
     /\ DOMAIN m.at \in SUBSET DOMAIN new.at
     /\ \A k \in DOMAIN m.at : m.at[k] = new.at[k]
     /\ Len(m.order) > 0 /\ Tip(m.order) = key
     /\ Closed(m, DOMAIN new.at)}

ShrinkStep(m) ==
  IF Len(m.order) <= CkptCap \/ Evictable(m) = <<>> THEN m ELSE Evicted(m, Head(Evictable(m)))

LEMMA ShrinkStepIs ==
  ASSUME NEW new, NEW key, NEW m \in Shrinks(new, key)
  PROVE  ShrinkStep(m) \in Shrinks(new, key)
<1>1. /\ m \in Memories
      /\ DOMAIN m.at \in SUBSET DOMAIN new.at
      /\ \A k \in DOMAIN m.at : m.at[k] = new.at[k]
      /\ Len(m.order) > 0 /\ Tip(m.order) = key
      /\ Closed(m, DOMAIN new.at)
  BY DEF Shrinks
<1>2. CASE Len(m.order) <= CkptCap \/ Evictable(m) = <<>>
  BY <1>2 DEF ShrinkStep
<1>3. CASE ~(Len(m.order) <= CkptCap) /\ Evictable(m) # <<>>
  <2>1. PICK v : v = Head(Evictable(m))
    OBVIOUS
  <2>2. v \in DOMAIN m.at /\ v # key /\ \A k \in DOMAIN m.at : m.at[k].prev # v
    BY <1>1, <1>3, <2>1, EvictableIs
  <2>3. PICK S : S = DOMAIN m.at \ {v}
    OBVIOUS
  <2>4. PICK r : r = KeptOf(m, S)
    OBVIOUS
  <2>5. ShrinkStep(m) = r
    BY <1>3, <2>1, <2>3, <2>4 DEF ShrinkStep, Evicted
  <2>6. key \in S
    <3>1. m.order \in Seq(Streams) /\ DOMAIN m.at = Elements(m.order)
      BY <1>1, MemoryIs
    <3>2. key \in DOMAIN m.at
      BY <1>1, <3>1 DEF Elements, Tip
    <3> QED
      BY <2>2, <2>3, <3>2
  <2>7. /\ r \in Memories /\ DOMAIN r.at = DOMAIN m.at \cap S
        /\ \A k \in DOMAIN m.at \cap S : r.at[k] = m.at[k]
        /\ Len(r.order) > 0 /\ Tip(r.order) = key
    BY <1>1, <2>4, <2>6, KeptOfIs
  <2>8. DOMAIN r.at = DOMAIN m.at \ {v}
    BY <2>3, <2>7
  <2>9. Closed(r, DOMAIN new.at)
    <3> SUFFICES ASSUME NEW k \in DOMAIN r.at, r.at[k].prev \in DOMAIN new.at
                 PROVE  r.at[k].prev \in DOMAIN r.at
      BY DEF Closed
    <3>1. k \in DOMAIN m.at /\ r.at[k] = m.at[k]
      BY <2>7, <2>8
    <3>2. m.at[k].prev \in DOMAIN m.at /\ m.at[k].prev # v
      BY <1>1, <2>2, <3>1 DEF Closed
    <3> QED
      BY <2>8, <3>1, <3>2
  <2> QED
    BY <1>1, <2>5, <2>7, <2>8, <2>9 DEF Shrinks
<1> QED
  BY <1>2, <1>3

(* The memory before anything is given up for the new entry.                *)
NewEntry(memory_, key, prev, delta, turn) ==
  [delta |-> delta, prev |-> prev,
   turn |-> turn \/ (key \in DOMAIN memory_.at /\ memory_.at[key].turn)]

Added(memory_, key, prev, delta, turn) ==
  [at |-> [j \in DOMAIN memory_.at \cup {key} |->
             IF j = key THEN NewEntry(memory_, key, prev, delta, turn) ELSE memory_.at[j]],
   order |-> Append(Only(memory_.order, DOMAIN memory_.at \ {key}), key)]

LEMMA AddedIs ==
  ASSUME NEW m \in Memories, NEW key \in Streams, NEW prev \in Streams \cup {None},
         prev \in Streams => Under(prev, key),
         NEW delta \in Link, delta.boundary = Len(key), NEW turn \in BOOLEAN
  PROVE  LET new == Added(m, key, prev, delta, turn)
         IN  /\ new \in Shrinks(new, key)
             /\ DOMAIN new.at = DOMAIN m.at \cup {key}
             /\ new.at[key].prev = prev
             /\ \A k \in DOMAIN m.at \ {key} : new.at[k] = m.at[k]
<1>1. /\ m.at \in [DOMAIN m.at -> Entry] /\ DOMAIN m.at \in SUBSET Streams
      /\ m.order \in Seq(Streams) /\ DOMAIN m.at = Elements(m.order) /\ Apart(m.order)
      /\ Entered(m)
  BY MemoryIs
<1>2. PICK D : D = DOMAIN m.at \cup {key}
  OBVIOUS
<1>3. PICK e : e = NewEntry(m, key, prev, delta, turn)
  OBVIOUS
<1>4. e \in Entry /\ e.prev = prev /\ e.delta = delta
  <2>1. PICK w \in BOOLEAN : w = (turn \/ (key \in DOMAIN m.at /\ m.at[key].turn))
    OBVIOUS
  <2>2. e = [delta |-> delta, prev |-> prev, turn |-> w]
    BY <1>3, <2>1, Zenon DEF NewEntry
  <2> QED
    BY <2>2 DEF Entry
<1>5. PICK at : at = [j \in D |-> IF j = key THEN e ELSE m.at[j]]
  OBVIOUS
<1>6. PICK o \in Seq(Streams) : o = m.order
  BY <1>1
<1>7. PICK S : S = DOMAIN m.at \ {key}
  OBVIOUS
<1>8. PICK w : w = Only(o, S)
  OBVIOUS
<1>9. w \in Seq(Streams) /\ Apart(w) /\ Elements(w) = Elements(o) \cap S
  BY <1>1, <1>6, <1>8, OnlyIs
<1>10. PICK y : y = Append(w, key)
  OBVIOUS
<1>11. /\ y \in Seq(Streams) /\ Len(y) = Len(w) + 1 /\ Len(w) \in Nat
       /\ \A j \in 1..Len(w) : y[j] = w[j]
       /\ y[Len(w) + 1] = key
  BY <1>9, <1>10, AppendIs
<1>12. Elements(y) = Elements(w) \cup {key}
  <2>1. 1..Len(y) = (1..Len(w)) \cup {Len(w) + 1}
    BY <1>11
  <2>2. Elements(y) = {y[j] : j \in 1..Len(w)} \cup {y[Len(w) + 1]}
    BY <2>1, Zenon DEF Elements
  <2>3. {y[j] : j \in 1..Len(w)} = Elements(w)
    BY <1>11 DEF Elements
  <2> QED
    BY <1>11, <2>2, <2>3
<1>13. Apart(y)
  <2> SUFFICES ASSUME NEW p \in 1..Len(y), NEW q \in 1..Len(y), y[p] = y[q] PROVE p = q
    BY DEF Apart
  <2>1. \A j \in 1..Len(y) : j \in 1..Len(w) \/ j = Len(w) + 1
    BY <1>11
  <2>2. \A j \in 1..Len(w) : y[j] \in Elements(w)
    BY <1>11 DEF Elements
  <2>3. key \notin Elements(w)
    BY <1>7, <1>9
  <2> QED
    BY <1>9, <1>11, <2>1, <2>2, <2>3 DEF Apart
<1>14. Added(m, key, prev, delta, turn) = [at |-> at, order |-> y]
  BY <1>2, <1>3, <1>5, <1>6, <1>7, <1>8, <1>10 DEF Added
<1>15. /\ D \in SUBSET Streams /\ at \in [D -> Entry] /\ D = Elements(y)
       /\ at[key] = e /\ \A k \in D \ {key} : at[k] = m.at[k]
  BY <1>1, <1>2, <1>4, <1>5, <1>6, <1>7, <1>9, <1>12
<1>16. Entered([at |-> at, order |-> y])
  BY <1>1, <1>2, <1>4, <1>15 DEF Entered
<1>17. PICK new : new = [at |-> at, order |-> y]
  OBVIOUS
<1>18. new \in Memories /\ new.at = at /\ new.order = y /\ DOMAIN new.at = D
  BY <1>11, <1>13, <1>15, <1>16, <1>17, MemoryMade
<1>19. Len(new.order) > 0 /\ Tip(new.order) = key
  BY <1>11, <1>18 DEF Tip
<1>20. new \in Shrinks(new, key)
  BY <1>18, <1>19 DEF Shrinks, Closed
<1> QED
  BY <1>2, <1>4, <1>14, <1>15, <1>17, <1>18, <1>20

LEMMA RememberUnfolds ==
  ASSUME NEW m, NEW key, NEW prev, NEW delta, NEW turn,
         NEW new, new = Added(m, key, prev, delta, turn), new \in Shrinks(new, key)
  PROVE  \E f \in [0..Len(new.order) -> Shrinks(new, key)] :
           /\ f[0] = new
           /\ \A i \in 1..Len(new.order) : f[i] = ShrinkStep(f[i - 1])
           /\ RememberDelta(m, key, prev, delta, turn) = f[Len(new.order)]
<1> DEFINE len == Len(new.order)
           Vals == Shrinks(new, key)
           start == new
           Goes(x, i) == ShrinkStep(x)
           after == CHOOSE f : f = [i \in 0..len |-> IF i = 0 THEN start ELSE Goes(f[i - 1], i)]
           G == [i \in 1..len |-> [x \in Vals |-> Goes(x, i)]]
<1>0. RememberDelta(m, key, prev, delta, turn) = after[len]
  BY DEF RememberDelta, Added, NewEntry, ShrinkStep
<1>1. len \in Nat /\ start \in Vals
  BY MemoryIs DEF Shrinks
<1>2. \A x \in Vals, i \in 1..len : Goes(x, i) \in Vals
  BY ShrinkStepIs
<1>3. PICK f \in [0..len -> Vals] :
        f[0] = start /\ \A i \in 1..len : f[i] = G[i][f[i - 1]]
  <2>1. PICK H : H = G
    OBVIOUS
  <2>2. H \in [1..len -> [Vals -> Vals]]
    BY <1>2, <2>1
  <2> HIDE DEF G, after
  <2>3. PICK R : R = Vals
    OBVIOUS
  <2>4. PICK a \in R : a = start
    BY <1>1, <2>3
  <2>5. PICK top \in Nat : top = len
    BY <1>1
  <2>6. StepsIn(H, R, top)
    BY <2>2, <2>3, <2>5, Zenon DEF StepsIn
  <2>7. PICK f : Course(f, R, a, top, H)
    BY <2>6, CourseIs
  <2> QED
    BY <2>1, <2>3, <2>4, <2>5, <2>7, Zenon DEF Course
<1>4. \A i \in 1..len : i - 1 \in 0..len /\ f[i] = Goes(f[i - 1], i)
  <2>1. \A i \in 1..len : i - 1 \in 0..len
    BY <1>1
  <2> QED
    BY <1>3, <2>1
<1>5. f = [i \in 0..len |-> IF i = 0 THEN start ELSE Goes(f[i - 1], i)]
  <2>1. \A i \in 0..len : f[i] = IF i = 0 THEN start ELSE Goes(f[i - 1], i)
    <3> SUFFICES ASSUME NEW i \in 0..len, i # 0 PROVE f[i] = Goes(f[i - 1], i)
      BY <1>3
    <3>1. i \in 1..len
      BY <1>1
    <3> QED
      BY <3>1, <1>4, Zenon
  <2> QED
    BY <1>3, <2>1, Zenon
<1>6. after = [i \in 0..len |-> IF i = 0 THEN start ELSE Goes(after[i - 1], i)]
  BY <1>5, Zenon
<1> HIDE DEF after, G
<1>7. after[0] = start /\ \A i \in 1..len : after[i] = Goes(after[i - 1], i)
  <2>0. 0 \in 0..len
    BY <1>1
  <2>1. after[0] = start
    BY <1>6, <2>0, Zenon
  <2>2. ASSUME NEW i \in 1..len PROVE after[i] = Goes(after[i - 1], i)
    <3>1. i \in 0..len /\ i # 0
      BY <1>1
    <3>2. after[i] = IF i = 0 THEN start ELSE Goes(after[i - 1], i)
      BY <3>1, <1>6, Zenon
    <3> QED
      BY <3>1, <3>2, Zenon
  <2> QED
    BY <2>1, <2>2
<1>8. \A i \in 0..len : f[i] = after[i]
  <2>1. f[0] = after[0]
    BY <1>3, <1>7
  <2>2. \A i \in 1..len : f[i - 1] = after[i - 1] => f[i] = after[i]
    BY <1>4, <1>7, Zenon
  <2>3. PICK top \in Nat : top = len
    BY <1>1
  <2>4. PICK g : g = after
    OBVIOUS
  <2>5. PICK h : h = f
    OBVIOUS
  <2>6. Follows(h, g, top)
    BY <2>1, <2>2, <2>3, <2>4, <2>5, Zenon DEF Follows
  <2>7. Alike(h, g, top)
    BY <2>6, AlikeIs
  <2> QED
    BY <2>3, <2>4, <2>5, <2>7, Zenon DEF Alike
<1>9. f[len] = after[len]
  <2>1. len \in 0..len
    BY <1>1
  <2> QED
    BY <1>8, <2>1
<1> QED
  BY <1>0, <1>3, <1>4, <1>9, Zenon

(* r is m with key remembered, less what the cap took.                      *)
Recalled(r, m, key, prev) ==
  /\ r \in Memories /\ Len(r.order) > 0 /\ Tip(r.order) = key
  /\ key \in DOMAIN r.at /\ r.at[key].prev = prev
  /\ \A k \in DOMAIN r.at \ {key} : k \in DOMAIN m.at /\ r.at[k] = m.at[k]
  /\ Closed(r, DOMAIN m.at \cup {key})

LEMMA RememberIs ==
  ASSUME NEW m \in Memories, NEW key \in Streams, NEW prev \in Streams \cup {None},
         prev \in Streams => Under(prev, key),
         NEW delta \in Link, delta.boundary = Len(key), NEW turn \in BOOLEAN
  PROVE  Recalled(RememberDelta(m, key, prev, delta, turn), m, key, prev)
<1>1. PICK new : new = Added(m, key, prev, delta, turn)
  OBVIOUS
<1>2. /\ new \in Shrinks(new, key) /\ DOMAIN new.at = DOMAIN m.at \cup {key}
      /\ new.at[key].prev = prev /\ \A k \in DOMAIN m.at \ {key} : new.at[k] = m.at[k]
  BY <1>1, AddedIs
<1>3. Len(new.order) \in Nat
  BY <1>2, MemoryIs DEF Shrinks
<1>4. PICK r : r = RememberDelta(m, key, prev, delta, turn)
  OBVIOUS
<1>5. r \in Shrinks(new, key)
  <2>1. \E f \in [0..Len(new.order) -> Shrinks(new, key)] : r = f[Len(new.order)]
    BY <1>1, <1>2, <1>4, RememberUnfolds
  <2> QED
    BY <1>3, <2>1
<1>6. /\ r \in Memories /\ DOMAIN r.at \in SUBSET DOMAIN new.at
      /\ \A k \in DOMAIN r.at : r.at[k] = new.at[k]
      /\ Len(r.order) > 0 /\ Tip(r.order) = key
      /\ Closed(r, DOMAIN new.at)
  BY <1>5 DEF Shrinks
<1>7. key \in DOMAIN r.at
  <2>1. r.order \in Seq(Streams) /\ DOMAIN r.at = Elements(r.order)
    BY <1>6, MemoryIs
  <2> QED
    BY <1>6, <2>1 DEF Elements, Tip
<1> QED
  BY <1>2, <1>4, <1>6, <1>7 DEF Recalled

-----------------------------------------------------------------------------
(* Chains in memory: from a key down by what each entry chains from, until  *)
(* that is not in memory.                                                   *)
Chains(m, key) ==
  {x \in Seq(DOMAIN m.at) :
     /\ Len(x) > 0 /\ x[1] = key
     /\ \A j \in 1..Len(x) : Len(x[j]) + j <= Len(key) + 1
     /\ \A j \in 1..Len(x) : j < Len(x) => x[j + 1] = m.at[x[j]].prev}

Chained(m, x) ==
  LET prev == m.at[Last(x)].prev IN IF prev \in DOMAIN m.at THEN Append(x, prev) ELSE x

LEMMA ChainedIs ==
  ASSUME NEW m \in Memories, NEW key \in DOMAIN m.at, NEW x \in Chains(m, key)
  PROVE  /\ Chained(m, x) \in Chains(m, key)
         /\ m.at[Last(x)].prev \in DOMAIN m.at => Len(Chained(m, x)) = Len(x) + 1
         /\ m.at[Last(x)].prev \notin DOMAIN m.at => Chained(m, x) = x
<1>1. /\ x \in Seq(DOMAIN m.at) /\ Len(x) > 0 /\ x[1] = key /\ Len(x) \in Nat
      /\ \A j \in 1..Len(x) : Len(x[j]) + j <= Len(key) + 1
      /\ \A j \in 1..Len(x) : j < Len(x) => x[j + 1] = m.at[x[j]].prev
  BY DEF Chains
<1>2. DOMAIN m.at \in SUBSET Streams /\ Entered(m)
  BY MemoryIs
<1>3. PICK last \in DOMAIN m.at : last = x[Len(x)]
  BY <1>1
<1>4. PICK prev : prev = m.at[last].prev
  OBVIOUS
<1>5. CASE prev \notin DOMAIN m.at
  BY <1>3, <1>4, <1>5 DEF Chained, Last
<1>6. CASE prev \in DOMAIN m.at
  <2>1. PICK T : T = DOMAIN m.at
    OBVIOUS
  <2>2. PICK y : y = Append(x, prev)
    OBVIOUS
  <2>3. /\ y \in Seq(T) /\ Len(y) = Len(x) + 1
        /\ \A j \in 1..Len(x) : y[j] = x[j]
        /\ y[Len(x) + 1] = prev
    BY <1>1, <1>6, <2>1, <2>2, AppendIs
  <2>4. Chained(m, x) = y
    BY <1>3, <1>4, <1>6, <2>2 DEF Chained, Last
  <2>5. Len(prev) < Len(last) /\ Len(prev) \in Nat /\ Len(last) \in Nat /\ Len(key) \in Nat
    <3>1. prev \in Streams /\ last \in Streams /\ key \in Streams
      BY <1>2, <1>3, <1>6
    <3>2. Len(prev) < Len(last)
      BY <1>2, <1>3, <1>4, <3>1 DEF Entered, Under
    <3> QED
      BY <3>1, <3>2, StreamIs
  <2>6. ASSUME NEW j \in 1..Len(y) PROVE Len(y[j]) + j <= Len(key) + 1
    <3>1. j \in 1..Len(x) \/ j = Len(x) + 1
      BY <1>1, <2>3
    <3>2. CASE j \in 1..Len(x)
      BY <1>1, <2>3, <3>2
    <3>3. CASE j = Len(x) + 1
      <4>1. Len(last) + Len(x) <= Len(key) + 1
        BY <1>1, <1>3
      <4> QED
        BY <1>1, <2>3, <2>5, <3>3, <4>1
    <3> QED
      BY <3>1, <3>2, <3>3
  <2>7. ASSUME NEW j \in 1..Len(y), j < Len(y) PROVE y[j + 1] = m.at[y[j]].prev
    <3>1. j \in 1..Len(x)
      BY <1>1, <2>3, <2>7
    <3>2. CASE j = Len(x)
      BY <1>3, <1>4, <2>3, <3>1, <3>2
    <3>3. CASE j # Len(x)
      <4>1. j < Len(x) /\ j + 1 \in 1..Len(x)
        BY <1>1, <3>1, <3>3
      <4> QED
        BY <1>1, <2>3, <3>1, <4>1
    <3> QED
      BY <3>2, <3>3
  <2>8. Len(y) > 0 /\ y[1] = key
    BY <1>1, <2>3
  <2>9. y \in Chains(m, key)
    BY <2>1, <2>3, <2>6, <2>7, <2>8 DEF Chains
  <2> QED
    BY <1>3, <1>4, <1>6, <2>3, <2>4, <2>9 DEF Last
<1> QED
  BY <1>5, <1>6

LEMMA AloneIs ==
  ASSUME NEW T, NEW k \in T
  PROVE  <<k>> \in Seq(T) /\ Len(<<k>>) = 1 /\ <<k>>[1] = k
OBVIOUS

LEMMA ChainUnfolds ==
  ASSUME NEW m \in Memories, NEW key \in DOMAIN m.at
  PROVE  \E f \in [0..Len(key) -> Chains(m, key)] :
           /\ f[0] = <<key>>
           /\ \A i \in 1..Len(key) : f[i] = Chained(m, f[i - 1])
           /\ ChainFrom(m, key) = f[Len(key)]
<1> DEFINE len == Len(key)
           Vals == Chains(m, key)
           start == <<key>>
           Goes(x, i) == Chained(m, x)
           after == CHOOSE f : f = [i \in 0..len |-> IF i = 0 THEN start ELSE Goes(f[i - 1], i)]
           G == [i \in 1..len |-> [x \in Vals |-> Goes(x, i)]]
<1>0. ChainFrom(m, key) = after[len]
  BY DEF ChainFrom, Chained
<1>1. len \in Nat /\ start \in Vals
  <2>1. key \in Streams
    BY MemoryIs
  <2>2. Len(key) \in Nat
    BY <2>1, StreamIs
  <2>3. PICK x : x = <<key>>
    OBVIOUS
  <2>4. x \in Seq(DOMAIN m.at) /\ Len(x) = 1 /\ x[1] = key
    BY <2>3, AloneIs
  <2>5. \A j \in 1..Len(x) : j = 1
    BY <2>4
  <2>6. /\ \A j \in 1..Len(x) : Len(x[j]) + j <= Len(key) + 1
        /\ \A j \in 1..Len(x) : j < Len(x) => x[j + 1] = m.at[x[j]].prev
    BY <2>2, <2>4, <2>5
  <2>7. Len(x) > 0
    BY <2>4
  <2>8. x \in Chains(m, key)
    BY <2>4, <2>6, <2>7, Zenon DEF Chains
  <2> QED
    BY <2>2, <2>3, <2>8
<1>2. \A x \in Vals, i \in 1..len : Goes(x, i) \in Vals
  BY ChainedIs
<1>3. PICK f \in [0..len -> Vals] :
        f[0] = start /\ \A i \in 1..len : f[i] = G[i][f[i - 1]]
  <2>1. PICK H : H = G
    OBVIOUS
  <2>2. H \in [1..len -> [Vals -> Vals]]
    BY <1>2, <2>1
  <2> HIDE DEF G, after
  <2>3. PICK R : R = Vals
    OBVIOUS
  <2>4. PICK a \in R : a = start
    BY <1>1, <2>3
  <2>5. PICK top \in Nat : top = len
    BY <1>1
  <2>6. StepsIn(H, R, top)
    BY <2>2, <2>3, <2>5, Zenon DEF StepsIn
  <2>7. PICK f : Course(f, R, a, top, H)
    BY <2>6, CourseIs
  <2> QED
    BY <2>1, <2>3, <2>4, <2>5, <2>7, Zenon DEF Course
<1>4. \A i \in 1..len : i - 1 \in 0..len /\ f[i] = Goes(f[i - 1], i)
  <2>1. \A i \in 1..len : i - 1 \in 0..len
    BY <1>1
  <2> QED
    BY <1>3, <2>1
<1>5. f = [i \in 0..len |-> IF i = 0 THEN start ELSE Goes(f[i - 1], i)]
  <2>1. \A i \in 0..len : f[i] = IF i = 0 THEN start ELSE Goes(f[i - 1], i)
    <3> SUFFICES ASSUME NEW i \in 0..len, i # 0 PROVE f[i] = Goes(f[i - 1], i)
      BY <1>3
    <3>1. i \in 1..len
      BY <1>1
    <3> QED
      BY <3>1, <1>4, Zenon
  <2> QED
    BY <1>3, <2>1, Zenon
<1>6. after = [i \in 0..len |-> IF i = 0 THEN start ELSE Goes(after[i - 1], i)]
  BY <1>5, Zenon
<1> HIDE DEF after, G
<1>7. after[0] = start /\ \A i \in 1..len : after[i] = Goes(after[i - 1], i)
  <2>0. 0 \in 0..len
    BY <1>1
  <2>1. after[0] = start
    BY <1>6, <2>0, Zenon
  <2>2. ASSUME NEW i \in 1..len PROVE after[i] = Goes(after[i - 1], i)
    <3>1. i \in 0..len /\ i # 0
      BY <1>1
    <3>2. after[i] = IF i = 0 THEN start ELSE Goes(after[i - 1], i)
      BY <3>1, <1>6, Zenon
    <3> QED
      BY <3>1, <3>2, Zenon
  <2> QED
    BY <2>1, <2>2
<1>8. \A i \in 0..len : f[i] = after[i]
  <2>1. f[0] = after[0]
    BY <1>3, <1>7
  <2>2. \A i \in 1..len : f[i - 1] = after[i - 1] => f[i] = after[i]
    BY <1>4, <1>7, Zenon
  <2>3. PICK top \in Nat : top = len
    BY <1>1
  <2>4. PICK g : g = after
    OBVIOUS
  <2>5. PICK h : h = f
    OBVIOUS
  <2>6. Follows(h, g, top)
    BY <2>1, <2>2, <2>3, <2>4, <2>5, Zenon DEF Follows
  <2>7. Alike(h, g, top)
    BY <2>6, AlikeIs
  <2> QED
    BY <2>3, <2>4, <2>5, <2>7, Zenon DEF Alike
<1>9. f[len] = after[len]
  <2>1. len \in 0..len
    BY <1>1
  <2> QED
    BY <1>8, <2>1
<1> QED
  BY <1>0, <1>3, <1>4, <1>9, Zenon

LEMMA ChainIs ==
  ASSUME NEW m \in Memories, NEW key \in DOMAIN m.at
  PROVE  /\ ChainFrom(m, key) \in Chains(m, key)
         /\ m.at[Last(ChainFrom(m, key))].prev \notin DOMAIN m.at
<1> DEFINE n == Len(key)
           Ended(x) == m.at[Last(x)].prev \notin DOMAIN m.at
<1>1. key \in Streams /\ n \in Nat
  BY MemoryIs, StreamIs
<1>2. PICK f \in [0..n -> Chains(m, key)] :
        /\ f[0] = <<key>>
        /\ \A i \in 1..n : f[i] = Chained(m, f[i - 1])
        /\ ChainFrom(m, key) = f[n]
  BY ChainUnfolds
<1> DEFINE I == {i \in Nat : i <= n => Len(f[i]) = i + 1 \/ Ended(f[i])}
<1>3. 0 \in I
  <2>1. Len(<<key>>) = 1
    BY AloneIs
  <2>2. Len(f[0]) = 0 + 1
    BY <1>2, <2>1
  <2> QED
    BY <2>2
<1>4. ASSUME NEW i \in Nat, i \in I PROVE i + 1 \in I
  <2> SUFFICES ASSUME i + 1 <= n PROVE Len(f[i + 1]) = (i + 1) + 1 \/ Ended(f[i + 1])
    OBVIOUS
  <2>1. /\ Len(f[i]) = i + 1 \/ Ended(f[i])
        /\ i + 1 \in 1..n /\ (i + 1) - 1 = i /\ i \in 0..n
    BY <1>1, <1>4
  <2>2. f[i + 1] = Chained(m, f[i]) /\ f[i] \in Chains(m, key)
    BY <1>2, <2>1
  <2>3. CASE Ended(f[i])
    BY <2>2, <2>3, ChainedIs
  <2>4. CASE ~Ended(f[i])
    BY <2>1, <2>2, <2>4, ChainedIs
  <2> QED
    BY <2>3, <2>4
<1>5. Len(f[n]) = n + 1 \/ Ended(f[n])
  <2>1. Nat \subseteq I
    <3> HIDE DEF I
    <3> QED
      BY <1>3, <1>4, SetInduction
  <2> QED
    BY <1>1, <2>1
<1>6. f[n] \in Chains(m, key)
  BY <1>1, <1>2
<1>7. Len(f[n]) # n + 1
  <2> SUFFICES ASSUME Len(f[n]) = n + 1 PROVE FALSE
    OBVIOUS
  <2>1. PICK x : x = f[n]
    OBVIOUS
  <2>2. x \in Seq(DOMAIN m.at) /\ \A j \in 1..Len(x) : Len(x[j]) + j <= n + 1
    BY <1>6, <2>1 DEF Chains
  <2>3. n + 1 \in 1..Len(x)
    BY <1>1, <2>1
  <2>4. PICK last \in DOMAIN m.at : last = x[n + 1]
    BY <2>2, <2>3
  <2>5. Len(last) + (n + 1) <= n + 1
    BY <2>2, <2>3, <2>4
  <2>6. last \in Streams
    BY MemoryIs
  <2>7. Len(last) \in Nat /\ Len(last) >= 1
    BY <2>6, StreamIs
  <2> QED
    BY <1>1, <2>5, <2>7
<1> QED
  BY <1>2, <1>5, <1>6, <1>7

(* A chain holds what each of its entries chains from, if memory does.      *)
LEMMA ChainCloses ==
  ASSUME NEW m \in Memories, NEW key \in DOMAIN m.at, NEW j \in DOMAIN ChainFrom(m, key)
  PROVE  LET x == ChainFrom(m, key)
         IN  /\ x[j] \in DOMAIN m.at
             /\ m.at[x[j]].prev \in DOMAIN m.at => \E i \in DOMAIN x : x[i] = m.at[x[j]].prev
<1>1. PICK x : x = ChainFrom(m, key)
  OBVIOUS
<1>2. x \in Chains(m, key) /\ m.at[Last(x)].prev \notin DOMAIN m.at
  BY <1>1, ChainIs
<1>3. /\ x \in Seq(DOMAIN m.at) /\ Len(x) \in Nat /\ DOMAIN x = 1..Len(x)
      /\ \A i \in 1..Len(x) : i < Len(x) => x[i + 1] = m.at[x[i]].prev
  BY <1>2 DEF Chains
<1>4. j \in 1..Len(x) /\ x[j] \in DOMAIN m.at
  BY <1>1, <1>3
<1>5. CASE j = Len(x)
  BY <1>1, <1>2, <1>4, <1>5 DEF Last
<1>6. CASE j # Len(x)
  <2>1. j < Len(x) /\ j + 1 \in DOMAIN x
    BY <1>3, <1>4, <1>6
  <2> QED
    BY <1>1, <1>3, <1>4, <2>1
<1> QED
  BY <1>5, <1>6

(* Every entry of a chain is of a prefix of the stream the chain is of.     *)
LEMMA ChainPrefixes ==
  ASSUME NEW m \in Memories, NEW key \in DOMAIN m.at, NEW x \in Chains(m, key)
  PROVE  \A j \in 1..Len(x) : x[j] = Prefix(key, Len(x[j])) /\ Len(x[j]) \in 1..Len(key)
<1>1. /\ x \in Seq(DOMAIN m.at) /\ Len(x) > 0 /\ x[1] = key /\ Len(x) \in Nat
      /\ \A j \in 1..Len(x) : j < Len(x) => x[j + 1] = m.at[x[j]].prev
  BY DEF Chains
<1>2. key \in Streams /\ DOMAIN m.at \in SUBSET Streams /\ Entered(m)
  BY MemoryIs
<1> DEFINE Fits(k) == k = Prefix(key, Len(k)) /\ Len(k) \in 1..Len(key)
           I == {j \in Nat : j + 1 <= Len(x) => Fits(x[j + 1])}
<1>3. 0 \in I
  BY <1>1, <1>2, WholePrefix, StreamIs
<1>4. ASSUME NEW j \in Nat, j \in I PROVE j + 1 \in I
  <2> SUFFICES ASSUME (j + 1) + 1 <= Len(x) PROVE Fits(x[(j + 1) + 1])
    OBVIOUS
  <2>1. j + 1 \in 1..Len(x) /\ (j + 1) + 1 \in 1..Len(x) /\ j + 1 < Len(x) /\ j + 1 <= Len(x)
    BY <1>1
  <2>2. PICK k \in Streams : k = x[j + 1] /\ k \in DOMAIN m.at /\ Fits(k)
    BY <1>1, <1>2, <1>4, <2>1
  <2>3. PICK p \in Streams : p = x[(j + 1) + 1] /\ p = m.at[k].prev
    BY <1>1, <1>2, <2>1, <2>2
  <2>4. Under(p, k)
    BY <1>2, <2>2, <2>3 DEF Entered
  <2>5. Len(p) \in 1..Len(k) /\ Len(p) \in 1..Len(key)
    BY <1>2, <2>2, <2>4, StreamIs DEF Under
  <2>6. p = Prefix(Prefix(key, Len(k)), Len(p))
    BY <2>2, <2>4 DEF Under
  <2>7. Prefix(Prefix(key, Len(k)), Len(p)) = Prefix(key, Len(p))
    BY <1>2, <2>2, <2>5, PrefixOfPrefix
  <2> QED
    BY <2>3, <2>5, <2>6, <2>7
<1>5. Nat \subseteq I
  <2> HIDE DEF I
  <2> QED
    BY <1>3, <1>4, SetInduction
<1>6. ASSUME NEW j \in 1..Len(x) PROVE Fits(x[j])
  <2>1. PICK i \in Nat : i + 1 = j /\ i \in I /\ j <= Len(x)
    <3>1. j - 1 \in Nat /\ (j - 1) + 1 = j /\ j <= Len(x)
      BY <1>1
    <3> QED
      BY <1>5, <3>1
  <2> QED
    BY <2>1
<1> QED
  BY <1>6

LEMMA DeltasIs ==
  ASSUME NEW m \in Memories, NEW key \in DOMAIN m.at
  PROVE  /\ DeltasFrom(m, key) \in Seq(Link) /\ Len(DeltasFrom(m, key)) > 0
         /\ DeltasFrom(m, key)[1].boundary = Len(key)
<1>1. PICK x : x = ChainFrom(m, key)
  OBVIOUS
<1>2. /\ x \in Seq(DOMAIN m.at) /\ Len(x) > 0 /\ x[1] = key /\ Len(x) \in Nat
      /\ DOMAIN x = 1..Len(x)
  BY <1>1, ChainIs DEF Chains
<1>3. m.at \in [DOMAIN m.at -> Entry] /\ Entered(m)
  BY MemoryIs
<1>4. PICK y : y = [i \in 1..Len(x) |-> m.at[x[i]].delta]
  OBVIOUS
<1>5. \A i \in 1..Len(x) : m.at[x[i]].delta \in Link
  BY <1>2, <1>3 DEF Entry
<1>6. y \in Seq(Link) /\ Len(y) = Len(x)
  BY <1>2, <1>4, <1>5
<1>7. y[1].boundary = Len(key)
  BY <1>2, <1>3, <1>4 DEF Entered
<1>8. DeltasFrom(m, key) = y
  BY <1>1, <1>2, <1>4 DEF DeltasFrom
<1> QED
  BY <1>2, <1>6, <1>7, <1>8

LEMMA ResumableIs ==
  ASSUME NEW m \in Memories, NEW s, NEW upto
  PROVE  LET key == Resumable(m, s, upto)
         IN  /\ key \in DOMAIN m.at \cup {None}
             /\ key # None => key \in Streams /\ key \in DOMAIN m.at /\ IsPrefix(key, s)
<1>1. PICK K : K = {k \in Matching(DOMAIN m.at, s, upto) : Assembles(DeltasFrom(m, k))}
  OBVIOUS
<1>2. \A k \in K : k \in DOMAIN m.at /\ IsPrefix(k, s)
  BY <1>1 DEF Matching
<1>3. DOMAIN m.at \in SUBSET Streams
  BY MemoryIs
<1>4. K \in SUBSET Streams
  BY <1>2, <1>3
<1>5. Resumable(m, s, upto) = DeepestOf(K)
  BY <1>1 DEF Resumable
<1> QED
  BY <1>2, <1>3, <1>4, <1>5, DeepestIs

(* What a trim keeps holds what its entries chain from.                     *)
LEMMA ReachedCloses ==
  ASSUME memory \in Memories, NEW C, NEW k \in ReachedBy(C)
  PROVE  /\ k \in DOMAIN memory.at
         /\ memory.at[k].prev \in DOMAIN memory.at => memory.at[k].prev \in ReachedBy(C)
<1>1. PICK r \in DOMAIN memory.at \cap HeldBy(C) :
        \E j \in DOMAIN ChainFrom(memory, r) : k = ChainFrom(memory, r)[j]
  BY DEF ReachedBy
<1>2. PICK j \in DOMAIN ChainFrom(memory, r) : k = ChainFrom(memory, r)[j]
  BY <1>1
<1>3. /\ k \in DOMAIN memory.at
      /\ memory.at[k].prev \in DOMAIN memory.at =>
           \E i \in DOMAIN ChainFrom(memory, r) : ChainFrom(memory, r)[i] = memory.at[k].prev
  BY <1>1, <1>2, ChainCloses
<1>4. \A i \in DOMAIN ChainFrom(memory, r) : ChainFrom(memory, r)[i] \in ReachedBy(C)
  BY <1>1 DEF ReachedBy
<1> QED
  BY <1>3, <1>4

-----------------------------------------------------------------------------
(* Newest first: the named checkpoints of a set, each once, in the order of *)
(* their boundaries.                                                        *)
Below(kept, c) == {d \in kept : Deeper(d, c)}
Rank(kept, c) == Cardinality(Below(kept, c))

LEMMA KeptIs ==
  ASSUME NEW K \in KeptSets, NEW c \in K
  PROVE  /\ c.delta \in Link /\ c.delta.boundary \in Nat /\ c.delta.from \in Nat
         /\ c.delta.from < c.delta.boundary /\ c.turn \in BOOLEAN
BY DEF KeptSets, Kept, Link

LEMMA SomeKept ==
  ASSUME NEW K \in KeptSets, NEW S \in SUBSET K
  PROVE  S \in KeptSets
BY FS_Subset DEF KeptSets, Distinct

LEMMA RankIs ==
  ASSUME NEW K \in KeptSets, NEW c \in K
  PROVE  /\ IsFiniteSet(Below(K, c)) /\ Rank(K, c) \in 0..Cardinality(K) - 1
         /\ \A d \in K : Deeper(d, c) => Rank(K, d) < Rank(K, c)
<1>1. IsFiniteSet(K) /\ Cardinality(K) \in Nat
  BY FS_CardinalityType DEF KeptSets
<1>2. \A d \in K : Below(K, d) \in SUBSET K /\ d \notin Below(K, d)
  BY KeptIs DEF Below, Deeper
<1>3. \A d \in K : IsFiniteSet(Below(K, d)) /\ Rank(K, d) \in Nat
  BY <1>1, <1>2, FS_Subset, FS_CardinalityType DEF Rank
<1>4. Rank(K, c) <= Cardinality(K) - 1
  <2>1. Below(K, c) \in SUBSET (K \ {c})
    BY <1>2
  <2>2. IsFiniteSet(K \ {c}) /\ Cardinality(K \ {c}) = Cardinality(K) - 1
    BY <1>1, FS_RemoveElement
  <2> QED
    BY <2>1, <2>2, FS_Subset DEF Rank
<1>5. ASSUME NEW d \in K, Deeper(d, c) PROVE Rank(K, d) < Rank(K, c)
  <2>1. d \in Below(K, c) /\ d \notin Below(K, d)
    BY <1>2, <1>5 DEF Below
  <2>2. Below(K, d) \in SUBSET Below(K, c)
    BY <1>5, KeptIs DEF Below, Deeper
  <2>3. Below(K, d) \in SUBSET (Below(K, c) \ {d})
    BY <2>1, <2>2
  <2>4. /\ IsFiniteSet(Below(K, c) \ {d})
        /\ Cardinality(Below(K, c) \ {d}) = Cardinality(Below(K, c)) - 1
    BY <1>3, <2>1, FS_RemoveElement
  <2>5. Cardinality(Below(K, d)) <= Cardinality(Below(K, c) \ {d})
    BY <2>3, <2>4, FS_Subset
  <2> QED
    BY <1>3, <2>4, <2>5 DEF Rank
<1> QED
  BY <1>1, <1>3, <1>4, <1>5

(* No two have the same rank, and every rank there can be is one's.         *)
LEMMA RanksAre ==
  ASSUME NEW K \in KeptSets
  PROVE  /\ Cardinality(K) \in Nat
         /\ \A c, d \in K : Rank(K, c) = Rank(K, d) => c = d
         /\ \A i \in 1..Cardinality(K) : \E c \in K : Rank(K, c) = i - 1
<1>1. PICK n \in Nat : n = Cardinality(K)
  BY FS_CardinalityType DEF KeptSets
<1>2. \A c \in K : Rank(K, c) \in 0..n - 1
  BY <1>1, RankIs
<1>3. \A c, d \in K : Rank(K, c) = Rank(K, d) => c = d
  <2> SUFFICES ASSUME NEW c \in K, NEW d \in K, Rank(K, c) = Rank(K, d) PROVE c = d
    OBVIOUS
  <2>1. ~Deeper(c, d) /\ ~Deeper(d, c)
    BY <1>2, RankIs
  <2>2. c.delta.boundary = d.delta.boundary
    BY <2>1, KeptIs DEF Deeper
  <2> QED
    BY <2>2 DEF KeptSets, Distinct
<1>4. PICK f : f = [c \in K |-> Rank(K, c)]
  OBVIOUS
<1>5. f \in Injection(K, 0..n - 1)
  BY <1>2, <1>3, <1>4 DEF Injection, IsInjective
<1>6. IsFiniteSet(0..n - 1) /\ Cardinality(0..n - 1) = n
  BY FS_Interval
<1>7. f \in Surjection(K, 0..n - 1)
  BY <1>1, <1>5, <1>6, FS_Injection
<1>8. \A i \in 1..n : \E c \in K : Rank(K, c) = i - 1
  <2> TAKE i \in 1..n
  <2>1. i - 1 \in 0..n - 1
    OBVIOUS
  <2> QED
    BY <1>4, <1>7, <2>1 DEF Surjection
<1> QED
  BY <1>1, <1>3, <1>8

LEMMA NewestFirstIs ==
  ASSUME NEW K \in KeptSets
  PROVE  LET w == NewestFirst(K)
         IN  /\ w \in Seq(K) /\ Len(w) = Cardinality(K) /\ Len(w) \in Nat
             /\ \A i, j \in 1..Len(w) : i < j => w[i].delta.boundary > w[j].delta.boundary
             /\ \A c \in K : \E i \in 1..Len(w) : w[i] = c
<1>1. PICK n \in Nat : n = Cardinality(K)
  BY RanksAre
<1>2. \A c \in K : Rank(K, c) \in 0..n - 1
  BY <1>1, RankIs
<1>3. \A c, d \in K : Rank(K, c) = Rank(K, d) => c = d
  BY RanksAre
<1>8. \A i \in 1..n : \E c \in K : Rank(K, c) = i - 1
  BY <1>1, RanksAre
<1>9. PICK w : w = NewestFirst(K)
  OBVIOUS
<1>10. w = [i \in 1..n |-> CHOOSE c \in K : Rank(K, c) = i - 1]
  BY <1>1, <1>9 DEF NewestFirst, Rank, Below
<1>11. \A i \in 1..n : w[i] \in K /\ Rank(K, w[i]) = i - 1
  BY <1>8, <1>10
<1>12. w \in Seq(K) /\ Len(w) = n
  BY <1>10, <1>11
<1>13. ASSUME NEW i \in 1..n, NEW j \in 1..n, i < j
       PROVE  w[i].delta.boundary > w[j].delta.boundary
  <2>1. w[i] \in K /\ w[j] \in K /\ Rank(K, w[i]) < Rank(K, w[j])
    BY <1>11, <1>13
  <2>2. w[i] # w[j] /\ ~Deeper(w[j], w[i])
    BY <1>2, <2>1, RankIs
  <2>3. w[i].delta.boundary # w[j].delta.boundary
    BY <2>1, <2>2 DEF KeptSets, Distinct
  <2> QED
    BY <2>1, <2>2, <2>3, KeptIs DEF Deeper
<1>14. ASSUME NEW c \in K PROVE \E i \in 1..n : w[i] = c
  <2>1. PICK i \in 1..n : i = Rank(K, c) + 1
    BY <1>2
  <2>2. Rank(K, w[i]) = Rank(K, c) /\ w[i] \in K
    BY <1>2, <1>11, <2>1
  <2> QED
    BY <1>3, <2>2
<1> QED
  BY <1>1, <1>9, <1>12, <1>13, <1>14

(* What is not among the n newest has n newer.                              *)
LEMMA NewestAre ==
  ASSUME NEW K \in KeptSets, NEW n \in Nat, NEW k \in K, k \notin Newest(n, K)
  PROVE  /\ \A d \in Newest(n, K) : Deeper(d, k)
         /\ IsFiniteSet(Newest(n, K)) /\ Cardinality(Newest(n, K)) >= n
<1>1. Newest(n, K) = {c \in K : Rank(K, c) < n}
  BY DEF Newest, Rank, Below
<1>2. \A c \in K : Rank(K, c) \in Nat /\ Rank(K, c) <= Cardinality(K) - 1
  BY RanksAre, RankIs
<1>3. Rank(K, k) >= n /\ n <= Cardinality(K) - 1 /\ Cardinality(K) \in Nat
  BY <1>1, <1>2, RanksAre
<1>4. ASSUME NEW d \in Newest(n, K) PROVE Deeper(d, k)
  <2>1. d \in K /\ Rank(K, d) < Rank(K, k)
    BY <1>1, <1>2, <1>3
  <2>2. ~Deeper(k, d) /\ k # d
    BY <1>2, <2>1, RankIs
  <2>3. k.delta.boundary # d.delta.boundary
    BY <2>1, <2>2 DEF KeptSets, Distinct
  <2> QED
    BY <2>1, <2>2, <2>3, KeptIs DEF Deeper
<1>5. PICK D : D = Newest(n, K)
  OBVIOUS
<1>6. IsFiniteSet(D)
  BY <1>1, <1>5, FS_Subset DEF KeptSets
<1>7. PICK f : f = [d \in D |-> Rank(K, d)]
  OBVIOUS
<1>8. f \in [D -> 0..n - 1]
  BY <1>1, <1>2, <1>5, <1>7
<1>9. \A i \in 0..n - 1 : \E d \in D : f[d] = i
  <2> TAKE i \in 0..n - 1
  <2>1. i + 1 \in 1..Cardinality(K) /\ (i + 1) - 1 = i /\ i < n
    BY <1>3
  <2>2. PICK d \in K : Rank(K, d) = i
    BY <2>1, RanksAre
  <2> QED
    BY <1>1, <1>5, <1>7, <2>1, <2>2
<1>10. f \in Surjection(D, 0..n - 1)
  BY <1>8, <1>9 DEF Surjection
<1>11. IsFiniteSet(0..n - 1) /\ Cardinality(0..n - 1) = n
  BY FS_Interval
<1>12. Cardinality(D) >= n
  BY <1>6, <1>10, <1>11, FS_Surjection, FS_CardinalityType
<1> QED
  BY <1>4, <1>5, <1>6, <1>12

(* The links at and below a boundary.                                       *)
Older(kept, r) == NewestFirst({c \in kept : c.delta.boundary <= r})

LEMMA OlderIs ==
  ASSUME NEW K \in KeptSets, NEW r \in Nat
  PROVE  LET w == Older(K, r)
         IN  /\ w \in Seq(K) /\ Len(w) \in Nat
             /\ \A i \in 1..Len(w) : w[i] \in K /\ w[i].delta.boundary <= r
             /\ \A i, j \in 1..Len(w) : i < j => w[i].delta.boundary > w[j].delta.boundary
             /\ r \in Boundaries(K) => Len(w) > 0 /\ w[1].delta.boundary = r
<1>1. PICK S : S = {c \in K : c.delta.boundary <= r}
  OBVIOUS
<1>2. S \in SUBSET K /\ S \in KeptSets
  BY <1>1, SomeKept
<1>3. PICK w : w = NewestFirst(S)
  OBVIOUS
<1>4. /\ w \in Seq(S) /\ Len(w) \in Nat
      /\ \A i, j \in 1..Len(w) : i < j => w[i].delta.boundary > w[j].delta.boundary
      /\ \A c \in S : \E i \in 1..Len(w) : w[i] = c
  BY <1>2, <1>3, NewestFirstIs
<1>5. \A i \in 1..Len(w) : w[i] \in S
  BY <1>4
<1>6. \A i \in 1..Len(w) : w[i] \in K /\ w[i].delta.boundary <= r
  BY <1>1, <1>5
<1>7. ASSUME r \in Boundaries(K) PROVE Len(w) > 0 /\ w[1].delta.boundary = r
  <2>1. PICK c \in K : c.delta.boundary = r
    BY <1>7 DEF Boundaries
  <2>2. c \in S
    BY <1>1, <2>1
  <2>3. PICK i \in 1..Len(w) : w[i] = c
    BY <1>4, <2>2
  <2>4. Len(w) > 0 /\ 1 \in 1..Len(w)
    BY <1>4, <2>3
  <2>5. w[1].delta.boundary <= r /\ w[1].delta.boundary \in Nat
    BY <1>6, <2>4, KeptIs
  <2>6. CASE i = 1
    BY <2>1, <2>3, <2>4, <2>6
  <2>7. CASE i # 1
    <3>1. w[1].delta.boundary > w[i].delta.boundary
      BY <1>4, <2>3, <2>4, <2>7
    <3> QED
      BY <2>1, <2>3, <2>5, <3>1
  <2> QED
    BY <2>6, <2>7
<1>8. w \in Seq(K)
  BY <1>2, <1>4
<1> QED
  BY <1>1, <1>3, <1>4, <1>6, <1>7, <1>8 DEF Older

-----------------------------------------------------------------------------
(* Assembling.                                                              *)
LEMMA FloorIs ==
  ASSUME NEW b \in Nat
  PROVE  /\ Floor(b) \in Nat /\ Floor(b) <= b
         /\ \A c \in Nat : c <= b => Floor(c) <= Floor(b)
         /\ Base(0, b) = Floor(b)
BY WindowAssumption DEF Floor, Higher, Base

Assemblies(b) == [whole : BOOLEAN, need : Nat, rows : [Floor(b) + 1..b -> RingContents]]
Unread(b) == [whole |-> TRUE, need |-> b, rows |-> [p \in Floor(b) + 1..b |-> <<>>]]

LEMMA SlicedIs ==
  ASSUME NEW b \in Nat, NEW a \in Assemblies(b), NEW d \in Link
  PROVE  Sliced(Floor(b), a, d) \in Assemblies(b)
<1>1. /\ a.whole \in BOOLEAN /\ a.need \in Nat /\ a.rows \in [Floor(b) + 1..b -> RingContents]
      /\ a = [whole |-> a.whole, need |-> a.need, rows |-> a.rows]
  BY DEF Assemblies
<1>2. d.boundary \in Nat /\ d.from \in Nat /\ d.rows \in [Base(d.from, d.boundary) + 1..d.boundary -> RingContents]
  BY DEF Link, RowsOf
<1>3. PICK lo : lo = Higher(Base(d.from, d.boundary), Floor(b))
  OBVIOUS
<1>4. /\ Base(d.from, d.boundary) \in Nat /\ lo \in Nat /\ Base(d.from, d.boundary) <= lo
      /\ Floor(b) \in Nat
  BY <1>2, <1>3, FloorIs DEF Base, Higher
<1>5. CASE ~a.whole \/ a.need <= Floor(b)
  BY <1>5 DEF Sliced
<1>6. CASE ~(~a.whole \/ a.need <= Floor(b)) /\ d.boundary < a.need
  <2>1. Sliced(Floor(b), a, d) = [a EXCEPT !.whole = FALSE]
    BY <1>6 DEF Sliced
  <2> QED
    BY <1>1, <2>1 DEF Assemblies
<1>7. CASE ~(~a.whole \/ a.need <= Floor(b)) /\ ~(d.boundary < a.need)
  <2>1. PICK rows : rows = [p \in DOMAIN a.rows |-> IF p \in lo + 1..a.need THEN d.rows[p] ELSE a.rows[p]]
    OBVIOUS
  <2>2. Sliced(Floor(b), a, d) = [whole |-> TRUE, need |-> lo, rows |-> rows]
    BY <1>3, <1>7, <2>1 DEF Sliced
  <2>3. \A p \in lo + 1..a.need : p \in Base(d.from, d.boundary) + 1..d.boundary
    BY <1>1, <1>2, <1>4, <1>7
  <2>4. \A p \in lo + 1..a.need : d.rows[p] \in RingContents
    BY <1>2, <2>3
  <2>5. rows \in [Floor(b) + 1..b -> RingContents]
    BY <1>1, <2>1, <2>4
  <2> QED
    BY <1>4, <2>2, <2>5 DEF Assemblies
<1> QED
  BY <1>5, <1>6, <1>7

LEMMA UnreadIs == ASSUME NEW b \in Nat PROVE Unread(b) \in Assemblies(b)
BY DEF Unread, Assemblies, RingContents

LEMMA AssemblyUnfolds ==
  ASSUME NEW links \in Seq(Link), Len(links) > 0
  PROVE  \E f \in [0..Len(links) -> Assemblies(links[1].boundary)] :
           /\ f[0] = Unread(links[1].boundary)
           /\ \A i \in 1..Len(links) : f[i] = Sliced(Floor(links[1].boundary), f[i - 1], links[i])
           /\ Assembly(links) = f[Len(links)]
<1> DEFINE len == Len(links)
           Vals == Assemblies(links[1].boundary)
           start == Unread(links[1].boundary)
           Goes(x, i) == Sliced(Floor(links[1].boundary), x, links[i])
           after == CHOOSE f : f = [i \in 0..len |-> IF i = 0 THEN start ELSE Goes(f[i - 1], i)]
           G == [i \in 1..len |-> [x \in Vals |-> Goes(x, i)]]
<1>0. Assembly(links) = after[len]
  BY DEF Assembly, Unread
<1>1. len \in Nat /\ start \in Vals
  <2>1. links[1].boundary \in Nat
    BY DEF Link
  <2> QED
    BY <2>1, UnreadIs
<1>2. \A x \in Vals, i \in 1..len : Goes(x, i) \in Vals
  <2>1. links[1].boundary \in Nat /\ \A i \in 1..Len(links) : links[i] \in Link
    BY DEF Link
  <2> QED
    BY <2>1, SlicedIs
<1>3. PICK f \in [0..len -> Vals] :
        f[0] = start /\ \A i \in 1..len : f[i] = G[i][f[i - 1]]
  <2>1. PICK H : H = G
    OBVIOUS
  <2>2. H \in [1..len -> [Vals -> Vals]]
    BY <1>2, <2>1
  <2> HIDE DEF G, after
  <2>3. PICK R : R = Vals
    OBVIOUS
  <2>4. PICK a \in R : a = start
    BY <1>1, <2>3
  <2>5. PICK top \in Nat : top = len
    BY <1>1
  <2>6. StepsIn(H, R, top)
    BY <2>2, <2>3, <2>5, Zenon DEF StepsIn
  <2>7. PICK f : Course(f, R, a, top, H)
    BY <2>6, CourseIs
  <2> QED
    BY <2>1, <2>3, <2>4, <2>5, <2>7, Zenon DEF Course
<1>4. \A i \in 1..len : i - 1 \in 0..len /\ f[i] = Goes(f[i - 1], i)
  <2>1. \A i \in 1..len : i - 1 \in 0..len
    BY <1>1
  <2> QED
    BY <1>3, <2>1
<1>5. f = [i \in 0..len |-> IF i = 0 THEN start ELSE Goes(f[i - 1], i)]
  <2>1. \A i \in 0..len : f[i] = IF i = 0 THEN start ELSE Goes(f[i - 1], i)
    <3> SUFFICES ASSUME NEW i \in 0..len, i # 0 PROVE f[i] = Goes(f[i - 1], i)
      BY <1>3
    <3>1. i \in 1..len
      BY <1>1
    <3> QED
      BY <3>1, <1>4, Zenon
  <2> QED
    BY <1>3, <2>1, Zenon
<1>6. after = [i \in 0..len |-> IF i = 0 THEN start ELSE Goes(after[i - 1], i)]
  BY <1>5, Zenon
<1> HIDE DEF after, G
<1>7. after[0] = start /\ \A i \in 1..len : after[i] = Goes(after[i - 1], i)
  <2>0. 0 \in 0..len
    BY <1>1
  <2>1. after[0] = start
    BY <1>6, <2>0, Zenon
  <2>2. ASSUME NEW i \in 1..len PROVE after[i] = Goes(after[i - 1], i)
    <3>1. i \in 0..len /\ i # 0
      BY <1>1
    <3>2. after[i] = IF i = 0 THEN start ELSE Goes(after[i - 1], i)
      BY <3>1, <1>6, Zenon
    <3> QED
      BY <3>1, <3>2, Zenon
  <2> QED
    BY <2>1, <2>2
<1>8. \A i \in 0..len : f[i] = after[i]
  <2>1. f[0] = after[0]
    BY <1>3, <1>7
  <2>2. \A i \in 1..len : f[i - 1] = after[i - 1] => f[i] = after[i]
    BY <1>4, <1>7, Zenon
  <2>3. PICK top \in Nat : top = len
    BY <1>1
  <2>4. PICK g : g = after
    OBVIOUS
  <2>5. PICK h : h = f
    OBVIOUS
  <2>6. Follows(h, g, top)
    BY <2>1, <2>2, <2>3, <2>4, <2>5, Zenon DEF Follows
  <2>7. Alike(h, g, top)
    BY <2>6, AlikeIs
  <2> QED
    BY <2>3, <2>4, <2>5, <2>7, Zenon DEF Alike
<1>9. f[len] = after[len]
  <2>1. len \in 0..len
    BY <1>1
  <2> QED
    BY <1>8, <2>1
<1> QED
  BY <1>0, <1>3, <1>4, <1>9, Zenon

LEMMA AssembleIs ==
  ASSUME NEW links \in Seq(Link), Len(links) > 0
  PROVE  Assemble(links) \in RowsOf(0, links[1].boundary)
<1>1. PICK b \in Nat : b = links[1].boundary
  BY DEF Link
<1>2. PICK a : a = Assembly(links)
  OBVIOUS
<1>3. a \in Assemblies(b)
  <2>1. Len(links) \in Nat
    OBVIOUS
  <2>2. \E f \in [0..Len(links) -> Assemblies(b)] : a = f[Len(links)]
    BY <1>1, <1>2, AssemblyUnfolds
  <2> QED
    BY <2>1, <2>2
<1>4. a.rows \in [Floor(b) + 1..b -> RingContents]
  BY <1>3 DEF Assemblies
<1> QED
  BY <1>1, <1>2, <1>4, FloorIs DEF Assemble, RowsOf

-----------------------------------------------------------------------------
(* The arithmetic of the lookup, and what it accepts.                       *)
Walks(K) == [need : Nat, links : SUBSET K]

LEMMA ThroughIs ==
  ASSUME NEW K \in KeptSets, NEW a \in Walks(K), NEW c \in K, NEW floor
  PROVE  Through(floor, a, c) \in Walks(K)
BY KeptIs DEF Walks, Through, Lower

LEMMA WalkUnfolds ==
  ASSUME NEW K \in KeptSets, NEW r \in Nat
  PROVE  \E f \in [0..Len(Older(K, r)) -> Walks(K)] :
           /\ f[0] = [need |-> r, links |-> {}]
           /\ \A i \in 1..Len(Older(K, r)) : f[i] = Through(Floor(r), f[i - 1], Older(K, r)[i])
           /\ WalkDown(K, r) = f[Len(Older(K, r))]
<1> DEFINE len == Len(Older(K, r))
           Vals == Walks(K)
           start == [need |-> r, links |-> {}]
           Goes(x, i) == Through(Floor(r), x, Older(K, r)[i])
           after == CHOOSE f : f = [i \in 0..len |-> IF i = 0 THEN start ELSE Goes(f[i - 1], i)]
           G == [i \in 1..len |-> [x \in Vals |-> Goes(x, i)]]
<1>0. WalkDown(K, r) = after[len]
  BY DEF WalkDown, Older
<1>1. len \in Nat /\ start \in Vals
  BY OlderIs DEF Walks
<1>2. \A x \in Vals, i \in 1..len : Goes(x, i) \in Vals
  BY OlderIs, ThroughIs
<1>3. PICK f \in [0..len -> Vals] :
        f[0] = start /\ \A i \in 1..len : f[i] = G[i][f[i - 1]]
  <2>1. PICK H : H = G
    OBVIOUS
  <2>2. H \in [1..len -> [Vals -> Vals]]
    BY <1>2, <2>1
  <2> HIDE DEF G, after
  <2>3. PICK R : R = Vals
    OBVIOUS
  <2>4. PICK a \in R : a = start
    BY <1>1, <2>3
  <2>5. PICK top \in Nat : top = len
    BY <1>1
  <2>6. StepsIn(H, R, top)
    BY <2>2, <2>3, <2>5, Zenon DEF StepsIn
  <2>7. PICK f : Course(f, R, a, top, H)
    BY <2>6, CourseIs
  <2> QED
    BY <2>1, <2>3, <2>4, <2>5, <2>7, Zenon DEF Course
<1>4. \A i \in 1..len : i - 1 \in 0..len /\ f[i] = Goes(f[i - 1], i)
  <2>1. \A i \in 1..len : i - 1 \in 0..len
    BY <1>1
  <2> QED
    BY <1>3, <2>1
<1>5. f = [i \in 0..len |-> IF i = 0 THEN start ELSE Goes(f[i - 1], i)]
  <2>1. \A i \in 0..len : f[i] = IF i = 0 THEN start ELSE Goes(f[i - 1], i)
    <3> SUFFICES ASSUME NEW i \in 0..len, i # 0 PROVE f[i] = Goes(f[i - 1], i)
      BY <1>3
    <3>1. i \in 1..len
      BY <1>1
    <3> QED
      BY <3>1, <1>4, Zenon
  <2> QED
    BY <1>3, <2>1, Zenon
<1>6. after = [i \in 0..len |-> IF i = 0 THEN start ELSE Goes(after[i - 1], i)]
  BY <1>5, Zenon
<1> HIDE DEF after, G
<1>7. after[0] = start /\ \A i \in 1..len : after[i] = Goes(after[i - 1], i)
  <2>0. 0 \in 0..len
    BY <1>1
  <2>1. after[0] = start
    BY <1>6, <2>0, Zenon
  <2>2. ASSUME NEW i \in 1..len PROVE after[i] = Goes(after[i - 1], i)
    <3>1. i \in 0..len /\ i # 0
      BY <1>1
    <3>2. after[i] = IF i = 0 THEN start ELSE Goes(after[i - 1], i)
      BY <3>1, <1>6, Zenon
    <3> QED
      BY <3>1, <3>2, Zenon
  <2> QED
    BY <2>1, <2>2
<1>8. \A i \in 0..len : f[i] = after[i]
  <2>1. f[0] = after[0]
    BY <1>3, <1>7
  <2>2. \A i \in 1..len : f[i - 1] = after[i - 1] => f[i] = after[i]
    BY <1>4, <1>7, Zenon
  <2>3. PICK top \in Nat : top = len
    BY <1>1
  <2>4. PICK g : g = after
    OBVIOUS
  <2>5. PICK h : h = f
    OBVIOUS
  <2>6. Follows(h, g, top)
    BY <2>1, <2>2, <2>3, <2>4, <2>5, Zenon DEF Follows
  <2>7. Alike(h, g, top)
    BY <2>6, AlikeIs
  <2> QED
    BY <2>3, <2>4, <2>5, <2>7, Zenon DEF Alike
<1>9. f[len] = after[len]
  <2>1. len \in 0..len
    BY <1>1
  <2> QED
    BY <1>8, <2>1
<1> QED
  BY <1>0, <1>3, <1>4, <1>9, Zenon

LEMMA WalkIs ==
  ASSUME NEW K \in KeptSets, NEW r \in Nat
  PROVE  WalkDown(K, r) \in Walks(K)
<1>1. Len(Older(K, r)) \in Nat
  BY OlderIs
<1>2. \E f \in [0..Len(Older(K, r)) -> Walks(K)] : WalkDown(K, r) = f[Len(Older(K, r))]
  BY WalkUnfolds
<1> QED
  BY <1>1, <1>2

(* Where no link lies inside a newer one, the walk and the assembly need    *)
(* the same, until a hole: from there the walk never comes down.            *)
Together(floor, w, i, a, v) ==
  /\ a.whole => /\ a.need = Higher(v.need, floor)
                /\ v.need > floor => \A j \in i + 1..Len(w) : w[j].delta.from <= v.need
  /\ ~a.whole => /\ v.need > floor
                 /\ \A j \in i + 1..Len(w) : w[j].delta.boundary < v.need

LEMMA TogetherStays ==
  ASSUME NEW K \in KeptSets, ~Nested(K), NEW w \in Seq(K),
         \A i, j \in 1..Len(w) : i < j => w[i].delta.boundary > w[j].delta.boundary,
         NEW b \in Nat, \A i \in 1..Len(w) : w[i].delta.boundary <= b,
         NEW i \in Nat, i + 1 \in 1..Len(w),
         NEW a \in Assemblies(b), NEW v \in Walks(K), Together(Floor(b), w, i, a, v)
  PROVE  Together(Floor(b), w, i + 1, Sliced(Floor(b), a, w[i + 1].delta),
                  Through(Floor(b), v, w[i + 1]))
<1>1. PICK c \in K : c = w[i + 1]
  OBVIOUS
<1>2. PICK floor \in Nat : floor = Floor(b)
  BY FloorIs
<1>3. /\ c.delta.boundary \in Nat /\ c.delta.from \in Nat /\ c.delta.from < c.delta.boundary
      /\ c.delta.boundary <= b
  BY <1>1, KeptIs
<1>4. a.whole \in BOOLEAN /\ a.need \in Nat /\ v.need \in Nat
  BY DEF Assemblies, Walks
<1>5. Len(w) \in Nat /\ \A j \in (i + 1) + 1..Len(w) :
        /\ w[j] \in K /\ w[j].delta.boundary < c.delta.boundary /\ w[j].delta.from <= c.delta.from
        /\ w[j].delta.boundary \in Nat /\ w[j].delta.from \in Nat
        /\ j \in i + 1..Len(w)
  <2>1. Len(w) \in Nat
    OBVIOUS
  <2>2. ASSUME NEW j \in (i + 1) + 1..Len(w)
        PROVE  /\ w[j] \in K /\ w[j].delta.boundary < c.delta.boundary
               /\ w[j].delta.from <= c.delta.from
               /\ w[j].delta.boundary \in Nat /\ w[j].delta.from \in Nat
               /\ j \in i + 1..Len(w)
    <3>1. j \in 1..Len(w) /\ i + 1 < j /\ j \in i + 1..Len(w)
      BY <2>1
    <3>2. PICK d \in K : d = w[j]
      BY <3>1
    <3>3. d.delta.boundary \in Nat /\ d.delta.from \in Nat
      BY KeptIs
    <3>4. d.delta.boundary < c.delta.boundary
      BY <1>1, <1>3, <3>1, <3>2, <3>3
    <3>5. d.delta.from <= c.delta.from
      BY <1>3, <3>3, <3>4 DEF Nested
    <3> QED
      BY <3>1, <3>2, <3>3, <3>4, <3>5
  <2> QED
    BY <2>1, <2>2
<1>6. i + 1 \in i + 1..Len(w)
  BY <1>5
<1>7. PICK a1 : a1 = Sliced(floor, a, c.delta)
  OBVIOUS
<1>8. PICK v1 : v1 = Through(floor, v, c)
  OBVIOUS
<1>9. Together(floor, w, i, a, v)
  BY <1>2
<1>10. CASE ~a.whole
  <2>1. v.need > floor /\ c.delta.boundary < v.need /\ \A j \in i + 1..Len(w) : w[j].delta.boundary < v.need
    BY <1>1, <1>6, <1>9, <1>10 DEF Together
  <2>2. a1 = a /\ v1 = v
    BY <1>7, <1>8, <1>10, <2>1 DEF Sliced, Through, HoleAbove
  <2>3. Together(floor, w, i + 1, a, v)
    BY <1>5, <1>10, <2>1 DEF Together
  <2> QED
    BY <1>1, <1>2, <1>7, <1>8, <2>2, <2>3
<1>11. CASE a.whole /\ v.need <= floor
  <2>1. a.need = floor
    BY <1>4, <1>9, <1>11 DEF Together, Higher
  <2>2. a1 = a /\ v1 = v
    BY <1>7, <1>8, <1>11, <2>1 DEF Sliced, Through
  <2>3. Together(floor, w, i + 1, a, v)
    BY <1>4, <1>9, <1>11 DEF Together
  <2> QED
    BY <1>1, <1>2, <1>7, <1>8, <2>2, <2>3
<1>12. CASE a.whole /\ v.need > floor
  <2>1. a.need = v.need /\ c.delta.from <= v.need
    BY <1>1, <1>4, <1>6, <1>9, <1>12 DEF Together, Higher
  <2>2. CASE c.delta.boundary < v.need
    <3>1. a1 = [a EXCEPT !.whole = FALSE] /\ v1 = v
      BY <1>3, <1>4, <1>7, <1>8, <1>12, <2>1, <2>2 DEF Sliced, Through, HoleAbove
    <3>2. a1.whole = FALSE
      BY <3>1 DEF Assemblies
    <3>3. \A j \in (i + 1) + 1..Len(w) : w[j].delta.boundary < v.need
      BY <1>3, <1>4, <1>5, <2>2
    <3>4. Together(floor, w, i + 1, a1, v1)
      BY <1>12, <3>1, <3>2, <3>3 DEF Together
    <3> QED
      BY <1>1, <1>2, <1>7, <1>8, <3>4
  <2>3. CASE c.delta.boundary >= v.need
    <3>1. PICK lo : lo = Higher(Base(c.delta.from, c.delta.boundary), floor)
      OBVIOUS
    <3>2. lo = Higher(c.delta.from, floor)
      <4>1. Floor(c.delta.boundary) \in Nat /\ Floor(c.delta.boundary) <= floor
        BY <1>2, <1>3, FloorIs
      <4> QED
        BY <1>3, <3>1, <4>1 DEF Base, Higher
    <3>3. a1.whole = TRUE /\ a1.need = lo
      BY <1>3, <1>4, <1>7, <1>12, <2>1, <2>3, <3>1 DEF Sliced
    <3>4. v1.need = c.delta.from
      BY <1>3, <1>4, <1>8, <1>12, <2>1, <2>3 DEF Through, HoleAbove, Lower
    <3>5. Together(floor, w, i + 1, a1, v1)
      BY <1>5, <3>2, <3>3, <3>4 DEF Together
    <3> QED
      BY <1>1, <1>2, <1>7, <1>8, <3>5
  <2> QED
    BY <1>3, <1>4, <2>2, <2>3
<1> QED
  BY <1>4, <1>10, <1>11, <1>12

LinksOf(w) == [i \in DOMAIN w |-> w[i].delta]

LEMMA LinksOfIs ==
  ASSUME NEW K \in KeptSets, NEW w \in Seq(K)
  PROVE  /\ LinksOf(w) \in Seq(Link) /\ Len(LinksOf(w)) = Len(w)
         /\ \A i \in 1..Len(w) : LinksOf(w)[i] = w[i].delta
<1>1. Len(w) \in Nat /\ DOMAIN w = 1..Len(w) /\ \A i \in 1..Len(w) : w[i].delta \in Link
  BY KeptIs
<1>2. LinksOf(w) = [i \in 1..Len(w) |-> w[i].delta]
  BY <1>1 DEF LinksOf
<1> QED
  BY <1>1, <1>2

(* What the lookup's arithmetic accepts assembles.                          *)
LEMMA ReachedAssembles ==
  ASSUME NEW K \in KeptSets, ~Nested(K), NEW b \in Boundaries(K), b \in Nat, Reaches(K, b)
  PROVE  Assembles(LinksOf(Older(K, b)))
<1>1. PICK w \in Seq(K) : w = Older(K, b)
  BY OlderIs
<1>2. /\ Len(w) \in Nat /\ Len(w) > 0 /\ w[1].delta.boundary = b
      /\ \A i \in 1..Len(w) : w[i].delta.boundary <= b
      /\ \A i, j \in 1..Len(w) : i < j => w[i].delta.boundary > w[j].delta.boundary
  BY <1>1, OlderIs
<1>3. PICK n \in Nat : n = Len(w) /\ n > 0
  BY <1>2
<1>4. PICK links \in Seq(Link) : links = LinksOf(w) /\ Len(links) = n /\ \A i \in 1..n : links[i] = w[i].delta
  BY <1>3, LinksOfIs
<1>5. links[1].boundary = b
  BY <1>2, <1>3, <1>4
<1>6. PICK f \in [0..n -> Assemblies(b)] :
        f[0] = Unread(b) /\ (\A i \in 1..n : f[i] = Sliced(Floor(b), f[i - 1], links[i]))
        /\ Assembly(links) = f[n]
  BY <1>3, <1>4, <1>5, AssemblyUnfolds
<1>7. PICK g \in [0..n -> Walks(K)] :
        g[0] = [need |-> b, links |-> {}] /\ (\A i \in 1..n : g[i] = Through(Floor(b), g[i - 1], w[i]))
        /\ WalkDown(K, b) = g[n]
  BY <1>1, <1>3, WalkUnfolds
<1>8. PICK floor \in Nat : floor = Floor(b) /\ floor <= b
  BY FloorIs
<1> DEFINE I == {i \in Nat : i <= n => Together(floor, w, i, f[i], g[i])}
<1>9. 0 \in I
  <2>1. f[0].whole = TRUE /\ f[0].need = b /\ g[0].need = b
    BY <1>6, <1>7 DEF Unread
  <2>2. \A j \in 0 + 1..Len(w) : w[j].delta.from <= b
    <3> TAKE j \in 0 + 1..Len(w)
    <3>1. j \in 1..Len(w)
      BY <1>2
    <3>2. PICK d \in K : d = w[j]
      BY <3>1
    <3>3. d.delta.boundary <= b /\ d.delta.boundary \in Nat /\ d.delta.from < d.delta.boundary
      BY <1>2, <3>1, <3>2, KeptIs
    <3> QED
      BY <3>2, <3>3, KeptIs
  <2> QED
    BY <1>8, <2>1, <2>2 DEF Together, Higher
<1>10. ASSUME NEW i \in Nat, i \in I PROVE i + 1 \in I
  <2> SUFFICES ASSUME i + 1 <= n PROVE Together(floor, w, i + 1, f[i + 1], g[i + 1])
    OBVIOUS
  <2>1. Together(floor, w, i, f[i], g[i]) /\ i + 1 \in 1..n /\ (i + 1) - 1 = i /\ i \in 0..n
    BY <1>10
  <2>2. PICK a \in Assemblies(b) : a = f[i]
    BY <1>6, <2>1
  <2>3. PICK v \in Walks(K) : v = g[i]
    BY <1>7, <2>1
  <2>4. f[i + 1] = Sliced(Floor(b), a, w[i + 1].delta)
    BY <1>4, <1>6, <2>1, <2>2
  <2>5. g[i + 1] = Through(Floor(b), v, w[i + 1])
    BY <1>7, <2>1, <2>3
  <2>6. Together(Floor(b), w, i, a, v)
    BY <1>8, <2>1, <2>2, <2>3
  <2>7. i + 1 \in 1..Len(w)
    BY <1>3, <2>1
  <2>8. Together(Floor(b), w, i + 1, Sliced(Floor(b), a, w[i + 1].delta), Through(Floor(b), v, w[i + 1]))
    BY <1>2, <2>6, <2>7, TogetherStays
  <2> QED
    BY <1>8, <2>4, <2>5, <2>8
<1>11. Together(floor, w, n, f[n], g[n])
  <2>1. Nat \subseteq I
    <3> HIDE DEF I
    <3> QED
      BY <1>9, <1>10, SetInduction
  <2> QED
    BY <2>1
<1>12. g[n].need <= floor
  BY <1>7, <1>8 DEF Reaches
<1>13. f[n].whole /\ f[n].need <= floor
  <2>1. f[n] \in Assemblies(b) /\ g[n] \in Walks(K)
    BY <1>6, <1>7
  <2>2. f[n].whole \in BOOLEAN /\ g[n].need \in Nat
    BY <2>1 DEF Assemblies, Walks
  <2> QED
    BY <1>11, <1>12, <2>2 DEF Together, Higher
<1> QED
  BY <1>1, <1>4, <1>5, <1>6, <1>8, <1>13 DEF Assembles

-----------------------------------------------------------------------------
(* A gap of S below r, at N: what is at N or above, up to r, reaches no     *)
(* lower than N, and N is above what the window at r needs.  The window is  *)
(* reached exactly when there is none: so less to walk through is enough as *)
(* long as what the walk went through is there, and what reaches lower at   *)
(* the same boundaries is as good.                                          *)
Gap(S, r, N) ==
  /\ Floor(r) < N /\ N <= r
  /\ \A c \in S : N <= c.delta.boundary /\ c.delta.boundary <= r => N <= c.delta.from

(* A walk that does not get there ends at a gap.                            *)
LEMMA ShortWalk ==
  ASSUME NEW K \in KeptSets, NEW r \in Nat, ~Reaches(K, r)
  PROVE  WalkDown(K, r).need \in Nat /\ Gap(K, r, WalkDown(K, r).need)
<1>1. PICK w \in Seq(K) : w = Older(K, r)
  BY OlderIs
<1>2. PICK n \in Nat : n = Len(w)
  OBVIOUS
<1>3. /\ \A i \in 1..n : w[i] \in K /\ w[i].delta.boundary <= r
      /\ \A i, j \in 1..n : i < j => w[i].delta.boundary > w[j].delta.boundary
  BY <1>1, <1>2, OlderIs
<1>4. PICK f \in [0..n -> Walks(K)] :
        f[0] = [need |-> r, links |-> {}] /\ (\A i \in 1..n : f[i] = Through(Floor(r), f[i - 1], w[i]))
        /\ WalkDown(K, r) = f[n]
  BY <1>1, <1>2, WalkUnfolds
<1>5. PICK floor \in Nat : floor = Floor(r)
  BY FloorIs
<1> DEFINE Past(i, need) ==
             need <= r /\ \A j \in 1..i : need <= w[j].delta.boundary => need <= w[j].delta.from
           I == {i \in Nat : i <= n /\ f[i].need > floor => Past(i, f[i].need)}
<1>6. 0 \in I
  BY <1>4
<1>7. ASSUME NEW i \in Nat, i \in I PROVE i + 1 \in I
  <2> SUFFICES ASSUME i + 1 <= n, f[i + 1].need > floor PROVE Past(i + 1, f[i + 1].need)
    OBVIOUS
  <2>1. i + 1 \in 1..n /\ (i + 1) - 1 = i /\ i \in 0..n /\ i <= n
    BY <1>7
  <2>2. PICK v \in Walks(K) : v = f[i] /\ v.need \in Nat
    BY <1>4, <2>1 DEF Walks
  <2>3. PICK c \in K : c = w[i + 1]
    BY <1>3, <2>1
  <2>4. c.delta.boundary \in Nat /\ c.delta.from \in Nat /\ c.delta.from < c.delta.boundary
        /\ c.delta.boundary <= r
    BY <1>3, <2>1, <2>3, KeptIs
  <2>5. f[i + 1] = Through(floor, v, c)
    BY <1>4, <1>5, <2>1, <2>2, <2>3
  <2>6. v.need > floor /\ Past(i, v.need)
    <3>1. v.need > floor
      BY <1>5, <2>2, <2>5 DEF Through
    <3> QED
      BY <1>7, <2>1, <2>2, <3>1
  <2>7. ASSUME NEW need \in Nat, need <= v.need, need <= c.delta.boundary => need <= c.delta.from,
               need = v.need \/ v.need <= c.delta.boundary
        PROVE  Past(i + 1, need)
    <3>1. need <= r
      BY <2>2, <2>6, <2>7
    <3>2. ASSUME NEW j \in 1..i + 1, need <= w[j].delta.boundary PROVE need <= w[j].delta.from
      <4>1. j = i + 1 \/ j \in 1..i
        OBVIOUS
      <4>2. CASE j = i + 1
        BY <2>3, <2>7, <3>2, <4>2
      <4>3. CASE j \in 1..i
        <5>1. PICK d \in K : d = w[j]
          BY <1>3, <2>1, <4>3
        <5>2. d.delta.boundary \in Nat /\ d.delta.from \in Nat
          BY KeptIs
        <5>3. v.need <= d.delta.boundary => v.need <= d.delta.from
          BY <2>6, <4>3, <5>1
        <5>4. d.delta.boundary > c.delta.boundary
          BY <1>3, <2>1, <2>3, <4>3, <5>1
        <5> QED
          BY <2>2, <2>4, <2>7, <3>2, <5>1, <5>2, <5>3, <5>4
      <4> QED
        BY <4>1, <4>2, <4>3
    <3> QED
      BY <3>1, <3>2
  <2>8. CASE HoleAbove(v.need, c)
    <3>1. f[i + 1].need = v.need
      BY <2>5, <2>8 DEF Through
    <3>2. Past(i + 1, v.need)
      BY <2>2, <2>4, <2>7, <2>8 DEF HoleAbove
    <3> QED
      BY <3>1, <3>2
  <2>9. CASE ~HoleAbove(v.need, c)
    <3>1. f[i + 1].need = Lower(v.need, c.delta.from)
      BY <1>5, <2>2, <2>5, <2>6, <2>9 DEF Through
    <3>2. PICK need \in Nat : need = f[i + 1].need
      BY <2>2, <2>4, <3>1 DEF Lower
    <3>3. need <= v.need /\ need <= c.delta.from /\ v.need <= c.delta.boundary
      BY <2>2, <2>4, <2>9, <3>1, <3>2 DEF Lower, HoleAbove
    <3>4. Past(i + 1, need)
      BY <2>7, <3>3
    <3> QED
      BY <3>2, <3>4
  <2> QED
    BY <2>8, <2>9
<1>8. n \in I
  <2>1. Nat \subseteq I
    <3> HIDE DEF I
    <3> QED
      BY <1>6, <1>7, SetInduction
  <2> QED
    BY <2>1
<1>9. PICK N \in Nat : N = WalkDown(K, r).need
  BY WalkIs DEF Walks
<1>10. floor < N /\ Past(n, N)
  <2>1. N > floor
    BY <1>5, <1>9 DEF Reaches
  <2> QED
    BY <1>4, <1>8, <1>9, <2>1
<1>11. ASSUME NEW c \in K, c.delta.boundary <= r PROVE \E i \in 1..n : w[i] = c
  <2>1. PICK S \in KeptSets : S = {d \in K : d.delta.boundary <= r}
    BY SomeKept
  <2>2. c \in S /\ w = NewestFirst(S)
    BY <1>1, <1>11, <2>1 DEF Older
  <2> QED
    BY <1>2, <2>2, NewestFirstIs
<1>12. \A c \in K : N <= c.delta.boundary /\ c.delta.boundary <= r => N <= c.delta.from
  BY <1>10, <1>11
<1> QED
  BY <1>5, <1>9, <1>10, <1>12 DEF Gap

(* A walk that gets there went through links that leave no gap.             *)
LEMMA WholeWalk ==
  ASSUME NEW K \in KeptSets, NEW r \in Nat, Reaches(K, r),
         NEW S, WalkDown(K, r).links \subseteq S, NEW N \in Nat
  PROVE  ~Gap(S, r, N)
<1> SUFFICES ASSUME Gap(S, r, N) PROVE FALSE
  OBVIOUS
<1>1. PICK w \in Seq(K) : w = Older(K, r)
  BY OlderIs
<1>2. PICK n \in Nat : n = Len(w)
  OBVIOUS
<1>3. \A i \in 1..n : w[i] \in K /\ w[i].delta.boundary <= r
  BY <1>1, <1>2, OlderIs
<1>4. PICK f \in [0..n -> Walks(K)] :
        f[0] = [need |-> r, links |-> {}] /\ (\A i \in 1..n : f[i] = Through(Floor(r), f[i - 1], w[i]))
        /\ WalkDown(K, r) = f[n]
  BY <1>1, <1>2, WalkUnfolds
<1>5. Floor(r) < N /\ N <= r /\ Floor(r) \in Nat
  BY FloorIs DEF Gap
<1> DEFINE Crossed(x) ==
             x.need < N => \E c \in x.links :
               N <= c.delta.boundary /\ c.delta.boundary <= r /\ c.delta.from < N
           I == {i \in Nat : i <= n => Crossed(f[i])}
<1>6. 0 \in I
  BY <1>4, <1>5
<1>7. ASSUME NEW i \in Nat, i \in I PROVE i + 1 \in I
  <2> SUFFICES ASSUME i + 1 <= n PROVE Crossed(f[i + 1])
    OBVIOUS
  <2>1. i + 1 \in 1..n /\ (i + 1) - 1 = i /\ i \in 0..n /\ i <= n
    BY <1>7
  <2>2. PICK v \in Walks(K) : v = f[i] /\ v.need \in Nat /\ Crossed(v)
    BY <1>4, <1>7, <2>1 DEF Walks
  <2>3. PICK c \in K : c = w[i + 1]
    BY <1>3, <2>1
  <2>4. c.delta.boundary \in Nat /\ c.delta.from \in Nat /\ c.delta.boundary <= r
    BY <1>3, <2>1, <2>3, KeptIs
  <2>5. f[i + 1] = Through(Floor(r), v, c)
    BY <1>4, <2>1, <2>2, <2>3
  <2>6. CASE v.need <= Floor(r) \/ HoleAbove(v.need, c)
    BY <2>2, <2>5, <2>6 DEF Through
  <2>7. CASE ~(v.need <= Floor(r) \/ HoleAbove(v.need, c))
    <3>1. PICK x : x = f[i + 1]
      OBVIOUS
    <3>2. x.need = Lower(v.need, c.delta.from) /\ x.links = v.links \cup {c}
      BY <2>5, <2>7, <3>1 DEF Through
    <3>3. CASE v.need < N
      BY <2>2, <3>1, <3>2, <3>3
    <3>4. CASE v.need >= N
      <4>1. N <= c.delta.boundary
        BY <2>2, <2>4, <2>7, <3>4 DEF HoleAbove
      <4>2. x.need < N => c.delta.from < N
        BY <2>2, <2>4, <3>2, <3>4 DEF Lower
      <4> QED
        BY <2>4, <3>1, <3>2, <4>1, <4>2
    <3> QED
      BY <2>2, <3>3, <3>4
  <2> QED
    BY <2>6, <2>7
<1>8. n \in I
  <2>1. Nat \subseteq I
    <3> HIDE DEF I
    <3> QED
      BY <1>6, <1>7, SetInduction
  <2> QED
    BY <2>1
<1>9. PICK v \in Walks(K) : v = WalkDown(K, r) /\ v.need \in Nat
  BY WalkIs DEF Walks
<1>10. v.need < N
  BY <1>5, <1>9 DEF Reaches
<1>11. PICK c \in v.links : N <= c.delta.boundary /\ c.delta.boundary <= r /\ c.delta.from < N
  BY <1>4, <1>8, <1>9, <1>10
<1>12. c \in S /\ c \in K
  BY <1>9, <1>11 DEF Walks
<1>13. N <= c.delta.from
  BY <1>11, <1>12 DEF Gap
<1> QED
  BY <1>11, <1>12, <1>13, KeptIs

(* What is at the same boundaries and reaches lower reaches as far.         *)
LEMMA LowerReaches ==
  ASSUME NEW U \in KeptSets, NEW K \in KeptSets, NEW r \in Nat, Reaches(U, r),
         \A u \in U : \E k \in K :
           k.delta.boundary = u.delta.boundary /\ k.delta.from <= u.delta.from
  PROVE  Reaches(K, r)
<1> SUFFICES ASSUME ~Reaches(K, r) PROVE FALSE
  OBVIOUS
<1>1. PICK N \in Nat : Gap(K, r, N)
  BY ShortWalk
<1>2. Gap(U, r, N)
  <2> SUFFICES ASSUME NEW u \in U, N <= u.delta.boundary, u.delta.boundary <= r
               PROVE  N <= u.delta.from
    BY <1>1 DEF Gap
  <2>1. PICK k \in K : k.delta.boundary = u.delta.boundary /\ k.delta.from <= u.delta.from
    OBVIOUS
  <2>2. N <= k.delta.from
    BY <1>1, <2>1 DEF Gap
  <2> QED
    BY <2>1, <2>2, KeptIs
<1>3. WalkDown(U, r).links \subseteq U
  BY WalkIs DEF Walks
<1> QED
  BY <1>2, <1>3, WholeWalk

(* What a root reaches through stays with it.                               *)
LEMMA WalkReaches ==
  ASSUME NEW K \in KeptSets, NEW S \in KeptSets, NEW r \in Nat, Reaches(K, r),
         WalkDown(K, r).links \subseteq S
  PROVE  Reaches(S, r)
<1>1. ~Reaches(S, r) => \E N \in Nat : Gap(S, r, N)
  BY ShortWalk
<1> QED
  BY <1>1, WholeWalk

-----------------------------------------------------------------------------
(* What a manifest names.                                                   *)
LEMMA CapIs == ASSUME NEW K \in KeptSets PROVE CapCkpts(K) \in SUBSET K /\ CapCkpts(K) \in KeptSets
<1>1. Roots(K) \in SUBSET K
  BY DEF Roots, Newest, Turns
<1>2. \A c \in K : WalkDown(K, c.delta.boundary).links \in SUBSET K
  BY KeptIs, WalkIs DEF Walks
<1>3. CapCkpts(K) \in SUBSET K
  BY <1>1, <1>2 DEF CapCkpts
<1> QED
  BY <1>3, SomeKept

LEMMA CkptChainIs ==
  ASSUME NEW m \in Memories, NEW key \in DOMAIN m.at
  PROVE  LET y == CkptChain(m, key)
         IN  /\ y \in Seq(DOMAIN m.at) /\ Len(y) \in Nat
             /\ \A i \in 1..Len(y) : y[i] = Prefix(key, Len(y[i])) /\ Len(y[i]) \in 1..Len(key)
<1>1. PICK x : x = ChainFrom(m, key)
  OBVIOUS
<1>2. x \in Seq(DOMAIN m.at) /\ Len(x) \in Nat /\ DOMAIN x = 1..Len(x)
  BY <1>1, ChainIs DEF Chains
<1>3. PICK needed \in SUBSET (1..Len(x)) : CkptChain(m, key) = SubSeq(x, 1, Cardinality(needed))
  BY <1>1, <1>2 DEF CkptChain
<1>4. IsFiniteSet(1..Len(x)) /\ Cardinality(1..Len(x)) = Len(x)
  <2>1. PICK n \in Nat : n = Len(x)
    BY <1>2
  <2>2. IsFiniteSet(1..n) /\ Cardinality(1..n) = n
    BY FS_Interval
  <2> QED
    BY <2>1, <2>2
<1>5. Cardinality(needed) \in Nat /\ Cardinality(needed) <= Len(x)
  BY <1>4, FS_Subset, FS_CardinalityType
<1>6. PICK c \in Nat : c = Cardinality(needed) /\ c <= Len(x)
  BY <1>5
<1>7. PICK T : T = DOMAIN m.at
  OBVIOUS
<1>8. x \in Seq(T) /\ \A i \in 1..c : x[i] \in T
  BY <1>2, <1>6, <1>7
<1>9. PICK y : y = SubSeq(x, 1, c)
  OBVIOUS
<1>10. y \in Seq(T) /\ Len(y) = c /\ \A i \in 1..c : y[i] = x[i]
  BY <1>6, <1>8, <1>9
<1>11. \A i \in 1..Len(x) : x[i] = Prefix(key, Len(x[i])) /\ Len(x[i]) \in 1..Len(key)
  BY <1>1, ChainIs, ChainPrefixes
<1>12. \A i \in 1..Len(y) : y[i] = Prefix(key, Len(y[i])) /\ Len(y[i]) \in 1..Len(key)
  <2> TAKE i \in 1..Len(y)
  <2>1. i \in 1..Len(x) /\ y[i] = x[i]
    BY <1>2, <1>6, <1>10
  <2> QED
    BY <1>11, <2>1
<1> QED
  BY <1>3, <1>6, <1>7, <1>9, <1>10, <1>12

Names == [kept : KeptSets, need : Nat]

LEMMA OneMoreIs ==
  ASSUME NEW tip, NEW cuts, NEW a \in Names, NEW e \in Entry
  PROVE  OneMore(tip, cuts, a, e) \in Names
<1>1. a.kept \in KeptSets /\ a.need \in Nat /\ a = [kept |-> a.kept, need |-> a.need]
  BY DEF Names
<1>2. e.delta \in Link /\ e.delta.boundary \in Nat /\ e.delta.from \in Nat /\ e.turn \in BOOLEAN
  BY DEF Entry, Link
<1>3. PICK there : there = {c \in a.kept : c.delta.boundary = e.delta.boundary}
  OBVIOUS
<1>4. PICK wins : wins = {c \in there : c.delta.from <= e.delta.from}
  OBVIOUS
<1>5. CASE (e.delta.boundary < tip /\ a.need <= Floor(tip)) \/ e.delta.boundary \notin cuts
  BY <1>5 DEF OneMore
<1>6. CASE ~((e.delta.boundary < tip /\ a.need <= Floor(tip)) \/ e.delta.boundary \notin cuts) /\ wins # {}
  <2>1. PICK c : c = CHOOSE d \in wins : TRUE
    OBVIOUS
  <2>2. c \in a.kept
    BY <1>3, <1>4, <1>6, <2>1
  <2>3. c.delta.from \in Nat
    BY <1>1, <2>2, KeptIs
  <2>4. OneMore(tip, cuts, a, e) = [a EXCEPT !.need = Lower(a.need, c.delta.from)]
    BY <1>3, <1>4, <1>6, <2>1 DEF OneMore
  <2>5. Lower(a.need, c.delta.from) \in Nat
    BY <1>1, <2>3 DEF Lower
  <2> QED
    BY <1>1, <2>4, <2>5 DEF Names
<1>7. CASE ~((e.delta.boundary < tip /\ a.need <= Floor(tip)) \/ e.delta.boundary \notin cuts) /\ wins = {}
  <2>1. PICK x : x = [delta |-> e.delta, turn |-> e.turn]
    OBVIOUS
  <2>2. PICK K : K = (a.kept \ there) \cup {x}
    OBVIOUS
  <2>3. OneMore(tip, cuts, a, e) = [kept |-> K, need |-> Lower(a.need, e.delta.from)]
    BY <1>3, <1>4, <1>7, <2>1, <2>2 DEF OneMore
  <2>4. Lower(a.need, e.delta.from) \in Nat
    BY <1>1, <1>2 DEF Lower
  <2>5. a.kept \ there \in KeptSets
    BY <1>1, SomeKept
  <2>6. IsFiniteSet(K)
    BY <2>2, <2>5, FS_AddElement DEF KeptSets
  <2>7. x \in Kept /\ x.delta.boundary = e.delta.boundary
    BY <1>2, <2>1 DEF Kept
  <2>8. \A c \in a.kept \ there : c.delta.boundary # x.delta.boundary
    BY <1>3, <2>7
  <2>9. K \in SUBSET Kept /\ Distinct(K)
    BY <2>2, <2>5, <2>7, <2>8 DEF KeptSets, Distinct
  <2>10. K \in KeptSets
    BY <2>6, <2>9 DEF KeptSets
  <2> QED
    BY <2>3, <2>4, <2>10 DEF Names
<1> QED
  BY <1>5, <1>6, <1>7

(* What a commit would name before the cuts and the cap.                    *)
Gathering(m, key, old, cuts) ==
  LET chain == CkptChain(m, key)
      after[i \in 0..Len(chain)] ==
        IF i = 0 THEN [kept |-> old, need |-> Len(key)]
        ELSE OneMore(Len(key), cuts, after[i - 1], m.at[chain[i]])
  IN  after[Len(chain)]

LEMMA GatheringUnfolds ==
  ASSUME NEW m \in Memories, NEW key \in DOMAIN m.at, NEW old \in KeptSets, NEW cuts
  PROVE  \E f \in [0..Len(CkptChain(m, key)) -> Names] :
           /\ f[0] = [kept |-> old, need |-> Len(key)]
           /\ \A i \in 1..Len(CkptChain(m, key)) :
                f[i] = OneMore(Len(key), cuts, f[i - 1], m.at[CkptChain(m, key)[i]])
           /\ Gathering(m, key, old, cuts) = f[Len(CkptChain(m, key))]
<1> DEFINE len == Len(CkptChain(m, key))
           Vals == Names
           start == [kept |-> old, need |-> Len(key)]
           Goes(x, i) == OneMore(Len(key), cuts, x, m.at[CkptChain(m, key)[i]])
           after == CHOOSE f : f = [i \in 0..len |-> IF i = 0 THEN start ELSE Goes(f[i - 1], i)]
           G == [i \in 1..len |-> [x \in Vals |-> Goes(x, i)]]
<1>0. Gathering(m, key, old, cuts) = after[len]
  BY DEF Gathering
<1>1. len \in Nat /\ start \in Vals
  <2>1. key \in Streams
    BY MemoryIs
  <2>2. Len(key) \in Nat
    BY <2>1, StreamIs
  <2> QED
    BY <2>2, CkptChainIs DEF Names
<1>2. \A x \in Vals, i \in 1..len : Goes(x, i) \in Vals
  <2>1. \A i \in 1..Len(CkptChain(m, key)) : m.at[CkptChain(m, key)[i]] \in Entry
    BY CkptChainIs, MemoryIs
  <2> QED
    BY <2>1, OneMoreIs
<1>3. PICK f \in [0..len -> Vals] :
        f[0] = start /\ \A i \in 1..len : f[i] = G[i][f[i - 1]]
  <2>1. PICK H : H = G
    OBVIOUS
  <2>2. H \in [1..len -> [Vals -> Vals]]
    BY <1>2, <2>1
  <2> HIDE DEF G, after
  <2>3. PICK R : R = Vals
    OBVIOUS
  <2>4. PICK a \in R : a = start
    BY <1>1, <2>3
  <2>5. PICK top \in Nat : top = len
    BY <1>1
  <2>6. StepsIn(H, R, top)
    BY <2>2, <2>3, <2>5, Zenon DEF StepsIn
  <2>7. PICK f : Course(f, R, a, top, H)
    BY <2>6, CourseIs
  <2> QED
    BY <2>1, <2>3, <2>4, <2>5, <2>7, Zenon DEF Course
<1>4. \A i \in 1..len : i - 1 \in 0..len /\ f[i] = Goes(f[i - 1], i)
  <2>1. \A i \in 1..len : i - 1 \in 0..len
    BY <1>1
  <2> QED
    BY <1>3, <2>1
<1>5. f = [i \in 0..len |-> IF i = 0 THEN start ELSE Goes(f[i - 1], i)]
  <2>1. \A i \in 0..len : f[i] = IF i = 0 THEN start ELSE Goes(f[i - 1], i)
    <3> SUFFICES ASSUME NEW i \in 0..len, i # 0 PROVE f[i] = Goes(f[i - 1], i)
      BY <1>3
    <3>1. i \in 1..len
      BY <1>1
    <3> QED
      BY <3>1, <1>4, Zenon
  <2> QED
    BY <1>3, <2>1, Zenon
<1>6. after = [i \in 0..len |-> IF i = 0 THEN start ELSE Goes(after[i - 1], i)]
  BY <1>5, Zenon
<1> HIDE DEF after, G
<1>7. after[0] = start /\ \A i \in 1..len : after[i] = Goes(after[i - 1], i)
  <2>0. 0 \in 0..len
    BY <1>1
  <2>1. after[0] = start
    BY <1>6, <2>0, Zenon
  <2>2. ASSUME NEW i \in 1..len PROVE after[i] = Goes(after[i - 1], i)
    <3>1. i \in 0..len /\ i # 0
      BY <1>1
    <3>2. after[i] = IF i = 0 THEN start ELSE Goes(after[i - 1], i)
      BY <3>1, <1>6, Zenon
    <3> QED
      BY <3>1, <3>2, Zenon
  <2> QED
    BY <2>1, <2>2
<1>8. \A i \in 0..len : f[i] = after[i]
  <2>1. f[0] = after[0]
    BY <1>3, <1>7
  <2>2. \A i \in 1..len : f[i - 1] = after[i - 1] => f[i] = after[i]
    BY <1>4, <1>7, Zenon
  <2>3. PICK top \in Nat : top = len
    BY <1>1
  <2>4. PICK g : g = after
    OBVIOUS
  <2>5. PICK h : h = f
    OBVIOUS
  <2>6. Follows(h, g, top)
    BY <2>1, <2>2, <2>3, <2>4, <2>5, Zenon DEF Follows
  <2>7. Alike(h, g, top)
    BY <2>6, AlikeIs
  <2> QED
    BY <2>3, <2>4, <2>5, <2>7, Zenon DEF Alike
<1>9. f[len] = after[len]
  <2>1. len \in 0..len
    BY <1>1
  <2> QED
    BY <1>8, <2>1
<1> QED
  BY <1>0, <1>3, <1>4, <1>9, Zenon

LEMMA GatheringIs ==
  ASSUME NEW m \in Memories, NEW key \in DOMAIN m.at, NEW old \in KeptSets, NEW cuts
  PROVE  Gathering(m, key, old, cuts) \in Names
<1>1. Len(CkptChain(m, key)) \in Nat
  BY CkptChainIs
<1>2. PICK f \in [0..Len(CkptChain(m, key)) -> Names] :
        /\ f[0] = [kept |-> old, need |-> Len(key)]
        /\ \A i \in 1..Len(CkptChain(m, key)) :
             f[i] = OneMore(Len(key), cuts, f[i - 1], m.at[CkptChain(m, key)[i]])
        /\ Gathering(m, key, old, cuts) = f[Len(CkptChain(m, key))]
  BY GatheringUnfolds
<1> QED
  BY <1>1, <1>2

(* What was named stays, unless memory has a checkpoint there that reaches  *)
(* lower: that one is named instead.                                        *)
Instead(m, key, k) ==
  LET j == Prefix(key, k.delta.boundary)
  IN  /\ k.delta.boundary \in 1..Len(key)
      /\ j \in DOMAIN m.at /\ k = [delta |-> m.at[j].delta, turn |-> m.at[j].turn]

InPlaceOf(m, key, k, q) ==
  /\ k.delta.boundary = q.delta.boundary
  /\ k = q \/ (k.delta.from < q.delta.from /\ Instead(m, key, k))

Replaces(m, key, kept, old) == \A q \in old : \E k \in kept : InPlaceOf(m, key, k, q)

LEMMA OneMoreReplaces ==
  ASSUME NEW m \in Memories, NEW key \in DOMAIN m.at, NEW old \in KeptSets, NEW cuts,
         NEW a \in Names, Replaces(m, key, a.kept, old),
         NEW j \in DOMAIN m.at, j = Prefix(key, Len(j)), Len(j) \in 1..Len(key)
  PROVE  Replaces(m, key, OneMore(Len(key), cuts, a, m.at[j]).kept, old)
<1>1. PICK e \in Entry : e = m.at[j]
  BY MemoryIs
<1>2. a.kept \in KeptSets
  BY DEF Names
<1>3. e.delta \in Link /\ e.delta.boundary = Len(j) /\ e.delta.boundary \in Nat /\ e.delta.from \in Nat
  <2>1. Entered(m)
    BY MemoryIs
  <2> QED
    BY <1>1, <2>1 DEF Entered, Entry, Link
<1>4. PICK there : there = {c \in a.kept : c.delta.boundary = e.delta.boundary}
  OBVIOUS
<1>5. PICK wins : wins = {c \in there : c.delta.from <= e.delta.from}
  OBVIOUS
<1>6. PICK b : b = OneMore(Len(key), cuts, a, e)
  OBVIOUS
<1>7. CASE b.kept = a.kept
  BY <1>1, <1>6, <1>7
<1>8. CASE b.kept # a.kept
  <2>1. PICK x : x = [delta |-> e.delta, turn |-> e.turn]
    OBVIOUS
  <2>2. wins = {} /\ b.kept = (a.kept \ there) \cup {x}
    <3>1. ~((e.delta.boundary < Len(key) /\ a.need <= Floor(Len(key))) \/ e.delta.boundary \notin cuts)
      BY <1>6, <1>8 DEF OneMore
    <3>2. CASE wins = {}
      BY <1>4, <1>5, <1>6, <2>1, <3>1, <3>2 DEF OneMore
    <3>3. CASE wins # {}
      <4>1. b = [a EXCEPT !.need = Lower(a.need, (CHOOSE c \in wins : TRUE).delta.from)]
        BY <1>4, <1>5, <1>6, <3>1, <3>3 DEF OneMore
      <4>2. b.kept = a.kept
        BY <4>1 DEF Names
      <4> QED
        BY <1>8, <4>2
    <3> QED
      BY <3>2, <3>3
  <2>3. Instead(m, key, x)
    BY <1>1, <1>3, <2>1 DEF Instead
  <2>4. ASSUME NEW q \in old PROVE \E k \in b.kept : InPlaceOf(m, key, k, q)
    <3>1. PICK k \in a.kept : InPlaceOf(m, key, k, q)
      BY DEF Replaces
    <3>2. k.delta.from <= q.delta.from /\ k.delta.from \in Nat /\ q.delta.from \in Nat
      BY <1>2, <3>1, KeptIs DEF InPlaceOf
    <3>3. CASE k \notin there
      BY <2>2, <3>1, <3>3
    <3>4. CASE k \in there
      <4>1. k.delta.boundary = e.delta.boundary /\ e.delta.from < k.delta.from
        BY <1>3, <1>4, <1>5, <2>2, <3>2, <3>4
      <4>2. InPlaceOf(m, key, x, q)
        BY <1>3, <2>1, <2>3, <3>1, <3>2, <4>1 DEF InPlaceOf
      <4> QED
        BY <2>2, <4>2
    <3> QED
      BY <3>3, <3>4
  <2> QED
    BY <1>1, <1>6, <2>4 DEF Replaces
<1> QED
  BY <1>7, <1>8

LEMMA GatheringReplaces ==
  ASSUME NEW m \in Memories, NEW key \in DOMAIN m.at, NEW old \in KeptSets, NEW cuts
  PROVE  Replaces(m, key, Gathering(m, key, old, cuts).kept, old)
<1>0. PICK f \in [0..Len(CkptChain(m, key)) -> Names] :
        /\ f[0] = [kept |-> old, need |-> Len(key)]
        /\ \A i \in 1..Len(CkptChain(m, key)) :
             f[i] = OneMore(Len(key), cuts, f[i - 1], m.at[CkptChain(m, key)[i]])
        /\ Gathering(m, key, old, cuts) = f[Len(CkptChain(m, key))]
  BY GatheringUnfolds
<1>1. PICK y : y = CkptChain(m, key)
  OBVIOUS
<1>2. /\ y \in Seq(DOMAIN m.at) /\ Len(y) \in Nat
      /\ \A i \in 1..Len(y) : y[i] = Prefix(key, Len(y[i])) /\ Len(y[i]) \in 1..Len(key)
  BY <1>1, CkptChainIs
<1>3. PICK n \in Nat : n = Len(y)
  BY <1>2
<1>5. /\ f \in [0..n -> Names] /\ f[0] = [kept |-> old, need |-> Len(key)]
      /\ Gathering(m, key, old, cuts) = f[n]
  BY <1>0, <1>1, <1>3
<1>6. \A i \in 1..n : f[i] = OneMore(Len(key), cuts, f[i - 1], m.at[y[i]])
  BY <1>0, <1>1, <1>3
<1> DEFINE I == {i \in Nat : i <= n => Replaces(m, key, f[i].kept, old)}
<1>7. 0 \in I
  <2>1. f[0].kept = old
    BY <1>5
  <2>2. \A q \in old : InPlaceOf(m, key, q, q)
    BY DEF InPlaceOf
  <2>3. Replaces(m, key, f[0].kept, old)
    BY <2>1, <2>2 DEF Replaces
  <2> QED
    BY <2>3
<1>8. ASSUME NEW i \in Nat, i \in I PROVE i + 1 \in I
  <2> SUFFICES ASSUME i + 1 <= n PROVE Replaces(m, key, f[i + 1].kept, old)
    OBVIOUS
  <2>1. i + 1 \in 1..n /\ (i + 1) - 1 = i /\ i \in 0..n /\ i <= n
    BY <1>8
  <2>2. PICK a \in Names : a = f[i] /\ Replaces(m, key, a.kept, old)
    BY <1>5, <1>8, <2>1
  <2>3. PICK j \in DOMAIN m.at : j = y[i + 1] /\ j = Prefix(key, Len(j)) /\ Len(j) \in 1..Len(key)
    BY <1>2, <1>3, <2>1
  <2>4. f[i + 1] = OneMore(Len(key), cuts, a, m.at[j])
    BY <1>6, <2>1, <2>2, <2>3
  <2> QED
    BY <2>2, <2>3, <2>4, OneMoreReplaces
<1>9. n \in I
  <2>1. Nat \subseteq I
    <3> HIDE DEF I
    <3> QED
      BY <1>7, <1>8, SetInduction
  <2> QED
    BY <2>1
<1> QED
  BY <1>5, <1>9

LEMMA NamedIs ==
  ASSUME NEW m \in Memories, NEW key \in DOMAIN m.at, NEW old \in KeptSets, NEW cuts, NEW length
  PROVE  Named(m, key, old, cuts, length) \in KeptSets
<1>1. PICK a \in Names : a = Gathering(m, key, old, cuts)
  BY GatheringIs
<1>2. PICK K : K = {c \in a.kept : c.delta.boundary <= length /\ c.delta.boundary \in cuts}
  OBVIOUS
<1>3. Named(m, key, old, cuts, length) = CapCkpts(K)
  BY <1>1, <1>2 DEF Named, Gathering
<1>4. a.kept \in KeptSets
  BY DEF Names
<1>5. K \in KeptSets
  BY <1>2, <1>4, SomeKept
<1> QED
  BY <1>3, <1>5, CapIs

-----------------------------------------------------------------------------
(* What the cap of cap_ckpts gives up, of what was named before.            *)

(* The record of the old ones at each boundary is still there, or one that  *)
(* reaches lower and is a turn's if that was.                               *)
Covers(K, old) ==
  \A q \in old : \E k \in K :
    /\ k.delta.boundary = q.delta.boundary /\ k.delta.from <= q.delta.from
    /\ k = q \/ k.turn

WithOld(new, old) == new \cup {q \in old : q.delta.boundary \notin Boundaries(new)}

LEMMA WithOldIs ==
  ASSUME NEW new \in KeptSets, NEW old \in KeptSets
  PROVE  WithOld(new, old) \in KeptSets
<1>1. PICK S \in KeptSets : S = {q \in old : q.delta.boundary \notin Boundaries(new)}
  BY SomeKept
<1>2. \A c \in new, d \in S : c.delta.boundary # d.delta.boundary
  BY <1>1 DEF Boundaries
<1>3. Distinct(new \cup S)
  BY <1>2 DEF KeptSets, Distinct
<1>4. IsFiniteSet(new \cup S) /\ new \cup S \in SUBSET Kept
  BY FS_Union DEF KeptSets
<1> QED
  BY <1>1, <1>3, <1>4 DEF WithOld, KeptSets

(* The deepest is named.                                                    *)
LEMMA TipIs ==
  ASSUME NEW K \in KeptSets, NEW k \in K
  PROVE  \E d \in Newest(1, K) : \A c \in K : c.delta.boundary <= d.delta.boundary
<1>1. PICK n \in Nat : n = Cardinality(K)
  BY RanksAre
<1>2. \A c \in K : Rank(K, c) \in 0..n - 1
  BY <1>1, RankIs
<1>3. 1 \in 1..Cardinality(K)
  BY <1>1, <1>2
<1>4. PICK d \in K : Rank(K, d) = 0
  BY <1>3, RanksAre
<1>5. \A c \in K : ~Deeper(c, d)
  BY <1>2, <1>4, RankIs
<1>6. d \in Newest(1, K)
  BY <1>4 DEF Newest, Rank, Below
<1> QED
  BY <1>5, <1>6, KeptIs DEF Deeper

LEMMA RootsStay ==
  ASSUME NEW K \in KeptSets, NEW old \in KeptSets, Covers(K, old),
         NEW q \in Roots(WithOld(CapCkpts(K), old))
  PROVE  q \in Roots(K)
<1>1. PICK new \in KeptSets : new = CapCkpts(K) /\ new \in SUBSET K /\ Roots(K) \subseteq new
  BY CapIs DEF CapCkpts
<1>2. PICK U \in KeptSets : U = WithOld(new, old)
  BY <1>1, WithOldIs
<1>3. q \in Roots(U) /\ q \in U
  BY <1>1, <1>2 DEF Roots, Newest, Turns
<1>4. PICK k \in K : k.delta.boundary = q.delta.boundary /\ (k = q \/ k.turn)
  <2>1. q \in new \/ q \in old
    BY <1>2, <1>3 DEF WithOld
  <2> QED
    BY <1>1, <2>1 DEF Covers
<1>5. ASSUME NEW d \in new, d.delta.boundary = q.delta.boundary PROVE q = d
  <2>1. q \in new
    BY <1>2, <1>3, <1>5 DEF WithOld, Boundaries
  <2> QED
    BY <1>5, <2>1 DEF KeptSets, Distinct
<1>6. CASE q \in Newest(1, U)
  <2>1. PICK d \in Newest(1, K) : \A c \in K : c.delta.boundary <= d.delta.boundary
    BY TipIs
  <2>2. d \in Roots(K) /\ d \in new /\ d \in K /\ d \in U
    BY <1>1, <1>2, <2>1 DEF Roots, Newest, WithOld
  <2>3. ~Deeper(d, q)
    <3>1. Rank(U, q) < 1
      BY <1>6 DEF Newest, Rank, Below
    <3>2. Deeper(d, q) => Rank(U, d) < Rank(U, q)
      BY <1>3, <2>2, RankIs
    <3>3. Rank(U, q) \in Nat /\ Rank(U, d) \in Nat
      BY <1>3, <2>2, RankIs
    <3> QED
      BY <3>1, <3>2, <3>3
  <2>4. d.delta.boundary = q.delta.boundary
    <3>1. k.delta.boundary <= d.delta.boundary
      BY <2>1
    <3> QED
      BY <1>3, <1>4, <2>2, <2>3, <3>1, KeptIs DEF Deeper
  <2> QED
    BY <1>5, <2>2, <2>4
<1>7. CASE q \in Newest(DiskCap, Turns(U))
  <2>1. q \in U /\ q.turn
    BY <1>7 DEF Newest, Turns
  <2>2. PICK T \in KeptSets : T = Turns(K)
    BY SomeKept DEF Turns
  <2>3. k \in T
    BY <1>4, <2>1, <2>2 DEF Turns
  <2>4. DiskCap \in Nat
    BY CapAssumption
  <2>5. k \in Newest(DiskCap, T)
    <3> SUFFICES ASSUME k \notin Newest(DiskCap, T) PROVE FALSE
      OBVIOUS
    <3>1. PICK N : N = Newest(DiskCap, T)
      OBVIOUS
    <3>2. /\ \A d \in N : Deeper(d, k)
          /\ IsFiniteSet(N) /\ Cardinality(N) >= DiskCap
      BY <2>3, <2>4, <3>1, NewestAre
    <3>3. PICK V \in KeptSets : V = Turns(U)
      BY SomeKept DEF Turns
    <3>4. N \subseteq Below(V, q)
      <4> SUFFICES ASSUME NEW d \in N PROVE d \in V /\ Deeper(d, q)
        BY DEF Below
      <4>1. d \in T /\ d \in Roots(K)
        BY <2>2, <3>1 DEF Roots, Newest
      <4>2. d \in U /\ d.turn
        BY <1>1, <1>2, <2>2, <4>1 DEF WithOld, Turns
      <4>3. Deeper(d, q)
        BY <1>4, <3>2 DEF Deeper
      <4> QED
        BY <3>3, <4>2, <4>3 DEF Turns
    <3>5. q \in V /\ IsFiniteSet(Below(V, q))
      BY <2>1, <3>3, RankIs DEF Turns
    <3>6. Cardinality(N) <= Rank(V, q) /\ Rank(V, q) \in Nat /\ Cardinality(N) \in Nat
      BY <3>2, <3>4, <3>5, FS_Subset, FS_CardinalityType DEF Rank
    <3>7. Rank(V, q) < DiskCap
      BY <1>7, <3>3 DEF Newest, Rank, Below
    <3> QED
      BY <2>4, <3>2, <3>6, <3>7
  <2>6. k \in Roots(K) /\ k \in new
    BY <1>1, <2>2, <2>5 DEF Roots
  <2> QED
    BY <1>4, <1>5, <2>6
<1> QED
  BY <1>3, <1>6, <1>7 DEF Roots

LEMMA CapKeeps ==
  ASSUME NEW K \in KeptSets, NEW old \in KeptSets, Covers(K, old),
         NEW q \in Roots(WithOld(CapCkpts(K), old)),
         Reaches(WithOld(CapCkpts(K), old), q.delta.boundary)
  PROVE  q \in CapCkpts(K) /\ Reaches(CapCkpts(K), q.delta.boundary)
<1>1. PICK new \in KeptSets : new = CapCkpts(K) /\ new \in SUBSET K
  BY CapIs
<1>2. PICK U \in KeptSets : U = WithOld(new, old)
  BY <1>1, WithOldIs
<1>3. q \in Roots(K) /\ q \in new /\ q \in K /\ WalkDown(K, q.delta.boundary).links \subseteq new
  BY <1>1, RootsStay DEF CapCkpts
<1>4. PICK r \in Nat : r = q.delta.boundary
  BY <1>3, KeptIs
<1>5. \A u \in U : \E k \in K :
        k.delta.boundary = u.delta.boundary /\ k.delta.from <= u.delta.from
  <2> TAKE u \in U
  <2>1. u \in new \/ u \in old
    BY <1>2 DEF WithOld
  <2>2. CASE u \in new
    BY <1>1, <2>2, KeptIs
  <2>3. CASE u \in old
    BY <2>3 DEF Covers
  <2> QED
    BY <2>1, <2>2, <2>3
<1>6. Reaches(U, r)
  BY <1>1, <1>2, <1>4
<1>7. Reaches(K, r)
  BY <1>5, <1>6, LowerReaches
<1>8. Reaches(new, r)
  BY <1>3, <1>4, <1>7, WalkReaches
<1> QED
  BY <1>1, <1>3, <1>4, <1>8

-----------------------------------------------------------------------------
(* Links.                                                                   *)
LEMMA LinkMade ==
  ASSUME NEW b \in Nat, NEW from \in Nat, from < b, NEW rows \in RowsOf(from, b)
  PROVE  [boundary |-> b, from |-> from, rows |-> rows] \in Link
<1>1. Base(from, b) \in Nat
  BY FloorIs DEF Base, Higher
<1>2. Base(from, b) + 1..b \in SUBSET Nat
  BY <1>1
<1>3. rows \in UNION {[S -> RingContents] : S \in SUBSET Nat}
  BY <1>2 DEF RowsOf
<1> QED
  BY <1>3 DEF Link

LEMMA RingIs == RingSteps \in Nat /\ RingSteps > 0 /\ \A p \in Nat : p % RingSteps \in 0..RingSteps - 1
<1>1. RingSteps \in Nat /\ RingSteps > 0
  BY WindowAssumption, BoundAssumption DEF RingSteps
<1>2. PICK n \in Nat : n = RingSteps /\ n > 0
  BY <1>1
<1>3. \A p \in Nat : p % n \in 0..n - 1
  BY <1>2
<1> QED
  BY <1>1, <1>2, <1>3

LEMMA CaptureIs ==
  ASSUME NEW r \in Rings, NEW b \in Nat, NEW from \in Nat, from < b
  PROVE  Capture(r, from, b) \in Link /\ Capture(r, from, b).boundary = b
<1>1. Base(from, b) \in Nat
  BY FloorIs DEF Base, Higher
<1>2. \A p \in Base(from, b) + 1..b : p \in Nat
  BY <1>1
<1>3. \A p \in Base(from, b) + 1..b : r[p % RingSteps] \in RingContents
  BY <1>2, RingIs DEF Rings
<1>4. [p \in Base(from, b) + 1..b |-> r[p % RingSteps]] \in RowsOf(from, b)
  BY <1>3 DEF RowsOf
<1> QED
  BY <1>4, LinkMade DEF Capture

LEMMA WrittenIs ==
  ASSUME NEW r \in Rings, NEW s \in Streams, NEW lo \in Nat, NEW hi \in 0..Len(s)
  PROVE  Written(r, s, lo, hi) \in Rings /\ WrittenPast(r, s, lo, hi) \in Rings
<1>1. DOMAIN r = 0..RingSteps - 1
  BY DEF Rings
<1>2. hi \in Nat /\ Len(s) \in Nat
  BY StreamIs
<1>3. ASSUME NEW i \in 0..RingSteps - 1,
             NEW ps, ps = {p \in lo + 1..hi : p % RingSteps = i}, ps # {}
      PROVE  Prefix(s, CHOOSE p \in ps : \A q \in ps : q <= p) \in RingContents
  <2>1. ps \in SUBSET (1..hi)
    BY <1>2, <1>3
  <2>2. \E p \in ps : \A q \in ps : q <= p
    BY <1>2, <1>3, <2>1, LastOf
  <2>3. PICK p : p = CHOOSE o \in ps : \A q \in ps : q <= o
    OBVIOUS
  <2>4. p \in ps
    BY <2>2, <2>3
  <2>5. p \in 1..Len(s)
    BY <1>2, <2>1, <2>4
  <2> QED
    BY <2>3, <2>5, PrefixIs DEF RingContents
<1>4. Written(r, s, lo, hi) \in Rings
  <2>1. \A i \in 0..RingSteps - 1 : r[i] \in RingContents
    BY DEF Rings
  <2>2. ASSUME NEW i \in 0..RingSteps - 1 PROVE Written(r, s, lo, hi)[i] \in RingContents
    <3> DEFINE ps == {p \in lo + 1..hi : p % RingSteps = i}
    <3>1. ps = {p \in lo + 1..hi : p % RingSteps = i}
      OBVIOUS
    <3>2. Written(r, s, lo, hi)[i] = IF ps = {} THEN r[i] ELSE Prefix(s, CHOOSE p \in ps : \A q \in ps : q <= p)
      BY <1>1, Zenon DEF Written
    <3> HIDE DEF ps
    <3> QED
      BY <1>3, <2>1, <3>1, <3>2
  <2>3. Written(r, s, lo, hi) = [i \in 0..RingSteps - 1 |-> Written(r, s, lo, hi)[i]]
    BY <1>1 DEF Written
  <2> QED
    BY <2>2, <2>3 DEF Rings
<1>5. WrittenPast(r, s, lo, hi) \in Rings
  <2>1. (hi + 1) % RingSteps \in 0..RingSteps - 1
    BY <1>2, RingIs
  <2>2. PICK w \in Rings : w = Written(r, s, lo, hi)
    BY <1>4
  <2> QED
    BY <2>1, <2>2 DEF WrittenPast, Rings, RingContents
<1> QED
  BY <1>4, <1>5

LEMMA RestoredIs ==
  ASSUME NEW r \in Rings, NEW b, NEW rows \in RowsOf(0, b)
  PROVE  Restored(r, rows) \in Rings
<1>1. DOMAIN r = 0..RingSteps - 1 /\ \A i \in 0..RingSteps - 1 : r[i] \in RingContents
  BY DEF Rings
<1>2. \A p \in DOMAIN rows : rows[p] \in RingContents
  BY DEF RowsOf
<1>3. ASSUME NEW i \in 0..RingSteps - 1 PROVE Restored(r, rows)[i] \in RingContents
  <2>1. PICK ps : ps = {p \in DOMAIN rows : p % RingSteps = i}
    OBVIOUS
  <2>2. Restored(r, rows)[i] = IF ps = {} THEN r[i] ELSE rows[CHOOSE p \in ps : TRUE]
    BY <1>1, <2>1 DEF Restored
  <2>3. ps # {} => (CHOOSE p \in ps : TRUE) \in DOMAIN rows
    BY <2>1
  <2> QED
    BY <1>1, <1>2, <2>2, <2>3
<1>4. Restored(r, rows) = [i \in 0..RingSteps - 1 |-> Restored(r, rows)[i]]
  BY <1>1 DEF Restored
<1> QED
  BY <1>3, <1>4 DEF Rings

-----------------------------------------------------------------------------
(* No chain of D is broken, but for what key chains from.                   *)
ClosedBut(m, D, key) ==
  \A k \in DOMAIN m.at : k # key /\ m.at[k].prev \in D => m.at[k].prev \in DOMAIN m.at

LEMMA ClosedStays ==
  ASSUME NEW D, NEW m \in Memories, Closed(m, D),
         NEW key \in Streams, NEW prev \in Streams \cup {None},
         prev \in Streams => Under(prev, key),
         NEW delta \in Link, delta.boundary = Len(key), NEW turn \in BOOLEAN
  PROVE  LET r == RememberDelta(m, key, prev, delta, turn)
         IN  /\ r \in Memories /\ Len(r.order) > 0 /\ Tip(r.order) = key /\ key \in DOMAIN r.at
             /\ ClosedBut(r, D, key)
             /\ (prev \in D => prev \in DOMAIN m.at) => Closed(r, D)
<1>1. PICK r : r = RememberDelta(m, key, prev, delta, turn)
  OBVIOUS
<1>2. /\ r \in Memories /\ Len(r.order) > 0 /\ Tip(r.order) = key
      /\ key \in DOMAIN r.at /\ r.at[key].prev = prev
      /\ \A k \in DOMAIN r.at \ {key} : k \in DOMAIN m.at /\ r.at[k] = m.at[k]
      /\ Closed(r, DOMAIN m.at \cup {key})
  <2>1. m \in Memories /\ key \in Streams /\ prev \in Streams \cup {None} /\ delta \in Link
    OBVIOUS
  <2>2. (prev \in Streams => Under(prev, key)) /\ delta.boundary = Len(key) /\ turn \in BOOLEAN
    OBVIOUS
  <2>3. Recalled(r, m, key, prev)
    BY <1>1, <2>1, <2>2, RememberIs
  <2> QED
    BY <2>3 DEF Recalled
<1>3. ClosedBut(r, D, key)
  <2> SUFFICES ASSUME NEW k \in DOMAIN r.at, k # key, r.at[k].prev \in D
               PROVE  r.at[k].prev \in DOMAIN r.at
    BY DEF ClosedBut
  <2>1. k \in DOMAIN m.at /\ r.at[k] = m.at[k]
    BY <1>2
  <2>2. m.at[k].prev \in DOMAIN m.at
    BY <2>1 DEF Closed
  <2> QED
    BY <1>2, <2>1, <2>2 DEF Closed
<1>4. ASSUME prev \in D => prev \in DOMAIN m.at PROVE Closed(r, D)
  <2>1. prev \in D => prev \in DOMAIN r.at
    BY <1>2, <1>4 DEF Closed
  <2> QED
    BY <1>2, <1>3, <2>1 DEF Closed, ClosedBut
<1> QED
  BY <1>1, <1>2, <1>3, <1>4

-----------------------------------------------------------------------------
(* A restore: what is read of a manifest, the shallowest first, becomes     *)
(* memory, each link under the prompt's prefix.                             *)
Reads(m, b) == Reverse(LinksUpTo(m, b))

LEMMA LinksUpToIs == ASSUME NEW m, NEW b PROVE LinksUpTo(m, b) = LinksOf(Older(m.ckpts, b))
BY DEF LinksUpTo, LinksOf, Older

LEMMA ReadsIs ==
  ASSUME NEW m \in ManRec, NEW b \in Nat
  PROVE  LET w == Reads(m, b)
         IN  /\ w \in Seq(Link) /\ Len(w) \in Nat
             /\ \A i \in 1..Len(w) : w[i].boundary \in 1..b
             /\ \A i \in 2..Len(w) : w[i - 1].boundary < w[i].boundary
<1>1. PICK K \in KeptSets : K = m.ckpts
  BY DEF ManRec
<1>2. PICK o \in Seq(K) : o = Older(K, b)
  BY OlderIs
<1>3. /\ Len(o) \in Nat
      /\ \A i \in 1..Len(o) : o[i] \in K /\ o[i].delta.boundary <= b
      /\ \A i, j \in 1..Len(o) : i < j => o[i].delta.boundary > o[j].delta.boundary
  BY <1>2, OlderIs
<1>4. PICK l \in Seq(Link) : l = LinksOf(o)
  BY LinksOfIs
<1>5. Len(l) = Len(o) /\ \A i \in 1..Len(o) : l[i] = o[i].delta
  BY <1>4, LinksOfIs
<1>6. PICK w : w = [i \in 1..Len(o) |-> l[(Len(o) - i) + 1]]
  OBVIOUS
<1>7. Reads(m, b) = w
  BY <1>1, <1>2, <1>4, <1>5, <1>6, LinksUpToIs DEF Reads, Reverse
<1>8. \A i \in 1..Len(o) : (Len(o) - i) + 1 \in 1..Len(o)
  BY <1>3
<1>9. \A i \in 1..Len(o) : l[i] \in Link
  BY <1>5
<1>10. w \in Seq(Link) /\ Len(w) = Len(o)
  BY <1>3, <1>6, <1>8, <1>9
<1>11. \A i \in 1..Len(o) : l[i].boundary \in 1..b
  <2> TAKE i \in 1..Len(o)
  <2>1. l[i].boundary = o[i].delta.boundary /\ o[i].delta.boundary <= b /\ o[i] \in K
    BY <1>3, <1>5
  <2>2. /\ o[i].delta.boundary \in Nat /\ o[i].delta.from \in Nat
        /\ o[i].delta.from < o[i].delta.boundary
    BY <2>1, KeptIs
  <2> QED
    BY <2>1, <2>2
<1>12. ASSUME NEW i \in 2..Len(w) PROVE w[i - 1].boundary < w[i].boundary
  <2>1. /\ i - 1 \in 1..Len(o) /\ i \in 1..Len(o)
        /\ (Len(o) - i) + 1 \in 1..Len(o) /\ (Len(o) - (i - 1)) + 1 \in 1..Len(o)
        /\ (Len(o) - i) + 1 < (Len(o) - (i - 1)) + 1
    BY <1>3, <1>10
  <2>2. PICK p \in 1..Len(o) : p = (Len(o) - i) + 1
    BY <2>1
  <2>3. PICK q \in 1..Len(o) : q = (Len(o) - (i - 1)) + 1
    BY <2>1
  <2>4. w[i] = l[p] /\ w[i - 1] = l[q]
    BY <1>6, <2>1, <2>2, <2>3
  <2>5. l[p].boundary > l[q].boundary
    BY <1>3, <1>5, <2>1, <2>2, <2>3
  <2> QED
    BY <1>11, <2>4, <2>5
<1>13. ASSUME NEW i \in 1..Len(w) PROVE w[i].boundary \in 1..b
  <2>1. PICK p \in 1..Len(o) : p = (Len(o) - i) + 1
    BY <1>8, <1>10
  <2>2. w[i] = l[p]
    BY <1>6, <1>10, <2>1
  <2> QED
    BY <1>11, <2>2
<1>14. Len(w) \in Nat
  BY <1>3, <1>10
<1> QED
  BY <1>7, <1>10, <1>12, <1>13, <1>14

Anchor(m, b) == [boundary |-> b, from |-> 0, rows |-> Assemble(LinksUpTo(m, b))]

LEMMA AnchorIs ==
  ASSUME NEW m \in ManRec, NEW b \in Boundaries(m.ckpts), b \in Nat, b > 0
  PROVE  /\ Assemble(LinksUpTo(m, b)) \in RowsOf(0, b)
         /\ Anchor(m, b) \in Link /\ Anchor(m, b).boundary = b
<1>1. PICK K \in KeptSets : K = m.ckpts
  BY DEF ManRec
<1>2. PICK o \in Seq(K) : o = Older(K, b)
  BY OlderIs
<1>3. Len(o) > 0 /\ o[1].delta.boundary = b /\ Len(o) \in Nat
  BY <1>1, <1>2, OlderIs
<1>4. PICK l \in Seq(Link) : l = LinksOf(o)
  BY LinksOfIs
<1>5. Len(l) > 0 /\ l[1].boundary = b
  BY <1>3, <1>4, LinksOfIs
<1>6. LinksUpTo(m, b) = l
  BY <1>1, <1>2, <1>4, LinksUpToIs
<1>7. Assemble(l) \in RowsOf(0, b)
  BY <1>5, AssembleIs
<1> QED
  BY <1>6, <1>7, LinkMade DEF Anchor

RestoreStep(s, links, x, i) ==
  RememberDelta(x, Prefix(s, links[i].boundary),
                IF i = 1 THEN None ELSE Prefix(s, links[i - 1].boundary), links[i], TRUE)

LEMMA RestoreStepIs ==
  ASSUME NEW s \in Streams, NEW m \in ManRec, NEW b \in 1..Len(s),
         NEW D \in SUBSET Streams, NEW x \in Memories, NEW i \in 1..Len(Reads(m, b))
  PROVE  LET r == RestoreStep(s, Reads(m, b), x, i)
         IN  /\ r \in Memories
             /\ /\ Closed(x, D)
                /\ i # 1 => Prefix(s, Reads(m, b)[i - 1].boundary) \in DOMAIN x.at
                => /\ Closed(r, D)
                   /\ Prefix(s, Reads(m, b)[i].boundary) \in DOMAIN r.at
<1>1. b \in Nat /\ Len(s) \in Nat
  BY StreamIs
<1>2. PICK w \in Seq(Link) : w = Reads(m, b)
  BY <1>1, ReadsIs
<1>3. /\ Len(w) \in Nat /\ \A j \in 1..Len(w) : w[j].boundary \in 1..b
      /\ \A j \in 2..Len(w) : w[j - 1].boundary < w[j].boundary
  BY <1>1, <1>2, ReadsIs
<1>4. i \in 1..Len(w) /\ (i # 1 => i \in 2..Len(w) /\ i - 1 \in 1..Len(w))
  BY <1>2, <1>3
<1>5. PICK d \in Link : d = w[i]
  BY <1>4
<1>6. d.boundary \in 1..Len(s)
  BY <1>1, <1>3, <1>4, <1>5
<1>7. PICK key : key = Prefix(s, d.boundary)
  OBVIOUS
<1>8. key \in Streams /\ Len(key) = d.boundary
  BY <1>6, <1>7, PrefixIs
<1>9. PICK prev : prev = IF i = 1 THEN None ELSE Prefix(s, w[i - 1].boundary)
  OBVIOUS
<1>10. i = 1 => prev = None
  BY <1>9
<1>11. ASSUME i # 1
       PROVE  /\ prev \in Streams /\ Under(prev, key)
              /\ prev = Prefix(s, Reads(m, b)[i - 1].boundary)
  <2>1. PICK e \in 1..Len(s) : e = w[i - 1].boundary /\ e < d.boundary
    BY <1>1, <1>3, <1>4, <1>5, <1>11
  <2>2. prev = Prefix(s, e)
    BY <1>9, <1>11, <2>1
  <2>3. prev \in Streams /\ Len(prev) = e
    BY <2>2, PrefixIs
  <2>4. e \in 1..d.boundary
    BY <1>1, <1>6, <2>1
  <2>5. Prefix(key, e) = Prefix(s, e)
    BY <1>6, <1>7, <2>4, PrefixOfPrefix
  <2>6. Under(prev, key)
    BY <1>8, <2>1, <2>2, <2>3, <2>5 DEF Under
  <2> QED
    BY <1>2, <1>11, <2>1, <2>2, <2>3, <2>6
<1>12. None \notin Streams
  BY NoneIsNoStream
<1>13. prev \in Streams \cup {None} /\ (prev \in Streams => Under(prev, key))
  BY <1>10, <1>11, <1>12
<1>15. PICK r : r = RememberDelta(x, key, prev, d, TRUE)
  OBVIOUS
<1>14. r \in Memories
  <2>1. Closed(x, {})
    BY DEF Closed
  <2> QED
    BY <1>8, <1>13, <1>15, <2>1, ClosedStays
<1>16. RestoreStep(s, Reads(m, b), x, i) = r
  BY <1>2, <1>5, <1>7, <1>9, <1>15 DEF RestoreStep
<1>17. ASSUME Closed(x, D), i # 1 => Prefix(s, Reads(m, b)[i - 1].boundary) \in DOMAIN x.at
       PROVE  Closed(r, D) /\ key \in DOMAIN r.at
  <2>1. prev \in D => prev \in DOMAIN x.at
    BY <1>10, <1>11, <1>12, <1>17
  <2> QED
    BY <1>8, <1>13, <1>15, <1>17, <2>1, ClosedStays
<1> QED
  BY <1>2, <1>5, <1>7, <1>14, <1>16, <1>17

RestoreStart(s, m, b) == RememberDelta(memory, Prefix(s, b), None, Anchor(m, b), TRUE)

LEMMA RestoreStartIs ==
  ASSUME memory \in Memories, NEW s \in Streams, NEW m \in ManRec, NEW b \in 1..Len(s),
         b \in Boundaries(m.ckpts)
  PROVE  RestoreStart(s, m, b) \in Memories /\ Closed(RestoreStart(s, m, b), DOMAIN memory.at)
<1>1. b \in Nat /\ b > 0
  BY StreamIs
<1>2. PICK d \in Link : d = Anchor(m, b) /\ d.boundary = b
  BY <1>1, AnchorIs
<1>3. PICK key \in Streams : key = Prefix(s, b) /\ Len(key) = b
  BY PrefixIs
<1>4. None \notin Streams /\ None \notin DOMAIN memory.at /\ Closed(memory, DOMAIN memory.at)
  BY NoneIsNoStream, MemoryIs DEF Closed
<1>5. PICK r : r = RememberDelta(memory, key, None, d, TRUE)
  OBVIOUS
<1>6. r \in Memories /\ Closed(r, DOMAIN memory.at)
  BY <1>2, <1>3, <1>4, <1>5, ClosedStays
<1> QED
  BY <1>2, <1>3, <1>5, <1>6 DEF RestoreStart

(* The memories a restore goes through after i links.                       *)
Restoring(s, m, b, i) ==
  {x \in Memories :
     /\ Closed(x, DOMAIN memory.at)
     /\ i # 0 => Prefix(s, Reads(m, b)[i].boundary) \in DOMAIN x.at}

LEMMA RestoringGoesOn ==
  ASSUME memory \in Memories, NEW s \in Streams, NEW m \in ManRec, NEW b \in 1..Len(s),
         NEW i \in 1..Len(Reads(m, b)), NEW x \in Restoring(s, m, b, i - 1)
  PROVE  RestoreStep(s, Reads(m, b), x, i) \in Restoring(s, m, b, i)
<1>1. b \in Nat
  BY StreamIs
<1>2. Len(Reads(m, b)) \in Nat
  BY <1>1, ReadsIs
<1>3. i # 0 /\ (i # 1 => i - 1 # 0)
  BY <1>2
<1>4. PICK D \in SUBSET Streams : D = DOMAIN memory.at
  BY MemoryIs
<1>5. /\ x \in Memories /\ Closed(x, D)
      /\ i # 1 => Prefix(s, Reads(m, b)[i - 1].boundary) \in DOMAIN x.at
  BY <1>3, <1>4 DEF Restoring
<1>6. PICK r : r = RestoreStep(s, Reads(m, b), x, i)
  OBVIOUS
<1>7. /\ r \in Memories /\ Closed(r, D)
      /\ Prefix(s, Reads(m, b)[i].boundary) \in DOMAIN r.at
  BY <1>5, <1>6, RestoreStepIs
<1> QED
  BY <1>4, <1>6, <1>7 DEF Restoring

LEMMA RememberedUnfolds ==
  ASSUME memory \in Memories, NEW s \in Streams, NEW m \in ManRec, NEW b \in 1..Len(s),
         b \in Boundaries(m.ckpts)
  PROVE  \E f \in [0..Len(Reads(m, b)) -> Memories] :
           /\ f[0] = RestoreStart(s, m, b)
           /\ \A i \in 1..Len(Reads(m, b)) : f[i] = RestoreStep(s, Reads(m, b), f[i - 1], i)
           /\ Remembered(s, m, b) = f[Len(Reads(m, b))]
<1> DEFINE len == Len(Reads(m, b))
           Vals == Memories
           start == RestoreStart(s, m, b)
           Goes(x, i) == RestoreStep(s, Reads(m, b), x, i)
           after == CHOOSE f : f = [i \in 0..len |-> IF i = 0 THEN start ELSE Goes(f[i - 1], i)]
           G == [i \in 1..len |-> [x \in Vals |-> Goes(x, i)]]
<1>0. Remembered(s, m, b) = after[len]
  BY DEF Remembered, RestoreStart, RestoreStep, Reads, Anchor
<1>1. len \in Nat /\ start \in Vals
  <2>1. b \in Nat
    BY StreamIs
  <2> QED
    BY <2>1, RestoreStartIs, ReadsIs
<1>2. \A x \in Vals, i \in 1..len : Goes(x, i) \in Vals
  <2>1. {} \in SUBSET Streams
    OBVIOUS
  <2> QED
    BY <2>1, RestoreStepIs
<1>3. PICK f \in [0..len -> Vals] :
        f[0] = start /\ \A i \in 1..len : f[i] = G[i][f[i - 1]]
  <2>1. PICK H : H = G
    OBVIOUS
  <2>2. H \in [1..len -> [Vals -> Vals]]
    BY <1>2, <2>1
  <2> HIDE DEF G, after
  <2>3. PICK R : R = Vals
    OBVIOUS
  <2>4. PICK a \in R : a = start
    BY <1>1, <2>3
  <2>5. PICK top \in Nat : top = len
    BY <1>1
  <2>6. StepsIn(H, R, top)
    BY <2>2, <2>3, <2>5, Zenon DEF StepsIn
  <2>7. PICK f : Course(f, R, a, top, H)
    BY <2>6, CourseIs
  <2> QED
    BY <2>1, <2>3, <2>4, <2>5, <2>7, Zenon DEF Course
<1>4. \A i \in 1..len : i - 1 \in 0..len /\ f[i] = Goes(f[i - 1], i)
  <2>1. \A i \in 1..len : i - 1 \in 0..len
    BY <1>1
  <2> QED
    BY <1>3, <2>1
<1>5. f = [i \in 0..len |-> IF i = 0 THEN start ELSE Goes(f[i - 1], i)]
  <2>1. \A i \in 0..len : f[i] = IF i = 0 THEN start ELSE Goes(f[i - 1], i)
    <3> SUFFICES ASSUME NEW i \in 0..len, i # 0 PROVE f[i] = Goes(f[i - 1], i)
      BY <1>3
    <3>1. i \in 1..len
      BY <1>1
    <3> QED
      BY <3>1, <1>4, Zenon
  <2> QED
    BY <1>3, <2>1, Zenon
<1>6. after = [i \in 0..len |-> IF i = 0 THEN start ELSE Goes(after[i - 1], i)]
  BY <1>5, Zenon
<1> HIDE DEF after, G
<1>7. after[0] = start /\ \A i \in 1..len : after[i] = Goes(after[i - 1], i)
  <2>0. 0 \in 0..len
    BY <1>1
  <2>1. after[0] = start
    BY <1>6, <2>0, Zenon
  <2>2. ASSUME NEW i \in 1..len PROVE after[i] = Goes(after[i - 1], i)
    <3>1. i \in 0..len /\ i # 0
      BY <1>1
    <3>2. after[i] = IF i = 0 THEN start ELSE Goes(after[i - 1], i)
      BY <3>1, <1>6, Zenon
    <3> QED
      BY <3>1, <3>2, Zenon
  <2> QED
    BY <2>1, <2>2
<1>8. \A i \in 0..len : f[i] = after[i]
  <2>1. f[0] = after[0]
    BY <1>3, <1>7
  <2>2. \A i \in 1..len : f[i - 1] = after[i - 1] => f[i] = after[i]
    BY <1>4, <1>7, Zenon
  <2>3. PICK top \in Nat : top = len
    BY <1>1
  <2>4. PICK g : g = after
    OBVIOUS
  <2>5. PICK h : h = f
    OBVIOUS
  <2>6. Follows(h, g, top)
    BY <2>1, <2>2, <2>3, <2>4, <2>5, Zenon DEF Follows
  <2>7. Alike(h, g, top)
    BY <2>6, AlikeIs
  <2> QED
    BY <2>3, <2>4, <2>5, <2>7, Zenon DEF Alike
<1>9. f[len] = after[len]
  <2>1. len \in 0..len
    BY <1>1
  <2> QED
    BY <1>8, <2>1
<1> QED
  BY <1>0, <1>3, <1>4, <1>9, Zenon

LEMMA RememberedIs ==
  ASSUME memory \in Memories, NEW s \in Streams, NEW m \in ManRec, NEW b \in 1..Len(s),
         b \in Boundaries(m.ckpts)
  PROVE  Remembered(s, m, b) \in Memories /\ Closed(Remembered(s, m, b), DOMAIN memory.at)
<1> DEFINE n == Len(Reads(m, b))
<1>1. n \in Nat
  <2>1. b \in Nat
    BY StreamIs
  <2> QED
    BY <2>1, ReadsIs
<1>2. PICK f \in [0..n -> Memories] :
        /\ f[0] = RestoreStart(s, m, b)
        /\ \A i \in 1..n : f[i] = RestoreStep(s, Reads(m, b), f[i - 1], i)
        /\ Remembered(s, m, b) = f[n]
  BY RememberedUnfolds
<1> DEFINE I == {i \in Nat : i <= n => f[i] \in Restoring(s, m, b, i)}
<1>3. 0 \in I
  <2>1. f[0] \in Restoring(s, m, b, 0)
    BY <1>2, RestoreStartIs DEF Restoring
  <2> QED
    BY <2>1
<1>4. ASSUME NEW i \in Nat, i \in I PROVE i + 1 \in I
  <2> SUFFICES ASSUME i + 1 <= n PROVE f[i + 1] \in Restoring(s, m, b, i + 1)
    OBVIOUS
  <2>1. f[i] \in Restoring(s, m, b, i) /\ i + 1 \in 1..n /\ (i + 1) - 1 = i
    BY <1>1, <1>4
  <2>2. PICK j \in 1..n : j = i + 1 /\ j - 1 = i
    BY <2>1
  <2>3. f[j] = RestoreStep(s, Reads(m, b), f[j - 1], j) /\ f[j - 1] \in Restoring(s, m, b, j - 1)
    BY <1>2, <2>1, <2>2
  <2> HIDE DEF I
  <2>4. f[j] \in Restoring(s, m, b, j)
    BY <2>3, RestoringGoesOn
  <2> QED
    BY <2>2, <2>4
<1>5. f[n] \in Restoring(s, m, b, n)
  <2>1. Nat \subseteq I
    <3> HIDE DEF I
    <3> QED
      BY <1>3, <1>4, SetInduction
  <2> QED
    BY <1>1, <2>1
<1> QED
  BY <1>2, <1>5 DEF Restoring

-----------------------------------------------------------------------------
(* The end of a turn: its branch point, then its stream's end.              *)
LEMMA EntersIs ==
  ASSUME memory \in Memories, NEW K \in SUBSET Streams, NEW m \in Memories,
         Closed(m, DOMAIN memory.at), NEW s \in Streams, NEW b \in 1..Len(s), NEW r \in Rings,
         NEW turn \in BOOLEAN
  PROVE  LET prev == PrevOf(K, s, b)
             x == RememberDelta(m, Prefix(s, b), prev, Capture(r, FromOf(prev), b), turn)
         IN  /\ x \in Memories /\ Len(x.order) > 0 /\ Tip(x.order) = Prefix(s, b)
             /\ ClosedBut(x, DOMAIN memory.at, Prefix(s, b))
             /\ K = DOMAIN m.at => Closed(x, DOMAIN memory.at)
<1>1. b \in Nat /\ b > 0
  BY StreamIs
<1>2. PICK prev : prev = PrevOf(K, s, b)
  OBVIOUS
<1>3. /\ prev \in K \cup {None}
      /\ (prev # None => prev \in Streams /\ Len(prev) < b /\ Under(prev, Prefix(s, b)))
      /\ FromOf(prev) \in 0..b - 1
  BY <1>2, PrevIs
<1>4. PICK from \in Nat : from = FromOf(prev) /\ from < b
  BY <1>1, <1>3
<1>5. PICK d \in Link : d = Capture(r, from, b) /\ d.boundary = b
  BY <1>1, <1>4, CaptureIs
<1>6. PICK key \in Streams : key = Prefix(s, b) /\ Len(key) = b
  BY PrefixIs
<1>7. None \notin Streams /\ DOMAIN memory.at \in SUBSET Streams
  BY NoneIsNoStream, MemoryIs
<1>8. prev \in Streams \cup {None} /\ (prev \in Streams => Under(prev, key))
  BY <1>3, <1>6, <1>7
<1>9. PICK x : x = RememberDelta(m, key, prev, d, turn)
  OBVIOUS
<1>10. /\ x \in Memories /\ Len(x.order) > 0 /\ Tip(x.order) = key
       /\ ClosedBut(x, DOMAIN memory.at, key)
       /\ (prev \in DOMAIN memory.at => prev \in DOMAIN m.at) => Closed(x, DOMAIN memory.at)
  BY <1>5, <1>6, <1>8, <1>9, ClosedStays
<1>11. K = DOMAIN m.at => (prev \in DOMAIN memory.at => prev \in DOMAIN m.at)
  BY <1>3, <1>7
<1> QED
  BY <1>2, <1>4, <1>5, <1>6, <1>9, <1>10, <1>11

LEMMA MaterializedIs ==
  ASSUME memory \in Memories, NEW t \in Streams, NEW b \in 0..Len(t), NEW r \in Rings
  PROVE  LET x == Materialized(b, t, r)
         IN  /\ x \in Memories /\ Len(x.order) > 0
             /\ ClosedBut(x, DOMAIN memory.at, Tip(x.order))
<1>1. Len(t) \in Nat /\ Len(t) \in 1..Len(t) /\ Prefix(t, Len(t)) = t
  <2>1. Len(t) \in Nat /\ Len(t) > 0 /\ t \in Seq(Step)
    BY StreamIs
  <2>2. SubSeq(t, 1, Len(t)) = t
    BY <2>1
  <2> QED
    BY <2>1, <2>2 DEF Prefix
<1>2. PICK D : D = DOMAIN memory.at
  OBVIOUS
<1>3. D \in SUBSET Streams /\ Closed(memory, D)
  BY <1>2, MemoryIs DEF Closed
<1>4. PICK branch : branch = IF b = 0 THEN {} ELSE {Prefix(t, b)}
  OBVIOUS
<1>5. b # 0 => b \in 1..Len(t)
  BY <1>1
<1>6. D \cup branch \in SUBSET Streams
  BY <1>3, <1>4, <1>5, PrefixIs
<1>7. PICK first :
        first = IF b = 0 THEN memory
                ELSE LET prevB == PrevOf(DOMAIN memory.at, t, b)
                     IN  RememberDelta(memory, Prefix(t, b), prevB,
                                       Capture(r, FromOf(prevB), b), TRUE)
  OBVIOUS
<1>8. PICK prevT : prevT = PrevOf(D \cup branch, t, Len(t))
  OBVIOUS
<1>9. PICK x : x = IF b = Len(t) THEN first
                   ELSE RememberDelta(first, t, prevT, Capture(r, FromOf(prevT), Len(t)), FALSE)
  OBVIOUS
<1>10. Materialized(b, t, r) = x
  BY <1>2, <1>4, <1>7, <1>8, <1>9 DEF Materialized
<1>11. /\ first \in Memories /\ Closed(first, D)
       /\ b # 0 => Len(first.order) > 0
  <2>1. CASE b = 0
    BY <1>3, <1>7, <2>1
  <2>2. CASE b # 0
    BY <1>2, <1>3, <1>5, <1>7, <2>2, EntersIs
  <2> QED
    BY <2>1, <2>2
<1>12. CASE b = Len(t)
  BY <1>1, <1>2, <1>9, <1>10, <1>11, <1>12 DEF Closed, ClosedBut
<1>13. CASE b # Len(t)
  <2>1. x = RememberDelta(first, Prefix(t, Len(t)), PrevOf(D \cup branch, t, Len(t)),
                          Capture(r, FromOf(PrevOf(D \cup branch, t, Len(t))), Len(t)), FALSE)
    BY <1>1, <1>8, <1>9, <1>13
  <2>2. PICK e \in 1..Len(t) : e = Len(t)
    BY <1>1
  <2>3. x \in Memories /\ Len(x.order) > 0 /\ Tip(x.order) = Prefix(t, e) /\ ClosedBut(x, D, Prefix(t, e))
    BY <1>2, <1>6, <1>11, <2>1, <2>2, EntersIs
  <2> QED
    BY <1>2, <1>10, <2>3
<1> QED
  BY <1>12, <1>13

-----------------------------------------------------------------------------
(* What the actions are made of.                                            *)
LEMMA PrefixesAre ==
  ASSUME NEW s \in Streams, NEW n \in 0..Len(s)
  PROVE  PrefixesUpTo(s, n) \in SUBSET Streams
<1>1. Len(s) \in Nat
  BY StreamIs
<1>2. \A i \in 1..n : i \in 1..Len(s)
  BY <1>1
<1> QED
  BY <1>2, PrefixIs DEF PrefixesUpTo

LEMMA NothingNamed == {} \in KeptSets /\ {} \in Cuts
BY FS_EmptySet DEF KeptSets, Distinct, Cuts

LEMMA ConvIs ==
  ASSUME NEW v \in ConvRec
  PROVE  v.tokens \in RingContents /\ v.cuts \in Cuts /\ v.disk \in KeptSets /\ v.committed \in 0..MaxSteps
BY DEF ConvRec

LEMMA PriorIs ==
  ASSUME Typed, NEW c \in Conv
  PROVE  PriorCuts(c) \in Cuts /\ PriorDisk(c) \in KeptSets /\ TokensOf(c) \in RingContents
<1>1. conv[c] = None \/ conv[c] \in ConvRec
  BY DEF Typed
<1> QED
  BY <1>1, NothingNamed, ConvIs DEF PriorCuts, PriorDisk, TokensOf, RingContents

LEMMA ManIs ==
  ASSUME NEW m \in ManRec
  PROVE  /\ m.stream \in Streams /\ m.cuts \in Cuts /\ m.ckpts \in KeptSets
         /\ m.boundary = Len(m.stream)
BY DEF ManRec

(* What a prompt can stand on is a boundary the manifest names, and the walk*)
(* reached.                                                                 *)
LEMMA UsableIs ==
  ASSUME NEW m \in ManRec, NEW s \in Streams, NEW k \in Nat, NEW b \in Usable(m, s, k)
  PROVE  b \in Boundaries(m.ckpts) /\ b \in Nat /\ b \in 1..Len(s) /\ Reaches(m.ckpts, b)
<1>1. b \in Boundaries(m.ckpts) /\ k < b /\ b <= Len(s) /\ Reaches(m.ckpts, b)
  BY DEF Usable
<1>2. PICK c \in m.ckpts : b = c.delta.boundary
  BY <1>1 DEF Boundaries
<1>3. b \in Nat
  BY <1>2, ManIs, KeptIs
<1>4. Len(s) \in Nat
  BY StreamIs
<1> QED
  BY <1>1, <1>3, <1>4

LEMMA StoredIs ==
  ASSUME Typed, NEW s \in Streams, NEW k \in Nat, NEW x \in DeepestStored(s, k)
  PROVE  x.of \in Conv /\ manifests[x.of] \in ManRec /\ x.at \in Usable(manifests[x.of], s, k)
<1>1. PICK c \in Stored : \E b \in Usable(manifests[c], s, k) : x = [of |-> c, at |-> b]
  BY DEF DeepestStored
<1>2. c \in Conv /\ manifests[c] # None
  BY DEF Stored
<1>3. manifests[c] \in ManRec
  BY <1>2 DEF Typed
<1> QED
  BY <1>1, <1>2, <1>3

LEMMA ResumedIs ==
  ASSUME Typed, NEW c, NEW at, NEW b, NEW rows \in RowsOf(0, b), Resumed(c, at, rows)
  PROVE  ring' \in Rings
<1>1. ring \in Rings
  BY DEF Typed
<1>2. Restored(ring, rows) \in Rings
  BY <1>1, RestoredIs
<1> QED
  BY <1>1, <1>2 DEF Resumed

LEMMA FreshIs ==
  ASSUME Typed, NEW c \in Conv, NEW cuts \in Cuts, NEW disk \in KeptSets, Fresh(c, cuts, disk)
  PROVE  conv' \in [Conv -> ConvRec \cup {None}] /\ conv'[c] \in ConvRec
<1>1. PICK v : v = [tokens |-> <<>>, cuts |-> cuts, disk |-> disk, committed |-> 0]
  OBVIOUS
<1>2. v \in ConvRec
  BY <1>1, BoundAssumption DEF ConvRec, RingContents
<1>3. conv' = [conv EXCEPT ![c] = v] /\ conv \in [Conv -> ConvRec \cup {None}]
  BY <1>1 DEF Fresh, Typed
<1> QED
  BY <1>2, <1>3

LEMMA BeginsIs ==
  ASSUME Typed, NEW c \in Conv, NEW s \in Streams, NEW at \in 0..Len(s), Begins(c, s, at),
         conv'[c] \in ConvRec
  PROVE  /\ run' \in RunRec \cup {None} /\ owner' \in Conv \cup {None}
         /\ run' # None => conv'[run'.conv] \in ConvRec
         /\ manifests' = manifests
<1>1. Len(s) \in 1..MaxSteps /\ MaxSteps \in Nat
  BY StreamIs, BoundAssumption
<1>2. at \in 0..MaxSteps
  BY <1>1
<1>3. run' = [conv |-> c, prompt |-> s, at |-> at, branched |-> FALSE]
  BY DEF Begins
<1>4. at <= Len(s)
  BY <1>1
<1>5. run' \in RunRec
  BY <1>2, <1>3, <1>4 DEF RunRec
<1> QED
  BY <1>3, <1>5 DEF Begins

(* No chain in memory is broken by the step, but for what the newest entry  *)
(* chains from.                                                             *)
Settles == ClosedBut(memory', DOMAIN memory.at, Tip(memory'.order))

LEMMA Unchanged == ASSUME Typed, memory' = memory PROVE memory' \in Memories /\ Settles
BY DEF Typed, Settles, ClosedBut

LEMMA StaysClosed == ASSUME Closed(memory', DOMAIN memory.at) PROVE Settles
BY DEF Settles, Closed, ClosedBut

-----------------------------------------------------------------------------
(* The actions.                                                             *)
LEMMA InitTyped == ASSUME Init PROVE Typed
<1>1. ring \in Rings
  BY DEF Init, Rings, RingContents
<1> QED
  BY <1>1, NothingRemembered DEF Init, Typed

LEMMA ContinueStep ==
  ASSUME Typed, NEW c \in Conv, NEW s \in Streams, Continue(c, s)
  PROVE  Typed' /\ Settles
<1>1. TokensOf(c) # <<>> /\ IsPrefix(TokensOf(c), s) /\ Begins(c, s, Len(TokensOf(c)))
  BY DEF Continue
<1>2. conv[c] # None
  BY <1>1 DEF TokensOf
<1>3. conv'[c] \in ConvRec
  BY <1>2 DEF Typed, Continue
<1>4. TokensOf(c) \in Streams
  BY <1>1, PriorIs DEF RingContents
<1>5. Len(TokensOf(c)) \in 0..Len(s)
  <2>1. Len(TokensOf(c)) <= Len(s)
    BY <1>1, <1>4, PrefixOfIs
  <2>2. Len(TokensOf(c)) \in Nat /\ Len(s) \in Nat
    BY <1>4, StreamIs
  <2> QED
    BY <2>1, <2>2
<1>6. /\ run' \in RunRec \cup {None} /\ owner' \in Conv \cup {None}
      /\ run' # None => conv'[run'.conv] \in ConvRec
      /\ manifests' = manifests
  BY <1>1, <1>3, <1>5, BeginsIs
<1>7. conv' = conv /\ memory' = memory /\ units' = units /\ ring' = ring
  BY DEF Continue
<1> QED
  BY <1>6, <1>7, Unchanged DEF Typed

LEMMA SwitchInMemory ==
  ASSUME Typed, NEW c \in Conv, NEW s \in Streams,
         NEW key, key = Resumable(memory, s, Hit(s)),
         Begins(c, s, FromOf(key)), Fresh(c, PriorCuts(c), PriorDisk(c)),
         IF key = None THEN UNCHANGED ring
         ELSE Resumed(c, FromOf(key), Assemble(DeltasFrom(memory, key))),
         UNCHANGED <<memory, units>>
  PROVE  Typed' /\ Settles
<1>1. conv' \in [Conv -> ConvRec \cup {None}] /\ conv'[c] \in ConvRec
  BY PriorIs, FreshIs
<1>2. memory \in Memories /\ ring \in Rings
  BY DEF Typed
<1>3. Len(s) \in Nat
  BY StreamIs
<1>4. key # None => key \in Streams /\ key \in DOMAIN memory.at /\ IsPrefix(key, s)
  BY <1>2, ResumableIs
<1>5. FromOf(key) \in 0..Len(s)
  <2>1. CASE key = None
    BY <1>3, <2>1 DEF FromOf
  <2>2. CASE key # None
    <3>1. Len(key) <= Len(s) /\ Len(key) \in Nat
      BY <1>4, <2>2, StreamIs, PrefixOfIs
    <3> QED
      BY <1>3, <2>2, <3>1 DEF FromOf
  <2> QED
    BY <2>1, <2>2
<1>6. /\ run' \in RunRec \cup {None} /\ owner' \in Conv \cup {None}
      /\ run' # None => conv'[run'.conv] \in ConvRec
      /\ manifests' = manifests
  BY <1>1, <1>5, BeginsIs
<1>7. ring' \in Rings
  <2>1. CASE key = None
    BY <1>2, <2>1
  <2>2. CASE key # None
    <3>1. PICK links \in Seq(Link) : links = DeltasFrom(memory, key) /\ Len(links) > 0
      BY <1>2, <1>4, <2>2, DeltasIs
    <3>2. Assemble(links) \in RowsOf(0, links[1].boundary)
      BY <3>1, AssembleIs
    <3> QED
      BY <2>2, <3>1, <3>2, ResumedIs
  <2> QED
    BY <2>1, <2>2
<1>8. memory' = memory /\ units' = units
  OBVIOUS
<1> QED
  BY <1>1, <1>6, <1>7, <1>8, Unchanged DEF Typed

LEMMA SwitchToDisk ==
  ASSUME Typed, NEW c \in Conv, NEW s \in Streams, NEW k \in Nat,
         NEW x \in DeepestStored(s, k), NEW m, m = manifests[x.of],
         Begins(c, s, x.at), Fresh(c, {p \in m.cuts : p <= x.at}, m.ckpts),
         Resumed(c, x.at, Assemble(LinksUpTo(m, x.at))),
         memory' = Remembered(s, m, x.at),
         units' = units \cup PrefixesUpTo(s, x.at)
  PROVE  Typed' /\ Settles
<1>1. m \in ManRec /\ x.at \in Usable(m, s, k)
  BY StoredIs
<1>2. PICK b : b = x.at
  OBVIOUS
<1>3. b \in Boundaries(m.ckpts) /\ b \in Nat /\ b \in 1..Len(s)
  BY <1>1, <1>2, UsableIs
<1>4. b > 0 /\ b \in 0..Len(s)
  BY <1>3, StreamIs
<1>5. m.ckpts \in KeptSets /\ {p \in m.cuts : p <= b} \in Cuts
  BY <1>1, ManIs DEF Cuts
<1>6. conv' \in [Conv -> ConvRec \cup {None}] /\ conv'[c] \in ConvRec
  BY <1>2, <1>5, FreshIs
<1>7. /\ run' \in RunRec \cup {None} /\ owner' \in Conv \cup {None}
      /\ run' # None => conv'[run'.conv] \in ConvRec
      /\ manifests' = manifests
  BY <1>2, <1>4, <1>6, BeginsIs
<1>8. Assemble(LinksUpTo(m, b)) \in RowsOf(0, b)
  BY <1>1, <1>3, <1>4, AnchorIs
<1>9. ring' \in Rings
  BY <1>2, <1>8, ResumedIs
<1>10. memory' \in Memories /\ Closed(memory', DOMAIN memory.at)
  <2>1. memory \in Memories
    BY DEF Typed
  <2> QED
    BY <1>1, <1>2, <1>3, <2>1, RememberedIs
<1>11. Settles
  BY <1>10, StaysClosed
<1>12. units' \in SUBSET Streams
  <2>1. units \in SUBSET Streams
    BY DEF Typed
  <2>2. PrefixesUpTo(s, b) \in SUBSET Streams
    BY <1>4, PrefixesAre
  <2> QED
    BY <1>2, <2>1, <2>2
<1>13. manifests' \in [Conv -> ManRec \cup {None}]
  BY <1>7 DEF Typed
<1> QED
  BY <1>6, <1>7, <1>9, <1>10, <1>11, <1>12, <1>13 DEF Typed

LEMMA SwitchStep ==
  ASSUME Typed, NEW c \in Conv, NEW s \in Streams, Switch(c, s)
  PROVE  Typed' /\ Settles
<1>1. PICK key : key = Resumable(memory, s, Hit(s))
  OBVIOUS
<1>2. PICK k : k = FromOf(key)
  OBVIOUS
<1>3. k \in Nat
  <2>1. memory \in Memories
    BY DEF Typed
  <2>2. key = None \/ key \in Streams
    BY <1>1, <2>1, ResumableIs
  <2>3. CASE key = None
    BY <1>2, <2>3 DEF FromOf
  <2>4. CASE key # None /\ key \in Streams
    BY <1>2, <2>4, StreamIs DEF FromOf
  <2> QED
    BY <2>2, <2>3, <2>4
<1>4. \/ /\ Begins(c, s, FromOf(key)) /\ Fresh(c, PriorCuts(c), PriorDisk(c))
         /\ IF key = None THEN UNCHANGED ring
            ELSE Resumed(c, FromOf(key), Assemble(DeltasFrom(memory, key)))
         /\ UNCHANGED <<memory, units>>
      \/ \E x \in DeepestStored(s, k) :
           /\ Begins(c, s, x.at)
           /\ Fresh(c, {p \in manifests[x.of].cuts : p <= x.at}, manifests[x.of].ckpts)
           /\ Resumed(c, x.at, Assemble(LinksUpTo(manifests[x.of], x.at)))
           /\ memory' = Remembered(s, manifests[x.of], x.at)
           /\ units' = units \cup PrefixesUpTo(s, x.at)
  BY <1>1, <1>2 DEF Switch
<1>5. CASE /\ Begins(c, s, FromOf(key)) /\ Fresh(c, PriorCuts(c), PriorDisk(c))
           /\ IF key = None THEN UNCHANGED ring
              ELSE Resumed(c, FromOf(key), Assemble(DeltasFrom(memory, key)))
           /\ UNCHANGED <<memory, units>>
  BY <1>1, <1>5, SwitchInMemory
<1>6. ASSUME NEW x \in DeepestStored(s, k),
             Begins(c, s, x.at),
             Fresh(c, {p \in manifests[x.of].cuts : p <= x.at}, manifests[x.of].ckpts),
             Resumed(c, x.at, Assemble(LinksUpTo(manifests[x.of], x.at))),
             memory' = Remembered(s, manifests[x.of], x.at),
             units' = units \cup PrefixesUpTo(s, x.at)
      PROVE  Typed' /\ Settles
  BY <1>3, <1>6, SwitchToDisk
<1> QED
  BY <1>4, <1>5, <1>6


LEMMA RunIs ==
  ASSUME Typed, run # None
  PROVE  /\ run.conv \in Conv /\ run.prompt \in Streams /\ run.at \in Nat
         /\ run.at \in 0..Len(run.prompt) /\ conv[run.conv] \in ConvRec
<1>1. run \in RunRec /\ conv[run.conv] \in ConvRec /\ MaxSteps \in Nat
  BY BoundAssumption DEF Typed
<1>2. run.conv \in Conv /\ run.prompt \in Streams /\ run.at \in Nat /\ run.at <= Len(run.prompt)
  BY <1>1 DEF RunRec
<1>3. Len(run.prompt) \in Nat
  BY <1>2, StreamIs
<1> QED
  BY <1>1, <1>2, <1>3

LEMMA CutAtIs ==
  ASSUME NEW cuts \in Cuts, NEW b \in 0..MaxSteps
  PROVE  CutAt(cuts, b) \in Cuts
BY BoundAssumption DEF CutAt, Cuts

LEMMA PassBranchStep ==
  ASSUME Typed, NEW b \in 1..MaxSteps, PassBranch(b)
  PROVE  Typed' /\ Settles
<1>1. /\ run # None /\ b \in 1..Len(run.prompt) /\ run.at <= b
      /\ ring' = Written(ring, run.prompt, run.at, b)
      /\ conv' = [conv EXCEPT ![run.conv].cuts = CutAt(@, b)]
      /\ run' = [run EXCEPT !.at = b, !.branched = TRUE]
      /\ UNCHANGED <<units, owner, manifests, events>>
  BY DEF PassBranch
<1>2. PICK c \in Conv : c = run.conv
  BY <1>1, RunIs
<1>3. PICK s \in Streams : s = run.prompt
  BY <1>1, RunIs
<1>4. run.at \in Nat /\ conv[c] \in ConvRec
  BY <1>1, <1>2, RunIs
<1>5. Len(s) \in Nat /\ MaxSteps \in Nat /\ b \in 1..Len(s) /\ b \in 0..Len(s) /\ b \in 0..MaxSteps
  BY <1>1, <1>3, StreamIs, BoundAssumption
<1>6. ring \in Rings /\ memory \in Memories
  BY DEF Typed
<1>7. PICK r \in Rings : r = Written(ring, s, run.at, b)
  BY <1>4, <1>5, <1>6, WrittenIs
<1>8. ring' \in Rings
  BY <1>1, <1>3, <1>7
<1>9. memory' \in Memories /\ Closed(memory', DOMAIN memory.at)
  <2>1. PICK K \in SUBSET Streams : K = DOMAIN memory.at
    BY <1>6, MemoryIs
  <2>2. PICK prev : prev = PrevOf(K, s, b)
    OBVIOUS
  <2>3. memory' = RememberDelta(memory, Prefix(s, b), prev, Capture(r, FromOf(prev), b), TRUE)
    BY <1>3, <1>7, <2>1, <2>2 DEF PassBranch
  <2>4. Closed(memory, DOMAIN memory.at) /\ TRUE \in BOOLEAN
    BY DEF Closed
  <2> QED
    BY <1>5, <1>6, <2>1, <2>2, <2>3, <2>4, EntersIs
<1>10. conv' \in [Conv -> ConvRec \cup {None}] /\ conv'[c] \in ConvRec
  <2>1. PICK w \in Cuts : w = CutAt(conv[c].cuts, b)
    BY <1>4, <1>5, ConvIs, CutAtIs
  <2>2. conv' = [conv EXCEPT ![c] = [conv[c] EXCEPT !.cuts = w]]
    BY <1>1, <1>2, <2>1
  <2>3. [conv[c] EXCEPT !.cuts = w] \in ConvRec
    BY <1>4, <2>1 DEF ConvRec
  <2>4. conv \in [Conv -> ConvRec \cup {None}]
    BY DEF Typed
  <2> QED
    BY <2>2, <2>3, <2>4
<1>11. run' \in RunRec /\ run'.conv = c
  <2>1. run \in RunRec
    BY <1>1 DEF Typed
  <2>2. b <= Len(s)
    BY <1>5
  <2> QED
    BY <1>1, <1>2, <1>3, <1>5, <2>1, <2>2 DEF RunRec
<1>12. Settles
  BY <1>9, StaysClosed
<1> QED
  BY <1>1, <1>8, <1>9, <1>10, <1>11, <1>12 DEF Typed

LEMMA CommitIs ==
  ASSUME Typed, NEW c \in Conv, conv[c] \in ConvRec, NEW t \in Streams, NEW cuts \in Cuts,
         NEW mem \in Memories, Commit(c, t, cuts, mem)
  PROVE  conv' \in [Conv -> ConvRec \cup {None}] /\ manifests' \in [Conv -> ManRec \cup {None}]
<1>1. PICK key : key = Resumable(mem, t, Len(t))
  OBVIOUS
<1>2. key # None
  BY <1>1 DEF Commit
<1>3. key \in Streams /\ key \in DOMAIN mem.at
  BY <1>1, <1>2, ResumableIs
<1>4. PICK kept : kept = Named(mem, key, conv[c].disk, cuts, Len(t))
  OBVIOUS
<1>5. kept \in KeptSets
  <2>1. conv[c].disk \in KeptSets
    BY ConvIs
  <2> QED
    BY <1>3, <1>4, <2>1, NamedIs
<1>6. PICK n \in 0..MaxSteps : n = Len(key)
  <2>1. Len(key) \in 1..MaxSteps /\ MaxSteps \in Nat
    BY <1>3, StreamIs, BoundAssumption
  <2>2. Len(key) \in 0..MaxSteps
    BY <2>1
  <2> QED
    BY <2>2
<1>7. PICK v : v = [tokens |-> t, cuts |-> cuts, disk |-> kept, committed |-> n]
  OBVIOUS
<1>8. v \in ConvRec
  BY <1>5, <1>7 DEF ConvRec, RingContents
<1>9. PICK w : w = [stream |-> key, cuts |-> {p \in cuts : p <= n}, ckpts |-> kept, boundary |-> n]
  OBVIOUS
<1>10. w \in ManRec
  <2>1. {p \in cuts : p <= n} \in Cuts
    BY DEF Cuts
  <2> QED
    BY <1>3, <1>5, <1>6, <1>9, <2>1 DEF ManRec
<1>11. manifests' = [manifests EXCEPT ![c] = w] /\ conv' = [conv EXCEPT ![c] = v]
  BY <1>1, <1>4, <1>6, <1>7, <1>9 DEF Commit
<1>12. conv \in [Conv -> ConvRec \cup {None}] /\ manifests \in [Conv -> ManRec \cup {None}]
  BY DEF Typed
<1> QED
  BY <1>8, <1>10, <1>11, <1>12

LEMMA CutsAfterAre ==
  ASSUME Typed, NEW c \in Conv, conv[c] \in ConvRec, NEW t \in Streams, NEW b \in 0..Len(t)
  PROVE  CutsAfter(c, b, t) \in Cuts
<1>1. Len(t) \in 0..MaxSteps /\ b \in 0..MaxSteps
  BY StreamIs, BoundAssumption
<1>2. conv[c].cuts \in Cuts
  BY ConvIs
<1>3. CutAt(conv[c].cuts, b) \in Cuts
  BY <1>1, <1>2, CutAtIs
<1>4. {p \in CutAt(conv[c].cuts, b) : p < Len(t)} \in Cuts
  BY <1>3 DEF Cuts
<1>5. CutAt({p \in CutAt(conv[c].cuts, b) : p < Len(t)}, Len(t)) \in Cuts
  BY <1>1, <1>4, CutAtIs
<1> QED
  BY <1>5 DEF CutsAfter

LEMMA FinishStep ==
  ASSUME Typed, NEW b \in 0..MaxSteps, NEW t \in Streams, Finish(b, t)
  PROVE  Typed' /\ Settles
<1>1. run # None /\ IsPrefix(run.prompt, t) /\ (b # 0 => b <= Len(run.prompt))
  BY DEF Finish
<1>2. PICK c \in Conv : c = run.conv
  BY <1>1, RunIs
<1>3. run.at \in Nat /\ conv[c] \in ConvRec /\ run.prompt \in Streams
  BY <1>1, <1>2, RunIs
<1>4. Len(t) \in Nat /\ Len(t) \in 0..Len(t) /\ Len(t) \in 0..MaxSteps /\ MaxSteps \in Nat
  BY StreamIs, BoundAssumption
<1>5. b \in 0..Len(t)
  <2>1. Len(run.prompt) <= Len(t) /\ Len(run.prompt) \in Nat
    BY <1>1, <1>3, PrefixOfIs, StreamIs
  <2> QED
    BY <1>1, <1>4, <2>1
<1>6. ring \in Rings /\ memory \in Memories /\ units \in SUBSET Streams
  BY DEF Typed
<1>7. PICK r \in Rings : r = WrittenPast(ring, t, run.at, Len(t))
  BY <1>3, <1>4, <1>6, WrittenIs
<1>8. PICK cuts : cuts = CutsAfter(c, b, t)
  OBVIOUS
<1>9. cuts \in Cuts
  BY <1>3, <1>5, <1>8, CutsAfterAre
<1>10. PICK mem : mem = Materialized(b, t, r)
  OBVIOUS
<1>11. mem \in Memories /\ ClosedBut(mem, DOMAIN memory.at, Tip(mem.order))
  BY <1>5, <1>6, <1>10, MaterializedIs
<1>12. /\ ring' = r /\ memory' = mem /\ units' = units \cup PrefixesUpTo(t, Len(t))
       /\ \/ Commit(c, t, cuts, mem)
          \/ /\ conv' = [conv EXCEPT ![c].tokens = t, ![c].cuts = cuts]
             /\ UNCHANGED manifests
       /\ run' = None /\ UNCHANGED <<owner, events>>
  BY <1>2, <1>7, <1>8, <1>10 DEF Finish
<1>13. conv' \in [Conv -> ConvRec \cup {None}] /\ manifests' \in [Conv -> ManRec \cup {None}]
  <2>1. CASE Commit(c, t, cuts, mem)
    BY <1>3, <1>9, <1>11, <2>1, CommitIs
  <2>2. CASE /\ conv' = [conv EXCEPT ![c].tokens = t, ![c].cuts = cuts]
             /\ UNCHANGED manifests
    <3>1. conv \in [Conv -> ConvRec \cup {None}] /\ manifests \in [Conv -> ManRec \cup {None}]
      BY DEF Typed
    <3>2. PICK v : v = [conv[c] EXCEPT !.tokens = t, !.cuts = cuts]
      OBVIOUS
    <3>3. v \in ConvRec
      BY <1>3, <1>9, <3>2 DEF ConvRec, RingContents
    <3>4. conv' = [conv EXCEPT ![c] = v]
      BY <2>2, <3>1, <3>2
    <3> QED
      BY <2>2, <3>1, <3>3, <3>4
  <2> QED
    BY <1>12, <2>1, <2>2
<1>14. units' \in SUBSET Streams
  BY <1>4, <1>6, <1>12, PrefixesAre
<1>15. Settles
  BY <1>11, <1>12 DEF Settles
<1> QED
  BY <1>7, <1>11, <1>12, <1>13, <1>14, <1>15 DEF Typed

LEMMA AbandonStep ==
  ASSUME Typed, Abandon
  PROVE  Typed' /\ Settles
<1>1. /\ run # None /\ run' = None /\ UNCHANGED <<memory, owner, manifests>>
      /\ conv' = [conv EXCEPT ![run.conv] = None]
      /\ units' = units \cap HeldBy(Conv \ {run.conv})
  BY DEF Abandon
<1>2. PICK n \in run.at..Len(run.prompt) : ring' = WrittenPast(ring, run.prompt, run.at, n)
  BY DEF Abandon
<1>3. /\ run.at \in Nat /\ run.prompt \in Streams /\ run.at \in 0..Len(run.prompt)
  BY <1>1, RunIs
<1>4. n \in 0..Len(run.prompt)
  <2>1. Len(run.prompt) \in Nat
    BY <1>3, StreamIs
  <2> QED
    BY <1>2, <1>3, <2>1
<1>5. ring' \in Rings
  <2>1. ring \in Rings
    BY DEF Typed
  <2> QED
    BY <1>2, <1>3, <1>4, <2>1, WrittenIs
<1>6. conv' \in [Conv -> ConvRec \cup {None}] /\ units' \in SUBSET Streams
  BY <1>1 DEF Typed
<1> QED
  BY <1>1, <1>5, <1>6, Unchanged DEF Typed

LEMMA DropStep ==
  ASSUME Typed, NEW c \in Conv, Drop(c)
  PROVE  Typed' /\ Settles
<1>1. /\ run = None /\ conv' = [conv EXCEPT ![c] = None]
      /\ units' = units \cap HeldBy(Conv \ {c})
      /\ memory' = memory \/ memory' = KeptOf(memory, ReachedBy(Conv \ {c}))
      /\ UNCHANGED <<ring, owner, run, manifests>>
  BY DEF Drop
<1>2. memory \in Memories
  BY DEF Typed
<1>3. PICK S : S = ReachedBy(Conv \ {c})
  OBVIOUS
<1>4. memory' \in Memories /\ Settles
  <2>1. CASE memory' = memory
    BY <2>1, Unchanged
  <2>2. CASE memory' = KeptOf(memory, S)
    <3>1. /\ memory' \in Memories /\ DOMAIN memory'.at = DOMAIN memory.at \cap S
          /\ \A k \in DOMAIN memory.at \cap S : memory'.at[k] = memory.at[k]
      BY <1>2, <2>2, KeptOfIs
    <3>2. \A k \in S : memory.at[k].prev \in DOMAIN memory.at => memory.at[k].prev \in S
      BY <1>2, <1>3, ReachedCloses
    <3>3. Closed(memory', DOMAIN memory.at)
      <4> SUFFICES ASSUME NEW k \in DOMAIN memory'.at, memory'.at[k].prev \in DOMAIN memory.at
                   PROVE  memory'.at[k].prev \in DOMAIN memory'.at
        BY DEF Closed
      <4>1. k \in S /\ memory'.at[k] = memory.at[k]
        BY <3>1
      <4>2. memory.at[k].prev \in S
        BY <3>2, <4>1
      <4> QED
        BY <3>1, <4>1, <4>2
    <3> QED
      BY <3>1, <3>3, StaysClosed
  <2> QED
    BY <1>1, <1>3, <2>1, <2>2
<1>5. conv' \in [Conv -> ConvRec \cup {None}] /\ units' \in SUBSET Streams
  BY <1>1 DEF Typed
<1> QED
  BY <1>1, <1>4, <1>5 DEF Typed

LEMMA EvictStep ==
  ASSUME Typed, EvictUnreferenced
  PROVE  Typed' /\ Settles
BY Unchanged DEF EvictUnreferenced, Typed

LEMMA RestartStep ==
  ASSUME Typed, Restart
  PROVE  Typed' /\ Settles
<1>1. ring' \in Rings
  BY DEF Restart, Rings, RingContents
<1>2. memory' \in Memories
  BY NothingRemembered DEF Restart
<1>3. Settles
  BY DEF Restart, NoMemory, Settles, ClosedBut
<1> QED
  BY <1>1, <1>2, <1>3 DEF Restart, Typed

(* Every step keeps the type of the state and breaks no chain.              *)
LEMMA NextSteps == ASSUME Typed, [Next]_vars PROVE Typed' /\ Settles
<1>1. ASSUME NEW c \in Conv, NEW s \in Streams, Continue(c, s) PROVE Typed' /\ Settles
  BY <1>1, ContinueStep
<1>2. ASSUME NEW c \in Conv, NEW s \in Streams, Switch(c, s) PROVE Typed' /\ Settles
  BY <1>2, SwitchStep
<1>3. ASSUME NEW b \in 1..MaxSteps, PassBranch(b) PROVE Typed' /\ Settles
  BY <1>3, PassBranchStep
<1>4. ASSUME NEW b \in 0..MaxSteps, NEW t \in Streams, Finish(b, t) PROVE Typed' /\ Settles
  BY <1>4, FinishStep
<1>5. CASE Abandon
  BY <1>5, AbandonStep
<1>6. CASE EvictUnreferenced
  BY <1>6, EvictStep
<1>7. CASE Restart
  BY <1>7, RestartStep
<1>8. ASSUME NEW c \in Conv, Drop(c) PROVE Typed' /\ Settles
  BY <1>8, DropStep
<1>9. CASE UNCHANGED vars
  BY <1>9, Unchanged DEF Typed, vars
<1> QED
  BY <1>1, <1>2, <1>3, <1>4, <1>5, <1>6, <1>7, <1>8, <1>9 DEF Next

-----------------------------------------------------------------------------
(* What the invariant gives.                                                *)
LEMMA OrderCounts ==
  ASSUME NEW m \in Memories
  PROVE  Len(m.order) = Cardinality(DOMAIN m.at)
<1>1. PICK o \in Seq(Streams) : o = m.order
  BY MemoryIs
<1>2. DOMAIN m.at = Elements(o) /\ Apart(o)
  BY <1>1, MemoryIs
<1>3. PICK n \in Nat : n = Len(o)
  BY <1>1
<1>4. PICK f : f = [i \in 1..n |-> o[i]]
  OBVIOUS
<1>5. f \in Bijection(1..n, Elements(o))
  BY <1>2, <1>3, <1>4 DEF Bijection, Injection, IsInjective, Surjection, Elements, Apart
<1>6. ExistsBijection(1..n, Elements(o))
  BY <1>5 DEF ExistsBijection
<1>7. Cardinality(Elements(o)) = n
  BY <1>6, FS_CountingElements
<1> QED
  BY <1>1, <1>2, <1>3, <1>7

LEMMA TypedIsTypeOK == ASSUME Typed PROVE TypeOK
<1>1. memory \in Memories
  BY DEF Typed
<1>2. /\ memory.at \in [DOMAIN memory.at -> Entry] /\ DOMAIN memory.at \in SUBSET Streams
      /\ memory.order \in Seq(Streams) /\ DOMAIN memory.at = Elements(memory.order)
      /\ Entered(memory)
  BY <1>1, MemoryIs
<1>3. \A c \in Conv : conv[c] # None =>
        /\ conv[c].tokens \in Streams \cup {<<>>}
        /\ conv[c].cuts \subseteq 1..MaxSteps /\ conv[c].committed \in 0..MaxSteps
  <2> SUFFICES ASSUME NEW c \in Conv, conv[c] # None
               PROVE  /\ conv[c].tokens \in Streams \cup {<<>>}
                      /\ conv[c].cuts \subseteq 1..MaxSteps /\ conv[c].committed \in 0..MaxSteps
    OBVIOUS
  <2>1. conv[c] \in ConvRec
    BY DEF Typed
  <2> QED
    BY <2>1, ConvIs DEF RingContents, Cuts
<1>4. DOMAIN memory.at = {memory.order[i] : i \in DOMAIN memory.order}
  <2>1. DOMAIN memory.order = 1..Len(memory.order)
    BY <1>2
  <2> QED
    BY <1>2, <2>1 DEF Elements
<1>5. Len(memory.order) = Cardinality(DOMAIN memory.at)
  BY <1>1, OrderCounts
<1>6. ASSUME NEW k \in DOMAIN memory.at
      PROVE  LET e == memory.at[k]
             IN  /\ k \in Streams /\ e.delta.boundary = Len(k) /\ e.turn \in BOOLEAN
                 /\ e.prev \in (Streams \ {k}) \cup {None}
                 /\ e.delta.from \in 0..Len(k) - 1
  <2>1. PICK e \in Entry : e = memory.at[k]
    BY <1>2
  <2>2. k \in Streams /\ Len(k) \in Nat
    BY <1>2, StreamIs
  <2>3. e.delta.boundary = Len(k) /\ (e.prev \in Streams => Len(e.prev) < Len(k))
    BY <1>2, <2>1 DEF Entered, Under
  <2>4. e.delta \in Link /\ e.prev \in Streams \cup {None} /\ e.turn \in BOOLEAN
    BY DEF Entry
  <2>5. e.delta.from \in Nat /\ e.delta.from < e.delta.boundary
    BY <2>4 DEF Link
  <2>6. e.prev \in (Streams \ {k}) \cup {None}
    BY <2>2, <2>3, <2>4
  <2> QED
    BY <2>1, <2>2, <2>3, <2>4, <2>5, <2>6
<1>7. \A c \in Conv : manifests[c] # None => manifests[c].boundary = Len(manifests[c].stream)
  BY ManIs DEF Typed
<1>8. units \subseteq Streams /\ ring \in [0..RingSteps - 1 -> Streams \cup {<<>>}]
      /\ owner \in Conv \cup {None}
  BY DEF Typed, Rings, RingContents
<1> QED
  BY <1>3, <1>4, <1>5, <1>6, <1>7, <1>8 DEF TypeOK

LEMMA TypedAssembles == ASSUME Typed PROVE AcceptedAssembles
<1> SUFFICES ASSUME NEW c \in Conv, manifests[c] # None, ~Nested(manifests[c].ckpts),
                    NEW p \in Usable(manifests[c], manifests[c].stream, 0)
             PROVE  Assembles(LinksUpTo(manifests[c], p))
  BY DEF AcceptedAssembles
<1>1. PICK m \in ManRec : m = manifests[c]
  BY DEF Typed
<1>2. PICK K \in KeptSets : K = m.ckpts
  BY ManIs
<1>3. m.stream \in Streams /\ p \in Usable(m, m.stream, 0)
  BY <1>1, ManIs
<1>4. p \in Boundaries(K) /\ p \in Nat /\ Reaches(K, p)
  BY <1>2, <1>3, UsableIs
<1>5. Assembles(LinksOf(Older(K, p)))
  BY <1>1, <1>2, <1>4, ReachedAssembles
<1> QED
  BY <1>1, <1>2, <1>5, LinksUpToIs

LEMMA SettlesStays == ASSUME Typed, Typed', Settles PROVE AncestorsStay
<1> SUFFICES ASSUME NEW k \in DOMAIN memory.at \cap DOMAIN memory'.at,
                    memory'.at[k] = memory.at[k], k # Last(memory'.order),
                    memory.at[k].prev \in DOMAIN memory.at
             PROVE  memory.at[k].prev \in DOMAIN memory'.at
  BY DEF AncestorsStay
<1>1. Last(memory'.order) = Tip(memory'.order)
  BY DEF Last, Tip
<1> QED
  BY <1>1 DEF Settles, ClosedBut

-----------------------------------------------------------------------------
(* What a commit still names.                                               *)
LEMMA CutsEnd ==
  ASSUME Typed, NEW c \in Conv, conv[c] \in ConvRec, NEW t \in Streams, NEW b \in 0..Len(t)
  PROVE  \A p \in CutsAfter(c, b, t) : p <= Len(t)
<1>1. Len(t) \in Nat /\ MaxSteps \in Nat
  BY StreamIs, BoundAssumption
<1>2. CutsAfter(c, b, t) \in SUBSET (1..MaxSteps)
  BY CutsAfterAre DEF Cuts
<1>3. \A p \in CutsAfter(c, b, t) : p < Len(t) \/ p = Len(t)
  BY DEF CutsAfter, CutAt
<1> QED
  BY <1>1, <1>2, <1>3

LEMMA CommitKeeps ==
  ASSUME Typed, NEW c \in Conv, conv[c] \in ConvRec, NEW t \in Streams, NEW cuts \in Cuts,
         \A p \in cuts : p <= Len(t),
         memory' \in Memories, Commit(c, t, cuts, memory')
  PROVE  TurnsStay
<1>1. PICK m \in Memories : m = memory'
  OBVIOUS
<1>2. PICK key \in DOMAIN m.at : key = Resumable(m, t, Len(t)) /\ key \in Streams /\ IsPrefix(key, t)
  BY <1>1, ResumableIs DEF Commit
<1>3. PICK disk \in KeptSets : disk = conv[c].disk
  BY ConvIs
<1>4. PICK a \in Names : a = Gathering(m, key, disk, cuts)
  BY GatheringIs
<1>5. PICK K \in KeptSets : K = {x \in a.kept : x.delta.boundary <= Len(t) /\ x.delta.boundary \in cuts}
  <2>1. a.kept \in KeptSets
    BY DEF Names
  <2> QED
    BY <2>1, SomeKept
<1>6. Named(m, key, disk, cuts, Len(t)) = CapCkpts(K)
  BY <1>4, <1>5 DEF Named, Gathering
<1>7. PICK new : new = CapCkpts(K)
  OBVIOUS
<1>8. /\ \A d \in Conv : d # c => manifests'[d] = manifests[d]
      /\ manifests'[c].ckpts = new
      /\ conv'[c].tokens = t /\ conv'[c].cuts = cuts
  <2>1. conv \in [Conv -> ConvRec \cup {None}] /\ manifests \in [Conv -> ManRec \cup {None}]
    BY DEF Typed
  <2>2. /\ manifests' = [manifests EXCEPT ![c] =
              [stream |-> key, cuts |-> {p \in cuts : p <= Len(key)}, ckpts |-> new,
               boundary |-> Len(key)]]
        /\ conv' = [conv EXCEPT ![c] = [tokens |-> t, cuts |-> cuts, disk |-> new,
                                        committed |-> Len(key)]]
    BY <1>1, <1>2, <1>3, <1>6, <1>7 DEF Commit
  <2> QED
    BY <2>1, <2>2
<1>9. PICK old : old = {q \in CutStill(c) : ~Displaced(m, t, q)}
  OBVIOUS
<1>10. old \in SUBSET disk /\ \A q \in old : q.delta.boundary \in cuts /\ ~Displaced(m, t, q)
  BY <1>3, <1>8, <1>9 DEF CutStill
<1>11. old \in KeptSets
  BY <1>10, SomeKept
<1>12. Covers(K, old)
  <2> SUFFICES ASSUME NEW q \in old
               PROVE  \E k \in K : /\ k.delta.boundary = q.delta.boundary
                                   /\ k.delta.from <= q.delta.from
                                   /\ k = q \/ k.turn
    BY DEF Covers
  <2>1. q \in disk /\ q.delta.boundary \in cuts /\ q.delta.boundary <= Len(t) /\ ~Displaced(m, t, q)
    BY <1>10
  <2>2. PICK k \in a.kept : InPlaceOf(m, key, k, q)
    BY <1>4, <2>1, GatheringReplaces DEF Replaces
  <2>3. k.delta.boundary = q.delta.boundary /\ k \in K
    BY <1>5, <2>1, <2>2 DEF InPlaceOf
  <2>4. CASE k = q
    BY <2>3, <2>4, KeptIs
  <2>5. CASE k.delta.from < q.delta.from /\ Instead(m, key, k)
    <3>1. PICK n \in 1..Len(key) : n = k.delta.boundary
      BY <2>5 DEF Instead
    <3>2. PICK j \in DOMAIN m.at : j = Prefix(key, n) /\ k = [delta |-> m.at[j].delta, turn |-> m.at[j].turn]
      BY <2>5, <3>1 DEF Instead
    <3>3. j = Prefix(t, q.delta.boundary)
      <4>1. key = Prefix(t, Len(key)) /\ Len(key) \in 1..Len(t)
        BY <1>2, PrefixOfIs, StreamIs
      <4>2. Prefix(Prefix(t, Len(key)), n) = Prefix(t, n)
        BY <3>1, <4>1, PrefixOfPrefix
      <4> QED
        BY <2>3, <3>1, <3>2, <4>1, <4>2
    <3>4. m.at[j].delta.from < q.delta.from /\ k.turn = m.at[j].turn
      BY <2>5, <3>2
    <3>5. k.turn
      BY <2>1, <3>2, <3>3, <3>4 DEF Displaced
    <3>6. k.delta.from <= q.delta.from
      BY <2>1, <2>3, <2>5, KeptIs
    <3> QED
      BY <2>3, <3>5, <3>6
  <2> QED
    BY <2>2, <2>4, <2>5 DEF InPlaceOf
<1>13. TurnsStayOf(c, old)
  <2> SUFFICES ASSUME NEW q \in Roots(WithOld(new, old)), Reaches(WithOld(new, old), q.delta.boundary)
               PROVE  q \in new /\ Reaches(new, q.delta.boundary)
    BY <1>8 DEF TurnsStayOf, WithOld
  <2> QED
    BY <1>7, <1>11, <1>12, CapKeeps
<1>14. old = {q \in CutStill(c) : ~Displaced(memory', conv'[c].tokens, q)}
  BY <1>1, <1>8, <1>9
<1> QED
  BY <1>8, <1>13, <1>14 DEF TurnsStay

LEMMA StillNamed == ASSUME UNCHANGED manifests PROVE TurnsStay
BY DEF TurnsStay

LEMMA FinishKeeps ==
  ASSUME Typed, NEW b \in 0..MaxSteps, NEW t \in Streams, Finish(b, t)
  PROVE  TurnsStay
<1>1. Typed' /\ memory' \in Memories
  BY FinishStep DEF Typed
<1>2. PICK c \in Conv : run # None /\ c = run.conv
  BY RunIs DEF Finish
<1>3. conv[c] \in ConvRec /\ b \in Nat /\ b \in 0..Len(t)
  <2>1. MaxSteps \in Nat /\ Len(t) \in Nat
    BY BoundAssumption, StreamIs
  <2>2. run.prompt \in Streams /\ conv[c] \in ConvRec
    BY <1>2, RunIs
  <2>3. Len(run.prompt) <= Len(t) /\ Len(run.prompt) \in Nat
    BY <2>2, PrefixOfIs, StreamIs DEF Finish
  <2>4. b # 0 => b <= Len(run.prompt)
    BY DEF Finish
  <2> QED
    BY <2>1, <2>2, <2>3, <2>4
<1>4. PICK cuts : cuts = CutsAfter(c, b, t)
  OBVIOUS
<1>5. \A p \in cuts : p <= Len(t)
  BY <1>3, <1>4, CutsEnd
<1>6. Commit(c, t, cuts, memory') \/ UNCHANGED manifests
  BY <1>2, <1>4 DEF Finish
<1>7. cuts \in Cuts
  BY <1>3, <1>4, CutsAfterAre
<1>8. CASE Commit(c, t, cuts, memory')
  BY <1>1, <1>3, <1>5, <1>7, <1>8, CommitKeeps
<1> QED
  BY <1>6, <1>8, StillNamed

LEMMA NextKeeps == ASSUME Typed, [Next]_vars PROVE TurnsStay
<1>1. ASSUME NEW c \in Conv, NEW s \in Streams, Continue(c, s) PROVE TurnsStay
  BY <1>1, StillNamed DEF Continue, Begins
<1>2. ASSUME NEW c \in Conv, NEW s \in Streams, Switch(c, s) PROVE TurnsStay
  BY <1>2, StillNamed DEF Switch, Begins
<1>3. ASSUME NEW b \in 0..MaxSteps, NEW t \in Streams, Finish(b, t) PROVE TurnsStay
  BY <1>3, FinishKeeps
<1>4. CASE (\E b \in 1..MaxSteps : PassBranch(b)) \/ Abandon \/ EvictUnreferenced \/ Restart
           \/ (\E c \in Conv : Drop(c)) \/ UNCHANGED vars
  BY <1>4, StillNamed DEF PassBranch, Abandon, EvictUnreferenced, Restart, Drop, vars
<1> QED
  BY <1>1, <1>2, <1>3, <1>4 DEF Next

-----------------------------------------------------------------------------
(* The theorems.                                                            *)

(* The type invariant: the books of the checkpoints in memory agree (the    *)
(* order holds every entry once, an entry's link ends where its prefix ends *)
(* and chains from another), whatever begin, the branch point, the end of a *)
(* turn, a restore, a trim and a restart do.                                *)
THEOREM TypeCorrect == Spec => []TypeOK
<1>1. Init => Typed
  BY InitTyped
<1>2. Typed /\ [Next]_vars => Typed'
  BY NextSteps
<1>3. Typed => TypeOK
  BY TypedIsTypeOK
<1> QED
  BY <1>1, <1>2, <1>3, PTL DEF Spec

(* The lookup accepts a boundary by arithmetic on what the manifest names   *)
(* and assemble_chain reads the links afterwards.  Unless a named link lies *)
(* inside a newer one, what is accepted assembles: the two need the same    *)
(* after every link, until the one sees a hole the other does not get past. *)
THEOREM AcceptedAreWhole == Spec => []AcceptedAssembles
<1>1. Init => Typed
  BY InitTyped
<1>2. Typed /\ [Next]_vars => Typed'
  BY NextSteps
<1>3. Typed => AcceptedAssembles
  BY TypedAssembles
<1> QED
  BY <1>1, <1>2, <1>3, PTL DEF Spec

(* No step takes from memory what an entry that stays chains from: not the  *)
(* cap of remember_delta, a restore, the trim of another conversation or    *)
(* the write-through.  Only the entry that step itself made may lose the one*)
(* it was captured against.                                                 *)
THEOREM AncestorsStand == Spec => [][AncestorsStay]_vars
<1>1. Init => Typed
  BY InitTyped
<1>2. Typed /\ [Next]_vars => Typed' /\ Settles
  BY NextSteps
<1>3. Typed /\ Typed' /\ Settles => AncestorsStay
  BY SettlesStays
<1> QED
  BY <1>1, <1>2, <1>3, PTL DEF Spec

(* A commit keeps every turn it could go back to, down to the cap, and the  *)
(* tip, with everything their windows read through (commit_to_disk,         *)
(* cap_ckpts): only a checkpoint in memory that reaches lower at the same   *)
(* boundary, and is not a turn's, takes the place of one.                   *)
THEOREM TurnsKeptAlways == Spec => TurnsKept
<1>1. Init => Typed
  BY InitTyped
<1>2. Typed /\ [Next]_vars => Typed' /\ TurnsStay /\ AncestorsStay
  BY NextSteps, NextKeeps, SettlesStays
<1>3. Typed /\ [Next]_vars => Typed'
  BY <1>2
<1>4. Typed /\ [Next]_vars => [TurnsStay /\ AncestorsStay]_vars
  BY <1>2
<1> QED
  BY <1>1, <1>3, <1>4, PTL DEF Spec, TurnsKept
=============================================================================
