------------------------ MODULE BlockAllocatorProofs ------------------------
(***************************************************************************)
(* Proofs about imparo-kv/src/alloc.rs for a tier of any size: the high    *)
(* water mark is tight, blocks in use and blocks withheld fit the tier     *)
(* together, and the allocator implements lowest-free-block.               *)
(***************************************************************************)
EXTENDS BlockAllocator, FiniteSetTheorems, TLAPS

-----------------------------------------------------------------------------
(* used() of alloc.rs, high - |holes|, is the number of blocks below the   *)
(* mark that are not holes.                                                *)
LEMMA CountBelowMark ==
  ASSUME NEW h \in Nat, NEW S, S \subseteq 0..(h - 1)
  PROVE  /\ IsFiniteSet(0..(h - 1) \ S)
         /\ Cardinality(S) \in Nat
         /\ Cardinality(0..(h - 1) \ S) = h - Cardinality(S)
<1>1. IsFiniteSet(0..(h - 1)) /\ Cardinality(0..(h - 1)) = h
  BY FS_Interval
<1>2. IsFiniteSet(S) /\ Cardinality(S) \in Nat
  BY <1>1, FS_Subset, FS_CardinalityType
<1>3. 0..(h - 1) \cap S = S
  OBVIOUS
<1>4. /\ IsFiniteSet(0..(h - 1) \ S)
      /\ Cardinality(0..(h - 1) \ S)
           = Cardinality(0..(h - 1)) - Cardinality(0..(h - 1) \cap S)
  BY <1>1, FS_Difference, Zenon
<1>5. QED
  BY <1>1, <1>2, <1>3, <1>4

(* The count the code reads is the size of the set in use.                 *)
LEMMA UsedIsInUse ==
  ASSUME TypeOK, HighWaterTight
  PROVE  /\ holes \subseteq 0..(high - 1)
         /\ IsFiniteSet(InUse)
         /\ Used = Cardinality(InUse)
         /\ Used \in Nat
<1>1. holes \subseteq 0..(high - 1) /\ high \in Nat
  BY CapacityAssumption DEF TypeOK, HighWaterTight, Block
<1>2. QED
  BY <1>1, CountBelowMark, FS_CardinalityType DEF Used, InUse

(* Filling the lowest hole puts that block, and no other, in use.          *)
LEMMA FromHoleStep ==
  ASSUME IInv, NEW b \in holes, FromHole(b)
  PROVE  /\ TypeOK /\ HighWaterTight => holes' \subseteq 0..(high' - 1)
         /\ InUse' = InUse \cup {b}
         /\ b \notin InUse
         /\ b \in Block
         /\ \A c \in Block \ InUse : b <= c
<1> USE CapacityAssumption
<1>1. b \in Block /\ b \in 0..(high - 1)
  BY DEF IInv, TypeOK, HighWaterTight, Block
<1>2. \A c \in Block \ InUse : b <= c
  BY <1>1 DEF IInv, TypeOK, HighWaterTight, Block, InUse, FromHole, Lowest
<1>3. QED
  BY <1>1, <1>2 DEF IInv, TypeOK, HighWaterTight, Block, InUse, FromHole, Lowest

(* With no hole the block at the mark is the lowest free one.              *)
LEMMA FromTopStep ==
  ASSUME IInv, FromTop
  PROVE  /\ holes' \subseteq 0..(high' - 1)
         /\ InUse' = InUse \cup {high}
         /\ high \notin InUse
         /\ high \in Block
         /\ \A c \in Block \ InUse : high <= c
BY CapacityAssumption DEF IInv, TypeOK, Block, InUse, FromTop

(* Freeing a block takes that block, and no other, out of use, whether the *)
(* mark walks down or a hole is left.                                      *)
LEMMA FreeStep ==
  ASSUME IInv, NEW b \in Block, Free(b)
  PROVE  /\ TypeOK' /\ HighWaterTight'
         /\ holes' \subseteq 0..(high' - 1)
         /\ InUse' = InUse \ {b}
         /\ b \in InUse
<1> USE CapacityAssumption
<1>1. b \in InUse
  BY DEF Free, InUse, IInv, TypeOK, Block
<1>2. CASE FreeTop(b)
  <2>1. PICK h \in 0..b : WalkDown(b, h) /\ high' = h /\ holes' = holes \ h..(b - 1)
    BY <1>2 DEF FreeTop
  <2>2. b + 1 = high /\ h \in 0..Capacity
    BY <1>2 DEF FreeTop, Block
  <2>3. h..(b - 1) \subseteq holes /\ (h = 0 \/ (h - 1) \notin holes)
    BY <2>1 DEF WalkDown
  <2>4. \A c \in holes' : c \in holes /\ c < h
    BY <2>1, <2>2 DEF IInv, TypeOK, HighWaterTight, Block
  <2>5. TypeOK'
    BY <2>1, <2>2, <2>4 DEF IInv, TypeOK, Free
  <2>6. HighWaterTight'
    <3>1. \A c \in holes' : c # h - 1
      BY <2>2, <2>3, <2>4 DEF IInv, TypeOK, Block
    <3>2. QED
      BY <2>1, <2>2, <2>4, <3>1 DEF HighWaterTight, IInv, TypeOK, Block
  <2>7. InUse' = InUse \ {b}
    BY <2>1, <2>2, <2>3 DEF InUse, IInv, TypeOK, Block
  <2>8. QED
    BY <1>1, <2>1, <2>4, <2>5, <2>6, <2>7 DEF IInv, TypeOK, Block
<1>3. CASE FreeBelow(b)
  BY <1>1, <1>3 DEF FreeBelow, Free, InUse, IInv, TypeOK, HighWaterTight, Block
<1>4. QED
  BY <1>2, <1>3 DEF Free

(* The count after a step that changes the set in use by one block.        *)
LEMMA UsedAfter ==
  ASSUME IInv, holes' \subseteq 0..(high' - 1), high' \in Nat,
         NEW b,
         \/ b \notin InUse /\ InUse' = InUse \cup {b}
         \/ b \in InUse /\ InUse' = InUse \ {b}
  PROVE  Used' = IF b \in InUse THEN Used - 1 ELSE Used + 1
<1>1. IsFiniteSet(InUse) /\ Used = Cardinality(InUse) /\ Used \in Nat
  BY UsedIsInUse DEF IInv
<1>2. Used' = Cardinality(InUse')
  BY CountBelowMark DEF Used, InUse
<1>3. CASE b \notin InUse /\ InUse' = InUse \cup {b}
  BY <1>1, <1>2, <1>3, FS_AddElement
<1>4. CASE b \in InUse /\ InUse' = InUse \ {b}
  BY <1>1, <1>2, <1>4, FS_RemoveElement
<1>5. QED
  BY <1>3, <1>4

-----------------------------------------------------------------------------
LEMMA InitIInv == Init => IInv
<1> SUFFICES ASSUME Init PROVE IInv
  OBVIOUS
<1>1. Cardinality({}) = 0
  BY FS_EmptySet
<1>2. QED
  BY <1>1, CapacityAssumption DEF Init, IInv, TypeOK, HighWaterTight, WithinCapacity, Used, Block

LEMMA NextIInv == IInv /\ [Next]_vars => IInv'
<1> SUFFICES ASSUME IInv, [Next]_vars PROVE IInv'
  OBVIOUS
<1> USE CapacityAssumption
<1>0. Used \in Nat /\ withheld \in Nat /\ Used + withheld <= Capacity
  BY UsedIsInUse DEF IInv, TypeOK, WithinCapacity
<1>1. ASSUME Alloc PROVE IInv'
  <2>1. Used + withheld < Capacity /\ withheld' = withheld
    BY <1>1 DEF Alloc
  <2>2. ASSUME FromTop PROVE IInv'
    <3>1. TypeOK' /\ HighWaterTight'
      BY <2>1, <2>2 DEF FromTop, IInv, TypeOK, HighWaterTight, Block
    <3>2. Used' = Used + 1
      BY <2>2, <3>1, FromTopStep, UsedAfter DEF TypeOK
    <3>3. QED
      BY <1>0, <2>1, <3>1, <3>2 DEF IInv, WithinCapacity
  <2>3. ASSUME NEW b \in holes, FromHole(b) PROVE IInv'
    <3>1. TypeOK' /\ HighWaterTight'
      BY <2>1, <2>3, FromHoleStep DEF FromHole, IInv, TypeOK, HighWaterTight
    <3>2. holes' \subseteq 0..(high' - 1) /\ high' \in Nat
      BY <2>3, FromHoleStep, <3>1 DEF IInv, TypeOK
    <3>3. Used' = Used + 1
      BY <2>3, <3>2, FromHoleStep, UsedAfter
    <3>4. QED
      BY <1>0, <2>1, <3>1, <3>3 DEF IInv, WithinCapacity
  <2>4. QED
    BY <1>1, <2>2, <2>3 DEF Alloc
<1>2. ASSUME Refuse PROVE IInv'
  BY <1>2 DEF Refuse, IInv, TypeOK, HighWaterTight, WithinCapacity, Used
<1>3. ASSUME NEW b \in Block, Free(b) PROVE IInv'
  <2>1. Used' = Used - 1
    BY <1>3, FreeStep, UsedAfter DEF TypeOK
  <2>2. withheld' = withheld
    BY <1>3 DEF Free
  <2>3. QED
    BY <1>0, <1>3, <2>1, <2>2, FreeStep DEF IInv, WithinCapacity
<1>4. ASSUME NEW n \in 0..Capacity, SetWithheld(n) PROVE IInv'
  BY <1>0, <1>4 DEF SetWithheld, IInv, TypeOK, HighWaterTight, WithinCapacity, Used
<1>5. CASE UNCHANGED vars
  BY <1>5 DEF vars, IInv, TypeOK, HighWaterTight, WithinCapacity, Used
<1>6. QED
  BY <1>1, <1>2, <1>3, <1>4, <1>5 DEF Next

LEMMA Inductive == Spec => []IInv
BY InitIInv, NextIInv, PTL DEF Spec

(* The variables of the allocator stay in their types, for every tier.     *)
THEOREM AllocatorTypes == Spec => []TypeOK
<1>1. IInv => TypeOK
  BY DEF IInv
<1>2. QED
  BY <1>1, Inductive, PTL

(* high_water() never covers a block above the topmost one in use, so what *)
(* the backend keeps committed for a layer ends at a block in use; and     *)
(* blocks in use and withheld for slot state never exceed the tier.        *)
THEOREM BooksAreTight == Spec => []BooksTight
<1>1. IInv => BooksTight
  BY DEF IInv, BooksTight
<1>2. QED
  BY <1>1, Inductive, PTL

-----------------------------------------------------------------------------
LEMMA InitRefines == Init => Abstract!Init
BY DEF Init, Abstract!Init, InUse

LEMMA StepRefines == IInv /\ [Next]_vars => [Abstract!Next]_(Abstract!vars)
<1> SUFFICES ASSUME IInv, [Next]_vars PROVE [Abstract!Next]_(Abstract!vars)
  OBVIOUS
<1> USE CapacityAssumption DEF Abstract!Block, Block
<1>0. Used = Cardinality(InUse) /\ Used \in Nat /\ holes \subseteq 0..(high - 1)
  BY UsedIsInUse DEF IInv
<1>count. Used = Abstract!Cardinality(InUse)
  BY <1>0 DEF Abstract!Cardinality, Cardinality
<1>1. ASSUME Alloc PROVE Abstract!Alloc
  <2>1. ~Abstract!Full /\ withheld' = withheld
    BY <1>0, <1>count, <1>1 DEF Alloc, Abstract!Full, IInv, TypeOK
  <2>2. ASSUME FromTop PROVE Abstract!Alloc
    BY <2>1, <2>2, FromTopStep DEF FromTop, Abstract!Alloc, Abstract!IsLowestFree
  <2>3. ASSUME NEW b \in holes, FromHole(b) PROVE Abstract!Alloc
    BY <2>1, <2>3, FromHoleStep DEF FromHole, Abstract!Alloc, Abstract!IsLowestFree
  <2>4. QED
    BY <1>1, <2>2, <2>3 DEF Alloc
<1>2. ASSUME Refuse PROVE Abstract!Refuse
  <2>1. InUse' = InUse /\ withheld' = withheld /\ answer' = NoBlock
    BY <1>2 DEF Refuse, InUse
  <2>2. CASE Used + withheld >= Capacity
    BY <1>count, <2>1, <2>2 DEF Abstract!Refuse, Abstract!Full
  <2>3. CASE holes = {} /\ high >= Capacity
    <3>1. Used = Capacity
      BY <2>3, FS_EmptySet DEF Used, IInv, TypeOK
    <3>2. QED
      BY <1>count, <2>1, <3>1 DEF Abstract!Refuse, Abstract!Full, IInv, TypeOK
  <2>4. QED
    BY <1>2, <2>2, <2>3 DEF Refuse
<1>3. ASSUME NEW b \in Block, Free(b) PROVE Abstract!Free(b)
  BY <1>3, FreeStep DEF Free, Abstract!Free
<1>4. ASSUME NEW n \in 0..Capacity, SetWithheld(n) PROVE Abstract!Withhold(n)
  BY <1>count, <1>4 DEF SetWithheld, Abstract!Withhold, InUse
<1>5. CASE UNCHANGED vars
  BY <1>5 DEF vars, Abstract!vars, InUse
<1>6. QED
  BY <1>1, <1>2, <1>3, <1>4, <1>5 DEF Next, Abstract!Next

(* The allocator implements lowest-free-block: which block alloc hands out *)
(* depends on the set in use and on nothing that happened before, and alloc *)
(* refuses exactly when the tier, less what is withheld, is in use.        *)
THEOREM AllocatorImplementsLowestFree == Spec => ImplementsLowestFree
<1>1. Spec => Abstract!Init /\ [][Abstract!Next]_(Abstract!vars)
  BY InitRefines, StepRefines, Inductive, PTL DEF Spec
<1>2. QED
  BY <1>1 DEF ImplementsLowestFree, Abstract!Spec
=============================================================================
