--------------------------- MODULE BlockAllocator ---------------------------
(***************************************************************************)
(* imparo-kv/src/alloc.rs.  One layer's blocks.  The free set is kept as   *)
(* the holes below the high-water mark plus everything at or above it, so  *)
(* that its size follows the churn and not the tier.  The number of holes  *)
(* is read in every operation (used()), and the mark is walked down past   *)
(* the holes when the top block is freed.                                  *)
(***************************************************************************)
EXTENDS Integers, FiniteSets

CONSTANTS Capacity,   \* blocks in the tier
          NoBlock     \* alloc's None

ASSUME CapacityAssumption == Capacity \in Nat
ASSUME NoBlockAssumption == NoBlock \notin Int

VARIABLES holes,     \* free blocks below high
          high,      \* one past the highest allocated block
          withheld,  \* blocks held back for memory outside the tier's blocks
          answer     \* what the last alloc returned

vars == <<holes, high, withheld, answer>>

Block == 0..(Capacity - 1)

Init == holes = {} /\ high = 0 /\ withheld = 0 /\ answer = NoBlock

(* Blocks allocated now. *)
Used == high - Cardinality(holes)

Lowest(b, S) == b \in S /\ \A c \in S : b <= c

(* A free list used as a stack: whichever hole the last free left.         *)
FromAnyHole(b) ==
  /\ holes' = holes \ {b}
  /\ answer' = b
  /\ UNCHANGED high

(* alloc takes the lowest hole when there is one, *)
FromHole(b) ==
  /\ Lowest(b, holes)
  /\ holes' = holes \ {b}
  /\ answer' = b
  /\ UNCHANGED high

(* Off by one: the mark is returned after it moved. *)
FromTopAfterTheMark ==
  /\ holes = {}
  /\ high < Capacity
  /\ high' = high + 1
  /\ answer' = high'
  /\ UNCHANGED holes

(* and otherwise the block at the mark. *)
FromTop ==
  /\ holes = {}
  /\ high < Capacity
  /\ high' = high + 1
  /\ answer' = high
  /\ UNCHANGED holes

(* None: by the count, or, with no hole, because the mark is at the end. *)
Refuse ==
  /\ Used + withheld >= Capacity \/ (holes = {} /\ high >= Capacity)
  /\ answer' = NoBlock
  /\ UNCHANGED <<holes, high, withheld>>

Alloc ==
  /\ Used + withheld < Capacity
  /\ FromTop \/ \E b \in holes : FromHole(b)
  /\ UNCHANGED withheld

(* Without the loop: the mark only steps below the freed block. *)
NoWalk(b, h) == h = b

(* The while loop of free: from b down to the next block still in use. *)
WalkDown(b, h) ==
  /\ h \in 0..b
  /\ h..(b - 1) \subseteq holes
  /\ h = 0 \/ (h - 1) \notin holes

(* Only a block in use is ever freed: the asserts make the rest a panic. *)
FreeTop(b) ==
  /\ b + 1 = high
  /\ \E h \in 0..b : WalkDown(b, h) /\ high' = h /\ holes' = holes \ h..(b - 1)

FreeBelow(b) ==
  /\ b + 1 # high
  /\ holes' = holes \cup {b}
  /\ UNCHANGED high

Free(b) ==
  /\ b < high /\ b \notin holes
  /\ FreeTop(b) \/ FreeBelow(b)
  /\ UNCHANGED <<withheld, answer>>

(* False, and nothing changed, when the blocks in use leave fewer than n.  *)
SetWithheld(n) ==
  /\ Used + n <= Capacity
  /\ withheld' = n
  /\ UNCHANGED <<holes, high, answer>>

Next ==
  \/ Alloc
  \/ Refuse
  \/ \E b \in Block : Free(b)
  \/ \E n \in 0..Capacity : SetWithheld(n)

Spec == Init /\ [][Next]_vars
-----------------------------------------------------------------------------
TypeOK ==
  /\ holes \subseteq Block
  /\ high \in 0..Capacity
  /\ withheld \in 0..Capacity
  /\ answer \in Block \cup {NoBlock}

(* Every hole lies strictly below the topmost block in use, so high() is   *)
(* tight: the storage the backend keeps committed ends at a block in use   *)
(* (free's walk down, high_water's doc comment).                           *)
HighWaterTight == \A b \in holes : b + 1 < high

(* What is in use and what is withheld fit the tier together: set_withheld *)
(* and alloc each check the sum, in either order of calls.                 *)
WithinCapacity == Used + withheld <= Capacity

(* The books of the tier are tight: the mark covers no free block at its    *)
(* top, and in use and withheld together are no more than there is.        *)
BooksTight == HighWaterTight /\ WithinCapacity

IInv == TypeOK /\ HighWaterTight /\ WithinCapacity

(* The allocator implements lowest-free-block over the set it has in use,  *)
(* whatever the history of frees that shaped holes and high.               *)
InUse == 0..(high - 1) \ holes

Abstract == INSTANCE LowestFree WITH used <- InUse

ImplementsLowestFree == Abstract!Spec
=============================================================================
