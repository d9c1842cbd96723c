----------------------------- MODULE LowestFree -----------------------------
(***************************************************************************)
(* What a block allocator promises (the head comment of                    *)
(* imparo-kv/src/alloc.rs): the block handed out is a pure function of     *)
(* which blocks are in use, never of the order in which they were freed.   *)
(* The state is the set of blocks in use, the number withheld, and the     *)
(* last answer given; nothing else may influence an answer.                *)
(***************************************************************************)
EXTENDS Integers, FiniteSets

(* BlockAllocator, which instantiates this, assumes what these may be.      *)
CONSTANTS Capacity,  \* blocks in the tier
          NoBlock    \* the answer None

VARIABLES used,      \* blocks in use
          withheld,  \* blocks counted as used and never handed out
          answer     \* what the last alloc returned

vars == <<used, withheld, answer>>

Block == 0..(Capacity - 1)

TypeOK ==
  /\ used \subseteq Block
  /\ withheld \in 0..Capacity
  /\ answer \in Block \cup {NoBlock}

Init == used = {} /\ withheld = 0 /\ answer = NoBlock

Full == Cardinality(used) + withheld >= Capacity

(* b is the lowest block that is not in use. *)
IsLowestFree(b) == b \in Block \ used /\ \A c \in Block \ used : b <= c

Alloc ==
  /\ ~Full
  /\ \E b \in Block : IsLowestFree(b) /\ used' = used \cup {b} /\ answer' = b
  /\ UNCHANGED withheld

Refuse == Full /\ answer' = NoBlock /\ UNCHANGED <<used, withheld>>

Free(b) == b \in used /\ used' = used \ {b} /\ UNCHANGED <<withheld, answer>>

Withhold(n) ==
  /\ Cardinality(used) + n <= Capacity
  /\ withheld' = n
  /\ UNCHANGED <<used, answer>>

Next ==
  \/ Alloc
  \/ Refuse
  \/ \E b \in Block : Free(b)
  \/ \E n \in 0..Capacity : Withhold(n)

Spec == Init /\ [][Next]_vars
=============================================================================
