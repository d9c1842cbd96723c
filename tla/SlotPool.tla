------------------------------ MODULE SlotPool ------------------------------
(***************************************************************************)
(* The resident pool as the request scheduler sees it: how many pages each *)
(* conversation has, which slot it sits in, whether a request runs for it  *)
(* or is parked, and what can be dropped to make room (pool.rs, through    *)
(* sched.rs and main.rs).  Which page holds what, and prompts that share   *)
(* pages, are KvPool's; here a conversation's pages are its own.           *)
(***************************************************************************)
EXTENDS Integers, FiniteSets, FiniteSetsExt

CONSTANTS Conv,      \* conversation labels
          NoConv,    \* an empty slot
          Slots,     \* slots of the co-batch
          Capacity,  \* pages of the tier
          SlotPages  \* pages the state of a slot but the first is charged

ASSUME ConvAssumption == NoConv \notin Conv /\ IsFiniteSet(Conv)
ASSUME SlotsAssumption == Slots \in Nat \ {0}
ASSUME CapacityAssumption == Capacity \in Nat /\ SlotPages \in Nat

Slot == 0..(Slots - 1)

(* parked: the conversations is_running answers for though no slot has them. *)
(* filled: where the state in a slot's buffers stands.                       *)
Pool == [pages : [Conv -> 0..Capacity], occupant : [Slot -> Conv \cup {NoConv}],
         cur : Slot, pinned : SUBSET Conv, parked : SUBSET Conv, charged : SUBSET Slot,
         filled : [Slot -> Nat]]

EmptyPool == [pages |-> [c \in Conv |-> 0], occupant |-> [s \in Slot |-> NoConv], cur |-> 0,
              pinned |-> {}, parked |-> {}, charged |-> {}, filled |-> [s \in Slot |-> 0]]

Withheld(p) == Cardinality(p.charged) * SlotPages
PagesOf(p, cs) == MapThenSumSet(LAMBDA c : p.pages[c], cs)
Unused(p) == Capacity - PagesOf(p, Conv) - Withheld(p)

(* held_labels: running, or waiting in a slot that is not the selected one. *)
Held(p) == p.pinned \cup ({p.occupant[s] : s \in Slot \ {p.cur}} \ {NoConv})

(* obtainable_units *)
ObtainableOfTier(p) == Capacity - PagesOf(p, Held(p))

Obtainable(p) == Capacity - PagesOf(p, Held(p)) - Withheld(p)

IsRunning(p, c) == c \in p.pinned \cup p.parked
Select(p, s) == [p EXCEPT !.cur = s]
Pin(p, c) == [p EXCEPT !.pinned = @ \cup {c}]
Unpin(p, c) == [p EXCEPT !.pinned = @ \ {c}, !.parked = @ \ {c}]

(* forget, forget_shared, and what drop_lru_conversation takes: their pages *)
(* go and they occupy no slot (vacate_everywhere).                          *)
Forget(p, cs) ==
  [p EXCEPT !.pages = [c \in Conv |-> IF c \in cs THEN 0 ELSE @[c]],
            !.occupant = [s \in Slot |-> IF @[s] \in cs THEN NoConv ELSE @[s]],
            !.pinned = @ \ cs, !.parked = @ \ cs]

(* What an allocation for c may drop.                                       *)
Idle(p, c) == {d \in Conv : p.pages[d] > 0} \ (Held(p) \cup {c})

(* alloc_units, charge_slot: one idle conversation after the other goes     *)
(* until n pages are there; the empty set when they are not to be had.      *)
SufficesButOne(p, D, n) == Unused(Forget(p, D)) + 1 >= n

Suffices(p, D, n) == Unused(Forget(p, D)) >= n

MakeRoom(p, c, n) ==
  {Forget(p, D) : D \in {E \in SUBSET Idle(p, c) :
     /\ Suffices(p, E, n)
     /\ E # {} => ~Suffices(p, {}, n) /\ \E d \in E : ~Suffices(p, E \ {d}, n)}}

(* charge_slot: the pools in which the slot's state has its pages.          *)
Charge(p, s, c) ==
  IF s = 0 \/ SlotPages = 0 \/ s \in p.charged THEN {p}
  ELSE {[q EXCEPT !.charged = @ \cup {s}] : q \in MakeRoom(p, c, SlotPages)}

(* Refused, it has dropped what could go.                                   *)
Uncharged(p, c) == Forget(p, Idle(p, c))

(* choose_slot: its own, else the selected one when nothing runs there,     *)
(* else an empty one, else an idle one.                                     *)
LowestOf(S) == {s \in S : \A t \in S : s <= t}

OwnOrSelected(p, c) ==
  LET own == {s \in Slot : p.occupant[s] = c} IN IF own # {} THEN own ELSE {p.cur}

ChosenSlot(p, c) ==
  LET own == {s \in Slot : p.occupant[s] = c}
      empty == {s \in Slot : p.occupant[s] = NoConv}
      idle == {s \in Slot : p.occupant[s] = NoConv \/ ~IsRunning(p, p.occupant[s])}
  IN  IF own # {} THEN own
      ELSE IF p.cur \in idle THEN {p.cur}
      ELSE IF empty # {} THEN LowestOf(empty) ELSE LowestOf(idle)

(* begin_to, in the selected slot: c comes in with n pages.  Another        *)
(* conversation there leaves it, and the switch releases idle ones by a     *)
(* budget of their sizes (release_idle): any of them may go.                *)
Enter(p, c, n, filled) ==
  LET mine == Forget(p, {c})
      there == p.occupant[p.cur] = c \/ p.occupant[p.cur] = NoConv
      roomy == IF there THEN MakeRoom(mine, c, n)
               ELSE {q \in {Forget(mine, D) : D \in SUBSET Idle(mine, c)} : Unused(q) >= n}
  IN  {[q EXCEPT !.pages[c] = n, !.occupant[p.cur] = c, !.filled[p.cur] = filled]
        : q \in roomy}

(* grow_room, to n pages: of a conversation the pool has.                   *)
Grow(p, c, n) ==
  {[q EXCEPT !.pages[c] = n] : q \in IF p.pages[c] = 0 THEN {} ELSE MakeRoom(p, c, n - p.pages[c])}

(* end: what decode grew past the rows goes back, all but the page the next *)
(* position is in.                                                          *)
End(p, c, n) == [p EXCEPT !.pages[c] = IF @ > n + 1 THEN n + 1 ELSE @]

(* leave_slot *)
LeaveSlot(p) == [p EXCEPT !.occupant[p.cur] = NoConv]

(* park: ended as a turn is, unpinned, out of its slot.                     *)
Park(p, c, n) ==
  LET q == LeaveSlot(Unpin(End(p, c, n), c))
  IN  [q EXCEPT !.parked = @ \cup {c}]

(* abandon, in the selected slot *)
Abandon(p, c) == Forget([p EXCEPT !.filled[p.cur] = 0], {c})

(* kv_trimmer: what no request holds leaves, and then the slots nobody sits *)
(* in give their buffers back, all but the selected one.                    *)
Trim(p) ==
  LET q == Forget(p, Conv \ Held(p))
  IN  [q EXCEPT !.charged = {s \in @ : s = q.cur \/ q.occupant[s] # NoConv}]
=============================================================================
