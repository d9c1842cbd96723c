------------------------------- MODULE KvPool -------------------------------
(***************************************************************************)
(* imparo-kv/src/pool.rs over ResidentKv, as imparo-server drives it: the  *)
(* conversations of the resident pool, the slots they occupy, the block    *)
(* tables the device reads and writes through, and what the device's pages *)
(* then hold.                                                              *)
(*                                                                         *)
(* The engine lock admits one operation at a time.  An operation that may  *)
(* fail half way, or that loops, is a sequence of steps of `eng`; the rows *)
(* of running requests are forwarded between two operations.  A stream is  *)
(* counted in whole pages and always ends inside the next one.  Disk is    *)
(* the set of units written through: DiskTier is about how they get there. *)
(***************************************************************************)
EXTENDS ResidentKv

CONSTANTS NoConv,       \* an empty slot
          Slots,        \* number of slots
          SlotPages,    \* blocks the state of a slot but the first is charged
          Explicit,     \* ExplicitHostTransfers, or Shared memory
          Retained,     \* context_blocks: what a switch leaves resident
          Fallible,     \* the backend and disk operations that may fail
          Replay,       \* prompts may bring back pages another stream sealed
          MaxRequests,  \* bound: requests
          MaxCold       \* bound: requests served cold after their begin failed

ASSUME NoConvAssumption == NoConv \notin Conv
ASSUME SlotsAssumption == Slots \in Nat \ {0}
ASSUME ExplicitAssumption == Explicit \in BOOLEAN /\ Replay \in BOOLEAN
ASSUME RetainedAssumption == Retained \in Nat /\ SlotPages \in Nat
ASSUME FallibleAssumption ==
  Fallible \subseteq {"commit", "write", "restore", "spill", "demote", "promote"}

VARIABLES
  known,     \* conversations with a ConvState
  spoken,    \* those whose last turn ended (tokens is not empty)
  text,      \* tokens of the last turn: its stream
  sealed,    \* sealed_units
  tail,      \* blocks beyond the sealed ones, in order
  recent,    \* conversations by recency of use, newest last
  occupant,  \* the conversation whose state a slot holds
  cur,       \* the selected slot
  charged,   \* slots other than the first holding their buffers
  running,   \* conversations with a request running, pinned
  seat,      \* the slot a running request decodes in
  work,      \* the stream a running request has the tokens of
  pos,       \* how many pages of it are written
  room,      \* the pages it was told its blocks cover
  table,     \* the block table applied in each slot
  page,      \* what the device's blocks hold: a unit's rows, or nothing known
  hostPage,  \* what the host's allocations hold
  stored,    \* units on disk
  eng,       \* what the holder of the lock is doing
  failed,    \* history variable: some begin has failed
  cold, requests

convVars == <<known, spoken, text, sealed, tail>>
slotVars == <<occupant, cur, charged, withheld>>
rowVars == <<running, seat, work, pos, room, table>>
deviceVars == <<page, hostPage>>
ctlVars == <<failed, cold, requests>>
vars == <<indexVars, lru, used, hosts, convVars, recent, slotVars, rowVars, deviceVars,
          stored, eng, ctlVars>>

Slot == 0..(Slots - 1)
Unknown == <<>>  \* rows that are no unit's

(* then: what the steps of `at` are part of.  out, plan: blocks and moves   *)
(* prepared and not yet installed.  drop: conversations whose tails follow. *)
(* beside: admitted by fit, other requests running.                         *)
Free == [at |-> "free", conv |-> NoConv, prompt |-> <<>>, slot |-> 0, then |-> "none",
         beside |-> FALSE, resume |-> 0, need |-> 0, out |-> <<>>, plan |-> {},
         todo |-> {}, drop |-> {}]

Init ==
  /\ InitResident
  /\ known = {} /\ spoken = {} /\ text = [c \in Conv |-> <<>>] /\ sealed = [c \in Conv |-> 0]
  /\ tail = [c \in Conv |-> <<>>] /\ recent = <<>>
  /\ occupant = [s \in Slot |-> NoConv] /\ cur = 0 /\ charged = {}
  /\ running = {} /\ seat = [c \in Conv |-> 0]
  /\ work = [c \in Conv |-> <<>>] /\ pos = [c \in Conv |-> 0] /\ room = [c \in Conv |-> 0]
  /\ table = [s \in Slot |-> <<>>]
  /\ page = [b \in Block |-> Unknown] /\ hostPage = [k \in Handle |-> Unknown]
  /\ stored = {} /\ eng = Free
  /\ failed = FALSE /\ cold = 0 /\ requests = 0

-----------------------------------------------------------------------------
At(stage) == eng.at = stage
GoTo(stage) == eng' = [eng EXCEPT !.at = stage]
active == occupant[cur]

(* held_labels: running, or waiting in a slot that is not the selected one. *)
Held == running \cup ({occupant[s] : s \in Slot \ {cur}} \ {NoConv})

(* An operation that failed: a begin, or the growth of a running row. *)
Fail(blocks) ==
  /\ eng' = [Free EXCEPT !.at = IF eng.then = "grow" THEN "abandon" ELSE "cold",
                         !.conv = eng.conv, !.prompt = eng.prompt]
  /\ failed' = (failed \/ eng.then # "grow")
  /\ used' = used \ blocks
  /\ UNCHANGED <<cold, requests>>

TailsOf(cs) == UNION {Elems(tail[c]) : c \in cs}

(* The records of these conversations go. *)
Drop(cs) ==
  /\ known' = known \ cs
  /\ spoken' = spoken \ cs
  /\ text' = [c \in Conv |-> IF c \in cs THEN <<>> ELSE text[c]]
  /\ sealed' = [c \in Conv |-> IF c \in cs THEN 0 ELSE sealed[c]]
  /\ tail' = [c \in Conv |-> IF c \in cs THEN <<>> ELSE tail[c]]
  /\ recent' = Without(recent, cs)

(* Leaving the slots as they are.                                          *)
VacateNone(cs) == occupant' = occupant

(* vacate_everywhere (a pin goes with its request: Stop). *)
Vacate(cs) ==
  occupant' = [s \in Slot |-> IF occupant[s] \in cs THEN NoConv ELSE occupant[s]]

(* forget, forget_shared, and the conversation drop_lru_conversation takes: *)
(* tails, references, unreferenced units and records.                       *)
Leave(cs) ==
  /\ Forget(cs, TailsOf(cs))
  /\ Drop(cs)
  /\ Vacate(cs)

-----------------------------------------------------------------------------
(* A request for c is admitted and gets a slot (choose_slot): its own, else *)
(* the selected one, else an empty one, else an idle one.                   *)
Lowest(S) == CHOOSE s \in S : \A t \in S : s <= t

Chosen(c) ==
  LET own == {s \in Slot : occupant[s] = c}
      empty == {s \in Slot : occupant[s] = NoConv}
      idle == {s \in Slot : occupant[s] \notin running}
  IN  CASE own # {} -> own
        [] own = {} /\ cur \in idle -> {cur}
        [] own = {} /\ cur \notin idle /\ empty # {} -> {Lowest(empty)}
        [] own = {} /\ cur \notin idle /\ empty = {} /\ idle # {} -> {Lowest(idle)}
        [] OTHER -> {}

Beyond(m, n) == IF m > n THEN m - n ELSE 0
Lesser(m, n) == IF m < n THEN m ELSE n

(* The pages a request is given at first: its prompt's and the next one.    *)
Upper(p) == Len(p) + 1

(* One request of a label runs at a time. *)
Begin(c, p) ==
  /\ eng = Free /\ requests < MaxRequests /\ requests' = requests + 1
  /\ c \notin running
  /\ \E s \in Chosen(c) :
       eng' = [Free EXCEPT !.at = "charge", !.conv = c, !.prompt = p, !.slot = s]
  /\ UNCHANGED <<indexVars, lru, used, hosts, convVars, recent, slotVars, rowVars,
                 deviceVars, stored, failed, cold>>

(* charge_slot: the blocks that slots' own state takes are withheld.        *)
Wanted == (Cardinality(charged) + 1) * SlotPages
NothingToCharge == eng.slot = 0 \/ SlotPages = 0 \/ eng.slot \in charged

ChargeSlot ==
  /\ At("charge")
  /\ IF NothingToCharge
     THEN UNCHANGED <<charged, withheld>>
     ELSE /\ CanWithhold(Wanted)
          /\ withheld' = Wanted
          /\ charged' = charged \cup {eng.slot}
  /\ cur' = eng.slot
  /\ GoTo("admit")
  /\ UNCHANGED <<indexVars, lru, used, hosts, convVars, recent, occupant, rowVars,
                 deviceVars, stored, ctlVars>>

(* The loops of charge_slot and alloc_units ask for room in the same order: *)
(* what nobody names, and then the conversation used least recently.        *)
RoomWanted ==
  \/ At("charge") /\ ~NothingToCharge /\ ~CanWithhold(Wanted)
  \/ At("alloc") /\ eng.need > 0 /\ Full

EvictUnreferenced ==
  /\ RoomWanted /\ Evictable(ref) # {}
  /\ Evict(ref, {})
  /\ UNCHANGED <<ref, list, lru, convVars, recent, slotVars, rowVars, deviceVars, stored,
                 eng, ctlVars>>

Spare == {eng.conv} \cup Held

Droppable == Elems(lru) \ Spare

DropLru ==
  /\ RoomWanted /\ Evictable(ref) = {} /\ (At("charge") \/ ~Explicit)
  /\ \E i \in DOMAIN lru :
       /\ lru[i] \in Droppable
       /\ \A j \in 1..(i - 1) : lru[j] \notin Droppable
       /\ Leave({lru[i]})
  /\ UNCHANGED <<cur, charged, withheld, rowVars, deviceVars, stored, eng,
                 ctlVars>>

(* No room for the slot's state: the request waits, nothing of it has run.  *)
DoNotCharge ==
  /\ At("charge") /\ RoomWanted /\ Evictable(ref) = {} /\ Droppable = {}
  /\ eng' = Free
  /\ UNCHANGED <<indexVars, lru, used, hosts, convVars, recent, slotVars, rowVars,
                 deviceVars, stored, ctlVars>>

(* Leaving the tails of held conversations out.                            *)
ObtainableBesideUnits ==
  LET blocks == BlocksOf(UNION {Elems(list[c]) : c \in Held})
  IN  Capacity - Cardinality(blocks) - withheld

(* obtainable_units: capacity less the pages of the held conversations.     *)
Obtainable ==
  LET blocks == BlocksOf(UNION {Elems(list[c]) : c \in Held}) \cup TailsOf(Held)
  IN  Capacity - Cardinality(blocks) - withheld

(* Beside running rows: a page more for each of them, or the request waits. *)
Admit ==
  /\ At("admit")
  /\ eng' = IF running = {} THEN [eng EXCEPT !.at = "switch"]
            ELSE IF Obtainable >= Upper(eng.prompt) + Cardinality(running)
                 THEN [eng EXCEPT !.at = "switch", !.beside = TRUE]
                 ELSE Free
  /\ UNCHANGED <<indexVars, lru, used, hosts, convVars, recent, slotVars, rowVars,
                 deviceVars, stored, ctlVars>>

-----------------------------------------------------------------------------
(* release_idle, when another conversation takes the slot: what leaves.     *)
UnitsOf(cs) == UNION {Elems(list[c]) : c \in cs}

Kept ==
  LET keep == {eng.conv} \cup Held
      others == Without(recent, keep)
      newest(m) == {others[i] : i \in (Len(others) - m + 1)..Len(others)}
      cost(m) == Cardinality(UnitsOf(newest(m)) \ Matched(eng.prompt))
                   + Cardinality(TailsOf(newest(m)))
      fits == {m \in 0..Len(others) : m = 0 \/ cost(m) + Upper(eng.prompt) <= Retained}
  IN  keep \cup newest(CHOOSE m \in fits : \A n \in fits : n <= m)

Leaving == IF active \in {NoConv, eng.conv} THEN {} ELSE known \ Kept

(* switch_out writes through what a failed commit left unwritten.           *)
SwitchOut ==
  stored' = IF active \in known \ {eng.conv}
            THEN stored \cup Elems(Chain(text[active], 0, Len(text[active]))) ELSE stored

SwitchShared ==
  /\ At("switch") /\ ~Explicit
  /\ SwitchOut
  /\ IF Leaving = {} THEN UNCHANGED <<indexVars, lru, used, hosts, convVars, recent, occupant>>
     ELSE Leave(Leaving)
  /\ GoTo("enter")
  /\ UNCHANGED <<cur, charged, withheld, rowVars, deviceVars, ctlVars>>

Exclusive == UnitsOf(Leaving) \ (UnitsOf(Kept) \cup Matched(eng.prompt))

(* With host transfers their units go to the host, all but those the kept   *)
(* conversations and the prompt can use; the request for room counts the    *)
(* ones that are there already.                                             *)
SwitchExplicit ==
  /\ At("switch") /\ Explicit
  /\ SwitchOut
  /\ eng' = IF Leaving = {} THEN [eng EXCEPT !.at = "enter"]
            ELSE [eng EXCEPT !.at = "hostroom", !.then = "switch", !.drop = Leaving,
                   !.todo = Exclusive]
  /\ UNCHANGED <<indexVars, lru, used, hosts, convVars, recent, slotVars, rowVars,
                 deviceVars, ctlVars>>

-----------------------------------------------------------------------------
(* make_host_room_with *)
HostRoom == Cardinality(hosts) + Cardinality(eng.todo) <= HostCap

Roomy ==
  /\ At("hostroom") /\ HostRoom
  /\ GoTo("demote")
  /\ UNCHANGED <<indexVars, lru, used, hosts, convVars, recent, slotVars, rowVars,
                 deviceVars, stored, ctlVars>>

IdleLabel(c) == c \notin {eng.conv, active} \cup Held

First(cs) == CHOOSE i \in DOMAIN recent :
               recent[i] \in cs /\ \A j \in 1..(i - 1) : recent[j] \notin cs

Spillable == {c \in Elems(recent) : IdleLabel(c) /\ \E u \in Elems(list[c]) : OnHost(u)}

(* Taking a unit the conversation names for the unit it alone names.       *)
NoLastCopies(c) == {}

LastCopies(c) == {u \in Elems(list[c]) : OnHost(u) /\ ref[u] = 1}

(* evict_oldest_host_to_disk_with: the conversation used least recently     *)
(* that has units on the host leaves, once the last copies are durable.     *)
EvictHostToDisk ==
  /\ At("hostroom") /\ ~HostRoom /\ Spillable # {}
  /\ LET c == recent[First(Spillable)]
     IN  /\ stored' = stored \cup LastCopies(c)
         /\ Leave({c})
  /\ UNCHANGED <<cur, charged, withheld, rowVars, deviceVars, eng, ctlVars>>

(* Nothing to evict, or it could not be made durable.  The blocks alloc_units *)
(* had taken for this request are not handed back.                          *)
NoHostRoom ==
  /\ At("hostroom") /\ ~HostRoom
  /\ Spillable = {} \/ "spill" \in Fallible
  /\ Fail({})
  /\ UNCHANGED <<indexVars, lru, hosts, convVars, recent, slotVars, rowVars, deviceVars,
                 stored>>

(* demote_units_with: a handle for each unit still on the device, *)
PrepareDemote ==
  /\ At("demote")
  /\ \E u \in eng.todo :
       IF OnDevice(u)
       THEN /\ hosts' = hosts \cup {FreeHandle}
            /\ eng' = [eng EXCEPT !.todo = @ \ {u}, !.plan = @ \cup {<<u, FreeHandle>>}]
       ELSE /\ eng' = [eng EXCEPT !.todo = @ \ {u}]
            /\ UNCHANGED hosts
  /\ UNCHANGED <<indexVars, lru, used, convVars, recent, slotVars, rowVars, deviceVars,
                 stored, ctlVars>>

Moved(u) == \E m \in eng.plan : m[1] = u
Target(u) == (CHOOSE m \in eng.plan : m[1] = u)[2]
Targets == {m[2] : m \in eng.plan}

(* Committing the move without the copy.                                   *)
CopiedNothing == hostPage

CopiedToHost ==
  [k \in Handle |-> IF k \in Targets
                    THEN page[place[(CHOOSE m \in eng.plan : m[2] = k)[1]][2]] ELSE hostPage[k]]

(* one copy of them all, then the commits, and the tails of the             *)
(* conversations that leave;                                                *)
Demote ==
  /\ At("demote") /\ eng.todo = {}
  /\ hostPage' = CopiedToHost
  /\ place' = [u \in Unit |-> IF Moved(u) THEN Host(Target(u)) ELSE place[u]]
  /\ used' = used \ (BlocksOf({m[1] : m \in eng.plan}) \cup TailsOf(eng.drop))
  /\ tail' = [c \in Conv |-> IF c \in eng.drop THEN <<>> ELSE tail[c]]
  /\ occupant' = [occupant EXCEPT ![cur] = IF @ \in eng.drop THEN NoConv ELSE @]
  /\ eng' = [eng EXCEPT !.at = IF eng.then = "switch" THEN "sweep" ELSE "alloc",
                        !.plan = {}, !.drop = {}]
  /\ UNCHANGED <<indexed, ref, list, lru, hosts, known, spoken, text, sealed, recent, cur,
                 charged, withheld, rowVars, page, stored, ctlVars>>

(* Losing the handles taken for the copy.                                  *)
HandlesKept == hosts

HandlesBack == hosts \ Targets

(* or the copy fails and the handles go back.                               *)
DemoteFails ==
  /\ At("demote") /\ eng.todo = {} /\ eng.plan # {} /\ "demote" \in Fallible
  /\ hosts' = HandlesBack
  /\ Fail({})
  /\ UNCHANGED <<indexVars, lru, convVars, recent, slotVars, rowVars, deviceVars, stored>>

Sweep ==
  /\ At("sweep")
  /\ Evict(ref, {})
  /\ GoTo("enter")
  /\ UNCHANGED <<ref, list, lru, convVars, recent, slotVars, rowVars, deviceVars, stored,
                 ctlVars>>

-----------------------------------------------------------------------------
(* begin_to.  Pure append to the conversation in the slot: the tail grows,  *)
(* then the prompt is probed and the tables are applied.  With Replay the   *)
(* prompt may match more units than the conversation has sealed.            *)
EnterFast ==
  /\ At("enter") /\ eng.conv = active /\ eng.conv \in spoken
  /\ IsPrefix(text[eng.conv], eng.prompt)
  /\ Replay \/ Hits(eng.prompt) <= sealed[eng.conv]
  /\ eng' = [eng EXCEPT !.at = "alloc", !.then = "fast", !.resume = Len(text[eng.conv]),
               !.need = Beyond(Upper(eng.prompt), sealed[eng.conv] + Len(tail[eng.conv]))]
  /\ recent' = Touch(recent, eng.conv)
  /\ UNCHANGED <<indexVars, lru, used, hosts, convVars, slotVars, rowVars, deviceVars, stored,
                 ctlVars>>

(* Any other prompt, and an append that differs inside the last page or     *)
(* whose recurrent state is not at hand.                                    *)
EnterGeneral ==
  /\ At("enter")
  /\ eng' = [eng EXCEPT !.at = "probe", !.then = "choose"]
  /\ recent' = Touch(recent, eng.conv)
  /\ UNCHANGED <<indexVars, lru, used, hosts, convVars, slotVars, rowVars, deviceVars, stored,
                 ctlVars>>

(* probe: the conversation's list becomes the units the prompt matches, *)
HostHits == {u \in Matched(eng.prompt) : OnHost(u)}

Probe ==
  /\ At("probe") /\ HostHits = {}
  /\ Adopt(eng.conv, Chain(eng.prompt, 0, Hits(eng.prompt)))
  /\ lru' = Touch(lru, eng.conv)
  /\ GoTo(eng.then)
  /\ UNCHANGED <<indexed, place, used, hosts, convVars, recent, slotVars, rowVars, deviceVars,
                 stored, ctlVars>>

(* after those on the host have each reserved a block, *)
Reserved == {m[2] : m \in eng.plan}
Unreserved == {u \in HostHits : ~Moved(u)}

PreparePromote ==
  /\ At("probe") /\ ~Full
  /\ \E u \in Unreserved : eng' = [eng EXCEPT !.plan = @ \cup {<<u, LowestFree>>}]
  /\ used' = used \cup {LowestFree}
  /\ UNCHANGED <<indexVars, lru, hosts, convVars, recent, slotVars, rowVars, deviceVars,
                 stored, ctlVars>>

(* been copied, and given their handles back.                               *)
Promote ==
  /\ At("probe") /\ HostHits # {} /\ Unreserved = {}
  /\ page' = [b \in Block |->
       IF b \in Reserved
       THEN hostPage[place[(CHOOSE m \in eng.plan : m[2] = b)[1]][2]] ELSE page[b]]
  /\ place' = [u \in Unit |-> IF Moved(u) THEN Device(Target(u)) ELSE place[u]]
  /\ hosts' = hosts \ HandlesOf(HostHits)
  /\ eng' = [eng EXCEPT !.plan = {}]
  /\ UNCHANGED <<indexed, ref, list, lru, used, convVars, recent, slotVars, rowVars, hostPage,
                 stored, ctlVars>>

(* No block for one of them, or the copy fails: the reservations go back.   *)
PromoteFails ==
  /\ At("probe") /\ HostHits # {}
  /\ \/ Unreserved # {} /\ Full
     \/ Unreserved = {} /\ "promote" \in Fallible
  /\ Fail(Reserved)
  /\ UNCHANGED <<indexVars, lru, hosts, convVars, recent, slotVars, rowVars, deviceVars,
                 stored>>

-----------------------------------------------------------------------------
(* The conversation's own tail is freed, and it stands on the deepest       *)
(* resident checkpoint the prompt reproduces (k pages, 0 without one).      *)
ReplaceTail ==
  /\ used' = used \ Elems(tail[eng.conv])
  /\ tail' = [tail EXCEPT ![eng.conv] = <<>>]

(* Standing below what was adopted without cutting the list.               *)
Uncut(k) == list[eng.conv]

Below(k) == Prefix(list[eng.conv], k)

StandOnResident ==
  /\ At("choose")
  /\ ReplaceTail
  /\ \E k \in 0..Len(list[eng.conv]) :
       /\ Adopt(eng.conv, Below(k))
       /\ eng' = [eng EXCEPT !.at = "alloc", !.then = "tail", !.resume = k,
                             !.need = Upper(eng.prompt) - k]
  /\ lru' = Touch(lru, eng.conv)
  /\ UNCHANGED <<indexed, place, hosts, known, spoken, text, sealed, recent, slotVars, rowVars,
                 deviceVars, stored, ctlVars>>

(* Or on d pages the disk holds, adopting what of them is resident.         *)
StandOnDisk ==
  /\ At("choose")
  /\ ReplaceTail
  /\ \E d \in 1..Len(eng.prompt) :
       LET hit == Lesser(d, Len(list[eng.conv]))
       IN  /\ Elems(Chain(eng.prompt, 0, d)) \subseteq stored
           /\ Adopt(eng.conv, Below(hit))
           /\ eng' = [eng EXCEPT !.at = "alloc", !.then = "fresh", !.resume = d,
                                 !.need = d - hit]
  /\ lru' = Touch(lru, eng.conv)
  /\ UNCHANGED <<indexed, place, hosts, known, spoken, text, sealed, recent, slotVars, rowVars,
                 deviceVars, stored, ctlVars>>

(* alloc_units: one block a step, *)
AllocOne ==
  /\ At("alloc") /\ eng.need > 0 /\ ~Full
  /\ eng' = [eng EXCEPT !.need = @ - 1, !.out = Append(@, LowestFree)]
  /\ used' = used \cup {LowestFree}
  /\ UNCHANGED <<indexVars, lru, hosts, convVars, recent, slotVars, rowVars, deviceVars,
                 stored, ctlVars>>

(* demote_idle_for_allocation: the idle conversation used least recently    *)
(* that has units of its own on the device, or only a tail;                 *)
Movable(c) == {u \in Elems(list[c]) : OnDevice(u)} \ UnitsOf(Held \cup {eng.conv})

(* Turning to an idle conversation that has nothing to give.               *)
DemotableAny == {c \in Elems(recent) : IdleLabel(c)}

Demotable == {c \in Elems(recent) : IdleLabel(c) /\ (Movable(c) # {} \/ tail[c] # <<>>)}

DemoteIdle ==
  /\ At("alloc") /\ RoomWanted /\ Explicit /\ Evictable(ref) = {} /\ Demotable # {}
  /\ LET c == recent[First(Demotable)]
     IN  IF Movable(c) = {}
         THEN /\ used' = used \ Elems(tail[c])
              /\ tail' = [tail EXCEPT ![c] = <<>>]
              /\ UNCHANGED eng
         ELSE /\ eng' = [eng EXCEPT !.at = "hostroom", !.todo = Movable(c), !.drop = {c}]
              /\ UNCHANGED <<used, tail>>
  /\ UNCHANGED <<indexVars, lru, hosts, known, spoken, text, sealed, recent, slotVars, rowVars,
                 deviceVars, stored, ctlVars>>

(* or there is nothing to give up, and what was taken goes back.            *)
Exhausted ==
  /\ At("alloc") /\ RoomWanted /\ Evictable(ref) = {}
  /\ IF Explicit THEN Demotable = {} ELSE Droppable = {}
  /\ Fail(Elems(eng.out))
  /\ UNCHANGED <<indexVars, lru, hosts, convVars, recent, slotVars, rowVars, deviceVars,
                 stored>>

Allocated(for) == At("alloc") /\ eng.need = 0 /\ eng.then = for

(* The device cannot commit the storage.  The append keeps its blocks.      *)
CommitFails ==
  /\ At("alloc") /\ eng.need = 0 /\ "commit" \in Fallible
  /\ IF eng.then = "fast"
     THEN /\ eng.out # <<>>
          /\ tail' = [tail EXCEPT ![eng.conv] = @ \o eng.out]
          /\ Fail({})
     ELSE /\ Fail(Elems(eng.out))
          /\ UNCHANGED tail
  /\ UNCHANGED <<indexVars, lru, hosts, known, spoken, text, sealed, recent, slotVars, rowVars,
                 deviceVars, stored>>

FastAllocated ==
  /\ Allocated("fast")
  /\ tail' = [tail EXCEPT ![eng.conv] = @ \o eng.out]
  /\ eng' = [eng EXCEPT !.at = "probe", !.then = "tables", !.out = <<>>]
  /\ UNCHANGED <<indexVars, lru, used, hosts, known, spoken, text, sealed, recent, slotVars,
                 rowVars, deviceVars, stored, ctlVars>>

(* The rows come from the disk into the blocks, which are sealed.           *)
FreshRead ==
  LET first == eng.resume - Len(eng.out)
      names(b) == {i \in DOMAIN eng.out : eng.out[i] = b}
  IN  /\ Allocated("fresh")
      /\ page' = [b \in Block |->
           IF names(b) = {} THEN page[b]
           ELSE Prefix(eng.prompt, first + (CHOOSE i \in names(b) : TRUE))]
      /\ Seal(eng.conv, eng.prompt, first, eng.out)
      /\ used' = used \ Duplicates(eng.prompt, first, eng.out)
      /\ eng' = [eng EXCEPT !.then = "tail", !.need = Upper(eng.prompt) - eng.resume,
                            !.out = <<>>]
      /\ UNCHANGED <<lru, hosts, convVars, recent, slotVars, rowVars, hostPage, stored,
                     ctlVars>>

RestoreFails ==
  /\ Allocated("fresh") /\ "restore" \in Fallible
  /\ Fail(Elems(eng.out))
  /\ UNCHANGED <<indexVars, lru, hosts, convVars, recent, slotVars, rowVars, deviceVars,
                 stored>>

(* The tables are in place: the request may be served. *)
FastTables ==
  /\ At("tables")
  /\ table' = [table EXCEPT ![cur] = Table(eng.conv, tail[eng.conv])]
  /\ GoTo("headers")
  /\ UNCHANGED <<indexVars, lru, used, hosts, convVars, recent, slotVars, running, seat, work,
                 pos, room, deviceVars, stored, ctlVars>>

Install ==
  /\ Allocated("tail")
  /\ tail' = [tail EXCEPT ![eng.conv] = eng.out]
  /\ table' = [table EXCEPT ![cur] = Table(eng.conv, eng.out)]
  /\ known' = known \cup {eng.conv}
  /\ spoken' = spoken \ {eng.conv}
  /\ text' = [text EXCEPT ![eng.conv] = <<>>]
  /\ sealed' = [sealed EXCEPT ![eng.conv] = eng.resume]
  /\ occupant' = [occupant EXCEPT ![cur] = eng.conv]
  /\ eng' = [eng EXCEPT !.at = "headers", !.out = <<>>]
  /\ UNCHANGED <<indexVars, lru, used, hosts, recent, cur, charged, withheld, running, seat,
                 work, pos, room, deviceVars, stored, ctlVars>>

-----------------------------------------------------------------------------
(* Positions a conversation's blocks cover, in pages: PoolMode::room. *)
Covered(c) == Len(list[c]) + Len(tail[c])

(* chat_completions, after begin.  The request runs from page p on,         *)
Start(p) ==
  /\ running' = running \cup {eng.conv}
  /\ seat' = [seat EXCEPT ![eng.conv] = cur]
  /\ work' = [work EXCEPT ![eng.conv] = eng.prompt]
  /\ pos' = [pos EXCEPT ![eng.conv] = p]
  /\ room' = [room EXCEPT ![eng.conv] = Covered(eng.conv)]
  /\ eng' = Free

Serve ==
  /\ At("headers")
  /\ Start(eng.resume)
  /\ UNCHANGED <<indexVars, lru, used, hosts, convVars, recent, slotVars, table, deviceVars,
                 stored, ctlVars>>

(* a begin that failed being served from the first position, through the    *)
(* tables its slot has ("cold path");                                       *)
ServeCold ==
  /\ At("cold") /\ cold < MaxCold /\ cold' = cold + 1
  /\ Start(0)
  /\ UNCHANGED <<indexVars, lru, used, hosts, convVars, recent, slotVars, table, deviceVars,
                 stored, failed, requests>>

(* or its client is gone before the headers are out.                        *)
NotServed ==
  /\ At("headers") \/ At("cold")
  /\ eng' = Free
  /\ UNCHANGED <<indexVars, lru, used, hosts, convVars, recent, slotVars, rowVars, deviceVars,
                 stored, ctlVars>>

(* What a running request keeps beside the pool goes with it.               *)
Stop(c) ==
  /\ running' = running \ {c}
  /\ seat' = [seat EXCEPT ![c] = 0]
  /\ work' = [work EXCEPT ![c] = <<>>]
  /\ pos' = [pos EXCEPT ![c] = 0]
  /\ room' = [room EXCEPT ![c] = 0]

(* fail, abandon: forgotten rather than stored half made.                   *)
GrowthFailed ==
  /\ At("abandon")
  /\ Leave({eng.conv}) /\ Stop(eng.conv)
  /\ eng' = Free
  /\ UNCHANGED <<cur, charged, withheld, table, deviceVars, stored, ctlVars>>

Abandon(c) ==
  /\ eng = Free /\ c \in running
  /\ cur' = seat[c]
  /\ Leave({c}) /\ Stop(c)
  /\ UNCHANGED <<charged, withheld, table, deviceVars, stored, eng, ctlVars>>

(* What the device's blocks hold after pages m+1..n of the stream, and the  *)
(* beginning of the page it ends in, are forwarded through table t.         *)
Forwarded(t, s, m, n) ==
  LET last == Lesser(Len(t), IF n = Len(s) THEN n + 1 ELSE n)
      at(b) == {i \in (m + 1)..last : t[i] = b}
      newest(b) == CHOOSE i \in at(b) : \A j \in at(b) : j <= i
  IN  [b \in Block |-> IF at(b) = {} THEN page[b]
                       ELSE IF newest(b) <= n THEN Prefix(s, newest(b)) ELSE Unknown]

(* Prefill, a chunk at a time between the other rows' steps. *)
Prefill(c) ==
  /\ eng = Free /\ c \in running
  /\ \E n \in pos[c]..Len(work[c]) :
       /\ n > pos[c] \/ n = Len(work[c])
       /\ page' = Forwarded(table[seat[c]], work[c], pos[c], n)
       /\ pos' = [pos EXCEPT ![c] = n]
  /\ cur' = seat[c]
  /\ UNCHANGED <<indexVars, lru, used, hosts, convVars, recent, occupant, charged, withheld,
                 running, seat, work, room, table, hostPage, stored, eng, ctlVars>>

Decode(c, x) ==
  /\ eng = Free /\ c \in running /\ pos[c] = Len(work[c]) /\ Len(work[c]) < MaxPages
  /\ pos[c] < room[c]
  /\ work' = [work EXCEPT ![c] = Append(@, x)]
  /\ page' = Forwarded(table[seat[c]], work'[c], pos[c], pos[c] + 1)
  /\ pos' = [pos EXCEPT ![c] = @ + 1]
  /\ cur' = seat[c]
  /\ UNCHANGED <<indexVars, lru, used, hosts, convVars, recent, occupant, charged, withheld,
                 running, seat, room, table, hostPage, stored, eng, ctlVars>>

(* grow_room: a page as the row reaches it; without a ConvState it fails.   *)
(* (With nothing obtainable beside other rows the row parks: not here.)     *)
Grow(c) ==
  /\ eng = Free /\ c \in running /\ pos[c] = Len(work[c]) /\ room[c] <= pos[c]
  /\ cur' = seat[c]
  /\ IF c \in known
     THEN /\ running = {c} \/ Obtainable > 0
          /\ eng' = [Free EXCEPT !.at = "alloc", !.then = "grow", !.conv = c,
                                 !.need = Beyond(pos[c] + 1, Covered(c))]
     ELSE eng' = [Free EXCEPT !.at = "abandon", !.conv = c]
  /\ UNCHANGED <<indexVars, lru, used, hosts, convVars, recent, occupant, charged, withheld,
                 rowVars, deviceVars, stored, ctlVars>>

Grown ==
  LET more == tail[eng.conv] \o eng.out
  IN  /\ Allocated("grow")
      /\ tail' = [tail EXCEPT ![eng.conv] = more]
      /\ table' = [table EXCEPT ![cur] = Table(eng.conv, more)]
      /\ room' = [room EXCEPT ![eng.conv] = Len(list[eng.conv]) + Len(more)]
      /\ eng' = Free
      /\ UNCHANGED <<indexVars, lru, used, hosts, known, spoken, text, sealed, recent, slotVars,
                     running, seat, work, pos, deviceVars, stored, ctlVars>>

-----------------------------------------------------------------------------
(* end_row: end seals the pages the turn filled and gives the spare blocks  *)
(* back, the turn is written through, and with other rows running its       *)
(* conversation leaves the slot.                                            *)
LeaveSlot(c, stays) ==
  /\ Stop(c)
  /\ cur' = seat[c]
  /\ occupant' = [occupant EXCEPT ![seat[c]] = IF running # {c} THEN NoConv ELSE stays]

New(c) == Beyond(Len(work[c]), sealed[c])

End(c) ==
  LET s == work[c]
      blocks == Prefix(tail[c], New(c))
      rest == SubSeq(tail[c], New(c) + 1, Len(tail[c]))
      keep == Lesser(Len(rest), Beyond(Len(s) + 1, sealed[c] + New(c)))
      spare == Elems(SubSeq(rest, keep + 1, Len(rest)))
  IN  /\ eng = Free /\ c \in running /\ c \in known
      /\ pos[c] = Len(s) /\ New(c) <= Len(tail[c])
      /\ Seal(c, s, sealed[c], blocks)
      /\ used' = used \ (Duplicates(s, sealed[c], blocks) \cup spare)
      /\ hosts' = hosts \ HandlesOf(Elems(Chain(s, sealed[c], Len(s))))
      /\ tail' = [tail EXCEPT ![c] = Prefix(rest, keep)]
      /\ sealed' = [sealed EXCEPT ![c] = @ + New(c)]
      /\ text' = [text EXCEPT ![c] = s]
      /\ spoken' = spoken \cup {c}
      /\ \/ stored' = stored \cup Elems(Chain(s, 0, Len(s)))
         \/ "write" \in Fallible /\ stored' = stored
      /\ LeaveSlot(c, c)
      /\ UNCHANGED <<lru, known, recent, charged, withheld, table, deviceVars, eng, ctlVars>>

(* "tail underflow at seal": the blocks popped so far are nobody's.         *)
EndUnderflows(c) ==
  /\ eng = Free /\ c \in running /\ c \in known
  /\ pos[c] = Len(work[c]) /\ New(c) > Len(tail[c])
  /\ sealed' = [sealed EXCEPT ![c] = @ + Len(tail[c])]
  /\ tail' = [tail EXCEPT ![c] = <<>>]
  /\ LeaveSlot(c, occupant[seat[c]])
  /\ UNCHANGED <<indexVars, lru, used, hosts, known, spoken, text, recent, charged, withheld,
                 table, deviceVars, stored, eng, ctlVars>>

(* A request served cold whose label the pool does not know leaves no trace *)
(* in it.                                                                   *)
EndUnknown(c) ==
  /\ eng = Free /\ c \in running /\ c \notin known
  /\ pos[c] = Len(work[c])
  /\ LeaveSlot(c, occupant[seat[c]])
  /\ UNCHANGED <<indexVars, lru, used, hosts, convVars, recent, charged, withheld, table,
                 deviceVars, stored, eng, ctlVars>>

-----------------------------------------------------------------------------
(* erase_conversations: not one a request is running for.                   *)
Erase(c) ==
  /\ eng = Free /\ c \in known \ running
  /\ Leave({c})
  /\ UNCHANGED <<cur, charged, withheld, rowVars, deviceVars, stored, eng,
                 ctlVars>>

(* kv_trimmer: the idle conversations leave (with host transfers they do    *)
(* not), and the slots nobody occupies give their buffers back.             *)
Trim ==
  /\ eng = Free
  /\ IF Explicit
     THEN UNCHANGED <<indexVars, lru, used, hosts, convVars, recent, occupant>>
     ELSE Leave(known \ Held)
  /\ charged' = {s \in charged : s = cur \/ occupant'[s] # NoConv}
  /\ withheld' = Cardinality(charged') * SlotPages
  /\ UNCHANGED <<cur, rowVars, deviceVars, stored, eng, ctlVars>>

MakingRoom ==
  \/ EvictUnreferenced \/ DropLru \/ EvictHostToDisk \/ NoHostRoom \/ Roomy
  \/ PrepareDemote \/ Demote \/ DemoteFails \/ DemoteIdle

Admitting == ChargeSlot \/ DoNotCharge \/ Admit

Beginning ==
  \/ SwitchShared \/ SwitchExplicit \/ Sweep
  \/ EnterFast \/ EnterGeneral
  \/ Probe \/ PreparePromote \/ Promote \/ PromoteFails
  \/ StandOnResident \/ StandOnDisk
  \/ AllocOne \/ Exhausted \/ CommitFails
  \/ FastAllocated \/ FreshRead \/ RestoreFails \/ FastTables \/ Install
  \/ Serve \/ ServeCold \/ NotServed

Engine == MakingRoom \/ Admitting \/ Beginning \/ Grown \/ GrowthFailed

Next ==
  \/ \E c \in Conv, p \in Stream : Begin(c, p)
  \/ Engine
  \/ \E c \in Conv : Prefill(c) \/ Grow(c)
  \/ \E c \in Conv : End(c) \/ EndUnderflows(c) \/ EndUnknown(c) \/ Abandon(c)
  \/ \E c \in Conv, x \in Page : Decode(c, x)
  \/ \E c \in Conv : Erase(c)
  \/ Trim

Spec == Init /\ [][Next]_vars

(* The thread that holds the engine lock goes on. *)
FairSpec == Spec /\ WF_vars(Engine)

-----------------------------------------------------------------------------
(* A table names a host handle only after a begin that failed.              *)
TypeOK ==
  /\ indexed \subseteq Unit /\ ref \in [Unit -> Nat] /\ place \in [Unit -> Placement]
  /\ \A c \in Conv : Elems(list[c]) \subseteq Unit /\ Elems(tail[c]) \subseteq Block
  /\ Elems(lru) \subseteq Conv /\ Elems(recent) \subseteq Conv
  /\ used \subseteq Block /\ hosts \subseteq Handle
  /\ withheld = Cardinality(charged) * SlotPages /\ Cardinality(used) + withheld <= Capacity
  /\ known \subseteq Conv /\ spoken \subseteq known /\ running \subseteq Conv
  /\ \A c \in Conv : text[c] \in Stream /\ work[c] \in Stream
                     /\ pos[c] \in 0..Len(work[c]) /\ sealed[c] \in 0..MaxPages
                     /\ room[c] \in Nat
  /\ occupant \in [Slot -> Conv \cup {NoConv}] /\ cur \in Slot /\ charged \subseteq Slot
  /\ \A s \in Slot : Elems(table[s]) \subseteq Block \cup Handle
  /\ \A b \in Block : page[b] \in Stream
  /\ \A k \in Handle : hostPage[k] \in Stream
  /\ stored \subseteq Unit

(* A block is a sealed unit's, a conversation's tail's, or has been taken   *)
(* for the request at hand; it is only one of them, and none is lost        *)
(* (rollback, release_unsealed and merge-on-seal on every path).            *)
TailPlaces == UNION {{c} \X DOMAIN tail[c] : c \in Conv}
Promised == IF At("probe") THEN Reserved ELSE {}

OwnedOnce ==
  /\ used = BlocksOf(indexed) \cup TailsOf(Conv) \cup Elems(eng.out) \cup Promised
  /\ Cardinality(used) = Cardinality({u \in indexed : OnDevice(u)}) + Cardinality(TailPlaces)
                           + Len(eng.out) + Cardinality(Promised)

(* A host handle is one unit's or part of a move being made: it is freed    *)
(* once, by whichever of promotion, merge-on-seal, eviction and rollback    *)
(* ends its use.  What FreshRead seals beyond the first miss is then not on *)
(* the host.  A begin that failed ends the promise: after one a list may    *)
(* lack a page, and a read seals a unit whose handle nobody releases        *)
(* (resident.rs: "The caller must release this backend handle"; begin_to    *)
(* drops it).                                                               *)
HandlesAlwaysOwned ==
  LET promised == IF At("demote") THEN Targets ELSE {}
  IN  /\ hosts = HandlesOf(indexed) \cup promised
      /\ Cardinality(hosts) = Cardinality({u \in indexed : OnHost(u)}) + Cardinality(promised)

HandlesOwned == ~failed => HandlesAlwaysOwned

(* The rows of every unit a prompt can match are that unit's rows, wherever *)
(* they lie (pool.rs: "sealed shared units must never be rewritten").  A    *)
(* begin that failed ends the promise: SealedRowsAlwaysTrue.                *)
SealedRowsAlwaysTrue ==
  \A u \in indexed : /\ OnDevice(u) => page[place[u][2]] = u
                     /\ OnHost(u) => hostPage[place[u][2]] = u

SealedRowsTrue == ~failed => SealedRowsAlwaysTrue

(* A running request reads and writes through the blocks its conversation   *)
(* holds now, in the order of its stream and all on the device, whatever    *)
(* evictions, moves and admissions ran between two of its steps.            *)
RunningTableExact ==
  ~failed => \A c \in running :
    /\ occupant[seat[c]] = c
    /\ list[c] = Chain(work[c], 0, sealed[c])
    /\ \A u \in Elems(list[c]) : OnDevice(u)
    /\ table[seat[c]] = Table(c, tail[c])

(* A slot's occupant is a conversation the pool still has, in one slot.     *)
OccupantsResident ==
  ~failed => \A s \in Slot : occupant[s] # NoConv =>
    /\ occupant[s] \in known
    /\ \A t \in Slot \ {s} : occupant[t] # occupant[s]

(* The slots stand: what a running request is applied from is what it has,  *)
(* and no slot is left to a conversation that is gone or sits elsewhere.    *)
SlotsStand == RunningTableExact /\ OccupantsResident

(* The rows stand, while units move between the device and the host: what a  *)
(* prompt can match and what a running request reads through is still true.  *)
RowsStand == SealedRowsTrue /\ RunningTableExact

(* A request admitted beside running rows never finds the pool exhausted    *)
(* (pool.rs: "Every other conversation's pages can be dropped").  A begin   *)
(* that failed ends the promise: a conversation may be left a longer list   *)
(* than it has sealed, and its next append counts what it has sealed.       *)
AdmittedFits ==
  ~failed /\ eng.beside /\ At("alloc") /\ RoomWanted =>
    Evictable(ref) # {} \/ IF Explicit THEN Demotable # {} ELSE Droppable # {}

(* Room on the host is made by giving up last copies only once the disk     *)
(* has them (evict_oldest_host_to_disk_with).  A request served cold ends   *)
(* the promise: its list may name a unit twice.                             *)
SpilledIsStored ==
  [][\A u \in Unit :
       cold = 0 /\ At("hostroom") /\ OnHost(u) /\ ref[u] > 0 /\ place'[u] = Nowhere
         => u \in stored']_vars

(* Every admission, begin and growth comes to an end: the loops that evict, *)
(* drop, demote and retry make progress.                                    *)
EngineIsAnswered == []<>(eng = Free)
=============================================================================
