----------------------------- MODULE ResidentKv -----------------------------
(***************************************************************************)
(* imparo-kv/src/index.rs and resident.rs: which units of content are      *)
(* resident, who refers to them, and where each of them lies.              *)
(*                                                                         *)
(* A stream is a sequence of pages and a unit is named by the whole prefix *)
(* that ends with it (unit_ids chains its hashes), so a unit's name is a   *)
(* sequence.  Every layer's allocator takes the same calls in the same     *)
(* order and holds the same blocks, so one stands for all; it hands out    *)
(* the lowest block not in use (BlockAllocator implements LowestFree).     *)
(* The advice the pool passes to the backend (lifecycle) is left out.      *)
(***************************************************************************)
EXTENDS Integers, Sequences, FiniteSets

CONSTANTS Conv,      \* conversation labels
          Page,      \* the contents a page of a stream may have
          MaxPages,  \* bound: pages of a stream
          Capacity,  \* device blocks
          HostCap    \* host allocations the fit allows, 0 on shared memory

ASSUME MaxPagesAssumption == MaxPages \in Nat \ {0}
ASSUME CapacityAssumption == Capacity \in Nat
ASSUME HostCapAssumption == HostCap \in Nat

VARIABLES
  indexed,   \* by_hash: the units a prompt can be matched against
  ref,       \* refcount of each unit
  place,     \* residency of each unit: device block, host handle, or none
  list,      \* the units of each conversation, in order
  lru,       \* conversations, least recently probed first
  used,      \* blocks allocated
  withheld,  \* blocks held back for the slots' own state
  hosts      \* host handles allocated

indexVars == <<indexed, ref, place, list>>

Unit == UNION {[1..n -> Page] : n \in 1..MaxPages}
Stream == Unit \cup {<<>>}
Block == 0..(Capacity - 1)
Handle == 1..HostCap

Device(b) == <<"device", b>>
Host(k) == <<"host", k>>
Nowhere == <<"none", 0>>
Placement == {Device(b) : b \in Block} \cup {Host(k) : k \in Handle} \cup {Nowhere}

OnDevice(u) == place[u][1] = "device"
OnHost(u) == place[u][1] = "host"
BlocksOf(S) == {place[u][2] : u \in {v \in S : OnDevice(v)}}
HandlesOf(S) == {place[u][2] : u \in {v \in S : OnHost(v)}}

Elems(s) == {s[i] : i \in DOMAIN s}
Prefix(s, n) == SubSeq(s, 1, n)
IsPrefix(s, t) == Len(s) <= Len(t) /\ Prefix(t, Len(s)) = s
(* The units of pages m+1..n of a stream. *)
Chain(s, m, n) == [i \in 1..(n - m) |-> Prefix(s, m + i)]
Without(s, S) ==
  LET kept[n \in 0..Len(s)] ==
        IF n = 0 THEN <<>>
        ELSE IF s[n] \in S THEN kept[n - 1] ELSE Append(kept[n - 1], s[n])
  IN  kept[Len(s)]
Touch(s, c) == Append(Without(s, {c}), c)

Places(s, u) == {i \in DOMAIN s : s[i] = u}
Occurrences(s, u) == Cardinality(Places(s, u))
(* How often the conversations cs name u. *)
Naming(cs, u) == Cardinality(UNION {{c} \X Places(list[c], u) : c \in cs})

InitResident ==
  /\ indexed = {} /\ ref = [u \in Unit |-> 0] /\ place = [u \in Unit |-> Nowhere]
  /\ list = [c \in Conv |-> <<>>] /\ lru = <<>>
  /\ used = {} /\ withheld = 0 /\ hosts = {}

-----------------------------------------------------------------------------
(* lookup_prefix: up to the first miss. *)
Hits(s) ==
  CHOOSE n \in 0..Len(s) :
    /\ \A i \in 1..n : Prefix(s, i) \in indexed
    /\ n < Len(s) => Prefix(s, n + 1) \notin indexed

Matched(s) == Elems(Chain(s, 0, Hits(s)))

Full == Cardinality(used) + withheld >= Capacity
LowestFree == CHOOSE b \in Block \ used : \A d \in Block \ used : b <= d
FreeHandle == CHOOSE k \in Handle \ hosts : \A h \in Handle \ hosts : k <= h

(* adopt_units and truncate: the conversation's list becomes this one; the  *)
(* new references are taken before the old ones are dropped.                *)
Adopt(c, units) ==
  /\ list' = [list EXCEPT ![c] = units]
  /\ ref' = [u \in Unit |-> ref[u] + Occurrences(units, u) - Occurrences(list[c], u)]

(* Withholding without asking what is in use.                              *)
WithholdOfCapacity(n) == n <= Capacity

(* set_withheld_units, when the blocks in use leave n. *)
CanWithhold(n) == Cardinality(used) + n <= Capacity

-----------------------------------------------------------------------------
(* seal_unit over the units of pages m+1..Len(s), whose rows lie in blocks. *)
(* A unit already resident keeps its block and the duplicate is freed; one  *)
(* that waits on the host takes the block and gives its handle back.        *)

(* Keeping the duplicate of a unit that is on the device.                   *)
DuplicatesKept(s, m, blocks) == {}

Duplicates(s, m, blocks) ==
  {blocks[i] : i \in {j \in DOMAIN blocks : OnDevice(Prefix(s, m + j))}}

Seal(c, s, m, blocks) ==
  LET units == Chain(s, m, m + Len(blocks))
  IN  /\ list' = [list EXCEPT ![c] = @ \o units]
      /\ ref' = [u \in Unit |-> ref[u] + Occurrences(units, u)]
      /\ indexed' = indexed \cup Elems(units)
      /\ place' = [u \in Unit |->
           IF u \in Elems(units) /\ ~OnDevice(u) THEN Device(blocks[Len(u) - m]) ELSE place[u]]

-----------------------------------------------------------------------------
(* evict_unreferenced: the units no list names, their blocks and handles.   *)
(* (remove_unit also strips them from the lists: none names them.)          *)
Evictable(counts) == {u \in indexed : counts[u] = 0}

(* Leaving the hash in the index when the backing goes.                     *)
EvictBackingOnly(counts, blocks) ==
  LET gone == Evictable(counts)
  IN  /\ indexed' = indexed
      /\ place' = [u \in Unit |-> IF u \in gone THEN Nowhere ELSE place[u]]
      /\ used' = used \ (BlocksOf(gone) \cup blocks)
      /\ hosts' = hosts \ HandlesOf(gone)

(* Evicts by these counts, and frees these blocks beside. *)
Evict(counts, blocks) ==
  LET gone == Evictable(counts)
  IN  /\ indexed' = indexed \ gone
      /\ place' = [u \in Unit |-> IF u \in gone THEN Nowhere ELSE place[u]]
      /\ used' = used \ (BlocksOf(gone) \cup blocks)
      /\ hosts' = hosts \ HandlesOf(gone)

(* forget: the conversations' references go, and then what nobody names.    *)
Forget(cs, blocks) ==
  /\ list' = [c \in Conv |-> IF c \in cs THEN <<>> ELSE list[c]]
  /\ ref' = [u \in Unit |-> ref[u] - Naming(cs, u)]
  /\ lru' = Without(lru, cs)
  /\ Evict(ref', blocks)

(* table_for: the blocks of the units and then of the tail. *)
Table(c, tail) == [i \in DOMAIN list[c] |-> place[list[c][i]][2]] \o tail
-----------------------------------------------------------------------------
(* A unit's count is the number of lists that name it: it is evicted when   *)
(* the last of them lets go and never before.                               *)
RefcountExact == \A u \in Unit : ref[u] = Naming(Conv, u)

(* A hash a prompt can match has its rows somewhere, and rows that lie      *)
(* somewhere can be matched (remove_unit: "a hash resolving to a            *)
(* placement-less ghost").                                                  *)
IndexedMeansPlaced == \A u \in Unit : u \in indexed <=> place[u] # Nowhere

(* The content index agrees with the lists and with the memory it speaks    *)
(* of, whatever was sealed, merged, moved and evicted.                      *)
IndexExact == RefcountExact /\ IndexedMeansPlaced
=============================================================================
