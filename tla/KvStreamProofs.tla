---------------------------- MODULE KvStreamProofs ----------------------------
(***************************************************************************)
(* Proofs about imparo-kv/src/resident.rs and pool.rs, for prompts that    *)
(* bring back no page another stream sealed and until a begin fails: what  *)
(* a conversation names is the units of its stream, no host handle is      *)
(* lost, a running request has its slot with the table applied there, the  *)
(* rows of every unit and of every request lie where they are read, and a  *)
(* request admitted by fit has the room it was admitted for.               *)
(***************************************************************************)
EXTENDS KvOwnerProofs


-----------------------------------------------------------------------------
(* Streams.  Until a begin fails, what a conversation names is the units   *)
(* of the first pages of its stream, and the index holds a unit only with  *)
(* the units before it.                                                    *)

Closed(S) == \A u \in S : Len(u) > 1 => Prefix(u, Len(u) - 1) \in S
Unsettled == At("choose") \/ For("tail") \/ For("fresh")

RunningStreams ==
  \A c \in running :
    /\ c \in known /\ sealed[c] <= pos[c]
    /\ list[c] = Chain(work[c], 0, sealed[c])

SpokenStreams ==
  \A c \in spoken \ running :
    ~(c = eng.conv /\ Unsettled) =>
      sealed[c] = Len(text[c]) /\ list[c] = Chain(text[c], 0, sealed[c])

ListsClosed == \A c \in Conv : Closed(Elems(list[c]))

Onward == FastWay \/ At("tables")
Ready == At("tables") \/ At("headers")

EngStreams ==
  /\ Onward => /\ eng.conv \in spoken /\ IsPrefix(text[eng.conv], eng.prompt)
               /\ eng.resume = sealed[eng.conv]
  /\ Ready => /\ list[eng.conv] = Chain(eng.prompt, 0, sealed[eng.conv])
              /\ eng.resume = sealed[eng.conv]

Streams == RunningStreams /\ SpokenStreams /\ ListsClosed /\ Closed(indexed) /\ EngStreams

(* The first pages of a stream are named with those before them.           *)
LEMMA ChainClosed ==
  ASSUME NEW s \in Stream, NEW n \in 0..Len(s)
  PROVE  Closed(Elems(Chain(s, 0, n)))
<1>1. Len(s) \in Nat /\ n \in Nat /\ n <= Len(s) /\ 0 <= n
  BY StreamIs
<1>2. /\ Chain(s, 0, n) \in Seq(Unit) /\ Len(Chain(s, 0, n)) = n - 0
      /\ \A i \in 1..(n - 0) : Chain(s, 0, n)[i] = Prefix(s, 0 + i)
  BY <1>1, ChainIs
<1>3. \A i \in 1..n : Chain(s, 0, n)[i] = Prefix(s, i)
  BY <1>1, <1>2
<1>4. ASSUME NEW u \in Elems(Chain(s, 0, n)), Len(u) > 1
      PROVE  Prefix(u, Len(u) - 1) \in Elems(Chain(s, 0, n))
  <2>1. PICK i \in 1..n : Chain(s, 0, n)[i] = u
    BY <1>1, <1>2, ElemsIs
  <2>2. u = Prefix(s, i) /\ i \in 0..Len(s)
    BY <1>1, <1>3, <2>1
  <2>3. Len(u) = i /\ \A j \in 0..i : Prefix(u, j) = Prefix(s, j)
    BY <2>2, PrefixIs
  <2>4. i - 1 \in 1..n /\ i - 1 \in 0..i
    BY <1>4, <2>1, <2>3
  <2>5. Prefix(u, Len(u) - 1) = Chain(s, 0, n)[i - 1]
    BY <1>3, <2>3, <2>4
  <2>6. i - 1 \in 1..Len(Chain(s, 0, n))
    BY <1>1, <1>2, <2>4
  <2> QED
    BY <1>2, <2>5, <2>6, ElemsIs
<1> QED
  BY <1>4 DEF Closed

(* A prompt that extends a stream has its units.                           *)
LEMMA ChainExtends ==
  ASSUME NEW s \in Stream, NEW t \in Stream, IsPrefix(s, t)
  PROVE  /\ Len(s) \in 0..Len(t)
         /\ \A n \in 0..Len(s) : Prefix(t, n) = Prefix(s, n)
         /\ \A n \in 0..Len(s) : Chain(t, 0, n) = Chain(s, 0, n)
<1>1. Len(s) \in Nat /\ Len(t) \in Nat /\ Len(s) <= Len(t) /\ Prefix(t, Len(s)) = s
  BY StreamIs DEF IsPrefix
<1>2. Len(s) \in 0..Len(t)
  BY <1>1
<1>3. ASSUME NEW n \in 0..Len(s) PROVE Prefix(t, n) = Prefix(s, n)
  BY <1>1, <1>2, PrefixIs
<1>4. ASSUME NEW n \in 0..Len(s) PROVE Chain(t, 0, n) = Chain(s, 0, n)
  <2>1. \A i \in 1..(n - 0) : 0 + i \in 0..Len(s)
    BY <1>1
  <2> QED
    BY <1>3, <2>1 DEF Chain
<1> QED
  BY <1>2, <1>3, <1>4

(* How a step moves the lists: a conversation lets go of its own, or names *)
(* the first pages of a stream.                                            *)
LEMMA ListsMove ==
  ASSUME Typed, Stages, RunningStreams, [Next]_vars, NEW c \in Conv
  PROVE  \/ list'[c] = list[c] \/ list'[c] = <<>>
         \/ \E s \in Stream : \E n \in 0..Len(s) : list'[c] = Chain(s, 0, n)
<1> DEFINE d == eng.conv
           p == eng.prompt
           Good == \/ list'[c] = list[c] \/ list'[c] = <<>>
                   \/ \E s \in Stream : \E n \in 0..Len(s) : list'[c] = Chain(s, 0, n)
<1>1. list \in [Conv -> Seq(Unit)]
  BY DEF Typed, StateTyped, ListsTyped
<1>2. CASE Departing
  <2>1. PICK cs \in SUBSET Conv : Departs(cs)
    BY <1>2, Departures
  <2> QED
    BY <2>1, DepartsTo
<1>3. CASE Aside
  BY <1>3, AsideKeeps
<1>4. CASE Demote \/ DemoteIdle
  BY <1>4, IdleTails
<1>5. CASE FastAllocated \/ Install \/ (CommitFails /\ eng.then = "fast") \/ Serve \/ ServeCold
           \/ Grown \/ (\E e \in Conv : EndUnderflows(e) \/ EndUnknown(e))
           \/ (\E e \in Conv, x \in Page : Decode(e, x))
  BY <1>5 DEF FastAllocated, Install, CommitFails, Serve, ServeCold, Grown, EndUnderflows,
     EndUnknown, Decode, indexVars
<1>6. ASSUME NEW e \in Conv, NEW s \in Stream, NEW n \in 0..Len(s),
             list' = [list EXCEPT ![e] = Chain(s, 0, n)]
      PROVE  Good
  <2>1. list'[c] = list[c] \/ list'[c] = Chain(s, 0, n)
    BY <1>1, <1>6
  <2> QED
    BY <2>1
<1>7. CASE Probe
  <2>1. d \in Conv /\ p \in Stream /\ Adopt(d, Chain(p, 0, Hits(p)))
    BY <1>7 DEF Probe, Typed, EngTyped, EngAgrees, At
  <2>2. Hits(p) \in 0..Len(p)
    BY <2>1, HitsIs
  <2> QED
    BY <1>6, <2>1, <2>2 DEF Adopt
<1>8. CASE StandOnResident \/ StandOnDisk
  <2>1. /\ d \in Conv /\ EngTyped /\ At("choose")
        /\ list[d] = Chain(p, 0, Len(list[d])) /\ Len(list[d]) <= Len(p)
    BY <1>8 DEF StandOnResident, StandOnDisk, Typed, EngAgrees, At
  <2>2. p \in Stream /\ Len(p) \in Nat /\ Len(list[d]) \in Nat
    BY <1>1, <2>1, EngIs
  <2>3. PICK k \in 0..Len(list[d]) : Adopt(d, Below(k))
    <3>1. CASE StandOnResident
      BY <3>1 DEF StandOnResident
    <3>2. CASE StandOnDisk
      <4>1. PICK e \in 1..Len(p) : Adopt(d, Below(Lesser(e, Len(list[d]))))
        BY <3>2 DEF StandOnDisk
      <4>2. Lesser(e, Len(list[d])) \in 0..Len(list[d])
        BY <2>2 DEF Lesser
      <4> QED
        BY <4>1, <4>2
    <3> QED
      BY <1>8, <3>1, <3>2
  <2>4. Below(k) = Chain(p, 0, k) /\ k \in 0..Len(p)
    <3>1. Prefix(Chain(p, 0, Len(list[d])), k) = Chain(p, 0, k)
      BY <2>1, <2>2, ChainFirst
    <3> QED
      BY <2>1, <2>2, <3>1 DEF Below
  <2> QED
    BY <1>6, <2>1, <2>2, <2>3, <2>4 DEF Adopt
<1>9. CASE FreshRead
  BY <1>6, <1>9, FreshSeals
<1>10. ASSUME NEW e \in Conv, End(e) PROVE Good
  <2> DEFINE s == work[e]
             m == sealed[e]
  <2>1. e \in running /\ New(e) <= Len(tail[e]) /\ Seal(e, s, m, Prefix(tail[e], New(e)))
        /\ pos[e] = Len(s)
    BY <1>10 DEF End
  <2>2. /\ New(e) \in Nat /\ m \in Nat /\ s \in Stream /\ Len(s) \in Nat /\ tail[e] \in Seq(Block)
        /\ New(e) > 0 => m + New(e) = Len(s)
        /\ New(e) = 0 => Len(s) <= m
    BY NewIs
  <2>3. Len(Prefix(tail[e], New(e))) = New(e)
    BY <2>1, <2>2, FirstPart
  <2>4. m <= Len(s) /\ list[e] = Chain(s, 0, m)
    BY <2>1 DEF RunningStreams
  <2>5. m + New(e) = Len(s)
    BY <2>2, <2>4
  <2>6. list' = [list EXCEPT ![e] = @ \o Chain(s, m, Len(s))]
    BY <2>1, <2>3, <2>5 DEF Seal
  <2>7. list[e] \o Chain(s, m, Len(s)) = Chain(s, 0, Len(s))
    <3>1. /\ s \in Stream /\ m \in Nat /\ Len(s) \in Nat /\ m <= Len(s) /\ Len(s) <= Len(s)
          /\ list[e] = Chain(s, 0, m)
      BY <2>2, <2>4
    <3> QED
      BY ONLY <3>1, ChainJoined
  <2>8. list' = [list EXCEPT ![e] = Chain(s, 0, Len(s))]
    BY <1>1, <2>6, <2>7
  <2>9. Len(s) \in 0..Len(s)
    BY <2>2
  <2> QED
    BY <1>6, <2>2, <2>8, <2>9
<1> QED
  BY <1>2, <1>3, <1>4, <1>5, <1>7, <1>8, <1>9, <1>10
  DEF Next, Engine, MakingRoom, Beginning, Departing, Aside, Own

(* Every list names, with a unit, those before it.                         *)
LEMMA ListsClosedStep ==
  ASSUME Typed, Stages, RunningStreams, ListsClosed, [Next]_vars
  PROVE  ListsClosed'
<1> SUFFICES ASSUME NEW c \in Conv PROVE Closed(Elems(list'[c]))
  BY DEF ListsClosed, Closed
<1>1. CASE list'[c] = list[c]
  BY <1>1 DEF ListsClosed
<1>2. CASE list'[c] = <<>>
  <2>1. Elems(<<>>) = {}
    BY DEF Elems
  <2> QED
    BY <1>2, <2>1 DEF Closed
<1>3. CASE \E s \in Stream : \E n \in 0..Len(s) : list'[c] = Chain(s, 0, n)
  BY <1>3, ChainClosed
<1> QED
  BY <1>1, <1>2, <1>3, ListsMove

(* What a unit is indexed with stays indexed: a list that names it names   *)
(* what it continues, and what no list names goes at the same time.        *)
LEMMA IndexClosedStays ==
  ASSUME ListsTyped', Indexed', ListsClosed', Closed(indexed),
         \A u \in indexed' : \/ u \in indexed /\ indexed \subseteq indexed'
                             \/ \E c \in Conv : u \in Elems(list'[c])
  PROVE  Closed(indexed')
<1> SUFFICES ASSUME NEW u \in indexed', Len(u) > 1 PROVE Prefix(u, Len(u) - 1) \in indexed'
  BY DEF Closed
<1>1. CASE u \in indexed /\ indexed \subseteq indexed'
  BY <1>1 DEF Closed
<1>2. CASE \E c \in Conv : u \in Elems(list'[c])
  <2>1. PICK c \in Conv : u \in Elems(list'[c])
    BY <1>2
  <2>2. Closed(Elems(list'[c])) /\ Elems(list'[c]) \subseteq indexed'
    BY <2>1 DEF ListsClosed, Closed, Indexed, Backed
  <2> QED
    BY <2>1, <2>2 DEF Closed
<1> QED
  BY <1>1, <1>2

(* A sweep leaves what is counted, and only that is named.                 *)
LEMMA CountedNamed ==
  ASSUME ListsTyped', Indexed', indexed' \subseteq Unit, NEW u \in indexed', ref'[u] # 0
  PROVE  \E c \in Conv : u \in Elems(list'[c])
<1>1. Lists(list')
  BY ListsAre
<1>2. ref' = [v \in Unit |-> Times(list', Conv, v)]
  BY CountedIs DEF Indexed
<1>3. ref'[u] = Times(list', Conv, u)
  BY <1>2
<1>4. Times(list', Conv, u) = 0 <=> \A c \in Conv : u \notin Elems(list'[c])
  BY <1>1, TimesIs
<1> QED
  BY <1>3, <1>4

(* And so does the index.                                                  *)
LEMMA IndexClosedStep ==
  ASSUME Typed, Indexed, Stages, RunningStreams, ListsClosed, Closed(indexed), [Next]_vars
  PROVE  Closed(indexed')
<1>1. Typed' /\ Indexed' /\ ListsClosed'
  BY TypedStep, IndexStep, ListsClosedStep
<1>2. ListsTyped' /\ indexed' \subseteq Unit
  BY <1>1 DEF Typed, StateTyped, MemoryTyped
<1>3. CASE indexed' = indexed
  BY <1>3
<1>4. ASSUME \E blocks : Evict(ref', blocks) PROVE Closed(indexed')
  <2>1. \A u \in indexed' : ref'[u] # 0
    BY <1>4 DEF Evict, Evictable
  <2>2. \A u \in indexed' : \E c \in Conv : u \in Elems(list'[c])
    BY <1>1, <1>2, <2>1, CountedNamed
  <2> QED
    BY <1>1, <1>2, <2>2, IndexClosedStays
<1>5. ASSUME NEW c \in Conv, NEW s \in Stream, NEW m \in Nat, NEW blocks \in Seq(Block),
             Len(blocks) > 0 => m + Len(blocks) <= Len(s), Seal(c, s, m, blocks)
      PROVE  Closed(indexed')
  <2> DEFINE units == Chain(s, m, m + Len(blocks))
  <2>1. /\ list' = [list EXCEPT ![c] = @ \o units] /\ indexed' = indexed \cup Elems(units)
        /\ list \in [Conv -> Seq(Unit)]
    BY <1>5 DEF Seal, Typed, StateTyped, ListsTyped
  <2>2. units \in Seq(Unit)
    BY SealedUnits, <1>5
  <2> HIDE DEF units
  <2>3. list'[c] = list[c] \o units /\ list[c] \in Seq(Unit)
    BY <2>1
  <2>4. Elems(units) \subseteq Elems(list'[c])
    BY <2>2, <2>3, ConcatElems
  <2> QED
    BY <1>1, <1>2, <2>1, <2>4, IndexClosedStays
<1>6. CASE Departing
  <2>1. PICK cs \in SUBSET Conv : Departs(cs)
    BY <1>6, Departures
  <2>2. CASE Leave(cs)
    BY <1>4, <2>2 DEF Leave, Forget
  <2>3. CASE cs = {} /\ UNCHANGED <<indexVars, lru, used, hosts, convVars, recent, occupant>>
    BY <1>3, <2>3 DEF indexVars
  <2> QED
    BY <2>1, <2>2, <2>3 DEF Departs
<1>7. CASE EvictUnreferenced \/ Sweep
  BY <1>4, <1>7 DEF EvictUnreferenced, Sweep
<1>8. CASE Aside /\ ~EvictUnreferenced /\ ~Sweep
  BY <1>3, <1>8 DEF Aside, NoHostRoom, Roomy, PrepareDemote, DemoteFails, Admitting, ChargeSlot,
     DoNotCharge, Admit, SwitchExplicit, EnterFast, EnterGeneral, PreparePromote, Promote,
     PromoteFails, AllocOne, Exhausted, RestoreFails, CommitFails, FastTables, NotServed, Begin,
     Prefill, Grow, indexVars, vars
<1>9. CASE Demote \/ DemoteIdle \/ Probe \/ StandOnResident \/ StandOnDisk \/ FastAllocated \/ Install
           \/ CommitFails \/ Serve \/ ServeCold \/ Grown
           \/ (\E e \in Conv : EndUnderflows(e) \/ EndUnknown(e))
           \/ (\E e \in Conv, x \in Page : Decode(e, x))
  BY <1>3, <1>9 DEF Demote, DemoteIdle, Probe, StandOnResident, StandOnDisk, FastAllocated,
     Install, CommitFails, Serve, ServeCold, Grown, EndUnderflows, EndUnknown, Decode, indexVars
<1>10. CASE FreshRead
  <2>1. /\ eng.conv \in Conv /\ eng.resume - Len(eng.out) = Len(list[eng.conv])
        /\ Len(list[eng.conv]) + Len(eng.out) = eng.resume
        /\ eng.resume \in 0..Len(eng.prompt) /\ eng.prompt \in Stream
    BY <1>10, FreshSeals
  <2>2. eng.out \in Seq(Block) /\ Len(list[eng.conv]) \in Nat
    BY <2>1, EngIs DEF Typed, StateTyped, ListsTyped
  <2>3. Seal(eng.conv, eng.prompt, Len(list[eng.conv]), eng.out)
    BY <1>10, <2>1 DEF FreshRead
  <2> QED
    BY <1>5, <2>1, <2>2, <2>3
<1>11. ASSUME NEW c \in Conv, End(c) PROVE Closed(indexed')
  <2>1. Seal(c, work[c], sealed[c], Prefix(tail[c], New(c))) /\ New(c) <= Len(tail[c])
    BY <1>11 DEF End
  <2>2. /\ New(c) \in Nat /\ sealed[c] \in Nat /\ work[c] \in Stream /\ Len(work[c]) \in Nat
        /\ tail[c] \in Seq(Block) /\ Len(tail[c]) \in Nat
        /\ New(c) > 0 => sealed[c] + New(c) = Len(work[c])
    BY NewIs
  <2>3. Prefix(tail[c], New(c)) \in Seq(Block) /\ Len(Prefix(tail[c], New(c))) = New(c)
    BY <2>1, <2>2, FirstPart
  <2>4. Len(Prefix(tail[c], New(c))) > 0
          => sealed[c] + Len(Prefix(tail[c], New(c))) <= Len(work[c])
    BY <2>2, <2>3
  <2> QED
    BY <1>5, <2>1, <2>2, <2>3, <2>4
<1> QED
  BY <1>6, <1>7, <1>8, <1>9, <1>10, <1>11
  DEF Next, Engine, MakingRoom, Beginning, Departing, Aside, Own

(* A begin that failed is not forgotten.                                   *)
LEMMA FailedStays ==
  ASSUME [Next]_vars, failed
  PROVE  failed'
<1>1. CASE Departing
  BY <1>1 DEF Departing, DropLru, SwitchShared, EvictHostToDisk, GrowthFailed, Trim, Abandon,
     Erase, ctlVars
<1>2. CASE Aside
  BY <1>2 DEF Aside, EvictUnreferenced, NoHostRoom, Roomy, PrepareDemote, DemoteFails, Admitting,
     ChargeSlot, DoNotCharge, Admit, SwitchExplicit, Sweep, EnterFast, EnterGeneral,
     PreparePromote, Promote, PromoteFails, AllocOne, Exhausted, RestoreFails, CommitFails, Fail,
     FastTables, NotServed, Begin, Prefill, Grow, ctlVars, vars
<1>3. CASE Own \/ Demote \/ DemoteIdle \/ Serve \/ ServeCold \/ Grown
  BY <1>3 DEF Own, Probe, StandOnResident, StandOnDisk, FastAllocated, FreshRead, Install,
     CommitFails, Fail, Demote, DemoteIdle, Serve, ServeCold, Grown, ctlVars
<1>4. CASE \/ \E c \in Conv : End(c) \/ EndUnderflows(c) \/ EndUnknown(c)
           \/ \E c \in Conv, x \in Page : Decode(c, x)
  BY <1>4 DEF End, EndUnderflows, EndUnknown, Decode, ctlVars
<1> QED
  BY <1>1, <1>2, <1>3, <1>4 DEF Next, Engine, MakingRoom, Beginning, Departing, Aside, Own

(* What fails before a begin has failed is the growth of a running row.    *)
LEMMA FailsGrowing ==
  ASSUME NEW blocks, Fail(blocks), ~failed'
  PROVE  eng.then = "grow" /\ eng'.at = "abandon"
BY DEF Fail, Free

(* A conversation that is about to stand elsewhere stays so until it does. *)
LEMMA UnsettledStays ==
  ASSUME Typed, [Next]_vars, Unsettled, ~failed', ~Install
  PROVE  Unsettled' /\ eng'.conv = eng.conv
<1>1. EngTyped /\ EngAgrees
  BY DEF Typed
<1>2. /\ eng # Free /\ eng.at \in {"choose", "alloc", "hostroom", "demote"}
      /\ eng.at # "choose" => eng.then \in {"tail", "fresh"}
  BY DEF Unsettled, For, Allocating, At, Free
<1>3. CASE eng' = eng
  BY <1>3 DEF Unsettled, For, Allocating, At
<1>4. CASE Allotting
  <2>1. /\ Allocating /\ eng'.at \in {"demote", "alloc", "sweep", "hostroom"}
        /\ eng'.at = "sweep" => eng.then = "switch"
        /\ eng'.then = eng.then /\ eng'.conv = eng.conv
    BY <1>4, Allots
  <2>2. eng.then \in {"tail", "fresh"}
    BY <1>2, <2>1 DEF Allocating, At
  <2> QED
    BY <2>1, <2>2 DEF Unsettled, For, Allocating, At
<1>5. CASE NoHostRoom \/ DemoteFails \/ Exhausted \/ RestoreFails \/ CommitFails
  <2>1. \E blocks : Fail(blocks)
    BY <1>5 DEF NoHostRoom, DemoteFails, Exhausted, RestoreFails, CommitFails
  <2>2. eng.then = "grow"
    BY <2>1, FailsGrowing
  <2>3. eng.at # "choose"
    BY <1>5 DEF NoHostRoom, DemoteFails, Exhausted, RestoreFails, CommitFails, Allocated, At
  <2> QED
    BY <1>2, <2>2, <2>3
<1>6. CASE StandOnResident \/ StandOnDisk
  <2>1. \E r, n : eng' = [eng EXCEPT !.at = "alloc", !.then = "tail", !.resume = r, !.need = n]
                  \/ eng' = [eng EXCEPT !.at = "alloc", !.then = "fresh", !.resume = r,
                                        !.need = n]
    BY <1>6 DEF StandOnResident, StandOnDisk
  <2>2. eng'.at = "alloc" /\ eng'.then \in {"tail", "fresh"} /\ eng'.conv = eng.conv
    BY <1>1, <2>1 DEF EngTyped
  <2> QED
    BY <2>2 DEF Unsettled, For, Allocating, At
<1>7. CASE FreshRead
  <2>1. \E n : eng' = [eng EXCEPT !.then = "tail", !.need = n, !.out = <<>>] /\ At("alloc")
    BY <1>7 DEF FreshRead, Allocated
  <2>2. eng'.at = "alloc" /\ eng'.then = "tail" /\ eng'.conv = eng.conv
    BY <1>1, <2>1 DEF EngTyped, At
  <2> QED
    BY <2>2 DEF Unsettled, For, Allocating, At
<1>8. \/ EvictUnreferenced \/ DropLru \/ EvictHostToDisk \/ NoHostRoom \/ DemoteFails \/ Exhausted
      \/ RestoreFails \/ CommitFails \/ Allotting \/ StandOnResident \/ StandOnDisk \/ FreshRead
      \/ UNCHANGED vars
  BY <1>2 DEF Next, Engine, MakingRoom, Beginning, Admitting, Allotting, ChargeSlot, DoNotCharge,
     Admit, SwitchShared, SwitchExplicit, Sweep, EnterFast, EnterGeneral, Probe, PreparePromote,
     Promote, PromoteFails, FastAllocated, Allocated, FastTables, Serve, ServeCold, NotServed,
     Grown, GrowthFailed, Begin, Prefill, Grow, End, EndUnderflows, EndUnknown, Abandon, Decode,
     Erase, Trim, At
<1>9. EvictUnreferenced \/ DropLru \/ EvictHostToDisk \/ UNCHANGED vars => eng' = eng
  BY DEF EvictUnreferenced, DropLru, EvictHostToDisk, vars
<1> QED
  BY <1>3, <1>4, <1>5, <1>6, <1>7, <1>8, <1>9

(* An append finds in the index the units it has, and no more.             *)
LEMMA ProbeOnward ==
  ASSUME Typed, Indexed, Stages, EngLengths, SpokenStreams, EngStreams, Probe, eng.then = "tables"
  PROVE  /\ eng.conv \in Conv /\ sealed' = sealed /\ text' = text
         /\ list'[eng.conv] = Chain(eng.prompt, 0, sealed[eng.conv])
         /\ list'[eng.conv] = Chain(text[eng.conv], 0, sealed[eng.conv])
         /\ sealed[eng.conv] = Len(text[eng.conv]) /\ eng.resume = sealed[eng.conv]
<1> DEFINE c == eng.conv
           p == eng.prompt
           t == text[c]
           n == Len(t)
           h == Hits(p)
<1>1. /\ At("probe") /\ c \in Conv /\ Adopt(c, Chain(p, 0, h)) /\ UNCHANGED <<sealed, text>>
      /\ p \in Stream /\ Len(p) \in Nat
  BY EngIs DEF Probe, Typed, EngAgrees, At, convVars
<1>2. FastWay /\ ~Unsettled /\ ~Growing /\ ~At("free")
  BY <1>1 DEF FastWay, Unsettled, Growing, For, Allocating, At
<1>3. /\ c \in spoken \ running /\ IsPrefix(t, p) /\ eng.resume = sealed[c]
  BY <1>2 DEF EngStreams, Onward, Stages, StageSeat
<1>4. sealed[c] = n /\ list[c] = Chain(t, 0, sealed[c])
  BY <1>2, <1>3 DEF SpokenStreams
<1>5. t \in Stream /\ n \in Nat /\ list \in [Conv -> Seq(Unit)]
  BY <1>1, StreamIs DEF Typed, StateTyped, ConvTyped, ListsTyped
<1>6. /\ n \in 0..Len(p)
      /\ \A i \in 0..n : Prefix(p, i) = Prefix(t, i)
      /\ \A i \in 0..n : Chain(p, 0, i) = Chain(t, 0, i)
  BY <1>1, <1>3, <1>5, ChainExtends
<1>7. h <= n /\ h \in 0..Len(p) /\ (h < Len(p) => Prefix(p, h + 1) \notin indexed)
  BY <1>1, <1>2, <1>4, HitsIs DEF EngLengths
<1>8. ASSUME NEW i \in 1..n PROVE Prefix(t, i) \in indexed
  <2>1. /\ Chain(t, 0, n) \in Seq(Unit) /\ Len(Chain(t, 0, n)) = n - 0
        /\ \A j \in 1..(n - 0) : Chain(t, 0, n)[j] = Prefix(t, 0 + j)
    <3>1. 0 \in Nat /\ 0 <= n /\ n <= Len(t) /\ t \in Stream /\ n \in Nat
      BY <1>5
    <3> QED
      BY ONLY <3>1, ChainIs
  <2>2. i \in 1..Len(Chain(t, 0, n)) /\ Chain(t, 0, n)[i] = Prefix(t, i)
    BY <1>5, <2>1
  <2>3. Prefix(t, i) \in Elems(list[c])
    BY <1>4, <2>1, <2>2, ElemsIs
  <2> QED
    BY <1>1, <2>3 DEF Indexed, Backed
<1> HIDE DEF h
<1>9. h = n
  <2> SUFFICES ASSUME h < n PROVE FALSE
    BY <1>5, <1>7
  <2>1. h + 1 \in 1..n /\ h + 1 \in 0..n /\ h < Len(p)
    BY <1>5, <1>6, <1>7
  <2> QED
    BY <1>6, <1>7, <1>8, <2>1
<1>10. list'[c] = Chain(p, 0, n)
  BY <1>1, <1>5, <1>9 DEF Adopt
<1>11. n \in 0..n
  BY <1>5
<1>12. Chain(p, 0, n) = Chain(t, 0, n)
  BY <1>6, <1>11
<1> QED
  BY <1>1, <1>3, <1>4, <1>10, <1>12

(* Running requests keep to their streams.                                 *)
LEMMA RunningStreamsStep ==
  ASSUME Typed, Stages, RunningStreams, EngStreams, ~failed, [Next]_vars
  PROVE  RunningStreams'
<1> DEFINE c == eng.conv
<1>1. /\ running \subseteq Conv /\ pos \in [Conv -> Nat] /\ list \in [Conv -> Seq(Unit)]
      /\ sealed \in [Conv -> 0..MaxPages] /\ work \in [Conv -> Stream]
      /\ \A d \in Conv : sealed[d] \in Nat /\ pos[d] <= Len(work[d])
      /\ \A d \in Conv : Len(work[d]) \in Nat
  BY MaxPagesAssumption, StreamIs DEF Typed, StateTyped, RowTyped, ListsTyped, ConvTyped
<1>2. ASSUME \A d \in running' : /\ d \in running /\ (d \in known => d \in known')
                                 /\ list'[d] = list[d] /\ sealed'[d] = sealed[d]
                                 /\ work'[d] = work[d] /\ pos'[d] = pos[d]
      PROVE  RunningStreams'
  BY <1>2 DEF RunningStreams
<1>3. CASE Departing
  <2>1. PICK cs \in SUBSET Conv : Departs(cs) /\ DepartsAside(cs)
    BY <1>3, Departures
  <2>2. ASSUME NEW d \in running'
        PROVE  /\ d \in running /\ (d \in known => d \in known')
               /\ list'[d] = list[d] /\ sealed'[d] = sealed[d]
               /\ work'[d] = work[d] /\ pos'[d] = pos[d]
    <3>1. d \in Conv \ cs /\ d \in running
      BY <1>1, <2>1 DEF DepartsAside
    <3> QED
      BY <2>1, <3>1, DepartsTo DEF DepartsAside
  <2> QED
    BY <1>2, <2>2
<1>4. CASE \E d \in Conv : Prefill(d)
  <2>1. PICK d \in Conv : Prefill(d)
    BY <1>4
  <2>2. PICK n \in pos[d]..Len(work[d]) : pos' = [pos EXCEPT ![d] = n]
    BY <2>1 DEF Prefill
  <2>3. UNCHANGED <<list, known, sealed, work, running>>
    BY <2>1 DEF Prefill, indexVars, convVars
  <2>4. \A e \in Conv : pos[e] <= pos'[e] /\ pos'[e] \in Nat
    BY <1>1, <2>2
  <2>5. ASSUME NEW e \in running
        PROVE  e \in known /\ sealed[e] <= pos'[e] /\ list[e] = Chain(work[e], 0, sealed[e])
    <3>1. e \in known /\ sealed[e] <= pos[e] /\ list[e] = Chain(work[e], 0, sealed[e]) /\ e \in Conv
      BY <1>1 DEF RunningStreams
    <3>2. sealed[e] \in Nat /\ pos[e] \in Nat /\ pos[e] <= pos'[e] /\ pos'[e] \in Nat
      BY <1>1, <2>4, <3>1
    <3> QED
      BY <3>1, <3>2
  <2> QED
    BY <2>3, <2>5 DEF RunningStreams
<1>5. CASE Aside /\ ~(\E d \in Conv : Prefill(d))
  <2>1. UNCHANGED <<list, known, sealed, running, work>>
    BY <1>5, AsideKeeps
  <2>2. pos' = pos
    BY <1>5 DEF Aside, EvictUnreferenced, NoHostRoom, Roomy, PrepareDemote, DemoteFails, Admitting,
       ChargeSlot, DoNotCharge, Admit, SwitchExplicit, Sweep, EnterFast, EnterGeneral,
       PreparePromote, Promote, PromoteFails, AllocOne, Exhausted, RestoreFails, CommitFails, Fail,
       FastTables, NotServed, Begin, Grow, rowVars, vars
  <2> QED
    BY <1>2, <2>1, <2>2
<1>6. CASE Own
  <2>1. known \subseteq known'
    BY <1>6 DEF Own, Probe, StandOnResident, StandOnDisk, FastAllocated, FreshRead, Install,
       CommitFails, convVars
  <2> QED
    BY <1>1, <1>2, <1>6, <2>1, OwnKeeps
<1>7. CASE Demote \/ DemoteIdle
  BY <1>2, <1>7, IdleTails
<1>8. CASE Serve
  <2>1. /\ At("headers") /\ Start(eng.resume) /\ UNCHANGED <<list, known, sealed>>
        /\ c \in Conv
    BY <1>8 DEF Serve, Typed, EngAgrees, At, indexVars, convVars
  <2>2. /\ running' = running \cup {c} /\ work'[c] = eng.prompt /\ pos'[c] = eng.resume
        /\ \A d \in Conv \ {c} : work'[d] = work[d] /\ pos'[d] = pos[d]
    BY <1>1, <2>1 DEF Start
  <2>3. list[c] = Chain(eng.prompt, 0, sealed[c]) /\ eng.resume = sealed[c] /\ c \in known
    BY <2>1 DEF EngStreams, Ready, Stages, StageSeat
  <2>4. sealed[c] <= sealed[c]
    BY <1>1, <2>1
  <2>5. ASSUME NEW d \in running'
        PROVE  d \in known' /\ sealed'[d] <= pos'[d] /\ list'[d] = Chain(work'[d], 0, sealed'[d])
    <3>1. CASE d = c
      BY <2>1, <2>2, <2>3, <2>4, <3>1
    <3>2. CASE d # c
      BY <1>1, <2>1, <2>2, <3>2 DEF RunningStreams
    <3> QED
      BY <3>1, <3>2
  <2> QED
    BY <2>5 DEF RunningStreams
<1>9. CASE ServeCold
  BY <1>9 DEF ServeCold, Stages, StageFailed
<1>10. ASSUME NEW d \in Conv, NEW x \in Page, Decode(d, x) PROVE RunningStreams'
  <2>1. /\ UNCHANGED <<list, known, sealed, running>> /\ d \in running
        /\ work' = [work EXCEPT ![d] = Append(@, x)] /\ pos[d] = Len(work[d])
        /\ Len(work[d]) < MaxPages /\ pos' = [pos EXCEPT ![d] = @ + 1]
    BY <1>10 DEF Decode, indexVars, convVars
  <2>2. /\ work'[d] = Append(work[d], x) /\ pos'[d] = pos[d] + 1
        /\ \A e \in Conv \ {d} : work'[e] = work[e] /\ pos'[e] = pos[e]
    BY <1>1, <2>1
  <2>3. d \in known /\ sealed[d] <= pos[d] /\ list[d] = Chain(work[d], 0, sealed[d])
    BY <2>1 DEF RunningStreams
  <2>4. sealed[d] \in 0..Len(work[d]) /\ sealed[d] <= pos'[d]
    BY <1>1, <2>1, <2>2, <2>3
  <2>5. Chain(work'[d], 0, sealed[d]) = Chain(work[d], 0, sealed[d])
    <3>1. work[d] \in Stream /\ work'[d] \in Stream /\ IsPrefix(work[d], work'[d])
      <4>1. /\ work[d] \in Seq(Page) /\ Len(work[d]) \in Nat /\ Len(work[d]) < MaxPages
            /\ work[d] \in Stream
        BY <1>1, <2>1, StreamIs
      <4>2. /\ work'[d] \in Seq(Page) /\ Len(work'[d]) = Len(work[d]) + 1
            /\ Len(work'[d]) <= MaxPages
        BY <2>2, <4>1, MaxPagesAssumption
      <4>3. Prefix(work'[d], Len(work[d])) = work[d]
        BY <2>2, <4>1 DEF Prefix
      <4> QED
        BY <4>1, <4>2, <4>3, StreamIs DEF IsPrefix
    <3> QED
      BY <2>4, <3>1, ChainExtends
  <2>6. ASSUME NEW e \in running
        PROVE  e \in known /\ sealed[e] <= pos'[e] /\ list[e] = Chain(work'[e], 0, sealed[e])
    <3>1. CASE e = d
      BY <2>3, <2>4, <2>5, <3>1
    <3>2. CASE e # d
      BY <1>1, <2>2, <3>2 DEF RunningStreams
    <3> QED
      BY <3>1, <3>2
  <2> QED
    BY <2>1, <2>6 DEF RunningStreams
<1>11. CASE Grown
  BY <1>2, <1>11 DEF Grown, indexVars
<1>12. ASSUME NEW d \in Conv, End(d) \/ EndUnderflows(d) \/ EndUnknown(d) PROVE RunningStreams'
  <2>1. Stop(d) /\ known' = known
    BY <1>12 DEF End, EndUnderflows, EndUnknown, LeaveSlot, convVars
  <2>2. /\ list' = list \/ \E l : list' = [list EXCEPT ![d] = l]
        /\ sealed' = sealed \/ \E l : sealed' = [sealed EXCEPT ![d] = l]
    <3>1. CASE End(d)
      BY <3>1 DEF End, Seal
    <3>2. CASE EndUnderflows(d) \/ EndUnknown(d)
      BY <3>2 DEF EndUnderflows, EndUnknown, indexVars, convVars
    <3> QED
      BY <1>12, <3>1, <3>2
  <2>3. ASSUME NEW e \in running'
        PROVE  /\ e \in running /\ (e \in known => e \in known')
               /\ list'[e] = list[e] /\ sealed'[e] = sealed[e]
               /\ work'[e] = work[e] /\ pos'[e] = pos[e]
    <3>1. e \in Conv \ {d} /\ e \in running
      BY <1>1, <2>1 DEF Stop
    <3>2. list'[e] = list[e] /\ sealed'[e] = sealed[e]
      BY <1>1, <2>2, <3>1
    <3>3. work'[e] = work[e] /\ pos'[e] = pos[e]
      BY <1>1, <2>1, <3>1 DEF Stop
    <3> QED
      BY <2>1, <3>1, <3>2, <3>3
  <2> QED
    BY <1>2, <2>3
<1> QED
  BY <1>3, <1>4, <1>5, <1>6, <1>7, <1>8, <1>9, <1>10, <1>11, <1>12
  DEF Next, Engine, MakingRoom, Beginning, Departing, Aside, Own

(* A conversation whose turn ended keeps what it said.                     *)
LEMMA SpokenStreamsStep ==
  ASSUME Typed, Indexed, Stages, EngLengths, RunningLengths, RunningStreams, SpokenStreams,
         EngStreams, ~failed', [Next]_vars
  PROVE  SpokenStreams'
<1> DEFINE d == eng.conv
           p == eng.prompt
<1> SUFFICES ASSUME NEW c \in spoken' \ running', ~(c = eng'.conv /\ Unsettled')
             PROVE  sealed'[c] = Len(text'[c]) /\ list'[c] = Chain(text'[c], 0, sealed'[c])
  BY DEF SpokenStreams
<1> DEFINE Good == sealed'[c] = Len(text'[c]) /\ list'[c] = Chain(text'[c], 0, sealed'[c])
<1>1. /\ running \subseteq Conv /\ spoken \subseteq Conv /\ list \in [Conv -> Seq(Unit)]
      /\ sealed \in [Conv -> 0..MaxPages] /\ text \in [Conv -> Stream] /\ tail \in [Conv -> Seq(Block)]
      /\ EngTyped
  BY DEF Typed, StateTyped, RowTyped, ListsTyped, ConvTyped
<1>2. ASSUME c = d, Unsettled PROVE Install
  BY <1>2, UnsettledStays
<1>3. ASSUME c \in spoken \ running, list'[c] = list[c], sealed'[c] = sealed[c], text'[c] = text[c]
      PROVE  Good
  <2>1. CASE c = d /\ Unsettled
    <3>1. Install
      BY <1>2, <2>1
    <3>2. c \notin spoken'
      BY <2>1, <3>1 DEF Install
    <3> QED
      BY <3>2
  <2>2. CASE ~(c = d /\ Unsettled)
    BY <1>3, <2>2 DEF SpokenStreams
  <2> QED
    BY <2>1, <2>2
<1>4. CASE Departing
  <2>1. PICK cs \in SUBSET Conv : Departs(cs) /\ DepartsAside(cs)
    BY <1>4, Departures
  <2>2. spoken' = spoken \ cs /\ running' = running \ cs
    BY <2>1, DepartsTo DEF DepartsAside
  <2>3. c \in spoken \ running /\ c \in Conv \ cs
    BY <1>1, <2>2
  <2> QED
    BY <1>3, <2>1, <2>3, DepartsTo
<1>5. CASE Aside
  BY <1>3, <1>5, AsideKeeps
<1>6. CASE Demote \/ DemoteIdle
  BY <1>3, <1>6, IdleTails
<1>7. CASE Serve \/ ServeCold \/ Grown \/ (\E e \in Conv, x \in Page : Decode(e, x))
  BY <1>3, <1>7 DEF Serve, ServeCold, Start, Grown, Decode, indexVars, convVars
<1>8. CASE Own /\ c # d
  <2>1. spoken' \subseteq spoken
    BY <1>8 DEF Own, Probe, StandOnResident, StandOnDisk, FastAllocated, FreshRead, Install,
       CommitFails, convVars
  <2> QED
    BY <1>1, <1>3, <1>8, <2>1, OwnKeeps
<1>9. CASE Own /\ c = d
  <2>1. c \in Conv \ running
    BY <1>9, OwnKeeps
  <2>2. CASE Probe
    <3>1. eng' = [eng EXCEPT !.at = eng.then] /\ eng.then \in {"choose", "tables"}
          /\ spoken' = spoken
      BY <2>2 DEF Probe, GoTo, Typed, EngAgrees, At, convVars
    <3>2. CASE eng.then = "choose"
      <4>1. eng'.at = "choose" /\ eng'.conv = d
        BY <1>1, <3>1, <3>2 DEF EngTyped
      <4> QED
        BY <1>9, <4>1 DEF Unsettled, At
    <3>3. CASE eng.then = "tables"
      BY <1>9, <2>2, <3>3, ProbeOnward
    <3> QED
      BY <3>1, <3>2, <3>3
  <2>3. CASE FastAllocated
    BY <1>3, <1>9, <2>1, <2>3 DEF FastAllocated, indexVars
  <2>4. CASE CommitFails /\ eng.then = "fast"
    <3>1. Fail({})
      BY <2>4 DEF CommitFails
    <3> QED
      BY <2>4, <3>1, FailsGrowing
  <2>5. CASE Install
    BY <1>9, <2>5 DEF Install
  <2>6. CASE StandOnResident \/ StandOnDisk \/ FreshRead
    <3>1. Unsettled
      BY <2>6 DEF StandOnResident, StandOnDisk, FreshRead, Allocated, Unsettled, For, Allocating
    <3>2. Install
      BY <1>2, <1>9, <3>1
    <3> QED
      BY <1>9, <3>2 DEF Install
  <2> QED
    BY <1>9, <2>2, <2>3, <2>4, <2>5, <2>6 DEF Own
<1>10. ASSUME NEW e \in Conv, End(e) PROVE Good
  <2> DEFINE s == work[e]
             m == sealed[e]
  <2>1. /\ e \in running /\ New(e) <= Len(tail[e]) /\ Seal(e, s, m, Prefix(tail[e], New(e)))
        /\ pos[e] = Len(s) /\ text' = [text EXCEPT ![e] = s] /\ spoken' = spoken \cup {e}
        /\ sealed' = [sealed EXCEPT ![e] = @ + New(e)] /\ running' = running \ {e}
    BY <1>10 DEF End, LeaveSlot, Stop
  <2>2. /\ New(e) \in Nat /\ m \in Nat /\ s \in Stream /\ Len(s) \in Nat /\ tail[e] \in Seq(Block)
        /\ New(e) > 0 => m + New(e) = Len(s)
        /\ New(e) = 0 => Len(s) <= m
    BY NewIs
  <2>3. Len(Prefix(tail[e], New(e))) = New(e)
    BY <2>1, <2>2, FirstPart
  <2>4. m <= Len(s) /\ list[e] = Chain(s, 0, m)
    BY <2>1 DEF RunningStreams
  <2>5. m + New(e) = Len(s)
    BY <2>2, <2>4
  <2>6. list' = [list EXCEPT ![e] = @ \o Chain(s, m, Len(s))]
    BY <2>1, <2>3, <2>5 DEF Seal
  <2>7. CASE c = e
    <3>1. text'[c] = s /\ sealed'[c] = m + New(e)
      BY <1>1, <2>1, <2>7
    <3>2. list'[c] = list[e] \o Chain(s, m, Len(s))
      BY <1>1, <2>6, <2>7
    <3>3. Chain(s, 0, m) \o Chain(s, m, Len(s)) = Chain(s, 0, Len(s))
      <4>1. /\ s \in Stream /\ m \in Nat /\ Len(s) \in Nat /\ m <= Len(s) /\ Len(s) <= Len(s)
        BY <2>2, <2>4
      <4> QED
        BY ONLY <4>1, ChainJoined
    <3> QED
      BY <2>4, <2>5, <3>1, <3>2, <3>3
  <2>8. CASE c # e
    <3>1. c \in spoken \ running /\ c \in Conv
      BY <1>1, <2>1, <2>8
    <3>2. list'[c] = list[c] /\ sealed'[c] = sealed[c] /\ text'[c] = text[c]
      BY <1>1, <2>1, <2>6, <2>8, <3>1
    <3> QED
      BY <1>3, <3>1, <3>2
  <2> QED
    BY <2>7, <2>8
<1>11. ASSUME NEW e \in Conv, EndUnderflows(e) PROVE FALSE
  <2>1. e \in running \cap known /\ New(e) > Len(tail[e])
    BY <1>11 DEF EndUnderflows
  <2>2. Len(work[e]) <= sealed[e] + Len(tail[e])
    BY <2>1 DEF RunningLengths
  <2>3. /\ New(e) \in Nat /\ sealed[e] \in Nat /\ Len(tail[e]) \in Nat
        /\ New(e) > 0 => sealed[e] + New(e) = Len(work[e])
    BY NewIs
  <2> QED
    BY <2>1, <2>2, <2>3
<1>12. ASSUME NEW e \in Conv, EndUnknown(e) PROVE FALSE
  BY <1>12 DEF EndUnknown, RunningStreams
<1> QED
  BY <1>4, <1>5, <1>6, <1>7, <1>8, <1>9, <1>10, <1>11, <1>12
  DEF Next, Engine, MakingRoom, Beginning, Departing, Aside, Own

(* A step that leaves the request where it was on its way.                 *)
LEMMA EngStreamsStay ==
  ASSUME EngStreams,
         Onward' => /\ Onward /\ eng'.conv = eng.conv /\ eng'.prompt = eng.prompt
                    /\ eng'.resume = eng.resume /\ eng.conv \in spoken'
                    /\ text'[eng.conv] = text[eng.conv] /\ sealed'[eng.conv] = sealed[eng.conv],
         Ready' => /\ Ready /\ eng'.conv = eng.conv /\ eng'.prompt = eng.prompt
                   /\ eng'.resume = eng.resume
                   /\ list'[eng.conv] = list[eng.conv] /\ sealed'[eng.conv] = sealed[eng.conv]
  PROVE  EngStreams'
BY DEF EngStreams

(* The request finds at each stage what its stream has.                    *)
LEMMA EngStreamsStep ==
  ASSUME Typed, Indexed, Stages, EngLengths, SpokenStreams, EngStreams, [Next]_vars
  PROVE  EngStreams'
<1> DEFINE c == eng.conv
           p == eng.prompt
<1>1. EngTyped /\ EngAgrees
  BY DEF Typed
<1>2. ASSUME eng'.at \notin {"alloc", "hostroom", "demote", "probe", "tables", "headers"}
      PROVE  EngStreams'
  BY <1>2 DEF EngStreams, Onward, Ready, FastWay, For, Allocating, At
<1>3. ASSUME eng'.then \notin {"fast", "tables"}, eng'.at \notin {"tables", "headers"}
      PROVE  EngStreams'
  BY <1>3 DEF EngStreams, Onward, Ready, FastWay, For, At
<1>4. Onward => c \in Conv
  BY <1>1 DEF Onward, FastWay, For, Allocating, At, EngAgrees
<1>5. CASE Departing
  <2>1. PICK cs \in SUBSET Conv : Departs(cs) /\ DepartsAside(cs)
    BY <1>5, Departures
  <2>2. CASE eng' = Free
    BY <1>2, <2>2 DEF Free
  <2>3. CASE eng.conv \notin cs /\ eng' = eng /\ (At("charge") \/ Allocating \/ At("free"))
    <3>1. ~Ready' /\ (Onward' <=> Onward)
      BY <2>3 DEF At, Allocating, Onward, Ready, FastWay, For
    <3>2. Onward => sealed'[c] = sealed[c] /\ text'[c] = text[c] /\ (c \in spoken => c \in spoken')
      BY <1>4, <2>1, <2>3, DepartsTo
    <3>3. Onward => c \in spoken
      BY DEF EngStreams
    <3> QED
      BY <2>3, <3>1, <3>2, <3>3, EngStreamsStay
  <2>4. CASE At("switch") /\ eng' = [eng EXCEPT !.at = "enter"]
    <3>1. eng'.at = "enter"
      BY <1>1, <2>4 DEF EngTyped
    <3> QED
      BY <1>2, <3>1
  <2> QED
    BY <2>1, <2>2, <2>3, <2>4 DEF DepartsAside
<1>6. CASE EvictUnreferenced \/ UNCHANGED vars
  <2>1. eng' = eng /\ UNCHANGED <<list, spoken, text, sealed>>
    BY <1>6 DEF EvictUnreferenced, convVars, indexVars, vars
  <2>2. (Onward' <=> Onward) /\ (Ready' <=> Ready)
    BY <2>1 DEF At, Allocating, Onward, Ready, FastWay, For
  <2>3. Onward => c \in spoken
    BY DEF EngStreams
  <2> QED
    BY <2>1, <2>2, <2>3, EngStreamsStay
<1>7. CASE NoHostRoom \/ DemoteFails \/ PromoteFails \/ Exhausted \/ RestoreFails \/ CommitFails
  <2>1. \E blocks : Fail(blocks)
    BY <1>7 DEF NoHostRoom, DemoteFails, PromoteFails, Exhausted, RestoreFails, CommitFails
  <2>2. eng'.at \in {"abandon", "cold"}
    BY <2>1 DEF Fail, Free
  <2> QED
    BY <1>2, <2>2
<1>8. CASE Allotting
  <2>1. /\ Allocating /\ UNCHANGED <<spoken, text, sealed>>
        /\ eng'.at \in {"demote", "alloc", "sweep", "hostroom"} /\ eng'.then = eng.then
        /\ eng'.conv = c /\ eng'.prompt = p /\ eng'.resume = eng.resume
    BY <1>8, Allots
  <2>2. ~Ready' /\ (Onward' => Onward)
    BY <2>1 DEF Onward, Ready, FastWay, For, Allocating, At
  <2>3. Onward => c \in spoken
    BY DEF EngStreams
  <2> QED
    BY <2>1, <2>2, <2>3, EngStreamsStay
<1>9. CASE Admitting \/ SwitchExplicit \/ Sweep \/ EnterGeneral \/ StandOnResident \/ StandOnDisk
  <2>1. \/ eng'.at \in {"free", "charge", "admit", "switch", "enter"}
        \/ eng'.at \in {"hostroom", "probe", "alloc"} /\ eng'.then \notin {"fast", "tables"}
    BY <1>1, <1>9, Elsewhere
  <2> QED
    BY <1>2, <1>3, <2>1
<1>10. CASE EnterFast
  <2>1. /\ eng' = [eng EXCEPT !.at = "alloc", !.then = "fast", !.resume = Len(text[c]),
                 !.need = Beyond(Upper(p), sealed[c] + Len(tail[c]))]
        /\ At("enter") /\ c \in spoken /\ IsPrefix(text[c], p)
        /\ UNCHANGED <<spoken, text, sealed>>
    BY <1>10 DEF EnterFast, convVars
  <2>2. eng'.at = "alloc" /\ eng'.conv = c /\ eng'.prompt = p /\ eng'.resume = Len(text[c])
    BY <1>1, <2>1 DEF EngTyped
  <2>3. ~Growing /\ ~Unsettled /\ ~At("free")
    BY <2>1 DEF Growing, Unsettled, For, Allocating, At
  <2>4. c \notin running
    BY <2>3 DEF Stages, StageSeat
  <2>5. sealed[c] = Len(text[c])
    BY <2>1, <2>3, <2>4 DEF SpokenStreams
  <2>6. ~Ready'
    BY <2>2 DEF Ready, At
  <2> QED
    BY <2>1, <2>2, <2>5, <2>6 DEF EngStreams
<1>11. CASE Probe
  <2>1. /\ At("probe") /\ eng' = [eng EXCEPT !.at = eng.then] /\ UNCHANGED <<spoken, text, sealed>>
        /\ eng.then \in {"choose", "tables"}
    BY <1>1, <1>11 DEF Probe, GoTo, convVars, EngAgrees, At
  <2>2. eng'.at = eng.then /\ eng'.conv = c /\ eng'.prompt = p /\ eng'.resume = eng.resume
    BY <1>1, <2>1 DEF EngTyped
  <2>3. CASE eng.then = "choose"
    BY <1>2, <2>2, <2>3
  <2>4. CASE eng.then = "tables"
    <3>1. list'[c] = Chain(p, 0, sealed[c]) /\ eng.resume = sealed[c]
      BY <1>11, <2>4, ProbeOnward
    <3>2. Onward
      BY <2>1, <2>4 DEF Onward, FastWay
    <3>3. c \in spoken /\ IsPrefix(text[c], p)
      BY <3>2 DEF EngStreams
    <3> QED
      BY <2>1, <2>2, <3>1, <3>3 DEF EngStreams
  <2> QED
    BY <2>1, <2>3, <2>4
<1>12. CASE PreparePromote \/ Promote
  <2>1. \E P : eng' = [eng EXCEPT !.plan = P]
    BY <1>12 DEF PreparePromote, Promote
  <2>2. eng'.at = eng.at /\ eng'.conv = c /\ eng'.then = eng.then /\ eng'.prompt = p
        /\ eng'.resume = eng.resume
    BY <1>1, <2>1 DEF EngTyped
  <2>3. At("probe") /\ UNCHANGED <<spoken, text, sealed>>
    BY <1>12 DEF PreparePromote, Promote, convVars
  <2>4. ~Ready' /\ (Onward' => Onward)
    BY <2>2, <2>3 DEF Onward, Ready, FastWay, For, Allocating, At
  <2>5. Onward => c \in spoken
    BY DEF EngStreams
  <2> QED
    BY <2>2, <2>3, <2>4, <2>5, EngStreamsStay
<1>13. CASE FastAllocated
  <2>1. eng' = [eng EXCEPT !.at = "probe", !.then = "tables", !.out = <<>>]
        /\ Onward /\ UNCHANGED <<spoken, text, sealed>>
    BY <1>13 DEF FastAllocated, Allocated, Onward, FastWay, For, Allocating
  <2>2. eng'.at = "probe" /\ eng'.conv = c /\ eng'.prompt = p /\ eng'.resume = eng.resume
    BY <1>1, <2>1 DEF EngTyped
  <2>3. ~Ready' /\ c \in spoken
    BY <2>1, <2>2 DEF Ready, At, EngStreams
  <2> QED
    BY <2>1, <2>2, <2>3, EngStreamsStay
<1>14. CASE FreshRead
  <2>1. \E n : eng' = [eng EXCEPT !.then = "tail", !.need = n, !.out = <<>>] /\ At("alloc")
    BY <1>14 DEF FreshRead, Allocated
  <2>2. eng'.at = "alloc" /\ eng'.then = "tail"
    BY <1>1, <2>1 DEF EngTyped, At
  <2> QED
    BY <1>3, <2>2
<1>15. CASE FastTables
  <2>1. At("tables") /\ eng' = [eng EXCEPT !.at = "headers"] /\ UNCHANGED <<list, sealed>>
    BY <1>15 DEF FastTables, GoTo, indexVars, convVars
  <2>2. eng'.at = "headers" /\ eng'.conv = c /\ eng'.prompt = p /\ eng'.resume = eng.resume
    BY <1>1, <2>1 DEF EngTyped
  <2>3. ~Onward' /\ Ready
    BY <2>1, <2>2 DEF Onward, Ready, FastWay, For, Allocating, At
  <2> QED
    BY <2>1, <2>2, <2>3, EngStreamsStay
<1>16. CASE Install
  <2>1. /\ For("tail") /\ c \in Conv /\ list' = list
        /\ sealed' = [sealed EXCEPT ![c] = eng.resume]
        /\ eng' = [eng EXCEPT !.at = "headers", !.out = <<>>]
    BY <1>1, <1>16 DEF Install, Allocated, For, Allocating, EngAgrees, At, indexVars
  <2>2. eng'.at = "headers" /\ eng'.conv = c /\ sealed'[c] = eng.resume /\ eng'.prompt = p
        /\ eng'.resume = eng.resume
    BY <1>1, <2>1 DEF EngTyped, Typed, StateTyped, ConvTyped
  <2>3. list[c] = Chain(p, 0, eng.resume)
    BY <2>1 DEF Stages, StageList
  <2>4. ~Onward'
    BY <2>2 DEF Onward, FastWay, For, Allocating, At
  <2> QED
    BY <2>1, <2>2, <2>3, <2>4 DEF EngStreams
<1>17. CASE \/ Serve \/ ServeCold \/ NotServed \/ Grown
            \/ \E d \in Conv : Prefill(d) \/ End(d) \/ EndUnderflows(d) \/ EndUnknown(d)
            \/ \E d \in Conv, x \in Page : Decode(d, x)
  <2>1. eng' = Free
    BY <1>17 DEF Serve, ServeCold, NotServed, Grown, Start, Prefill, End, EndUnderflows,
       EndUnknown, Decode
  <2> QED
    BY <1>2, <2>1 DEF Free
<1>18. CASE \E d \in Conv, q \in Stream : Begin(d, q)
  <2>1. eng'.at = "charge"
    BY <1>18 DEF Begin, Free
  <2> QED
    BY <1>2, <2>1
<1>19. CASE \E d \in Conv : Grow(d)
  <2>1. eng'.at = "abandon" \/ (eng'.at = "alloc" /\ eng'.then = "grow")
    BY <1>19 DEF Grow, Free
  <2> QED
    BY <1>2, <1>3, <2>1
<1> QED
  BY <1>5, <1>6, <1>7, <1>8, <1>9, <1>10, <1>11, <1>12, <1>13, <1>14, <1>15, <1>16, <1>17, <1>18,
     <1>19
  DEF Next, Engine, MakingRoom, Beginning, Departing, Allotting

(* The pool begins with no stream.                                         *)
LEMMA StreamsInit == Init => Streams
<1> SUFFICES ASSUME Init PROVE Streams
  OBVIOUS
<1>1. /\ eng.at = "free" /\ running = {} /\ spoken = {} /\ indexed = {}
      /\ \A c \in Conv : list[c] = <<>>
  BY DEF Init, InitResident, Free
<1>2. EngStreams
  BY <1>1 DEF EngStreams, Onward, Ready, FastWay, For, Allocating, At
<1>3. ListsClosed
  BY <1>1 DEF ListsClosed, Closed, Elems
<1> QED
  BY <1>1, <1>2, <1>3 DEF Streams, RunningStreams, SpokenStreams, Closed

(* While no begin has failed.                                              *)
Flowing == Pool /\ Stages /\ Lengths /\ (~failed => Streams)

(* Streams are kept until a begin fails.                                   *)
LEMMA StreamsAlways == ASSUME ~Replay PROVE Spec => []Flowing
<1>1. Flowing /\ [Next]_vars => (~failed' => Streams')
  <2> SUFFICES ASSUME Flowing, [Next]_vars, ~failed' PROVE Streams'
    OBVIOUS
  <2>1. ~failed
    BY FailedStays
  <2>2. /\ Typed /\ Indexed /\ Stages /\ EngLengths /\ Streams /\ RunningLengths
    <3>1. cold = 0
      <4>1. cold \in Nat /\ ~(cold > 0)
        BY <2>1 DEF Flowing, Lengths, Stages, StageFailed
      <4> QED
        BY <4>1
    <3> QED
      BY <2>1, <3>1 DEF Flowing, Pool, Lengths
  <2>3. RunningStreams' /\ SpokenStreams'
    BY <2>1, <2>2, RunningStreamsStep, SpokenStreamsStep DEF Streams
  <2>4. ListsClosed' /\ Closed(indexed')
    BY <2>2, ListsClosedStep, IndexClosedStep DEF Streams
  <2>5. EngStreams'
    BY <2>2, EngStreamsStep DEF Streams
  <2> QED
    BY <2>3, <2>4, <2>5 DEF Streams, Closed
<1>2. Init => Streams
  BY StreamsInit
<1>3. Spec => [](Pool /\ Stages /\ Lengths)
  BY LengthsAlways
<1> QED
  BY <1>1, <1>2, <1>3, PTL DEF Flowing, Spec

-----------------------------------------------------------------------------
(* Handles.  Until a begin fails, a host allocation is a unit's or part of *)
(* a move.                                                                 *)

NoHandleLost == hosts \subseteq HandlesOf(indexed) \cup Moving

(* What is read from the disk begins with the first unit the index lacks.  *)
FreshMisses ==
  For("fresh") /\ Len(list[eng.conv]) < eng.resume
    => Prefix(eng.prompt, Len(list[eng.conv]) + 1) \notin indexed

(* It does until it is read: the index only loses units meanwhile.         *)
LEMMA FreshMissesStep ==
  ASSUME Typed, Stages, FreshMisses, [Next]_vars
  PROVE  FreshMisses'
<1> DEFINE c == eng.conv
           p == eng.prompt
<1>1. EngTyped /\ EngAgrees
  BY DEF Typed
<1>2. ASSUME eng'.at \notin {"alloc", "hostroom", "demote"} \/ eng'.then # "fresh"
      PROVE  FreshMisses'
  BY <1>2 DEF FreshMisses, For, Allocating, At
<1>3. ASSUME For("fresh")' => /\ For("fresh") /\ eng'.conv = c /\ eng'.prompt = p
                              /\ eng'.resume = eng.resume
                              /\ list'[c] = list[c] /\ indexed' \subseteq indexed
      PROVE  FreshMisses'
  <2>1. SUFFICES ASSUME For("fresh")', Len(list'[eng'.conv]) < eng'.resume
                 PROVE  Prefix(eng'.prompt, Len(list'[eng'.conv]) + 1) \notin indexed'
    BY DEF FreshMisses
  <2> QED
    BY <1>3, <2>1 DEF FreshMisses
<1>4. For("fresh") => c \in Conv
  BY <1>1 DEF For, Allocating, At, EngAgrees
<1>5. CASE Departing
  <2>1. PICK cs \in SUBSET Conv : Departs(cs) /\ DepartsAside(cs)
    BY <1>5, Departures
  <2>2. CASE eng' = Free
    BY <1>2, <2>2 DEF Free
  <2>3. CASE eng.conv \notin cs /\ eng' = eng /\ (At("charge") \/ Allocating \/ At("free"))
    <3>1. For("fresh")' <=> For("fresh")
      BY <2>3 DEF For, Allocating, At
    <3>2. For("fresh") => list'[c] = list[c] /\ indexed' \subseteq indexed
      BY <1>4, <2>1, <2>3, DepartsTo
    <3> QED
      BY <1>3, <2>3, <3>1, <3>2
  <2>4. CASE At("switch") /\ eng' = [eng EXCEPT !.at = "enter"]
    <3>1. eng'.at = "enter"
      BY <1>1, <2>4 DEF EngTyped
    <3> QED
      BY <1>2, <3>1
  <2> QED
    BY <2>1, <2>2, <2>3, <2>4 DEF DepartsAside
<1>6. CASE EvictUnreferenced \/ UNCHANGED vars
  <2>1. eng' = eng /\ list' = list /\ indexed' \subseteq indexed
    BY <1>6 DEF EvictUnreferenced, Evict, indexVars, vars
  <2>2. For("fresh")' <=> For("fresh")
    BY <2>1 DEF At, Allocating, For
  <2> QED
    BY <1>3, <2>1, <2>2
<1>7. CASE NoHostRoom \/ DemoteFails \/ PromoteFails \/ Exhausted \/ RestoreFails \/ CommitFails
  <2>1. \E blocks : Fail(blocks)
    BY <1>7 DEF NoHostRoom, DemoteFails, PromoteFails, Exhausted, RestoreFails, CommitFails
  <2>2. eng'.at \in {"abandon", "cold"}
    BY <2>1 DEF Fail, Free
  <2> QED
    BY <1>2, <2>2
<1>8. CASE Allotting
  <2>1. /\ Allocating /\ UNCHANGED <<indexed, list>> /\ eng'.then = eng.then
        /\ eng'.conv = c /\ eng'.prompt = p /\ eng'.resume = eng.resume
    BY <1>8, Allots
  <2>2. For("fresh")' => For("fresh")
    BY <2>1 DEF For
  <2> QED
    BY <1>3, <2>1, <2>2
<1>9. CASE (Admitting \/ SwitchExplicit \/ Sweep \/ EnterGeneral \/ StandOnResident) /\ ~StandOnDisk
  <2>1. \/ eng'.at \in {"free", "charge", "admit", "switch", "enter"}
        \/ eng'.at \in {"hostroom", "probe", "alloc"} /\ eng'.then \in {"switch", "choose", "tail"}
    BY <1>1, <1>9, Elsewhere
  <2> QED
    BY <1>2, <2>1
<1>10. CASE EnterFast \/ FastAllocated \/ FreshRead \/ FastTables \/ Install \/ Probe
            \/ PreparePromote \/ Promote
  <2>1. CASE EnterFast
    <3>1. eng' = [eng EXCEPT !.at = "alloc", !.then = "fast", !.resume = Len(text[c]),
                             !.need = Beyond(Upper(p), sealed[c] + Len(tail[c]))]
      BY <2>1 DEF EnterFast
    <3>2. eng'.then = "fast"
      BY <1>1, <3>1 DEF EngTyped
    <3> QED
      BY <1>2, <3>2
  <2>2. CASE FastAllocated \/ FastTables \/ Install
    <3>1. \/ eng' = [eng EXCEPT !.at = "probe", !.then = "tables", !.out = <<>>]
          \/ eng' = [eng EXCEPT !.at = "headers"]
          \/ eng' = [eng EXCEPT !.at = "headers", !.out = <<>>]
      BY <2>2 DEF FastAllocated, FastTables, Install, GoTo
    <3>2. eng'.at \in {"probe", "headers"}
      BY <1>1, <3>1 DEF EngTyped
    <3> QED
      BY <1>2, <3>2
  <2>3. CASE FreshRead
    <3>1. \E n : eng' = [eng EXCEPT !.then = "tail", !.need = n, !.out = <<>>]
      BY <2>3 DEF FreshRead
    <3>2. eng'.then = "tail"
      BY <1>1, <3>1 DEF EngTyped
    <3> QED
      BY <1>2, <3>2
  <2>4. CASE Probe
    <3>1. eng' = [eng EXCEPT !.at = eng.then] /\ eng.then \in {"choose", "tables"}
      BY <1>1, <2>4 DEF Probe, GoTo, EngAgrees, At
    <3>2. eng'.at \in {"choose", "tables"}
      BY <1>1, <3>1 DEF EngTyped
    <3> QED
      BY <1>2, <3>2
  <2>5. CASE PreparePromote \/ Promote
    <3>1. At("probe") /\ \E P : eng' = [eng EXCEPT !.plan = P]
      BY <2>5 DEF PreparePromote, Promote
    <3>2. eng'.at = "probe"
      BY <1>1, <3>1 DEF EngTyped, At
    <3> QED
      BY <1>2, <3>2
  <2> QED
    BY <1>10, <2>1, <2>2, <2>3, <2>4, <2>5
<1>11. CASE StandOnDisk
  <2> DEFINE h == Hits(p)
  <2>1. /\ At("choose") /\ c \in Conv /\ list[c] = Chain(p, 0, h) /\ indexed' = indexed
    BY <1>1, <1>11 DEF StandOnDisk, EngAgrees, At, Stages, StageList
  <2>2. /\ p \in Stream /\ Len(p) \in Nat /\ h \in 0..Len(p) /\ Len(list[c]) = h
        /\ h < Len(p) => Prefix(p, h + 1) \notin indexed
    BY <1>1, <2>1, EngIs, MatchedIs, HitsIs
  <2> HIDE DEF h
  <2>3. PICK d \in 1..Len(p) :
          /\ Adopt(c, Below(Lesser(d, Len(list[c]))))
          /\ eng' = [eng EXCEPT !.at = "alloc", !.then = "fresh", !.resume = d,
                                !.need = d - Lesser(d, Len(list[c]))]
    BY <1>11 DEF StandOnDisk
  <2>4. eng'.conv = c /\ eng'.prompt = p /\ eng'.resume = d
    BY <1>1, <2>3 DEF EngTyped
  <2>5. Lesser(d, h) \in 0..h /\ (Lesser(d, h) < d => Lesser(d, h) = h /\ h < Len(p))
    BY <2>2 DEF Lesser
  <2>6. Len(list'[c]) = Lesser(d, h)
    <3>1. /\ list \in [Conv -> Seq(Unit)] /\ list[c] \in Seq(Unit)
      BY <2>1 DEF Typed, StateTyped, ListsTyped
    <3>2. list'[c] = Prefix(list[c], Lesser(d, h))
      BY <2>1, <2>2, <2>3, <3>1 DEF Adopt, Below
    <3> QED
      BY <2>2, <2>5, <3>1, <3>2, FirstPart
  <2>7. SUFFICES ASSUME Lesser(d, h) < d PROVE Prefix(p, Lesser(d, h) + 1) \notin indexed
    BY <2>1, <2>4, <2>6 DEF FreshMisses
  <2> QED
    BY <2>2, <2>5, <2>7
<1>12. CASE \/ Serve \/ ServeCold \/ NotServed \/ Grown
            \/ \E d \in Conv : Prefill(d) \/ End(d) \/ EndUnderflows(d) \/ EndUnknown(d)
            \/ \E d \in Conv, x \in Page : Decode(d, x)
  <2>1. eng' = Free
    BY <1>12 DEF Serve, ServeCold, NotServed, Grown, Start, Prefill, End, EndUnderflows,
       EndUnknown, Decode
  <2> QED
    BY <1>2, <2>1 DEF Free
<1>13. CASE \E d \in Conv, q \in Stream : Begin(d, q)
  <2>1. eng'.at = "charge"
    BY <1>13 DEF Begin, Free
  <2> QED
    BY <1>2, <2>1
<1>14. CASE \E d \in Conv : Grow(d)
  <2>1. eng'.at = "abandon" \/ (eng'.at = "alloc" /\ eng'.then = "grow")
    BY <1>14 DEF Grow, Free
  <2> QED
    BY <1>2, <2>1
<1> QED
  BY <1>5, <1>6, <1>7, <1>8, <1>9, <1>10, <1>11, <1>12, <1>13, <1>14
  DEF Next, Engine, MakingRoom, Beginning, Departing, Allotting

(* What the host still holds, of the units it held before.                 *)
LEMMA HandlesStay ==
  ASSUME NoHandleLost, hosts' \subseteq hosts, Moving = {},
         \A u \in indexed : OnHost(u) /\ place[u][2] \in hosts'
                              => u \in indexed' /\ place'[u] = place[u]
  PROVE  NoHandleLost'
<1> SUFFICES ASSUME NEW k \in hosts' PROVE k \in HandlesOf(indexed)'
  BY DEF NoHandleLost
<1>1. PICK u \in indexed : OnHost(u) /\ k = place[u][2]
  BY DEF NoHandleLost, HandlesOf
<1>2. u \in indexed' /\ place'[u] = place[u]
  BY <1>1
<1>3. OnHost(u)' /\ k = place'[u][2]
  BY <1>1, <1>2 DEF OnHost
<1> QED
  BY <1>2, <1>3 DEF HandlesOf

(* An eviction gives back the handles of what goes, and of nothing else.   *)
LEMMA EvictHandles ==
  ASSUME Typed, NoHandleLost, Moving = {}, NEW counts, NEW blocks, Evict(counts, blocks)
  PROVE  NoHandleLost'
<1> DEFINE gone == Evictable(counts)
<1>1. /\ place' = [u \in Unit |-> IF u \in gone THEN Nowhere ELSE place[u]]
      /\ indexed' = indexed \ gone /\ hosts' = hosts \ HandlesOf(gone)
  BY DEF Evict
<1>2. indexed \subseteq Unit
  BY DEF Typed, StateTyped, MemoryTyped
<1> HIDE DEF gone
<1>3. ASSUME NEW u \in indexed, OnHost(u), place[u][2] \in hosts'
      PROVE  u \in indexed' /\ place'[u] = place[u]
  <2>1. u \notin gone
    BY <1>1, <1>3 DEF HandlesOf
  <2> QED
    BY <1>1, <1>2, <2>1
<1> QED
  BY <1>1, <1>3, HandlesStay

(* What the disk gives is not on the host: the index lacks its first unit, *)
(* and so all that follow.                                                 *)
LEMMA FreshUnknown ==
  ASSUME Closed(indexed), NEW s \in Stream, NEW m \in Nat, m < Len(s),
         Prefix(s, m + 1) \notin indexed, NEW i \in (m + 1)..Len(s)
  PROVE  Prefix(s, i) \notin indexed
<1> SUFFICES ASSUME Prefix(s, i) \in indexed PROVE FALSE
  OBVIOUS
<1>0. Len(s) \in Nat
  BY StreamIs
<1> DEFINE S == {j \in (m + 1)..Len(s) : Prefix(s, j) \in indexed}
<1>1. S \subseteq Nat /\ S # {}
  BY <1>0
<1>2. PICK n \in S : \A j \in S : n <= j
  <2> HIDE DEF S
  <2> QED
    BY <1>1, Least
<1>3. n \in (m + 1)..Len(s) /\ Prefix(s, n) \in indexed /\ n # m + 1
  BY <1>2
<1>4. n - 1 \in (m + 1)..Len(s) /\ n \in 0..Len(s) /\ n - 1 \in 0..n /\ n > 1
  BY <1>0, <1>3
<1>5. Len(Prefix(s, n)) = n /\ Prefix(Prefix(s, n), n - 1) = Prefix(s, n - 1)
  BY <1>4, PrefixIs
<1>6. Prefix(s, n - 1) \in indexed
  BY <1>3, <1>4, <1>5 DEF Closed
<1>7. n - 1 \in S /\ ~(n <= n - 1)
  BY <1>4, <1>6
<1> QED
  BY <1>2, <1>7

(* So the read leaves every handle with its unit.                          *)
LEMMA FreshHandles ==
  ASSUME Typed, Stages, FreshMisses, Closed(indexed), NoHandleLost, FreshRead
  PROVE  NoHandleLost'
<1> DEFINE c == eng.conv
           p == eng.prompt
           n == Len(list[c])
<1>1. /\ c \in Conv /\ eng.resume - Len(eng.out) = n /\ n + Len(eng.out) = eng.resume
      /\ eng.resume \in 0..Len(p) /\ p \in Stream
  BY FreshSeals
<1>2. /\ eng.out \in Seq(Block) /\ n \in Nat /\ Len(p) \in Nat /\ Len(eng.out) \in Nat
      /\ eng.resume \in Nat /\ eng.resume <= Len(p)
  BY <1>1, EngIs DEF Typed, StateTyped, ListsTyped
<1>3. Seal(c, p, n, eng.out) /\ hosts' = hosts /\ For("fresh") /\ At("alloc")
  BY <1>1 DEF FreshRead, Allocated, For, Allocating
<1>4. Moving = {}
  BY <1>3 DEF Moving, At
<1>5. ASSUME NEW u \in indexed, OnHost(u)
      PROVE  u \in indexed' /\ place'[u] = place[u]
  <2> DEFINE units == Chain(p, n, n + Len(eng.out))
  <2>1. u \in Unit
    BY DEF Typed, StateTyped, MemoryTyped
  <2>2. u \notin Elems(units)
    <3> SUFFICES ASSUME u \in Elems(units) PROVE FALSE
      OBVIOUS
    <3>0. /\ p \in Stream /\ n \in Nat /\ Len(eng.out) \in Nat
          /\ Len(eng.out) > 0 => n + Len(eng.out) <= Len(p)
          /\ u \in Elems(Chain(p, n, n + Len(eng.out)))
      BY <1>1, <1>2
    <3>1. Len(u) - n \in 1..Len(eng.out) /\ u = Prefix(p, n + (Len(u) - n))
      <4> HIDE DEF p, n, units
      <4> QED
        BY ONLY <3>0, SealedUnits
    <3>2. PICK j \in 1..Len(eng.out) : u = Prefix(p, n + j)
      BY <3>1
    <3>3. n < eng.resume /\ n < Len(p) /\ n + j \in (n + 1)..Len(p)
      BY <1>1, <1>2, <3>2
    <3>4. Prefix(p, n + 1) \notin indexed
      BY <1>3, <3>3 DEF FreshMisses
    <3>5. Prefix(p, n + j) \notin indexed
      BY ONLY <1>1, <1>2, <3>3, <3>4, FreshUnknown, Closed(indexed)
    <3> QED
      BY <3>2, <3>5
  <2> HIDE DEF units
  <2>3. /\ place' = [v \in Unit |-> IF v \in Elems(units) /\ ~OnDevice(v)
                                    THEN Device(eng.out[Len(v) - n]) ELSE place[v]]
        /\ indexed' = indexed \cup Elems(units)
    BY <1>3 DEF Seal, units
  <2> QED
    BY <2>1, <2>2, <2>3
<1> QED
  BY <1>3, <1>4, <1>5, HandlesStay

(* The seal gives back the handles of the units that waited on the host.   *)
LEMMA EndHandles ==
  ASSUME Typed, NoHandleLost, NEW c \in Conv, End(c)
  PROVE  NoHandleLost'
<1> DEFINE s == work[c]
           m == sealed[c]
           blocks == Prefix(tail[c], New(c))
           units == Chain(s, m, m + Len(blocks))
           gone == Elems(Chain(s, m, Len(s)))
<1>1. /\ Seal(c, s, m, blocks) /\ eng = Free /\ New(c) <= Len(tail[c])
      /\ hosts' = hosts \ HandlesOf(gone)
  BY DEF End
<1>2. /\ New(c) \in Nat /\ m \in Nat /\ s \in Stream /\ Len(s) \in Nat /\ tail[c] \in Seq(Block)
      /\ New(c) > 0 => m + New(c) = Len(s)
      /\ Len(tail[c]) \in Nat
  BY NewIs
<1>3. Len(blocks) = New(c)
  BY <1>1, <1>2, FirstPart
<1>4. Moving = {}
  BY <1>1 DEF Moving, At, Free
<1>5. Elems(units) \subseteq gone
  <2>1. CASE New(c) > 0
    BY <1>2, <1>3, <2>1
  <2>2. CASE New(c) = 0
    <3>1. Len(units) = 0 /\ units \in Seq(Unit)
      BY <1>2, <1>3, <2>2, SealedUnits
    <3>2. DOMAIN units = {}
      BY <3>1
    <3> QED
      BY <3>2 DEF Elems
  <2> QED
    BY <1>2, <2>1, <2>2
<1>6. /\ place' = [v \in Unit |-> IF v \in Elems(units) /\ ~OnDevice(v)
                                  THEN Device(blocks[Len(v) - m]) ELSE place[v]]
      /\ indexed' = indexed \cup Elems(units)
  BY <1>1 DEF Seal
<1> HIDE DEF units, gone
<1>7. ASSUME NEW u \in indexed, OnHost(u), place[u][2] \in hosts'
      PROVE  u \in indexed' /\ place'[u] = place[u]
  <2>1. u \notin gone /\ u \in Unit
    BY <1>1, <1>7 DEF HandlesOf, Typed, StateTyped, MemoryTyped
  <2> QED
    BY <1>5, <1>6, <2>1
<1> QED
  BY <1>1, <1>4, <1>7, HandlesStay

(* No step is made while a move is prepared but those of the move.         *)
LEMMA MovesEnd ==
  ASSUME Typed, [Next]_vars, ~PrepareDemote, ~Demote, ~DemoteFails, ~UNCHANGED vars
  PROVE  Moving = {}
<1>1. Free.at = "free"
  BY DEF Free
<1>2. CASE MakingRoom
  BY <1>2 DEF MakingRoom, EvictUnreferenced, DropLru, RoomWanted, EvictHostToDisk, NoHostRoom,
     Roomy, DemoteIdle, Moving, At
<1>3. CASE Admitting
  BY <1>3 DEF Admitting, ChargeSlot, DoNotCharge, Admit, Moving, At
<1>4. CASE Beginning
  BY <1>4 DEF Beginning, SwitchShared, SwitchExplicit, Sweep, EnterFast, EnterGeneral, Probe,
     PreparePromote, Promote, PromoteFails, StandOnResident, StandOnDisk, AllocOne, Exhausted,
     CommitFails, FastAllocated, FreshRead, RestoreFails, FastTables, Install, Serve, ServeCold,
     NotServed, Allocated, RoomWanted, Moving, At
<1>5. CASE Grown \/ GrowthFailed
  BY <1>5 DEF Grown, GrowthFailed, Allocated, Moving, At
<1>6. CASE ~Engine
  BY <1>1, <1>6 DEF Next, Begin, Prefill, Grow, End, EndUnderflows, EndUnknown, Abandon, Decode,
     Erase, Trim, Moving, At
<1> QED
  BY <1>2, <1>3, <1>4, <1>5, <1>6 DEF Next, Engine

(* A move to the host leaves no handle behind.                             *)
LEMMA DemoteHandles ==
  ASSUME Typed, Indexed, OneOwner, NoHandleLost, Demote
  PROVE  NoHandleLost'
<1>1. /\ At("demote") /\ hosts' = hosts /\ indexed' = indexed
      /\ place' = [u \in Unit |-> IF Moved(u) THEN Host(Target(u)) ELSE place[u]]
      /\ indexed \subseteq Unit
  BY DEF Demote, Typed, StateTyped, MemoryTyped
<1>2. /\ eng.plan \subseteq Unit \X Int
      /\ \A m \in eng.plan : OnDevice(m[1]) /\ m[2] \in Handle
  BY <1>1 DEF Typed, EngTyped, PlanAgrees
<1>3. SUFFICES ASSUME NEW k \in hosts PROVE k \in HandlesOf(indexed)'
  BY <1>1 DEF NoHandleLost
<1>4. CASE k \in HandlesOf(indexed)
  <2>1. PICK u \in indexed : OnHost(u) /\ k = place[u][2]
    BY <1>4 DEF HandlesOf
  <2>2. ~Moved(u)
    BY <1>2, <2>1 DEF Moved, OnHost, OnDevice
  <2>3. place'[u] = place[u]
    BY <1>1, <2>1, <2>2
  <2> QED
    BY <1>1, <2>1, <2>3 DEF HandlesOf, OnHost
<1>5. CASE k \in Targets
  <2>1. PICK m \in eng.plan : k = m[2]
    BY <1>5 DEF Targets
  <2> DEFINE u == m[1]
  <2>2. Moved(u) /\ u \in Unit /\ OnDevice(u)
    BY <1>2 DEF Moved
  <2>3. PICK n \in eng.plan : <<u, Target(u)>> = <<n[1], n[2]>>
    BY <2>2, TargetIs
  <2>4. n = m
    BY <2>3 DEF OneOwner, TakenApart
  <2>5. Target(u) = k
    BY <2>1, <2>3, <2>4
  <2>6. u \in indexed
    BY <2>2, Somewhere DEF Indexed, IndexedMeansPlaced
  <2> HIDE DEF u
  <2>7. place'[u] = Host(k)
    BY <1>1, <2>2, <2>5
  <2>8. place'[u][1] = "host" /\ place'[u][2] = k /\ u \in indexed'
    BY <1>1, <2>6, <2>7 DEF Host
  <2> QED
    BY <2>8 DEF HandlesOf, OnHost
<1> QED
  BY <1>1, <1>3, <1>4, <1>5 DEF NoHandleLost, Moving

(* A move to the device gives back the handles of the units it moves.      *)
LEMMA PromoteHandles ==
  ASSUME Typed, NoHandleLost, Promote
  PROVE  NoHandleLost'
<1>1. /\ At("probe") /\ hosts' = hosts \ HandlesOf(HostHits) /\ indexed' = indexed
      /\ place' = [u \in Unit |-> IF Moved(u) THEN Device(Target(u)) ELSE place[u]]
      /\ indexed \subseteq Unit
  BY DEF Promote, Typed, StateTyped, MemoryTyped
<1>2. \A m \in eng.plan : m[1] \in HostHits
  BY <1>1 DEF Typed, PlanAgrees
<1>3. Moving = {}
  BY <1>1 DEF Moving, At
<1>4. ASSUME NEW u \in indexed, OnHost(u), place[u][2] \in hosts'
      PROVE  u \in indexed' /\ place'[u] = place[u]
  <2>1. u \notin HostHits
    BY <1>1, <1>4 DEF HandlesOf
  <2>2. ~Moved(u)
    BY <1>2, <2>1 DEF Moved
  <2> QED
    BY <1>1, <2>2
<1> QED
  BY <1>1, <1>3, <1>4, HandlesStay

(* The handles taken for a move are the move's.                            *)
LEMMA PrepareHandles ==
  ASSUME Typed, NoHandleLost, PrepareDemote
  PROVE  NoHandleLost'
<1>1. PICK u \in eng.todo :
        IF OnDevice(u)
        THEN /\ hosts' = hosts \cup {FreeHandle}
             /\ eng' = [eng EXCEPT !.todo = @ \ {u}, !.plan = @ \cup {<<u, FreeHandle>>}]
        ELSE /\ eng' = [eng EXCEPT !.todo = @ \ {u}]
             /\ UNCHANGED hosts
  BY DEF PrepareDemote
<1>2. At("demote") /\ UNCHANGED <<place, indexed>>
  BY DEF PrepareDemote, indexVars
<1>3. /\ eng'.at = "demote"
      /\ \/ hosts' = hosts /\ eng'.plan = eng.plan
         \/ hosts' = hosts \cup {FreeHandle} /\ eng'.plan = eng.plan \cup {<<u, FreeHandle>>}
  <2>1. EngTyped
    BY DEF Typed
  <2>2. CASE OnDevice(u)
    BY <1>1, <1>2, <2>1, <2>2 DEF EngTyped, At
  <2>3. CASE ~OnDevice(u)
    BY <1>1, <1>2, <2>1, <2>3 DEF EngTyped, At
  <2> QED
    BY <2>2, <2>3
<1>4. Moving = Targets /\ Moving' = Targets'
  BY <1>2, <1>3 DEF Moving, At
<1>5. hosts' = hosts \/ (hosts' = hosts \cup {FreeHandle} /\ FreeHandle \in Targets')
  <2>1. CASE eng'.plan = eng.plan \cup {<<u, FreeHandle>>}
    <3>1. <<u, FreeHandle>> \in eng'.plan /\ <<u, FreeHandle>>[2] = FreeHandle
      BY <2>1
    <3> QED
      BY <1>3, <3>1 DEF Targets
  <2> QED
    BY <1>3, <2>1
<1>6. Targets \subseteq Targets'
  BY <1>3 DEF Targets
<1>7. HandlesOf(indexed)' = HandlesOf(indexed)
  BY <1>2 DEF HandlesOf, OnHost
<1> QED
  BY <1>4, <1>5, <1>6, <1>7 DEF NoHandleLost

(* Every step of a pool none of whose begins has failed keeps every handle. *)
LEMMA HandlesStep ==
  ASSUME Typed, Indexed, OneOwner, Stages, FreshMisses, Closed(indexed), NoHandleLost,
         [Next]_vars
  PROVE  NoHandleLost'
<1>1. CASE PrepareDemote \/ Demote
  BY <1>1, PrepareHandles, DemoteHandles
<1>2. CASE DemoteFails
  <2>1. hosts' = hosts \ Targets /\ UNCHANGED <<place, indexed>> /\ Moving = Targets
    BY <1>2 DEF DemoteFails, HandlesBack, indexVars, Moving
  <2>2. HandlesOf(indexed)' = HandlesOf(indexed)
    BY <2>1 DEF HandlesOf, OnHost
  <2> QED
    BY <2>1, <2>2 DEF NoHandleLost
<1>3. CASE UNCHANGED vars
  BY <1>3 DEF vars, indexVars, NoHandleLost, HandlesOf, OnHost, Moving, Targets, At
<1>4. SUFFICES ASSUME ~PrepareDemote, ~Demote, ~DemoteFails, ~UNCHANGED vars, Moving = {}
               PROVE  NoHandleLost'
  BY <1>1, <1>2, <1>3, MovesEnd
<1>5. ASSUME UNCHANGED <<hosts, place, indexed>>
      PROVE  NoHandleLost'
  BY <1>4, <1>5, HandlesStay
<1>6. ASSUME NEW cs, Departs(cs)
      PROVE  NoHandleLost'
  <2>1. CASE Leave(cs)
    <3>1. Evict(ref', TailsOf(cs))
      BY <2>1 DEF Leave, Forget
    <3> QED
      BY <1>4, <3>1, EvictHandles
  <2>2. CASE UNCHANGED <<indexVars, lru, used, hosts, convVars, recent, occupant>>
    BY <1>5, <2>2 DEF indexVars
  <2> QED
    BY <1>6, <2>1, <2>2 DEF Departs
<1>7. CASE Departing
  BY <1>6, <1>7, Departures
<1>8. CASE EvictUnreferenced \/ Sweep
  <2>1. Evict(ref, {})
    BY <1>8 DEF EvictUnreferenced, Sweep
  <2> QED
    BY <1>4, <2>1, EvictHandles
<1>9. CASE Promote \/ FreshRead
  BY <1>9, PromoteHandles, FreshHandles
<1>10. CASE \E c \in Conv : End(c)
  BY <1>10, EndHandles
<1>11. CASE Aside /\ ~EvictUnreferenced /\ ~Sweep /\ ~Promote
  BY <1>4, <1>5, <1>11 DEF Aside, NoHostRoom, Roomy, Admitting, ChargeSlot,
     DoNotCharge, Admit, SwitchExplicit, EnterFast, EnterGeneral, PreparePromote,
     PromoteFails, AllocOne, Exhausted, RestoreFails, CommitFails, FastTables, NotServed, Begin,
     Prefill, Grow, indexVars
<1>12. CASE DemoteIdle \/ Probe \/ StandOnResident \/ StandOnDisk \/ FastAllocated \/ Install
            \/ CommitFails \/ Serve \/ ServeCold \/ Grown
            \/ (\E e \in Conv : EndUnderflows(e) \/ EndUnknown(e))
            \/ (\E e \in Conv, x \in Page : Decode(e, x))
  BY <1>5, <1>12 DEF DemoteIdle, Probe, StandOnResident, StandOnDisk, FastAllocated,
     Install, CommitFails, Serve, ServeCold, Grown, EndUnderflows, EndUnknown, Decode, indexVars
<1> QED
  BY <1>4, <1>7, <1>8, <1>9, <1>10, <1>11, <1>12
  DEF Next, Engine, MakingRoom, Beginning, Departing, Aside

(* Each is counted once.                                                   *)
LEMMA HandleSizes ==
  ASSUME Typed, OneHolder, NoHandleLost
  PROVE  HandlesAlwaysOwned
<1> DEFINE D == {u \in indexed : OnHost(u)}
           B == HandlesOf(indexed)
           M == Moving
<1>1. indexed \subseteq Unit /\ hosts \subseteq Handle
  BY DEF Typed, StateTyped, MemoryTyped
<1>2. IsFiniteSet(hosts)
  <2>1. IsFiniteSet(Handle)
    BY FS_Interval, HostCapAssumption DEF Handle
  <2> QED
    BY <1>1, <2>1, FS_Subset
<1>3. B \subseteq hosts /\ M \subseteq hosts /\ B \cap M = {}
  <2>1. ASSUME NEW k \in B PROVE k \in hosts \ M
    <3>1. PICK u \in indexed : OnHost(u) /\ k = place[u][2]
      BY DEF HandlesOf
    <3> QED
      BY <1>1, <3>1 DEF OneHolder
  <2> QED
    BY <2>1 DEF OneHolder
<1>4. hosts = B \cup M
  BY <1>3 DEF NoHandleLost
<1>5. IsFiniteSet(B) /\ IsFiniteSet(M)
  BY <1>2, <1>3, FS_Subset
(* A unit on the host for each of its handles. *)
<1>6. Cardinality(D) = Cardinality(B)
  <2> DEFINE f == [k \in B |-> CHOOSE u \in D : place[u][2] = k]
  <2>1. \A k \in B : \E u \in D : place[u][2] = k
    BY DEF HandlesOf
  <2>2. \A k \in B : f[k] \in D /\ place[f[k]][2] = k
    BY <2>1
  <2>3. f \in [B -> D]
    BY <2>2
  <2>4. \A u \in D : \E k \in B : f[k] = u
    <3> SUFFICES ASSUME NEW u \in D PROVE \E k \in B : f[k] = u
      OBVIOUS
    <3>1. place[u][2] \in B
      BY DEF HandlesOf
    <3> DEFINE v == f[place[u][2]]
    <3>2. v \in D /\ place[v][2] = place[u][2]
      BY <2>2, <3>1
    <3> HIDE DEF v, f
    <3>3. v \in Unit /\ u \in Unit /\ OnHost(v) /\ OnHost(u)
      BY <1>1, <3>2
    <3>4. v = u
      BY <3>2, <3>3 DEF OneHolder
    <3> QED
      BY <3>1, <3>4 DEF v
  <2>5. \A x, y \in B : f[x] = f[y] => x = y
    BY <2>2
  <2> HIDE DEF f
  <2> QED
    BY <1>5, <2>3, <2>4, <2>5, SameSize
<1>7. Cardinality(hosts) = Cardinality(D) + Cardinality(M)
  <2> HIDE DEF B, M, D
  <2>1. Cardinality(B \cup M) = Cardinality(B) + Cardinality(M) - Cardinality(B \cap M)
    BY <1>5, FS_Union
  <2>2. Cardinality(B) \in Nat /\ Cardinality(M) \in Nat /\ Cardinality(B \cap M) = 0
    BY <1>3, <1>5, FS_CardinalityType, FS_EmptySet
  <2> QED
    BY <1>4, <1>6, <2>1, <2>2
<1> QED
  BY <1>4, <1>7 DEF HandlesAlwaysOwned, Moving, B, M, D

(* Without replay, until a begin fails: a host allocation is one unit's or *)
(* part of the move being made, it is freed once, by whichever of          *)
(* promotion, merge-on-seal, eviction and rollback ends its use, and none  *)
(* is lost (resident.rs, pool.rs), whichever growth fails.                 *)
THEOREM HandlesKeptOwned ==
  ASSUME ~Replay
  PROVE  Spec => []HandlesOwned
<1> DEFINE I == FreshMisses /\ (~failed => NoHandleLost)
<1>1. Init => I
  BY DEF Init, InitResident, FreshMisses, NoHandleLost, For, Allocating, At, Free
<1>2. Flowing /\ I /\ [Next]_vars => I'
  <2> SUFFICES ASSUME Flowing, I, [Next]_vars PROVE I'
    OBVIOUS
  <2>1. Typed /\ Indexed /\ OneOwner /\ Stages
    BY DEF Flowing, Pool
  <2>2. FreshMisses'
    BY <2>1, FreshMissesStep
  <2>3. ASSUME ~failed' PROVE NoHandleLost'
    <3>1. ~failed
      BY <2>3, FailedStays
    <3> QED
      BY <2>1, <3>1, HandlesStep DEF Flowing, Streams
  <2> QED
    BY <2>2, <2>3
<1>3. Flowing /\ I => HandlesOwned
  BY HandleSizes DEF Flowing, Pool, HandlesOwned
<1>4. Spec => []Flowing
  BY StreamsAlways
<1> QED
  BY <1>1, <1>2, <1>3, <1>4, PTL DEF Spec

-----------------------------------------------------------------------------
(* Slots.  Until a begin fails, a running request has its slot, and what   *)
(* the slot's table names is what its conversation holds.                  *)

Aboard(c) == \A u \in Elems(list[c]) : OnDevice(u)

Seated(c) == /\ occupant[seat[c]] = c /\ Aboard(c)
             /\ table[seat[c]] = Table(c, tail[c])

RunningSeated == \A c \in running : Seated(c)

Occupants == \A s \in Slot : occupant[s] # NoConv =>
  /\ occupant[s] \in known
  /\ \A t \in Slot \ {s} : occupant[t] # occupant[s]

Preparing == ~At("free") /\ ~Growing

EngSlot ==
  /\ Preparing => /\ occupant[eng.slot] \notin running
                  /\ \A s \in Slot \ {eng.slot} : occupant[s] # eng.conv
                  /\ ~At("charge") => cur = eng.slot
  /\ For("grow") => cur = seat[eng.conv]
  /\ Appending \/ At("headers") => occupant[cur] = eng.conv
  /\ At("headers") => table[cur] = Table(eng.conv, tail[eng.conv])

EngAboard == Unsettled \/ Ready => Aboard(eng.conv)

(* What goes to the host is named by no running request, nor by the one    *)
(* that room is made for.                                                  *)
MovesAside ==
  At("hostroom") \/ At("demote") =>
    \A c \in (running \cup {eng.conv}) \cap Conv :
      Elems(list[c]) \cap (eng.todo \cup {m[1] : m \in eng.plan}) = {}

(* A unit on the device that a conversation names before and after a step, *)
(* and that is not being moved, stays where it is.                         *)
LEMMA PlaceKept ==
  ASSUME Typed, Indexed, [Next]_vars, NEW d \in Conv, NEW u \in Elems(list[d]),
         u \in Elems(list'[d]), OnDevice(u), At("demote") => ~Moved(u)
  PROVE  place'[u] = place[u]
<1>1. Typed' /\ Indexed'
  BY TypedStep, IndexStep
<1>2. /\ list[d] \in Seq(Unit) /\ list'[d] \in Seq(Unit) /\ ListsTyped'
  BY <1>1 DEF Typed, StateTyped, ListsTyped
<1>3. u \in Unit
  BY <1>2, ElemsIs
<1>4. ref'[u] # 0
  <2>1. Lists(list')
    BY <1>2, ListsAre
  <2>2. ref' = [v \in Unit |-> Times(list', Conv, v)]
    BY <1>1, CountedIs DEF Indexed
  <2>3. ref'[u] = Times(list', Conv, u)
    BY <1>3, <2>2
  <2>4. Times(list', Conv, u) = 0 <=> \A c \in Conv : u \notin Elems(list'[c])
    BY <2>1, TimesIs
  <2> QED
    BY <2>3, <2>4
<1>5. ASSUME NEW blocks, Evict(ref', blocks) PROVE place'[u] = place[u]
  BY <1>3, <1>4, <1>5 DEF Evict, Evictable
<1>6. ASSUME NEW c, NEW s, NEW m, NEW blocks, Seal(c, s, m, blocks)
      PROVE  place'[u] = place[u]
  BY <1>3, <1>6 DEF Seal
<1>7. CASE Departing
  <2>1. PICK cs \in SUBSET Conv : Departs(cs)
    BY <1>7, Departures
  <2>2. CASE Leave(cs)
    BY <1>5, <2>2 DEF Leave, Forget
  <2>3. CASE cs = {} /\ UNCHANGED <<indexVars, lru, used, hosts, convVars, recent, occupant>>
    BY <2>3 DEF indexVars
  <2> QED
    BY <2>1, <2>2, <2>3 DEF Departs
<1>8. CASE EvictUnreferenced \/ Sweep
  BY <1>5, <1>8 DEF EvictUnreferenced, Sweep
<1>9. CASE FreshRead \/ \E c \in Conv : End(c)
  BY <1>6, <1>9 DEF FreshRead, End
<1>10. CASE Demote
  <2>1. /\ At("demote")
        /\ place' = [v \in Unit |-> IF Moved(v) THEN Host(Target(v)) ELSE place[v]]
    BY <1>10 DEF Demote
  <2> QED
    BY <1>3, <2>1
<1>11. CASE Promote
  <2>1. /\ At("probe")
        /\ place' = [v \in Unit |-> IF Moved(v) THEN Device(Target(v)) ELSE place[v]]
    BY <1>11 DEF Promote
  <2>2. ~Moved(u)
    <3>1. \A m \in eng.plan : m[1] \in HostHits
      BY <2>1 DEF Typed, PlanAgrees
    <3> QED
      BY <3>1 DEF Moved, HostHits, OnHost, OnDevice
  <2> QED
    BY <1>3, <2>1, <2>2
<1>12. CASE Aside /\ ~EvictUnreferenced /\ ~Sweep /\ ~Promote
  BY <1>12 DEF Aside, NoHostRoom, Roomy, PrepareDemote, DemoteFails, Admitting, ChargeSlot,
     DoNotCharge, Admit, SwitchExplicit, EnterFast, EnterGeneral, PreparePromote,
     PromoteFails, AllocOne, Exhausted, RestoreFails, CommitFails, FastTables, NotServed, Begin,
     Prefill, Grow, indexVars, vars
<1>13. CASE DemoteIdle \/ Probe \/ StandOnResident \/ StandOnDisk \/ FastAllocated \/ Install
            \/ CommitFails \/ Serve \/ ServeCold \/ Grown
            \/ (\E e \in Conv : EndUnderflows(e) \/ EndUnknown(e))
            \/ (\E e \in Conv, x \in Page : Decode(e, x))
  BY <1>13 DEF DemoteIdle, Probe, StandOnResident, StandOnDisk, FastAllocated,
     Install, CommitFails, Serve, ServeCold, Grown, EndUnderflows, EndUnknown, Decode, indexVars
<1> QED
  BY <1>7, <1>8, <1>9, <1>10, <1>11, <1>12, <1>13
  DEF Next, Engine, MakingRoom, Beginning, Departing, Aside, Own

(* One that a running request's conversation names, or that of the request *)
(* at hand, is not being moved.                                            *)
LEMMA PlaceStays ==
  ASSUME Typed, Indexed, MovesAside, [Next]_vars,
         NEW d \in (running \cup {eng.conv}) \cap Conv, NEW u \in Elems(list[d]),
         u \in Elems(list'[d]), OnDevice(u)
  PROVE  place'[u] = place[u]
<1>1. At("demote") => ~Moved(u)
  BY DEF MovesAside, Moved
<1> QED
  BY <1>1, PlaceKept

(* What leaves leaves its slots.                                           *)
LEMMA DepartsSlots ==
  ASSUME Typed, NEW cs \in SUBSET Conv, Departs(cs)
  PROVE  \A s \in Slot : occupant'[s] = IF occupant[s] \in cs THEN NoConv ELSE occupant[s]
<1>1. CASE Leave(cs)
  BY <1>1 DEF Leave, Vacate
<1>2. CASE cs = {} /\ occupant' = occupant
  BY <1>2
<1> QED
  BY <1>1, <1>2 DEF Departs

(* What a step may do to a running request's slot.                         *)
LEMMA SeatedStays ==
  ASSUME Typed, Indexed, MovesAside, [Next]_vars, NEW d \in running, Seated(d),
         list'[d] = list[d], tail'[d] = tail[d], seat'[d] = seat[d],
         occupant'[seat[d]] = occupant[seat[d]], table'[seat[d]] = table[seat[d]]
  PROVE  Seated(d)'
<1>1. d \in (running \cup {eng.conv}) \cap Conv
  BY DEF Typed, StateTyped, RowTyped
<1>2. \A u \in Elems(list[d]) : OnDevice(u) /\ place'[u] = place[u]
  <2> TAKE u \in Elems(list[d])
  <2>1. OnDevice(u)
    BY DEF Seated, Aboard
  <2> QED
    BY <1>1, <2>1, PlaceStays
<1>3. Aboard(d)'
  BY <1>2 DEF Aboard, OnDevice
<1>4. \A i \in DOMAIN list[d] : place'[list'[d][i]] = place[list[d][i]]
  BY <1>2 DEF Elems
<1>5. Table(d, tail[d])' = Table(d, tail[d])
  BY <1>4 DEF Table
<1> QED
  BY <1>3, <1>5 DEF Seated, Table

(* Who is in the slots: those that were, but Install's.                    *)
LEMMA OccupantsStay ==
  ASSUME Occupants, running \subseteq Conv,
         \A s \in Slot : \/ occupant'[s] = NoConv
                         \/ occupant'[s] = occupant[s] /\ occupant[s] \in known'
  PROVE  Occupants'
BY DEF Occupants

(* A slot is left to no conversation that is gone, and to none twice.      *)
LEMMA OccupantsStep ==
  ASSUME Typed, Stages, RunningStreams, RunningSeated, Occupants, EngSlot, ~failed, [Next]_vars
  PROVE  Occupants'
<1> DEFINE c == eng.conv
<1>0. /\ running \subseteq Conv /\ occupant \in [Slot -> Conv \cup {NoConv}] /\ cur \in Slot
      /\ seat \in [Conv -> Slot] /\ EngTyped /\ EngAgrees
  BY DEF Typed, StateTyped, RowTyped, SlotTyped
<1>1. ASSUME occupant' = occupant, known \subseteq known' PROVE Occupants'
  BY <1>0, <1>1 DEF Occupants
<1>2. CASE Departing
  <2>1. PICK cs \in SUBSET Conv : Departs(cs)
    BY <1>2, Departures
  <2>2. known' = known \ cs
    BY <2>1, DepartsTo
  <2>3. \A s \in Slot : occupant'[s] = IF occupant[s] \in cs THEN NoConv ELSE occupant[s]
    BY <2>1, DepartsSlots
  <2>4. \A s \in Slot : \/ occupant'[s] = NoConv
                        \/ occupant'[s] = occupant[s] /\ occupant[s] \in known'
    BY <2>2, <2>3 DEF Occupants
  <2> QED
    BY <1>0, <2>4, OccupantsStay
<1>3. CASE Demote
  <2>1. /\ known' = known
        /\ occupant' = [occupant EXCEPT ![cur] = IF @ \in eng.drop THEN NoConv ELSE @]
    BY <1>3 DEF Demote
  <2>2. \A s \in Slot : \/ occupant'[s] = NoConv
                        \/ occupant'[s] = occupant[s] /\ (occupant[s] # NoConv => occupant[s] \in known')
    BY <1>0, <2>1 DEF Occupants
  <2> QED
    BY <1>0, <2>2, OccupantsStay
<1>4. CASE Install
  <2>1. /\ At("alloc") /\ eng.then = "tail" /\ known' = known \cup {c}
        /\ occupant' = [occupant EXCEPT ![cur] = c]
    BY <1>4 DEF Install, Allocated
  <2>2. c \in Conv /\ cur = eng.slot /\ \A s \in Slot \ {cur} : occupant[s] # c
    BY <1>0, <2>1 DEF EngSlot, Preparing, Growing, For, Allocating, At, EngAgrees
  <2>3. occupant'[cur] = c /\ \A s \in Slot \ {cur} : occupant'[s] = occupant[s]
    BY <1>0, <2>1
  <2> HIDE DEF c
  <2> QED
    BY <1>0, <2>1, <2>2, <2>3 DEF Occupants
<1>5. ASSUME NEW d \in Conv, End(d) \/ EndUnderflows(d) \/ EndUnknown(d)
      PROVE  Occupants'
  <2>1. /\ known' = known /\ d \in running
        /\ LeaveSlot(d, d) \/ LeaveSlot(d, occupant[seat[d]])
    BY <1>5 DEF End, EndUnderflows, EndUnknown, convVars
  <2>2. occupant[seat[d]] = d /\ seat[d] \in Slot /\ d \in known /\ d # NoConv
    BY <1>0, <2>1, NoConvAssumption DEF RunningSeated, Seated, RunningStreams
  <2>3. \E x \in {NoConv, d} : occupant' = [occupant EXCEPT ![seat[d]] = x]
    BY <2>1, <2>2 DEF LeaveSlot
  <2>4. \A s \in Slot : \/ occupant'[s] = NoConv
                        \/ occupant'[s] = occupant[s] /\ (occupant[s] # NoConv => occupant[s] \in known')
    BY <1>0, <2>1, <2>2, <2>3 DEF Occupants
  <2> QED
    BY <1>0, <2>4, OccupantsStay
<1>6. CASE Aside
  <2>1. known' = known
    BY <1>6, AsideKeeps
  <2>2. occupant' = occupant
    BY <1>6 DEF Aside, EvictUnreferenced, NoHostRoom, Roomy, PrepareDemote, DemoteFails, Admitting,
       ChargeSlot, DoNotCharge, Admit, SwitchExplicit, Sweep, EnterFast, EnterGeneral,
       PreparePromote, Promote, PromoteFails, AllocOne, Exhausted, RestoreFails, CommitFails, Fail,
       FastTables, NotServed, Begin, Prefill, Grow, slotVars, vars
  <2> QED
    BY <1>1, <2>1, <2>2
<1>7. CASE DemoteIdle \/ Probe \/ StandOnResident \/ StandOnDisk \/ FastAllocated \/ FreshRead
           \/ CommitFails \/ Serve \/ ServeCold \/ Grown
           \/ (\E e \in Conv, x \in Page : Decode(e, x))
  BY <1>1, <1>7 DEF DemoteIdle, Probe, StandOnResident, StandOnDisk, FastAllocated, FreshRead,
     CommitFails, Serve, ServeCold, Grown, Decode, convVars, slotVars
<1> QED
  BY <1>2, <1>3, <1>4, <1>5, <1>6, <1>7
  DEF Next, Engine, MakingRoom, Beginning, Departing, Aside, Own

(* Where the request that a step prepares is to run, nobody runs.          *)
LEMMA SeatsApart ==
  ASSUME Typed, RunningSeated, EngSlot, NEW d \in running
  PROVE  /\ Preparing /\ ~At("charge") => seat[d] # cur
         /\ For("grow") /\ d # eng.conv /\ eng.conv \in running => seat[d] # cur
         /\ \A e \in running : e # d => seat[e] # seat[d]
BY DEF RunningSeated, Seated, EngSlot

(* Running requests keep their slots, and each step that changes what one  *)
(* holds applies the table to its slot.                                    *)
LEMMA RunningSeatedStep ==
  ASSUME Typed, Indexed, Stages, RunningSeated, EngSlot, EngAboard, MovesAside, ~failed,
         [Next]_vars
  PROVE  RunningSeated'
<1> DEFINE c == eng.conv
<1>0. /\ running \subseteq Conv /\ occupant \in [Slot -> Conv \cup {NoConv}] /\ cur \in Slot
      /\ seat \in [Conv -> Slot] /\ EngTyped /\ EngAgrees /\ table \in [Slot -> Seq(Int)]
  BY DEF Typed, StateTyped, RowTyped, SlotTyped
<1>1. ASSUME NEW d \in running, list'[d] = list[d], tail'[d] = tail[d], seat'[d] = seat[d],
             occupant'[seat[d]] = occupant[seat[d]], table'[seat[d]] = table[seat[d]]
      PROVE  Seated(d)'
  BY <1>1, SeatedStays DEF RunningSeated
<1>2. ASSUME running' \subseteq running, UNCHANGED <<list, tail, seat, occupant, table>>
      PROVE  RunningSeated'
  BY <1>1, <1>2 DEF RunningSeated
<1>3. CASE Departing
  <2>1. PICK cs \in SUBSET Conv : Departs(cs) /\ DepartsAside(cs)
    BY <1>3, Departures
  <2>2. ASSUME NEW d \in running' PROVE Seated(d)'
    <3>1. d \in running \ cs /\ d \in Conv
      BY <1>0, <2>1 DEF DepartsAside
    <3>2. list'[d] = list[d] /\ tail'[d] = tail[d] /\ seat'[d] = seat[d] /\ table' = table
      BY <2>1, <3>1, DepartsTo DEF DepartsAside
    <3>3. occupant[seat[d]] = d /\ seat[d] \in Slot
      BY <1>0, <3>1 DEF RunningSeated, Seated
    <3>4. occupant'[seat[d]] = occupant[seat[d]]
      BY <2>1, <3>1, <3>3, DepartsSlots
    <3> QED
      BY <1>1, <3>1, <3>2, <3>4
  <2> QED
    BY <2>2 DEF RunningSeated
<1>4. CASE Aside
  <2>1. UNCHANGED <<list, tail, seat, running>>
    BY <1>4, AsideKeeps
  <2>2. occupant' = occupant
    BY <1>4 DEF Aside, EvictUnreferenced, NoHostRoom, Roomy, PrepareDemote, DemoteFails, Admitting,
       ChargeSlot, DoNotCharge, Admit, SwitchExplicit, Sweep, EnterFast, EnterGeneral,
       PreparePromote, Promote, PromoteFails, AllocOne, Exhausted, RestoreFails, CommitFails, Fail,
       FastTables, NotServed, Begin, Prefill, Grow, slotVars, vars
  <2>3. CASE ~FastTables
    <3>1. table' = table
      BY <1>4, <2>3 DEF Aside, EvictUnreferenced, NoHostRoom, Roomy, PrepareDemote, DemoteFails,
         Admitting, ChargeSlot, DoNotCharge, Admit, SwitchExplicit, Sweep, EnterFast, EnterGeneral,
         PreparePromote, Promote, PromoteFails, AllocOne, Exhausted, RestoreFails, CommitFails,
         Fail, NotServed, Begin, Prefill, Grow, rowVars, vars
    <3> QED
      BY <1>2, <2>1, <2>2, <3>1
  <2>4. CASE FastTables
    <3>1. At("tables") /\ table' = [table EXCEPT ![cur] = Table(c, tail[c])]
      BY <2>4 DEF FastTables
    <3>2. ASSUME NEW d \in running PROVE table'[seat[d]] = table[seat[d]]
      <4>1. seat[d] # cur
        BY <3>1, SeatsApart DEF Preparing, Growing, For, Allocating, At
      <4> QED
        BY <1>0, <3>1, <4>1
    <3> QED
      BY <1>1, <2>1, <2>2, <3>2 DEF RunningSeated
  <2> QED
    BY <2>3, <2>4
<1>5. CASE Own
  <2>1. /\ c \in Conv \ running /\ UNCHANGED <<running, seat>>
        /\ \A d \in Conv \ {c} : list'[d] = list[d] /\ tail'[d] = tail[d]
    BY <1>5, OwnKeeps
  <2>2. CASE ~Install
    <3>1. UNCHANGED <<occupant, table>>
      BY <1>5, <2>2 DEF Own, Probe, StandOnResident, StandOnDisk, FastAllocated, FreshRead,
         CommitFails, rowVars, slotVars
    <3> QED
      BY <1>0, <1>1, <2>1, <3>1 DEF RunningSeated
  <2>3. CASE Install
    <3>1. /\ At("alloc") /\ eng.then = "tail"
          /\ table' = [table EXCEPT ![cur] = Table(c, eng.out)]
          /\ occupant' = [occupant EXCEPT ![cur] = c]
      BY <2>3 DEF Install, Allocated
    <3>2. ASSUME NEW d \in running
          PROVE  table'[seat[d]] = table[seat[d]] /\ occupant'[seat[d]] = occupant[seat[d]]
      <4>1. seat[d] # cur /\ seat[d] \in Slot
        BY <1>0, <3>1, SeatsApart DEF Preparing, Growing, For, Allocating, At
      <4> QED
        BY <1>0, <3>1, <4>1
    <3> QED
      BY <1>0, <1>1, <2>1, <3>2 DEF RunningSeated
  <2> QED
    BY <2>2, <2>3
<1>6. CASE Demote \/ DemoteIdle
  <2>1. /\ UNCHANGED <<list, running, seat>>
        /\ \A d \in running : tail'[d] = tail[d]
    BY <1>0, <1>6, IdleTails
  <2>2. table' = table
    BY <1>6 DEF Demote, DemoteIdle, rowVars
  <2>3. ASSUME NEW d \in running PROVE occupant'[seat[d]] = occupant[seat[d]]
    <3>1. occupant[seat[d]] = d /\ seat[d] \in Slot
      BY <1>0 DEF RunningSeated, Seated
    <3>2. CASE Demote
      <4>1. /\ occupant' = [occupant EXCEPT ![cur] = IF @ \in eng.drop THEN NoConv ELSE @]
            /\ eng.drop \cap (running \cup {eng.conv}) = {}
        BY <3>2 DEF Demote, Stages, StageMoves
      <4> QED
        BY <1>0, <3>1, <4>1
    <3>3. CASE DemoteIdle
      BY <3>3 DEF DemoteIdle, slotVars
    <3> QED
      BY <1>6, <3>2, <3>3
  <2> QED
    BY <1>1, <2>1, <2>2, <2>3 DEF RunningSeated
<1>7. CASE Serve
  <2>1. PICK d \in Conv : d = eng.conv
    BY <1>0, <1>7 DEF Serve, At, EngAgrees
  <2>2. /\ At("headers") /\ Start(eng.resume)
        /\ UNCHANGED <<list, tail, place, occupant, table>>
    BY <1>7 DEF Serve, indexVars, convVars, slotVars
  <2>3. /\ running' = running \cup {d} /\ seat'[d] = cur
        /\ \A e \in Conv \ {d} : seat'[e] = seat[e]
    BY <1>0, <2>1, <2>2 DEF Start
  <2>4. d \notin running
    BY <2>1, <2>2 DEF Stages, StageSeat, Growing, For, Allocating, At
  <2>5. occupant[cur] = d /\ table[cur] = Table(d, tail[d]) /\ Aboard(d)
    BY <2>1, <2>2 DEF EngSlot, EngAboard, Ready
  <2>6. Seated(d)'
    <3>1. Table(d, tail[d])' = Table(d, tail[d])
      BY <2>2 DEF Table
    <3>2. Aboard(d)'
      BY <2>2, <2>5 DEF Aboard, OnDevice
    <3> QED
      BY <2>2, <2>3, <2>5, <3>1, <3>2 DEF Seated
  <2>7. ASSUME NEW e \in running PROVE Seated(e)'
    <3>1. e \in Conv \ {d}
      BY <1>0, <2>4
    <3>2. seat'[e] = seat[e]
      BY <2>3, <3>1
    <3> QED
      BY <1>1, <2>2, <3>2
  <2> QED
    BY <2>3, <2>6, <2>7 DEF RunningSeated
<1>8. CASE ServeCold
  BY <1>8 DEF ServeCold, Stages, StageFailed
<1>9. CASE \E d \in Conv, x \in Page : Decode(d, x)
  BY <1>2, <1>9 DEF Decode, indexVars, convVars
<1>10. CASE Grown
  <2> DEFINE more == tail[c] \o eng.out
  <2>1. /\ For("grow") /\ UNCHANGED <<list, running, seat, occupant, place>>
        /\ tail' = [tail EXCEPT ![c] = more]
        /\ table' = [table EXCEPT ![cur] = Table(c, more)]
    BY <1>10 DEF Grown, Allocated, For, Allocating, indexVars, slotVars
  <2>2. c \in running /\ c \in Conv /\ cur = seat[c]
    BY <1>0, <2>1 DEF Stages, StageSeat, Growing, EngSlot
  <2>3. PICK d \in Conv : d = c
    BY <2>2
  <2>4. tail'[d] = more /\ \A e \in Conv \ {d} : tail'[e] = tail[e]
    BY <2>1, <2>3 DEF Typed, StateTyped, ConvTyped
  <2> HIDE DEF more
  <2>5. table'[cur] = Table(d, more) /\ \A s \in Slot \ {cur} : table'[s] = table[s]
    BY <1>0, <2>1, <2>3
  <2>6. Seated(d)'
    <3>1. Seated(d)
      BY <2>2, <2>3 DEF RunningSeated
    <3>2. Aboard(d)'
      BY <2>1, <3>1 DEF Seated, Aboard, OnDevice
    <3>3. Table(d, tail[d])' = Table(d, more)
      BY <2>1, <2>4 DEF Table
    <3>4. seat'[d] = cur
      BY <2>1, <2>2, <2>3
    <3> QED
      BY <2>1, <2>5, <3>1, <3>2, <3>3, <3>4 DEF Seated
  <2>7. ASSUME NEW e \in running, e # d PROVE Seated(e)'
    <3>1. seat[e] \in Slot \ {cur} /\ e \in Conv \ {d}
      BY <1>0, <2>1, <2>2, <2>3, <2>7, SeatsApart
    <3> QED
      BY <1>1, <2>1, <2>4, <2>5, <2>7, <3>1
  <2>8. running' = running
    BY <2>1
  <2> QED
    BY <2>6, <2>7, <2>8 DEF RunningSeated
<1>11. ASSUME NEW e \in Conv, End(e) \/ EndUnderflows(e) \/ EndUnknown(e) PROVE RunningSeated'
  <2>1. /\ Stop(e) /\ e \in running /\ table' = table
        /\ \E x : occupant' = [occupant EXCEPT ![seat[e]] = x]
    BY <1>11 DEF End, EndUnderflows, EndUnknown, LeaveSlot
  <2>2. /\ list' = list \/ \E l : list' = [list EXCEPT ![e] = l]
        /\ tail' = tail \/ \E l : tail' = [tail EXCEPT ![e] = l]
    <3>1. CASE End(e)
      BY <3>1 DEF End, Seal
    <3>2. CASE EndUnderflows(e) \/ EndUnknown(e)
      BY <3>2 DEF EndUnderflows, EndUnknown, indexVars, convVars
    <3> QED
      BY <1>11, <3>1, <3>2
  <2>3. ASSUME NEW d \in running' PROVE Seated(d)'
    <3>1. d \in running /\ d # e /\ d \in Conv
      BY <1>0, <2>1 DEF Stop
    <3>2. seat[d] \in Slot /\ seat[d] # seat[e]
      BY <1>0, <2>1, <3>1, SeatsApart
    <3>3. occupant'[seat[d]] = occupant[seat[d]]
      BY <1>0, <2>1, <3>2
    <3>4. list'[d] = list[d] /\ tail'[d] = tail[d] /\ seat'[d] = seat[d]
      BY <2>1, <2>2, <3>1 DEF Stop, Typed, StateTyped, ListsTyped, ConvTyped, RowTyped
    <3> QED
      BY <1>1, <2>1, <3>1, <3>3, <3>4
  <2> QED
    BY <2>3 DEF RunningSeated
<1> QED
  BY <1>3, <1>4, <1>5, <1>6, <1>7, <1>8, <1>9, <1>10, <1>11
  DEF Next, Engine, MakingRoom, Beginning, Departing, Aside, Own

(* Room for a request's own is not made with what it names.                *)
LEMMA MovesAsideStep ==
  ASSUME Typed, Stages, MovesAside, [Next]_vars
  PROVE  MovesAside'
<1> DEFINE c == eng.conv
           goes == eng.todo \cup {m[1] : m \in eng.plan}
<1>0. running \subseteq Conv /\ EngTyped /\ EngAgrees /\ PlanAgrees
  BY DEF Typed, StateTyped, RowTyped
<1>1. ASSUME ~(At("hostroom"))', ~(At("demote"))' PROVE MovesAside'
  BY <1>1 DEF MovesAside
<1>2. ASSUME At("hostroom") \/ At("demote"), eng'.conv = c, running' \subseteq running,
             \A d \in (running' \cup {c}) \cap Conv : list'[d] = list[d],
             eng'.todo \cup {m[1] : m \in eng'.plan} \subseteq goes
      PROVE  MovesAside'
  BY <1>2 DEF MovesAside
<1>3. CASE Departing
  <2>1. PICK cs \in SUBSET Conv : Departs(cs) /\ DepartsAside(cs)
    BY <1>3, Departures
  <2>2. CASE eng' = Free
    BY <1>1, <2>2 DEF Free, At
  <2>3. CASE eng.conv \notin cs /\ eng' = eng /\ ~At("hostroom") /\ ~At("demote")
    BY <1>1, <2>3 DEF At
  <2>4. CASE eng.conv \notin cs /\ eng' = eng /\ (At("hostroom") \/ At("demote"))
    <3>1. \A d \in (running' \cup {c}) \cap Conv : list'[d] = list[d]
      BY <2>1, <2>4, DepartsTo DEF DepartsAside
    <3>2. running' \subseteq running
      BY <2>1 DEF DepartsAside
    <3> QED
      BY <1>2, <2>4, <3>1, <3>2
  <2>5. CASE At("switch") /\ eng' = [eng EXCEPT !.at = "enter"]
    <3>1. eng'.at = "enter"
      BY <1>0, <2>5 DEF EngTyped
    <3> QED
      BY <1>1, <3>1 DEF At
  <2> QED
    BY <2>1, <2>2, <2>3, <2>4, <2>5 DEF DepartsAside
<1>4. CASE EvictUnreferenced \/ UNCHANGED vars
  <2>1. eng' = eng /\ list' = list /\ running' = running
    BY <1>4 DEF EvictUnreferenced, rowVars, indexVars, vars
  <2> QED
    BY <1>1, <1>2, <2>1 DEF At
<1>5. CASE NoHostRoom \/ DemoteFails \/ PromoteFails \/ Exhausted \/ RestoreFails \/ CommitFails
  <2>1. \E blocks : Fail(blocks)
    BY <1>5 DEF NoHostRoom, DemoteFails, PromoteFails, Exhausted, RestoreFails, CommitFails
  <2>2. eng'.at \in {"abandon", "cold"}
    BY <2>1 DEF Fail, Free
  <2> QED
    BY <1>1, <2>2 DEF At
<1>6. CASE Roomy \/ PrepareDemote
  <2>1. /\ At("hostroom") \/ At("demote")
        /\ UNCHANGED <<list, running>>
    BY <1>6 DEF Roomy, PrepareDemote, rowVars, indexVars
  <2>2. eng'.conv = c
    BY <1>6, Allots DEF Allotting
  <2>3. eng'.todo \cup {m[1] : m \in eng'.plan} \subseteq goes
    <3>1. CASE Roomy
      <4>1. eng' = [eng EXCEPT !.at = "demote"]
        BY <3>1 DEF Roomy, GoTo
      <4> QED
        BY <1>0, <4>1 DEF EngTyped
    <3>2. CASE PrepareDemote
      <4>1. PICK u \in eng.todo :
              \/ eng' = [eng EXCEPT !.todo = @ \ {u}, !.plan = @ \cup {<<u, FreeHandle>>}]
              \/ eng' = [eng EXCEPT !.todo = @ \ {u}]
        BY <3>2 DEF PrepareDemote
      <4>2. /\ eng'.todo = eng.todo \ {u}
            /\ eng'.plan = eng.plan \/ eng'.plan = eng.plan \cup {<<u, FreeHandle>>}
        BY <1>0, <4>1 DEF EngTyped
      <4>3. <<u, FreeHandle>>[1] = u
        OBVIOUS
      <4>4. \A m \in eng'.plan : m \in eng.plan \/ m[1] = u
        BY <4>2, <4>3
      <4> QED
        BY <4>2, <4>4
    <3> QED
      BY <1>6, <3>1, <3>2
  <2> QED
    BY <1>2, <1>6, <2>1, <2>2, <2>3 DEF Roomy, PrepareDemote, rowVars, indexVars
<1>7. CASE DemoteIdle
  <2> DEFINE e == recent[First(Demotable)]
  <2>1. CASE Movable(e) = {}
    BY <1>1, <1>7, <2>1 DEF DemoteIdle, At
  <2>2. CASE Movable(e) # {}
    <3>1. /\ At("alloc") /\ UNCHANGED <<list, running>>
          /\ eng' = [eng EXCEPT !.at = "hostroom", !.todo = Movable(e), !.drop = {e}]
      BY <1>7, <2>2 DEF DemoteIdle, rowVars, indexVars
    <3>2. eng'.todo = Movable(e) /\ eng'.plan = {} /\ eng'.conv = c
      BY <1>0, <3>1 DEF EngTyped, PlanAgrees, At
    <3>3. \A d \in (running \cup {c}) \cap Conv : Elems(list[d]) \cap Movable(e) = {}
      BY DEF Movable, UnitsOf, Held
    <3> QED
      BY <3>1, <3>2, <3>3 DEF MovesAside
  <2> QED
    BY <2>1, <2>2
<1>8. CASE SwitchExplicit
  <2>1. CASE eng' = [eng EXCEPT !.at = "enter"]
    BY <1>0, <1>1, <2>1 DEF EngTyped, At
  <2>2. CASE eng' = [eng EXCEPT !.at = "hostroom", !.then = "switch", !.drop = Leaving,
                                !.todo = Exclusive]
    <3>1. At("switch") /\ UNCHANGED <<list, running>>
      BY <1>8 DEF SwitchExplicit, rowVars, indexVars
    <3>2. eng'.todo = Exclusive /\ eng'.plan = {} /\ eng'.conv = c
      BY <1>0, <2>2, <3>1 DEF EngTyped, PlanAgrees, At
    <3>3. {c} \cup running \subseteq Kept
      BY DEF Kept, Held
    <3>4. \A d \in (running \cup {c}) \cap Conv : Elems(list[d]) \cap Exclusive = {}
      BY <3>3 DEF Exclusive, UnitsOf
    <3> QED
      BY <3>1, <3>2, <3>4 DEF MovesAside
  <2> QED
    BY <1>8, <2>1, <2>2 DEF SwitchExplicit
<1>9. CASE Demote \/ AllocOne
  <2>1. eng'.at \in {"sweep", "alloc"}
    <3>1. CASE Demote
      BY <1>0, <3>1 DEF Demote, EngTyped
    <3>2. CASE AllocOne
      BY <1>0, <3>2 DEF AllocOne, EngTyped, At
    <3> QED
      BY <1>9, <3>1, <3>2
  <2> QED
    BY <1>1, <2>1 DEF At
<1>10. CASE Admitting \/ Sweep \/ EnterGeneral \/ StandOnResident \/ StandOnDisk
  <2>1. CASE Admitting
    <3>1. \/ eng' = Free \/ eng' = [eng EXCEPT !.at = "switch"]
          \/ eng' = [eng EXCEPT !.at = "switch", !.beside = TRUE]
          \/ eng' = [eng EXCEPT !.at = "admit"]
      BY <2>1 DEF Admitting, ChargeSlot, DoNotCharge, Admit, GoTo
    <3>2. eng'.at \in {"free", "switch", "admit"}
      <4>1. CASE eng' = Free
        BY <4>1 DEF Free
      <4> QED
        BY <1>0, <3>1, <4>1 DEF EngTyped
    <3> QED
      BY <1>1, <3>2 DEF At
  <2>2. CASE Sweep \/ EnterGeneral
    BY <1>0, <1>1, <2>2 DEF Sweep, EnterGeneral, GoTo, EngTyped, At
  <2>3. CASE StandOnResident \/ StandOnDisk
    <3>1. \E p, r, n : eng' = [eng EXCEPT !.at = "alloc", !.then = p, !.resume = r, !.need = n]
      BY <2>3 DEF StandOnResident, StandOnDisk
    <3> QED
      BY <1>0, <1>1, <3>1 DEF EngTyped, At
  <2> QED
    BY <1>10, <2>1, <2>2, <2>3
<1>11. CASE EnterFast \/ FastAllocated \/ FreshRead \/ FastTables \/ Install \/ Probe
            \/ PreparePromote \/ Promote
  <2>1. CASE EnterFast
    <3>1. \E r, n : eng' = [eng EXCEPT !.at = "alloc", !.then = "fast", !.resume = r, !.need = n]
      BY <2>1 DEF EnterFast
    <3> QED
      BY <1>0, <1>1, <3>1 DEF EngTyped, At
  <2>2. CASE FastAllocated \/ FastTables \/ Install
    <3>1. \/ eng' = [eng EXCEPT !.at = "probe", !.then = "tables", !.out = <<>>]
          \/ eng' = [eng EXCEPT !.at = "headers"]
          \/ eng' = [eng EXCEPT !.at = "headers", !.out = <<>>]
      BY <2>2 DEF FastAllocated, FastTables, Install, GoTo
    <3>2. eng'.at \in {"probe", "headers"}
      BY <1>0, <3>1 DEF EngTyped
    <3> QED
      BY <1>1, <3>2 DEF At
  <2>3. CASE FreshRead
    <3>1. At("alloc") /\ \E n : eng' = [eng EXCEPT !.then = "tail", !.need = n, !.out = <<>>]
      BY <2>3 DEF FreshRead, Allocated
    <3> QED
      BY <1>0, <1>1, <3>1 DEF EngTyped, At
  <2>4. CASE Probe
    <3>1. eng' = [eng EXCEPT !.at = eng.then] /\ eng.then \in {"choose", "tables"}
      BY <1>0, <2>4 DEF Probe, GoTo, EngAgrees, At
    <3> QED
      BY <1>0, <1>1, <3>1 DEF EngTyped, At
  <2>5. CASE PreparePromote \/ Promote
    <3>1. At("probe") /\ \E P : eng' = [eng EXCEPT !.plan = P]
      BY <2>5 DEF PreparePromote, Promote
    <3> QED
      BY <1>0, <1>1, <3>1 DEF EngTyped, At
  <2> QED
    BY <1>11, <2>1, <2>2, <2>3, <2>4, <2>5
<1>12. CASE \/ Serve \/ ServeCold \/ NotServed \/ Grown
            \/ \E d \in Conv : Prefill(d) \/ End(d) \/ EndUnderflows(d) \/ EndUnknown(d)
            \/ \E d \in Conv, x \in Page : Decode(d, x)
  <2>1. eng' = Free
    BY <1>12 DEF Serve, ServeCold, NotServed, Grown, Start, Prefill, End, EndUnderflows,
       EndUnknown, Decode
  <2> QED
    BY <1>1, <2>1 DEF Free, At
<1>13. CASE \/ \E d \in Conv, q \in Stream : Begin(d, q)
            \/ \E d \in Conv : Grow(d)
  <2>1. eng'.at \in {"charge", "abandon", "alloc"}
    BY <1>13 DEF Begin, Grow, Free
  <2> QED
    BY <1>1, <2>1 DEF At
<1> QED
  BY <1>3, <1>4, <1>5, <1>6, <1>7, <1>8, <1>9, <1>10, <1>11, <1>12, <1>13
  DEF Next, Engine, MakingRoom, Beginning, Departing

(* What the request at hand stands on is on the device.                    *)
LEMMA EngAboardStep ==
  ASSUME Typed, Indexed, Stages, MovesAside, EngAboard, ~failed', [Next]_vars
  PROVE  EngAboard'
<1> DEFINE c == eng.conv
           waits == {"choose", "tables", "headers"}
<1>0. EngTyped /\ EngAgrees /\ (~At("free") => c \in Conv) /\ indexed \subseteq Unit
  BY DEF Typed, EngAgrees, StateTyped, MemoryTyped
<1>1. ASSUME eng'.at \notin waits,
             eng'.at \notin {"alloc", "hostroom", "demote"} \/ eng'.then \notin {"tail", "fresh"}
      PROVE  EngAboard'
  BY <1>1 DEF EngAboard, Unsettled, Ready, For, Allocating, At
<1>2. ASSUME eng'.conv = c, c \in Conv, Aboard(c),
             \A u \in Elems(list'[c]) : u \in Elems(list[c])
      PROVE  EngAboard'
  <2>1. PICK d \in Conv : d = c
    BY <1>2
  <2>2. \A u \in Elems(list'[d]) : OnDevice(u) /\ place'[u] = place[u]
    <3> TAKE u \in Elems(list'[d])
    <3>1. u \in Elems(list[d]) /\ OnDevice(u)
      BY <1>2, <2>1 DEF Aboard
    <3>2. d \in (running \cup {eng.conv}) \cap Conv
      BY <2>1
    <3> QED
      BY <3>1, <3>2, PlaceStays
  <2>3. Aboard(d)'
    BY <2>2 DEF Aboard, OnDevice
  <2>4. eng'.conv = d
    BY <1>2, <2>1
  <2> QED
    BY <2>3, <2>4 DEF EngAboard, Aboard
<1>3. ASSUME (Unsettled \/ Ready)' => Unsettled \/ Ready,
             (Unsettled \/ Ready) => eng'.conv = c /\ list'[c] = list[c]
      PROVE  EngAboard'
  <2>1. CASE Unsettled \/ Ready
    <3>1. c \in Conv /\ Aboard(c)
      BY <1>0, <2>1 DEF EngAboard, Unsettled, Ready, For, Allocating, At
    <3> QED
      BY <1>2, <1>3, <2>1, <3>1
  <2>2. CASE ~(Unsettled \/ Ready)'
    BY <2>2 DEF EngAboard
  <2> QED
    BY <1>3, <2>1, <2>2
<1>4. CASE Departing
  <2>1. PICK cs \in SUBSET Conv : Departs(cs) /\ DepartsAside(cs)
    BY <1>4, Departures
  <2>2. CASE eng' = Free
    BY <1>1, <2>2 DEF Free
  <2>3. CASE eng.conv \notin cs /\ eng' = eng
    <3>1. (Unsettled \/ Ready)' <=> Unsettled \/ Ready
      BY <2>3 DEF Unsettled, Ready, For, Allocating, At
    <3>2. (Unsettled \/ Ready) => list'[c] = list[c]
      BY <1>0, <2>1, <2>3, DepartsTo DEF Unsettled, Ready, For, Allocating, At
    <3> QED
      BY <1>3, <2>3, <3>1, <3>2
  <2>4. CASE At("switch") /\ eng' = [eng EXCEPT !.at = "enter"]
    <3>1. eng'.at = "enter"
      BY <1>0, <2>4 DEF EngTyped
    <3> QED
      BY <1>1, <3>1
  <2> QED
    BY <2>1, <2>2, <2>3, <2>4 DEF DepartsAside
<1>5. CASE EvictUnreferenced \/ UNCHANGED vars
  <2>1. eng' = eng /\ list' = list
    BY <1>5 DEF EvictUnreferenced, indexVars, vars
  <2> QED
    BY <1>3, <2>1 DEF Unsettled, Ready, For, Allocating, At
<1>6. CASE NoHostRoom \/ DemoteFails \/ PromoteFails \/ Exhausted \/ RestoreFails \/ CommitFails
  <2>1. \E blocks : Fail(blocks)
    BY <1>6 DEF NoHostRoom, DemoteFails, PromoteFails, Exhausted, RestoreFails, CommitFails
  <2>2. eng'.at = "abandon"
    BY <2>1, FailsGrowing
  <2> QED
    BY <1>1, <2>2
<1>7. CASE Allotting
  <2>1. /\ Allocating /\ list' = list /\ eng'.then = eng.then /\ eng'.conv = c
        /\ eng'.at \in {"demote", "alloc", "sweep", "hostroom"}
    BY <1>7, Allots
  <2>2. (Unsettled \/ Ready)' => Unsettled \/ Ready
    BY <2>1 DEF Unsettled, Ready, For, Allocating, At
  <2> QED
    BY <1>3, <2>1, <2>2
<1>8. CASE (Admitting \/ SwitchExplicit \/ Sweep \/ EnterGeneral) /\ ~StandOnResident /\ ~StandOnDisk
  <2>1. CASE Admitting \/ Sweep \/ EnterGeneral
    <3>1. \/ eng' = Free \/ eng' = [eng EXCEPT !.at = "switch"]
          \/ eng' = [eng EXCEPT !.at = "switch", !.beside = TRUE]
          \/ eng' = [eng EXCEPT !.at = "admit"]
          \/ eng' = [eng EXCEPT !.at = "enter"]
          \/ eng' = [eng EXCEPT !.at = "probe", !.then = "choose"]
      BY <2>1 DEF Admitting, ChargeSlot, DoNotCharge, Admit, Sweep, EnterGeneral, GoTo
    <3>2. eng'.at \in {"free", "switch", "admit", "enter", "probe"}
      <4>1. CASE eng' = Free
        BY <4>1 DEF Free
      <4> QED
        BY <1>0, <3>1, <4>1 DEF EngTyped
    <3> QED
      BY <1>1, <3>2
  <2>2. CASE SwitchExplicit
    <3>1. \/ eng' = [eng EXCEPT !.at = "enter"]
          \/ eng' = [eng EXCEPT !.at = "hostroom", !.then = "switch", !.drop = Leaving,
                                !.todo = Exclusive]
      BY <2>2 DEF SwitchExplicit
    <3>2. eng'.at = "enter" \/ (eng'.at = "hostroom" /\ eng'.then = "switch")
      BY <1>0, <3>1 DEF EngTyped
    <3> QED
      BY <1>1, <3>2
  <2> QED
    BY <1>8, <2>1, <2>2
<1>9. CASE StandOnResident \/ StandOnDisk
  <2>1. PICK k \in Nat : /\ Adopt(c, Below(k)) /\ k <= Len(list[c])
                         /\ \E p, r, n : eng' = [eng EXCEPT !.at = "alloc", !.then = p,
                                                            !.resume = r, !.need = n]
    <3>1. CASE StandOnResident
      <4>1. PICK k \in 0..Len(list[c]) :
              /\ Adopt(c, Below(k))
              /\ eng' = [eng EXCEPT !.at = "alloc", !.then = "tail", !.resume = k,
                                    !.need = Upper(eng.prompt) - k]
        BY <3>1 DEF StandOnResident
      <4>2. c \in Conv /\ Len(list[c]) \in Nat
        BY <1>0, <3>1 DEF StandOnResident, At, Typed, StateTyped, ListsTyped
      <4>3. k \in Nat /\ k <= Len(list[c])
        BY <4>2
      <4> QED
        BY <4>1, <4>3
    <3>2. CASE StandOnDisk
      <4>1. PICK d \in 1..Len(eng.prompt) :
              /\ Adopt(c, Below(Lesser(d, Len(list[c]))))
              /\ eng' = [eng EXCEPT !.at = "alloc", !.then = "fresh", !.resume = d,
                                    !.need = d - Lesser(d, Len(list[c]))]
        BY <3>2 DEF StandOnDisk
      <4>2. c \in Conv /\ list[c] \in Seq(Unit) /\ Len(list[c]) \in Nat
        BY <1>0, <3>2 DEF StandOnDisk, At, Typed, StateTyped, ListsTyped
      <4>3. Lesser(d, Len(list[c])) \in Nat /\ Lesser(d, Len(list[c])) <= Len(list[c])
        BY <4>2 DEF Lesser
      <4> QED
        BY <4>1, <4>3
    <3> QED
      BY <1>9, <3>1, <3>2
  <2>2. /\ At("choose") /\ c \in Conv /\ list \in [Conv -> Seq(Unit)] /\ list[c] \in Seq(Unit)
        /\ eng'.conv = c
    <3>1. At("choose")
      BY <1>9 DEF StandOnResident, StandOnDisk
    <3>2. c \in Conv
      BY <1>0, <3>1 DEF At
    <3> QED
      BY <1>0, <2>1, <3>1, <3>2 DEF EngTyped, Typed, StateTyped, ListsTyped
  <2>3. list'[c] = Prefix(list[c], k)
    BY <2>1, <2>2 DEF Adopt, Below
  <2>4. \A u \in Elems(list'[c]) : u \in Elems(list[c])
    <3>1. Len(Prefix(list[c], k)) = k /\ \A i \in 1..k : Prefix(list[c], k)[i] = list[c][i]
      BY <2>1, <2>2, FirstPart
    <3>2. DOMAIN Prefix(list[c], k) = 1..k /\ 1..k \subseteq DOMAIN list[c]
      BY <2>1, <2>2, <3>1 DEF Prefix
    <3> QED
      BY <2>3, <3>1, <3>2 DEF Elems
  <2>5. Aboard(c)
    BY <2>2 DEF EngAboard, Unsettled
  <2> QED
    BY <1>2, <2>2, <2>4, <2>5
<1>10. CASE EnterFast \/ PreparePromote \/ Promote \/ FastAllocated
  <2>1. CASE EnterFast
    <3>1. \E r, n : eng' = [eng EXCEPT !.at = "alloc", !.then = "fast", !.resume = r, !.need = n]
      BY <2>1 DEF EnterFast
    <3>2. eng'.at = "alloc" /\ eng'.then = "fast"
      BY <1>0, <3>1 DEF EngTyped
    <3> QED
      BY <1>1, <3>2
  <2>2. CASE PreparePromote \/ Promote
    <3>1. At("probe") /\ \E P : eng' = [eng EXCEPT !.plan = P]
      BY <2>2 DEF PreparePromote, Promote
    <3>2. eng'.at = "probe"
      BY <1>0, <3>1 DEF EngTyped, At
    <3> QED
      BY <1>1, <3>2
  <2>3. CASE FastAllocated
    <3>1. eng' = [eng EXCEPT !.at = "probe", !.then = "tables", !.out = <<>>]
      BY <2>3 DEF FastAllocated
    <3>2. eng'.at = "probe"
      BY <1>0, <3>1 DEF EngTyped
    <3> QED
      BY <1>1, <3>2
  <2> QED
    BY <1>10, <2>1, <2>2, <2>3
<1>11. CASE FastTables \/ Install
  <2>1. /\ \/ eng' = [eng EXCEPT !.at = "headers"]
           \/ eng' = [eng EXCEPT !.at = "headers", !.out = <<>>]
        /\ list' = list /\ (Unsettled \/ Ready)
    BY <1>11 DEF FastTables, Install, GoTo, Allocated, Unsettled, Ready, For, Allocating, indexVars
  <2>2. eng'.conv = c
    BY <1>0, <2>1 DEF EngTyped
  <2> QED
    BY <1>3, <2>1, <2>2
<1>12. CASE Probe
  <2>1. /\ At("probe") /\ HostHits = {} /\ Adopt(c, Chain(eng.prompt, 0, Hits(eng.prompt)))
        /\ UNCHANGED <<indexed, place>> /\ eng' = [eng EXCEPT !.at = eng.then]
    BY <1>12 DEF Probe, GoTo
  <2>2. c \in Conv /\ eng'.conv = c /\ list \in [Conv -> Seq(Unit)] /\ eng.prompt \in Stream
    BY <1>0, <2>1 DEF EngTyped, At, Typed, StateTyped, ListsTyped
  <2>3. PICK d \in Conv : d = c
    BY <2>2
  <2>4. Elems(list'[d]) = Matched(eng.prompt)
    BY <2>1, <2>2, <2>3 DEF Adopt, Matched
  <2>5. Matched(eng.prompt) \subseteq indexed /\ Matched(eng.prompt) \subseteq Unit
    BY <2>2, MatchedIs
  <2>6. ASSUME NEW u \in Matched(eng.prompt) PROVE OnDevice(u)
    <3>1. u \in Unit /\ place[u] # Nowhere /\ place[u] \in Placement
      BY <2>5 DEF Indexed, IndexedMeansPlaced, Typed, StateTyped, MemoryTyped
    <3>2. ~OnHost(u)
      BY <2>1 DEF HostHits
    <3> QED
      BY <3>1, <3>2 DEF Placement, Device, Host, OnDevice, OnHost
  <2>7. Aboard(d)'
    BY <2>1, <2>4, <2>6 DEF Aboard, OnDevice
  <2>8. eng'.conv = d
    BY <2>2, <2>3
  <2> QED
    BY <2>7, <2>8 DEF EngAboard, Aboard
<1>13. CASE FreshRead
  <2> DEFINE p == eng.prompt
             n == Len(list[c])
             units == Chain(p, n, n + Len(eng.out))
  <2>1. /\ c \in Conv /\ eng.resume - Len(eng.out) = n /\ n + Len(eng.out) = eng.resume
        /\ eng.resume \in 0..Len(p) /\ p \in Stream
    BY <1>13, FreshSeals
  <2>2. /\ eng.out \in Seq(Block) /\ n \in Nat /\ Len(p) \in Nat /\ Len(eng.out) \in Nat
        /\ list[c] \in Seq(Unit) /\ list \in [Conv -> Seq(Unit)]
        /\ eng.resume \in Nat /\ eng.resume <= Len(p)
    BY <2>1, EngIs DEF Typed, StateTyped, ListsTyped
  <2>3. Seal(c, p, n, eng.out) /\ For("fresh")
    BY <1>13, <2>1 DEF FreshRead, Allocated, For, Allocating
  <2>4. units \in Seq(Unit)
    <3>1. p \in Stream /\ n \in Nat /\ Len(eng.out) \in Nat
          /\ (Len(eng.out) > 0 => n + Len(eng.out) <= Len(p))
      BY <2>1, <2>2
    <3> QED
      <4> HIDE DEF n, p
      <4> QED
        BY ONLY <3>1, SealedUnits DEF units
  <2>5. /\ list'[c] = list[c] \o units
        /\ \A u \in Unit : place'[u] = IF u \in Elems(units) /\ ~OnDevice(u)
                                       THEN Device(eng.out[Len(u) - n]) ELSE place[u]
    BY <2>1, <2>2, <2>3 DEF Seal
  <2> HIDE DEF units
  <2>6. \A u \in Elems(list'[c]) : u \in Elems(list[c]) \/ u \in Elems(units)
    BY <2>2, <2>4, <2>5, ConcatElems
  <2>7. Aboard(c) /\ Elems(list[c]) \subseteq Unit /\ Elems(units) \subseteq Unit
    BY <2>2, <2>3, <2>4, ElemsIs DEF EngAboard, Unsettled
  <2>8. eng'.conv = c
    <3>1. \E q : eng' = [eng EXCEPT !.then = "tail", !.need = q, !.out = <<>>]
      BY <1>13 DEF FreshRead
    <3> QED
      BY <1>0, <3>1 DEF EngTyped
  <2>9. PICK d \in Conv : d = c
    BY <2>1
  <2>10. ASSUME NEW u \in Elems(list'[d]) PROVE OnDevice(u)'
    <3>1. u \in Unit /\ (OnDevice(u) \/ u \in Elems(units))
      BY <2>6, <2>7, <2>9 DEF Aboard
    <3>2. CASE OnDevice(u)
      <4>1. place'[u] = place[u]
        BY <2>5, <3>1, <3>2
      <4> QED
        BY <3>2, <4>1 DEF OnDevice
    <3>3. CASE ~OnDevice(u)
      <4>1. place'[u] = Device(eng.out[Len(u) - n])
        BY <2>5, <3>1, <3>3
      <4> QED
        BY <4>1 DEF OnDevice, Device
    <3> QED
      BY <3>2, <3>3
  <2>11. Aboard(d)'
    BY <2>10 DEF Aboard
  <2>12. eng'.conv = d
    BY <2>8, <2>9
  <2> QED
    BY <2>11, <2>12 DEF EngAboard, Aboard
<1>14. CASE \/ Serve \/ ServeCold \/ NotServed \/ Grown
            \/ \E d \in Conv : Prefill(d) \/ End(d) \/ EndUnderflows(d) \/ EndUnknown(d)
            \/ \E d \in Conv, x \in Page : Decode(d, x)
  <2>1. eng' = Free
    BY <1>14 DEF Serve, ServeCold, NotServed, Grown, Start, Prefill, End, EndUnderflows,
       EndUnknown, Decode
  <2> QED
    BY <1>1, <2>1 DEF Free
<1>15. CASE \E d \in Conv, q \in Stream : Begin(d, q)
  <2>1. eng'.at = "charge"
    BY <1>15 DEF Begin, Free
  <2> QED
    BY <1>1, <2>1
<1>16. CASE \E d \in Conv : Grow(d)
  <2>1. eng'.at = "abandon" \/ (eng'.at = "alloc" /\ eng'.then = "grow")
    BY <1>16 DEF Grow, Free
  <2> QED
    BY <1>1, <2>1
<1> QED
  BY <1>4, <1>5, <1>6, <1>7, <1>8, <1>9, <1>10, <1>11, <1>12, <1>13, <1>14, <1>15, <1>16
  DEF Next, Engine, MakingRoom, Beginning, Departing, Allotting

(* What a step leaves of the slot a request is to have.                    *)
LEMMA EngSlotStay ==
  ASSUME Typed, EngSlot, running' \subseteq running,
         eng'.slot = eng.slot, eng'.conv = eng.conv,
         \A s \in Slot : \/ occupant'[s] = occupant[s]
                         \/ occupant'[s] = NoConv /\ occupant[s] # eng.conv,
         Preparing' => Preparing /\ ((At("charge"))' \/ cur' = eng.slot),
         For("grow")' => For("grow") /\ cur' = cur /\ seat'[eng.conv] = seat[eng.conv],
         (Appending \/ At("headers"))' => cur' \in Slot /\ occupant[cur'] = eng.conv,
         ~(At("headers"))'
  PROVE  EngSlot'
<1>1. /\ running \subseteq Conv /\ eng.slot \in Slot
      /\ (~At("free") => eng.conv \in Conv)
  BY DEF Typed, StateTyped, RowTyped, EngTyped, EngAgrees
<1>2. ASSUME Preparing'
      PROVE  /\ occupant'[eng.slot] \notin running'
             /\ \A s \in Slot \ {eng.slot} : occupant'[s] # eng.conv
             /\ ~(At("charge"))' => cur' = eng.slot
  <2>1. Preparing /\ eng.conv # NoConv
    BY <1>1, <1>2, NoConvAssumption DEF Preparing
  <2>2. occupant[eng.slot] \notin running /\ \A s \in Slot \ {eng.slot} : occupant[s] # eng.conv
    BY <2>1 DEF EngSlot
  <2> QED
    BY <1>1, <1>2, <2>1, <2>2, NoConvAssumption
<1>3. For("grow")' => cur' = seat'[eng'.conv]
  BY DEF EngSlot
<1>4. (Appending \/ At("headers"))' => occupant'[cur'] = eng'.conv
  OBVIOUS
<1> QED
  BY <1>2, <1>3, <1>4 DEF EngSlot

(* The slot chosen for a conversation is its own, or one where nobody runs *)
(* when it has none.                                                       *)
LEMMA ChosenApart ==
  ASSUME cur \in Slot, Occupants, NEW d \in Conv, d \notin running, NoConv \notin running,
         NEW s \in Chosen(d)
  PROVE  s \in Slot /\ occupant[s] \notin running /\ \A t \in Slot \ {s} : occupant[t] # d
<1> DEFINE own == {t \in Slot : occupant[t] = d}
           empty == {t \in Slot : occupant[t] = NoConv}
           idle == {t \in Slot : occupant[t] \notin running}
<1>0. d # NoConv
  BY NoConvAssumption
<1>1. Slot \subseteq Nat
  BY SlotsAssumption DEF Slot
<1>2. empty # {} => Lowest(empty) \in empty
  <2>1. empty \subseteq Nat
    BY <1>1
  <2> HIDE DEF empty
  <2> QED
    BY <2>1, LowestIs
<1>3. idle # {} => Lowest(idle) \in idle
  <2>1. idle \subseteq Nat
    BY <1>1
  <2> HIDE DEF idle
  <2> QED
    BY <2>1, LowestIs
<1>4. Chosen(d) = CASE own # {} -> own
        [] own = {} /\ cur \in idle -> {cur}
        [] own = {} /\ cur \notin idle /\ empty # {} -> {Lowest(empty)}
        [] own = {} /\ cur \notin idle /\ empty = {} /\ idle # {} -> {Lowest(idle)}
        [] OTHER -> {}
  BY DEF Chosen
<1>5. s \in own \/ (own = {} /\ s \in empty \cup idle)
  <2> HIDE DEF own, empty, idle
  <2> QED
    BY <1>2, <1>3, <1>4
<1> QED
  BY <1>0, <1>5 DEF Occupants

(* The request at hand keeps the slot it was given, and to itself.         *)
LEMMA EngSlotStep ==
  ASSUME Typed, Stages, RunningSeated, Occupants, EngSlot, ~failed', [Next]_vars
  PROVE  EngSlot'
<1> DEFINE c == eng.conv
<1>0. /\ EngTyped /\ EngAgrees /\ (~At("free") => c \in Conv) /\ running \subseteq Conv
      /\ cur \in Slot /\ eng.slot \in Slot /\ occupant \in [Slot -> Conv \cup {NoConv}]
      /\ table \in [Slot -> Seq(Int)] /\ tail \in [Conv -> Seq(Block)] /\ seat \in [Conv -> Slot]
  BY DEF Typed, EngAgrees, EngTyped, StateTyped, RowTyped, SlotTyped, ConvTyped
<1>1. ASSUME eng'.at \in {"free", "abandon"} PROVE EngSlot'
  BY <1>1 DEF EngSlot, Preparing, Growing, Appending, For, Allocating, At
<1>2. ASSUME UNCHANGED <<running, occupant, cur, seat>>, Preparing, ~At("charge"), eng'.slot = eng.slot,
             eng'.conv = c, ~For("grow")', ~(At("headers"))',
             Appending' => occupant[cur] = c
      PROVE  EngSlot'
  BY <1>0, <1>2, EngSlotStay DEF EngSlot
<1>3. CASE Departing
  <2>1. PICK cs \in SUBSET Conv : Departs(cs) /\ DepartsAside(cs)
    BY <1>3, Departures
  <2>2. CASE eng' = Free
    BY <1>1, <2>2 DEF Free
  <2>3. CASE eng' = eng /\ At("free")
    BY <1>1, <2>3 DEF At
  <2>4. (running' \subseteq running /\ cur' = cur) \/ eng = Free
    BY <1>3, <2>1 DEF DepartsAside, Departing, DropLru, SwitchShared, EvictHostToDisk,
       GrowthFailed, Trim, Abandon, Erase
  <2>5. ASSUME c \notin cs
        PROVE  \A s \in Slot : \/ occupant'[s] = occupant[s]
                               \/ occupant'[s] = NoConv /\ occupant[s] # c
    BY <2>1, <2>5, DepartsSlots
  <2>6. CASE c \notin cs /\ eng' = eng /\ (At("charge") \/ Allocating) /\ ~At("free")
    <3>1. cur' = cur /\ running' \subseteq running
      BY <2>4, <2>6 DEF At, Free
    <3>2. /\ Preparing' => Preparing /\ ((At("charge"))' \/ cur' = eng.slot)
      BY <2>6, <3>1 DEF EngSlot, Preparing, Growing, For, Allocating, At
    <3>3. For("grow")' => For("grow") /\ cur' = cur /\ seat'[c] = seat[c]
      BY <1>0, <2>1, <2>6, <3>1 DEF For, Allocating, At, DepartsAside
    <3>4. (Appending \/ At("headers"))' => cur' \in Slot /\ occupant[cur'] = c
      BY <1>0, <2>6, <3>1 DEF EngSlot, Appending, For, Allocating, At
    <3>5. ~(At("headers"))'
      BY <2>6 DEF Allocating, At
    <3> QED
      BY <2>5, <2>6, <3>1, <3>2, <3>3, <3>4, <3>5, EngSlotStay
  <2>7. CASE c \notin cs /\ At("switch") /\ eng' = [eng EXCEPT !.at = "enter"]
    <3>1. eng'.at = "enter" /\ eng'.conv = c /\ eng'.slot = eng.slot
      BY <1>0, <2>7 DEF EngTyped
    <3>2. cur' = cur /\ running' \subseteq running
      BY <2>4, <2>7 DEF At, Free
    <3>3. Preparing /\ cur' = eng.slot
      BY <2>7, <3>2 DEF EngSlot, Preparing, Growing, For, Allocating, At
    <3>4. ~For("grow")' /\ ~Appending' /\ ~(At("headers"))'
      BY <3>1 DEF Appending, For, Allocating, At
    <3> QED
      BY <2>5, <2>7, <3>1, <3>2, <3>3, <3>4, EngSlotStay
  <2> QED
    BY <2>1, <2>2, <2>3, <2>6, <2>7 DEF DepartsAside
<1>4. CASE EvictUnreferenced \/ UNCHANGED vars
  <2>1. eng' = eng /\ UNCHANGED <<running, occupant, cur, seat, table, list, tail>>
    BY <1>4 DEF EvictUnreferenced, rowVars, slotVars, convVars, indexVars, vars
  <2>2. CASE UNCHANGED vars
    BY <2>2 DEF vars, indexVars, rowVars, slotVars, convVars, EngSlot, Preparing, Growing,
       Appending, For, Allocating, At, Table
  <2>3. CASE EvictUnreferenced
    <3>1. ~At("headers")
      BY <2>3 DEF EvictUnreferenced, RoomWanted, At
    <3> QED
      BY <2>1, <3>1 DEF EngSlot, Preparing, Growing, Appending, For, Allocating, At
  <2> QED
    BY <1>4, <2>2, <2>3
<1>5. CASE NoHostRoom \/ DemoteFails \/ PromoteFails \/ Exhausted \/ RestoreFails \/ CommitFails
  <2>1. \E blocks : Fail(blocks)
    BY <1>5 DEF NoHostRoom, DemoteFails, PromoteFails, Exhausted, RestoreFails, CommitFails
  <2>2. eng'.at = "abandon"
    BY <2>1, FailsGrowing
  <2> QED
    BY <1>1, <2>2
<1>6. CASE Allotting
  <2>1. /\ Allocating /\ eng'.then = eng.then /\ eng'.conv = c
        /\ eng'.at \in {"demote", "alloc", "sweep", "hostroom"}
        /\ eng'.at = "sweep" => eng.then = "switch"
    BY <1>6, Allots
  <2>2. UNCHANGED <<running, cur, seat>>
    BY <1>6 DEF Allotting, Roomy, PrepareDemote, Demote, AllocOne, DemoteIdle, rowVars, slotVars
  <2>3. eng'.slot = eng.slot
    <3>1. CASE Roomy \/ DemoteIdle \/ AllocOne
      BY <1>0, <3>1 DEF Roomy, DemoteIdle, AllocOne, GoTo, EngTyped
    <3>2. CASE PrepareDemote
      <4>1. PICK u \in eng.todo :
              \/ eng' = [eng EXCEPT !.todo = @ \ {u}, !.plan = @ \cup {<<u, FreeHandle>>}]
              \/ eng' = [eng EXCEPT !.todo = @ \ {u}]
        BY <3>2 DEF PrepareDemote
      <4> QED
        BY <1>0, <4>1 DEF EngTyped
    <3>3. CASE Demote
      <4>1. \E a : eng' = [eng EXCEPT !.at = a, !.plan = {}, !.drop = {}]
        BY <3>3 DEF Demote
      <4> QED
        BY <1>0, <4>1 DEF EngTyped
    <3> QED
      BY <1>6, <3>1, <3>2, <3>3 DEF Allotting
  <2>4. \A s \in Slot : \/ occupant'[s] = occupant[s]
                        \/ occupant'[s] = NoConv /\ occupant[s] # c
    <3>1. CASE Demote
      <4>1. /\ occupant' = [occupant EXCEPT ![cur] = IF @ \in eng.drop THEN NoConv ELSE @]
            /\ eng.drop \cap (running \cup {c}) = {}
        BY <3>1 DEF Demote, Stages, StageMoves
      <4> QED
        BY <1>0, <4>1
    <3>2. CASE ~Demote
      BY <1>6, <3>2 DEF Allotting, Roomy, PrepareDemote, AllocOne, DemoteIdle, slotVars
    <3> QED
      BY <3>1, <3>2
  <2>5. Preparing' => Preparing /\ cur' = eng.slot
    BY <2>1, <2>2 DEF EngSlot, Preparing, Growing, For, Allocating, At
  <2>6. For("grow")' => For("grow") /\ cur' = cur /\ seat'[c] = seat[c]
    BY <2>1, <2>2 DEF For
  <2>7. (Appending \/ At("headers"))' => cur' \in Slot /\ occupant[cur'] = c
    BY <1>0, <2>1, <2>2 DEF EngSlot, Appending, For, At
  <2>8. ~(At("headers"))' /\ running' \subseteq running
    BY <2>1, <2>2 DEF At
  <2> QED
    BY <2>1, <2>3, <2>4, <2>5, <2>6, <2>7, <2>8, EngSlotStay
<1>7. CASE Admitting
  <2>1. CASE ChargeSlot
    <3>1. /\ At("charge") /\ cur' = eng.slot /\ eng' = [eng EXCEPT !.at = "admit"]
          /\ UNCHANGED <<running, occupant>>
      BY <2>1 DEF ChargeSlot, GoTo, rowVars
    <3>2. eng'.at = "admit" /\ eng'.conv = c /\ eng'.slot = eng.slot
      BY <1>0, <3>1 DEF EngTyped
    <3>3. Preparing /\ ~For("grow")' /\ ~Appending' /\ ~(At("headers"))'
      BY <3>1, <3>2 DEF Preparing, Growing, Appending, For, Allocating, At
    <3> QED
      BY <3>1, <3>2, <3>3, EngSlotStay
  <2>2. CASE DoNotCharge
    BY <1>1, <2>2 DEF DoNotCharge, Free
  <2>3. CASE Admit
    <3>1. CASE eng' = Free
      BY <1>1, <3>1 DEF Free
    <3>2. CASE eng' = [eng EXCEPT !.at = "switch"]
               \/ eng' = [eng EXCEPT !.at = "switch", !.beside = TRUE]
      <4>1. eng'.at = "switch" /\ eng'.conv = c /\ eng'.slot = eng.slot
        BY <1>0, <3>2 DEF EngTyped
      <4>2. Preparing /\ ~At("charge") /\ ~For("grow")' /\ ~Appending' /\ ~(At("headers"))'
        BY <2>3, <4>1 DEF Admit, Preparing, Growing, Appending, For, Allocating, At
      <4> QED
        BY <1>2, <2>3, <4>1, <4>2 DEF Admit, rowVars, slotVars
    <3> QED
      BY <2>3, <3>1, <3>2 DEF Admit
  <2> QED
    BY <1>7, <2>1, <2>2, <2>3 DEF Admitting
<1>8. CASE SwitchExplicit \/ Sweep \/ EnterFast \/ EnterGeneral \/ StandOnResident \/ StandOnDisk
  <2>1. /\ UNCHANGED <<running, occupant, cur, seat>>
        /\ At("switch") \/ At("sweep") \/ At("enter") \/ At("choose")
    BY <1>8 DEF SwitchExplicit, Sweep, EnterFast, EnterGeneral, StandOnResident, StandOnDisk,
       rowVars, slotVars
  <2>2. Preparing /\ ~At("charge")
    BY <2>1 DEF Preparing, Growing, For, Allocating, At
  <2>3. CASE SwitchExplicit \/ Sweep \/ EnterGeneral \/ StandOnResident \/ StandOnDisk
    <3>1. \/ eng' = [eng EXCEPT !.at = "enter"]
          \/ eng' = [eng EXCEPT !.at = "hostroom", !.then = "switch", !.drop = Leaving,
                                !.todo = Exclusive]
          \/ eng' = [eng EXCEPT !.at = "probe", !.then = "choose"]
          \/ \E p \in {"tail", "fresh"} : \E r, n :
               eng' = [eng EXCEPT !.at = "alloc", !.then = p, !.resume = r, !.need = n]
      BY <2>3 DEF SwitchExplicit, Sweep, EnterGeneral, StandOnResident, StandOnDisk, GoTo
    <3>2. /\ eng'.conv = c /\ eng'.slot = eng.slot
          /\ \/ eng'.at = "enter"
             \/ eng'.at = "hostroom" /\ eng'.then = "switch"
             \/ eng'.at = "probe" /\ eng'.then = "choose"
             \/ eng'.at = "alloc" /\ eng'.then \in {"tail", "fresh"}
      BY <1>0, <3>1 DEF EngTyped
    <3>3. ~For("grow")' /\ ~Appending' /\ ~(At("headers"))'
      BY <3>2 DEF Appending, For, Allocating, At
    <3> QED
      BY <1>2, <2>1, <2>2, <3>2, <3>3
  <2>4. CASE EnterFast
    <3>1. /\ \E r, n : eng' = [eng EXCEPT !.at = "alloc", !.then = "fast", !.resume = r, !.need = n]
          /\ occupant[cur] = c
      BY <2>4 DEF EnterFast, active
    <3>2. /\ eng'.conv = c /\ eng'.slot = eng.slot
          /\ eng'.at = "alloc" /\ eng'.then = "fast"
      BY <1>0, <3>1 DEF EngTyped
    <3>3. ~For("grow")' /\ ~(At("headers"))'
      BY <3>2 DEF For, Allocating, At
    <3> QED
      BY <1>2, <2>1, <2>2, <3>1, <3>2, <3>3
  <2> QED
    BY <1>8, <2>3, <2>4
<1>9. CASE Probe \/ PreparePromote \/ Promote \/ FastAllocated \/ FreshRead
  <2>1. UNCHANGED <<running, occupant, cur, seat>>
    BY <1>9 DEF Probe, PreparePromote, Promote, FastAllocated, FreshRead, rowVars, slotVars
  <2>2. CASE Probe \/ PreparePromote \/ Promote
    <3>1. /\ At("probe") /\ eng.then \in {"choose", "tables"}
          /\ eng' = [eng EXCEPT !.at = eng.then] \/ \E P : eng' = [eng EXCEPT !.plan = P]
      BY <1>0, <2>2 DEF Probe, PreparePromote, Promote, GoTo, EngAgrees, At
    <3>2. /\ eng'.conv = c /\ eng'.slot = eng.slot /\ eng'.then = eng.then
          /\ eng'.at = eng.then \/ eng'.at = "probe"
      BY <1>0, <3>1 DEF EngTyped, At
    <3>3. Preparing /\ ~At("charge") /\ ~For("grow")' /\ ~(At("headers"))'
          /\ (Appending' => Appending)
      BY <3>1, <3>2 DEF Preparing, Growing, Appending, For, Allocating, At
    <3> QED
      BY <1>2, <2>1, <3>2, <3>3 DEF EngSlot
  <2>3. CASE FastAllocated
    <3>1. /\ At("alloc") /\ eng.then = "fast"
          /\ eng' = [eng EXCEPT !.at = "probe", !.then = "tables", !.out = <<>>]
      BY <2>3 DEF FastAllocated, Allocated
    <3>2. /\ eng'.conv = c /\ eng'.slot = eng.slot /\ eng'.at = "probe"
      BY <1>0, <3>1 DEF EngTyped
    <3>3. Preparing /\ ~At("charge") /\ ~For("grow")' /\ ~(At("headers"))' /\ Appending
      BY <3>1, <3>2 DEF Preparing, Growing, Appending, For, Allocating, At
    <3> QED
      BY <1>2, <2>1, <3>2, <3>3 DEF EngSlot
  <2>4. CASE FreshRead
    <3>1. /\ At("alloc") /\ eng.then = "fresh"
          /\ \E n : eng' = [eng EXCEPT !.then = "tail", !.need = n, !.out = <<>>]
      BY <2>4 DEF FreshRead, Allocated
    <3>2. /\ eng'.conv = c /\ eng'.slot = eng.slot /\ eng'.at = "alloc" /\ eng'.then = "tail"
      BY <1>0, <3>1 DEF EngTyped, At
    <3>3. Preparing /\ ~At("charge") /\ ~For("grow")' /\ ~(At("headers"))' /\ ~Appending'
      BY <3>1, <3>2 DEF Preparing, Growing, Appending, For, Allocating, At
    <3> QED
      BY <1>2, <2>1, <3>2, <3>3
  <2> QED
    BY <1>9, <2>2, <2>3, <2>4
<1>10. CASE FastTables \/ Install
  <2>1. /\ At("tables") \/ (At("alloc") /\ eng.then = "tail")
        /\ \/ eng' = [eng EXCEPT !.at = "headers"]
           \/ eng' = [eng EXCEPT !.at = "headers", !.out = <<>>]
        /\ UNCHANGED <<running, cur, place, list>>
    BY <1>10 DEF FastTables, Install, GoTo, Allocated, rowVars, slotVars, indexVars
  <2>2. eng'.at = "headers" /\ eng'.conv = c /\ eng'.slot = eng.slot
    BY <1>0, <2>1 DEF EngTyped
  <2>3. Preparing /\ cur = eng.slot /\ c \in Conv
    BY <1>0, <2>1 DEF EngSlot, Preparing, Growing, For, Allocating, At
  <2>4. occupant[cur] \notin running /\ \A s \in Slot \ {cur} : occupant[s] # c
    BY <2>3 DEF EngSlot
  <2>5. c \notin running
    BY <2>3 DEF Stages, StageSeat, Preparing
  <2>6. occupant'[cur] = c /\ \A s \in Slot \ {cur} : occupant'[s] = occupant[s]
    <3>1. CASE FastTables
      <4>1. At("tables") /\ occupant' = occupant
        BY <3>1 DEF FastTables, slotVars
      <4> QED
        BY <4>1 DEF EngSlot, Appending
    <3>2. CASE Install
      BY <1>0, <3>2 DEF Install
    <3> QED
      BY <1>10, <3>1, <3>2
  <2>7. PICK d \in Conv : d = c
    BY <2>3
  <2>8. table'[cur] = Table(d, tail'[d])
    <3>1. CASE FastTables
      BY <1>0, <2>7, <3>1 DEF FastTables, convVars
    <3>2. CASE Install
      <4>1. /\ tail' = [tail EXCEPT ![c] = eng.out]
            /\ table' = [table EXCEPT ![cur] = Table(c, eng.out)]
        BY <3>2 DEF Install
      <4>2. tail'[d] = eng.out
        BY <1>0, <2>7, <4>1
      <4> QED
        BY <1>0, <2>7, <4>1, <4>2
    <3> QED
      BY <1>10, <3>1, <3>2
  <2>9. Table(d, tail[d])' = Table(d, tail'[d])
    BY <2>1 DEF Table
  <2>10. ~For("grow")'
    BY <2>2 DEF For, Allocating, At
  <2>11. (table[cur] = Table(eng.conv, tail[eng.conv]))'
    BY <2>1, <2>2, <2>7, <2>8, <2>9
  <2>12. /\ occupant'[eng'.slot] \notin running' /\ cur' = eng'.slot /\ occupant'[cur'] = eng'.conv
         /\ \A s \in Slot \ {eng'.slot} : occupant'[s] # eng'.conv
    BY <2>1, <2>2, <2>3, <2>4, <2>5, <2>6
  <2> QED
    BY <2>10, <2>11, <2>12 DEF EngSlot
<1>11. CASE \/ Serve \/ ServeCold \/ NotServed \/ Grown
            \/ \E d \in Conv : Prefill(d) \/ End(d) \/ EndUnderflows(d) \/ EndUnknown(d)
            \/ \E d \in Conv, x \in Page : Decode(d, x)
  <2>1. eng' = Free
    BY <1>11 DEF Serve, ServeCold, NotServed, Grown, Start, Prefill, End, EndUnderflows,
       EndUnknown, Decode
  <2> QED
    BY <1>1, <2>1 DEF Free
<1>12. ASSUME NEW d \in Conv, NEW q \in Stream, Begin(d, q) PROVE EngSlot'
  <2>1. PICK s \in Chosen(d) :
          eng' = [Free EXCEPT !.at = "charge", !.conv = d, !.prompt = q, !.slot = s]
    BY <1>12 DEF Begin
  <2>2. eng'.at = "charge" /\ eng'.conv = d /\ eng'.slot = s
    BY <2>1 DEF Free
  <2>3. d \notin running /\ UNCHANGED <<running, occupant>> /\ NoConv \notin running
    BY <1>0, <1>12, NoConvAssumption DEF Begin, rowVars, slotVars
  <2>4. s \in Slot /\ occupant[s] \notin running /\ \A t \in Slot \ {s} : occupant[t] # d
    BY <1>0, <2>1, <2>3, NoConvAssumption, ChosenApart
  <2> QED
    BY <2>2, <2>3, <2>4 DEF EngSlot, Preparing, Appending, Growing, For, Allocating, At
<1>13. ASSUME NEW d \in Conv, Grow(d) PROVE EngSlot'
  <2>1. CASE eng'.at = "abandon"
    BY <1>1, <2>1
  <2>2. CASE eng'.at # "abandon"
    <3>1. /\ cur' = seat[d] /\ UNCHANGED seat
          /\ eng'.at = "alloc" /\ eng'.then = "grow" /\ eng'.conv = d
      BY <1>13, <2>2 DEF Grow, Free, rowVars
    <3> QED
      BY <3>1 DEF EngSlot, Preparing, Appending, Growing, For, Allocating, At
  <2> QED
    BY <2>1, <2>2
<1> QED
  BY <1>3, <1>4, <1>5, <1>6, <1>7, <1>8, <1>9, <1>10, <1>11, <1>12, <1>13
  DEF Next, Engine, MakingRoom, Beginning, Departing, Allotting

Slotted == RunningSeated /\ Occupants /\ EngSlot /\ EngAboard /\ MovesAside

(* The slots begin empty.                                                  *)
LEMMA SlotsInit == Init => Slotted
<1> SUFFICES ASSUME Init PROVE Slotted
  OBVIOUS
<1>1. eng.at = "free" /\ running = {} /\ \A s \in Slot : occupant[s] = NoConv
  BY DEF Init, Free
<1> QED
  BY <1>1 DEF Slotted, RunningSeated, Occupants, EngSlot, EngAboard, MovesAside, Preparing,
     Appending, Unsettled, Ready, For, Allocating, At

(* Every step keeps the slots until a begin fails.                         *)
LEMMA SlottedStep ==
  ASSUME Flowing, ~failed => Slotted, [Next]_vars, ~failed'
  PROVE  Slotted'
<1>1. ~failed
  BY FailedStays
<1>2. /\ Typed /\ Indexed /\ Stages /\ Streams /\ Slotted /\ RunningStreams
  BY <1>1 DEF Flowing, Pool, Streams
<1>3. RunningSeated /\ Occupants /\ EngSlot /\ EngAboard /\ MovesAside
  BY <1>2 DEF Slotted
<1>4. RunningSeated'
  BY <1>1, <1>2, <1>3, RunningSeatedStep
<1>5. Occupants'
  BY <1>1, <1>2, <1>3, OccupantsStep
<1>6. EngSlot'
  BY <1>2, <1>3, EngSlotStep
<1>7. EngAboard'
  BY <1>2, <1>3, EngAboardStep
<1>8. MovesAside'
  BY <1>2, <1>3, MovesAsideStep
<1> QED
  BY <1>4, <1>5, <1>6, <1>7, <1>8 DEF Slotted

(* So they are kept.                                                       *)
LEMMA SlotsAlways == ASSUME ~Replay PROVE Spec => [](Flowing /\ (~failed => Slotted))
<1>1. Flowing /\ (~failed => Slotted) /\ [Next]_vars => (~failed' => Slotted')
  BY SlottedStep
<1>2. Init => Slotted
  BY SlotsInit
<1>3. Spec => []Flowing
  BY StreamsAlways
<1> QED
  BY <1>1, <1>2, <1>3, PTL DEF Spec

(* Which is what the pool promises of its slots.                           *)
LEMMA SeatedTables ==
  ASSUME Flowing, ~failed => Slotted
  PROVE  SlotsStand
<1> SUFFICES ASSUME ~failed PROVE SlotsStand
  BY DEF SlotsStand, RunningTableExact, OccupantsResident
<1>1. Streams /\ Slotted
  BY DEF Flowing
<1>2. OccupantsResident
  BY <1>1 DEF Slotted, Occupants, OccupantsResident
<1>3. RunningTableExact
  BY <1>1 DEF Streams, RunningStreams, Slotted, RunningSeated, Seated, Aboard, RunningTableExact
<1> QED
  BY <1>2, <1>3 DEF SlotsStand

(* Without replay, until a begin fails: a running request has the slot it  *)
(* decodes in, the table applied there is what its conversation holds, in  *)
(* the order of its stream and all of it on the device, and no slot is     *)
(* left to a conversation that is gone or sits in another (pool.rs,        *)
(* choose_slot, apply_tables, vacate_everywhere), whatever is evicted,     *)
(* moved and admitted between two of its steps.                            *)
THEOREM SlotsKept ==
  ASSUME ~Replay
  PROVE  Spec => []SlotsStand
<1>1. Flowing /\ (~failed => Slotted) => SlotsStand
  BY SeatedTables
<1>2. Spec => [](Flowing /\ (~failed => Slotted))
  BY SlotsAlways
<1> QED
  BY <1>1, <1>2, PTL

-----------------------------------------------------------------------------
(* Rows.  Until a begin fails, what is matched and what a request has      *)
(* written lies where it is read.                                          *)

(* The rows of the pages a request has written and not yet sealed.         *)
Row(c) == \A i \in (sealed[c] + 1)..pos[c] : page[tail[c][i - sealed[c]]] = Prefix(work[c], i)

RunningRows == \A c \in running : Row(c)

(* Steps that write no row and seal nothing.                               *)
Unwritten ==
  \A u \in indexed' : u \in indexed /\ place'[u] = place[u]

(* They keep the rows of what they leave indexed.                          *)
LEMMA UnwrittenRows ==
  ASSUME SealedRowsAlwaysTrue, Unwritten, UNCHANGED deviceVars
  PROVE  SealedRowsAlwaysTrue'
BY DEF SealedRowsAlwaysTrue, Unwritten, deviceVars, OnDevice, OnHost

(* An eviction is such a step.                                             *)
LEMMA EvictWrites ==
  ASSUME NEW counts, NEW blocks, Evict(counts, blocks), indexed \subseteq Unit
  PROVE  Unwritten
BY DEF Evict, Evictable, Unwritten

(* Steps that leave every unit where it was.                               *)
Standing ==
  \/ NoHostRoom \/ Roomy \/ PrepareDemote \/ DemoteFails \/ DemoteIdle
  \/ Admitting \/ SwitchExplicit \/ EnterFast \/ EnterGeneral
  \/ Probe \/ PreparePromote \/ PromoteFails \/ StandOnResident \/ StandOnDisk
  \/ AllocOne \/ Exhausted \/ CommitFails \/ FastAllocated \/ RestoreFails \/ FastTables
  \/ Install \/ Serve \/ ServeCold \/ NotServed \/ Grown
  \/ \E c \in Conv, p \in Stream : Begin(c, p)
  \/ \E c \in Conv : Grow(c) \/ EndUnderflows(c) \/ EndUnknown(c)
  \/ UNCHANGED vars

(* They write no rows.                                                     *)
LEMMA StandingWrites ==
  ASSUME Standing
  PROVE  UNCHANGED <<indexed, place, deviceVars>>
<1>1. CASE \/ NoHostRoom \/ Roomy \/ PrepareDemote \/ DemoteFails \/ DemoteIdle
           \/ Admitting \/ SwitchExplicit \/ EnterFast \/ EnterGeneral
  BY <1>1 DEF NoHostRoom, Roomy, PrepareDemote, DemoteFails, DemoteIdle, Admitting, ChargeSlot,
     DoNotCharge, Admit, SwitchExplicit, EnterFast, EnterGeneral, indexVars
<1>2. CASE \/ Probe \/ PreparePromote \/ PromoteFails \/ StandOnResident \/ StandOnDisk
           \/ AllocOne \/ Exhausted \/ CommitFails \/ FastAllocated \/ RestoreFails
  BY <1>2 DEF Probe, PreparePromote, PromoteFails, StandOnResident, StandOnDisk, AllocOne,
     Exhausted, CommitFails, FastAllocated, RestoreFails, indexVars
<1>3. CASE \/ FastTables \/ Install \/ Serve \/ ServeCold \/ NotServed \/ Grown
           \/ \E c \in Conv, p \in Stream : Begin(c, p)
           \/ \E c \in Conv : Grow(c) \/ EndUnderflows(c) \/ EndUnknown(c)
           \/ UNCHANGED vars
  BY <1>3 DEF FastTables, Install, Serve, ServeCold, NotServed, Grown, Begin, Grow,
     EndUnderflows, EndUnknown, indexVars, vars
<1> QED
  BY <1>1, <1>2, <1>3 DEF Standing

(* A copy to the host takes each unit's rows to the unit's handle.         *)
LEMMA DemoteRows ==
  ASSUME Typed, OneOwner, OneHolder, SealedRowsAlwaysTrue, Demote
  PROVE  SealedRowsAlwaysTrue'
<1>1. /\ At("demote") /\ hostPage' = CopiedToHost /\ page' = page /\ indexed' = indexed
      /\ place' = [u \in Unit |-> IF Moved(u) THEN Host(Target(u)) ELSE place[u]]
  BY DEF Demote
<1>2. indexed \subseteq Unit /\ place \in [Unit -> Placement] /\ PlanAgrees
  BY DEF Typed, StateTyped, MemoryTyped
<1> SUFFICES ASSUME NEW u \in indexed
             PROVE  /\ OnDevice(u)' => page'[place'[u][2]] = u
                    /\ OnHost(u)' => hostPage'[place'[u][2]] = u
  BY <1>1 DEF SealedRowsAlwaysTrue
<1>3. CASE Moved(u)
  <2>1. PICK m \in eng.plan : m[1] = u /\ Target(u) = m[2]
    BY <1>3 DEF Moved, Target
  <2>2. OnDevice(u) /\ Target(u) \in Handle /\ Target(u) \in Targets
    BY <1>1, <1>2, <2>1 DEF PlanAgrees, Targets
  <2>3. (CHOOSE n \in eng.plan : n[2] = Target(u)) = m
    BY <2>1 DEF OneOwner, TakenApart
  <2>4. hostPage'[Target(u)] = page[place[u][2]]
    BY <1>1, <2>1, <2>2, <2>3 DEF CopiedToHost
  <2>5. page[place[u][2]] = u
    BY <2>2 DEF SealedRowsAlwaysTrue
  <2>6. place'[u] = Host(Target(u))
    BY <1>1, <1>2, <1>3
  <2> QED
    BY <2>4, <2>5, <2>6 DEF OnDevice, Host
<1>4. CASE ~Moved(u)
  <2>1. place'[u] = place[u]
    BY <1>1, <1>2, <1>4
  <2>2. ASSUME OnHost(u) PROVE hostPage'[place[u][2]] = hostPage[place[u][2]]
    <3>1. place[u][2] \notin Targets /\ place[u][2] \in hosts
      BY <1>1, <1>2, <2>2 DEF OneHolder, Moving
    <3>2. hosts \subseteq Handle
      BY DEF Typed, StateTyped, MemoryTyped
    <3> QED
      BY <1>1, <3>1, <3>2 DEF CopiedToHost
  <2> QED
    BY <1>1, <2>1, <2>2 DEF SealedRowsAlwaysTrue, OnDevice, OnHost
<1> QED
  BY <1>3, <1>4

(* And a copy to the device to the block reserved for it.                  *)
LEMMA PromoteRows ==
  ASSUME Typed, OneOwner, SealedRowsAlwaysTrue, Promote
  PROVE  SealedRowsAlwaysTrue'
<1>1. /\ At("probe") /\ hostPage' = hostPage /\ indexed' = indexed
      /\ page' = [b \in Block |->
           IF b \in Reserved
           THEN hostPage[place[(CHOOSE m \in eng.plan : m[2] = b)[1]][2]] ELSE page[b]]
      /\ place' = [u \in Unit |-> IF Moved(u) THEN Device(Target(u)) ELSE place[u]]
  BY DEF Promote
<1>2. /\ indexed \subseteq Unit /\ place \in [Unit -> Placement] /\ PlanAgrees
      /\ used \subseteq Block
  BY DEF Typed, StateTyped, MemoryTyped, BooksTyped
<1> SUFFICES ASSUME NEW u \in indexed
             PROVE  /\ OnDevice(u)' => page'[place'[u][2]] = u
                    /\ OnHost(u)' => hostPage'[place'[u][2]] = u
  BY <1>1 DEF SealedRowsAlwaysTrue
<1>3. CASE Moved(u)
  <2>1. PICK m \in eng.plan : m[1] = u /\ Target(u) = m[2]
    BY <1>3 DEF Moved, Target
  <2>2. OnHost(u) /\ Target(u) \in Block /\ Target(u) \in Reserved
    BY <1>1, <1>2, <2>1 DEF PlanAgrees, HostHits, Reserved
  <2>3. (CHOOSE n \in eng.plan : n[2] = Target(u)) = m
    BY <2>1 DEF OneOwner, TakenApart
  <2>4. page'[Target(u)] = hostPage[place[u][2]]
    BY <1>1, <2>1, <2>2, <2>3
  <2>5. hostPage[place[u][2]] = u
    BY <2>2 DEF SealedRowsAlwaysTrue
  <2>6. place'[u] = Device(Target(u))
    BY <1>1, <1>2, <1>3
  <2> QED
    BY <2>4, <2>5, <2>6 DEF OnHost, Device
<1>4. CASE ~Moved(u)
  <2>1. place'[u] = place[u]
    BY <1>1, <1>2, <1>4
  <2>2. ASSUME OnDevice(u) PROVE page'[place[u][2]] = page[place[u][2]]
    <3>1. place[u][2] \in used \ Reserved
      BY <1>1, <1>2, <2>2 DEF OneOwner, UnitsApart, Taken, Promised
    <3> QED
      BY <1>1, <1>2, <3>1
  <2> QED
    BY <1>1, <2>1, <2>2 DEF SealedRowsAlwaysTrue, OnDevice, OnHost
<1> QED
  BY <1>3, <1>4

(* What the disk gives goes to the blocks taken for it.                    *)
LEMMA FreshRows ==
  ASSUME Typed, Indexed, OneOwner, SealedRowsAlwaysTrue, FreshRead
  PROVE  SealedRowsAlwaysTrue' /\ \A b \in Block : b \notin Elems(eng.out) => page'[b] = page[b]
<1> DEFINE s == eng.prompt
           o == eng.out
           first == eng.resume - Len(eng.out)
           names(b) == {i \in DOMAIN eng.out : eng.out[i] = b}
<1>1. /\ eng.then = "fresh" /\ At("alloc") /\ eng.need = 0 /\ hostPage' = hostPage
      /\ page' = [b \in Block |->
           IF names(b) = {} THEN page[b] ELSE Prefix(s, first + (CHOOSE i \in names(b) : TRUE))]
      /\ Seal(eng.conv, s, first, o)
  BY DEF FreshRead, Allocated
<1>2. /\ indexed \subseteq Unit /\ place \in [Unit -> Placement] /\ used \subseteq Block
      /\ EngTyped /\ EngAgrees
  BY DEF Typed, StateTyped, MemoryTyped, BooksTyped
<1>3. /\ o \in Seq(Block) /\ s \in Stream /\ first \in Nat /\ Len(o) \in Nat
      /\ Len(o) > 0 => first + Len(o) <= Len(s)
  BY <1>1, <1>2, EngIs DEF EngAgrees
<1>4. \A b \in Block : b \notin Elems(o) => page'[b] = page[b]
  BY <1>1 DEF Elems
<1>5. \A i \in 1..Len(o) : page'[o[i]] = Prefix(s, first + i)
  <2> SUFFICES ASSUME NEW i \in 1..Len(o) PROVE page'[o[i]] = Prefix(s, first + i)
    OBVIOUS
  <2>1. DOMAIN o = 1..Len(o) /\ o[i] \in Block
    BY <1>3
  <2>2. names(o[i]) = {i}
    BY <2>1 DEF OneOwner, TakenApart, Once
  <2> QED
    BY <1>1, <2>1, <2>2
<1>6. indexed' = indexed \cup Elems(Chain(s, first, first + Len(o)))
  BY <1>1 DEF Seal
<1>7. \A u \in Unit :
        \/ u \notin Elems(Chain(s, first, first + Len(o))) /\ place'[u] = place[u]
        \/ OnDevice(u) /\ place'[u] = place[u]
        \/ ~OnDevice(u) /\ \E i \in 1..Len(o) :
             u = Prefix(s, first + i) /\ place'[u] = Device(o[i])
  <2> HIDE DEF s, o, first
  <2> QED
    BY <1>1, <1>3, SealPlaces
<1>8. indexed' \subseteq Unit
  <2> HIDE DEF s, o, first
  <2>1. Chain(s, first, first + Len(o)) \in Seq(Unit)
    BY <1>3, SealedUnits
  <2> QED
    BY <1>2, <1>6, <2>1, ElemsIs
<1> SUFFICES ASSUME NEW u \in indexed'
             PROVE  /\ OnDevice(u)' => page'[place'[u][2]] = u
                    /\ OnHost(u)' => hostPage'[place'[u][2]] = u
  BY <1>4 DEF SealedRowsAlwaysTrue
<1>9. u \in Unit
  BY <1>8
<1>10. CASE place'[u] = place[u] /\ u \in indexed
  <2>1. ASSUME OnDevice(u) PROVE page'[place[u][2]] = page[place[u][2]]
    <3>1. place[u][2] \in used \ Elems(o)
      BY <1>9, <2>1 DEF OneOwner, UnitsApart, Taken
    <3> QED
      BY <1>2, <1>4, <3>1
  <2> QED
    BY <1>1, <1>10, <2>1 DEF SealedRowsAlwaysTrue, OnDevice, OnHost
<1>11. CASE OnDevice(u) /\ place'[u] = place[u]
  BY <1>9, <1>10, <1>11, Somewhere DEF Indexed, IndexedMeansPlaced
<1>12. CASE \E i \in 1..Len(o) : u = Prefix(s, first + i) /\ place'[u] = Device(o[i])
  <2>1. PICK i \in 1..Len(o) : u = Prefix(s, first + i) /\ place'[u] = Device(o[i])
    BY <1>12
  <2> QED
    BY <1>5, <2>1 DEF Device, OnHost
<1> QED
  BY <1>6, <1>7, <1>9, <1>10, <1>11, <1>12

(* A turn that ends seals the rows it has written.                         *)
LEMMA EndRows ==
  ASSUME Typed, Indexed, OneOwner, SealedRowsAlwaysTrue, NEW c \in running, Row(c), End(c)
  PROVE  SealedRowsAlwaysTrue'
<1> DEFINE s == work[c]
           m == sealed[c]
<1>0. c \in Conv
  BY DEF Typed, StateTyped, RowTyped
<1>1. PICK blocks \in Seq(Block) :
        /\ Len(blocks) = New(c) /\ Seal(c, s, m, blocks)
        /\ \A i \in 1..New(c) : blocks[i] = tail[c][i]
  BY <1>0, EndCut
<1>2. /\ New(c) \in Nat /\ m \in Nat /\ s \in Stream /\ Len(s) \in Nat
      /\ New(c) > 0 => m + New(c) = Len(s)
  BY <1>0, NewIs
<1>3. pos[c] = Len(s) /\ UNCHANGED deviceVars
  BY DEF End
<1>4. \A i \in 1..New(c) : page[blocks[i]] = Prefix(s, m + i)
  <2> SUFFICES ASSUME NEW i \in 1..New(c) PROVE page[blocks[i]] = Prefix(s, m + i)
    OBVIOUS
  <2>1. m + i \in (m + 1)..pos[c] /\ (m + i) - m = i
    BY <1>2, <1>3
  <2> QED
    BY <1>1, <2>1 DEF Row
<1>5. Len(blocks) > 0 => m + Len(blocks) <= Len(s)
  BY <1>1, <1>2
<1>6. /\ indexed' = indexed \cup Elems(Chain(s, m, m + Len(blocks)))
      /\ indexed \subseteq Unit
  BY <1>1 DEF Seal, Typed, StateTyped, MemoryTyped
<1> HIDE DEF s, m
<1>7. \A u \in Unit :
        \/ u \notin Elems(Chain(s, m, m + Len(blocks))) /\ place'[u] = place[u]
        \/ OnDevice(u) /\ place'[u] = place[u]
        \/ ~OnDevice(u) /\ \E i \in 1..Len(blocks) :
             u = Prefix(s, m + i) /\ place'[u] = Device(blocks[i])
  BY <1>1, <1>2, <1>5, SealPlaces
<1>8. indexed' \subseteq Unit
  <2>1. Chain(s, m, m + Len(blocks)) \in Seq(Unit)
    BY <1>1, <1>2, <1>5, SealedUnits
  <2> QED
    BY <1>6, <2>1, ElemsIs
<1> SUFFICES ASSUME NEW u \in indexed'
             PROVE  /\ OnDevice(u)' => page'[place'[u][2]] = u
                    /\ OnHost(u)' => hostPage'[place'[u][2]] = u
  BY DEF SealedRowsAlwaysTrue
<1>9. u \in Unit /\ page' = page /\ hostPage' = hostPage
  BY <1>3, <1>8 DEF deviceVars
<1>10. CASE place'[u] = place[u] /\ u \in indexed
  BY <1>9, <1>10 DEF SealedRowsAlwaysTrue, OnDevice, OnHost
<1>11. CASE OnDevice(u) /\ place'[u] = place[u]
  BY <1>9, <1>10, <1>11, Somewhere DEF Indexed, IndexedMeansPlaced
<1>12. CASE \E i \in 1..Len(blocks) : u = Prefix(s, m + i) /\ place'[u] = Device(blocks[i])
  <2>1. PICK i \in 1..Len(blocks) : u = Prefix(s, m + i) /\ place'[u] = Device(blocks[i])
    BY <1>12
  <2> QED
    BY <1>1, <1>4, <1>9, <2>1 DEF Device, OnHost
<1> QED
  BY <1>6, <1>7, <1>9, <1>10, <1>11, <1>12

(* What forwarding pages m+1..n through a table writes: each page to its   *)
(* block, when no block is named twice from there on, and nothing else.    *)
LEMMA ForwardedIs ==
  ASSUME NEW t \in Seq(Int), NEW s \in Stream, NEW m \in Nat, NEW n \in Nat, m <= n,
         n <= Len(s), n <= Len(t), \A i, j \in (m + 1)..Len(t) : t[i] = t[j] => i = j
  PROVE  /\ \A i \in (m + 1)..n : t[i] \in Block => Forwarded(t, s, m, n)[t[i]] = Prefix(s, i)
         /\ \A b \in Block : (\A i \in (m + 1)..Len(t) : t[i] # b)
                               => Forwarded(t, s, m, n)[b] = page[b]
<1> DEFINE upto == IF n = Len(s) THEN n + 1 ELSE n
           last == Lesser(Len(t), upto)
           hit(b) == {i \in (m + 1)..last : t[i] = b}
           newest(b) == CHOOSE i \in hit(b) : \A j \in hit(b) : j <= i
<1>1. Forwarded(t, s, m, n) =
        [b \in Block |-> IF hit(b) = {} THEN page[b]
                         ELSE IF newest(b) <= n THEN Prefix(s, newest(b)) ELSE Unknown]
  BY DEF Forwarded
<1>2. Len(t) \in Nat /\ last \in Nat /\ last <= Len(t) /\ n <= last
  BY DEF Lesser
<1> HIDE DEF last
<1>3. ASSUME NEW i \in (m + 1)..n, t[i] \in Block
      PROVE  Forwarded(t, s, m, n)[t[i]] = Prefix(s, i)
  <2>1. i \in (m + 1)..last /\ i \in Nat /\ i <= n
    BY <1>2
  <2>2. hit(t[i]) = {i}
    <3>1. \A j \in (m + 1)..last : j \in (m + 1)..Len(t)
      BY <1>2
    <3> QED
      BY <2>1, <3>1
  <2>3. newest(t[i]) = i
    <3>1. \A j \in {i} : j <= i
      BY <2>1
    <3> QED
      BY <2>2, <3>1
  <2>4. hit(t[i]) # {} /\ newest(t[i]) <= n
    BY <2>1, <2>2, <2>3
  <2> HIDE DEF hit, newest
  <2> QED
    BY <1>1, <1>3, <2>3, <2>4
<1>4. ASSUME NEW b \in Block, \A i \in (m + 1)..Len(t) : t[i] # b
      PROVE  Forwarded(t, s, m, n)[b] = page[b]
  <2>1. hit(b) = {}
    BY <1>2, <1>4
  <2> QED
    BY <1>1, <2>1
<1> QED
  BY <1>3, <1>4

(* Forwarding a running request writes its own rows, where nothing else    *)
(* lies.                                                                   *)
LEMMA ForwardRows ==
  ASSUME Typed, OneOwner, NEW c \in running, Seated(c), list[c] = Chain(work[c], 0, sealed[c]),
         sealed[c] <= pos[c], NEW s \in Stream, NEW n \in Nat,
         pos[c] <= n, n <= Len(s), n <= sealed[c] + Len(tail[c]),
         page' = Forwarded(table[seat[c]], s, pos[c], n)
  PROVE  /\ \A b \in Block \ Elems(tail[c]) : page'[b] = page[b]
         /\ \A i \in (sealed[c] + 1)..pos[c] : page'[tail[c][i - sealed[c]]] = page[tail[c][i - sealed[c]]]
         /\ \A i \in (pos[c] + 1)..n : page'[tail[c][i - sealed[c]]] = Prefix(s, i)
<1> DEFINE t == table[seat[c]]
           l == tail[c]
           k == sealed[c]
           m == pos[c]
<1>1. /\ c \in Conv /\ l \in Seq(Block) /\ Len(l) \in Nat /\ k \in Nat /\ m \in Nat
      /\ work[c] \in Stream /\ MemoryTyped /\ ListsTyped /\ m <= Len(work[c])
      /\ Len(work[c]) \in Nat
  <2>1. c \in Conv /\ tail \in [Conv -> Seq(Block)] /\ sealed \in [Conv -> 0..MaxPages]
        /\ pos \in [Conv -> Nat] /\ work \in [Conv -> Stream] /\ pos[c] <= Len(work[c])
        /\ MemoryTyped /\ ListsTyped
    BY DEF Typed, StateTyped, ConvTyped, RowTyped
  <2>2. work[c] \in Seq(Page)
    BY <2>1, StreamIs
  <2> QED
    BY <2>1, <2>2
<1>2. Len(list[c]) = k
  <2>1. 0 <= k /\ k <= Len(work[c])
    BY <1>1
  <2>2. Len(Chain(work[c], 0, k)) = k - 0
    BY <1>1, <2>1, ChainIs
  <2> QED
    BY <1>1, <2>2
<1>3. /\ t \in Seq(Int) /\ Len(t) = k + Len(l)
      /\ \A i \in 1..Len(l) : t[k + i] = l[i]
  <2>1. t = Table(c, l)
    BY DEF Seated
  <2>2. /\ Table(c, l) \in Seq(Int) /\ Len(Table(c, l)) = Len(list[c]) + Len(l)
        /\ \A i \in 1..Len(l) : Table(c, l)[Len(list[c]) + i] = l[i]
    BY <1>1, TableTyped
  <2> QED
    BY <1>2, <2>1, <2>2
<1>4. \A i \in (k + 1)..Len(t) : i - k \in 1..Len(l) /\ t[i] = l[i - k]
  <2> SUFFICES ASSUME NEW i \in (k + 1)..Len(t) PROVE i - k \in 1..Len(l) /\ t[i] = l[i - k]
    OBVIOUS
  <2>1. i - k \in 1..Len(l) /\ k + (i - k) = i
    BY <1>1, <1>3
  <2>2. t[k + (i - k)] = l[i - k]
    BY <1>3, <2>1
  <2> QED
    BY ONLY <2>1, <2>2
<1>5. Once(l) /\ DOMAIN l = 1..Len(l)
  BY <1>1 DEF OneOwner, TailsApart
<1>6. \A i \in 1..Len(l) : l[i] \in Block /\ l[i] \in Elems(l)
  BY <1>1, ElemsIs
<1>7. page' = Forwarded(t, s, m, n) /\ k <= m /\ m <= n /\ n <= Len(s) /\ n <= k + Len(l)
  OBVIOUS
<1> HIDE DEF t, l, k, m
<1>8. \A i, j \in (m + 1)..Len(t) : t[i] = t[j] => i = j
  <2> SUFFICES ASSUME NEW i \in (m + 1)..Len(t), NEW j \in (m + 1)..Len(t), t[i] = t[j]
               PROVE  i = j
    OBVIOUS
  <2>1. i \in (k + 1)..Len(t) /\ j \in (k + 1)..Len(t) /\ i \in Nat /\ j \in Nat
    BY <1>1, <1>7, <1>3
  <2>2. i - k = j - k
    BY <1>4, <1>5, <2>1 DEF Once
  <2> QED
    BY <1>1, <2>1, <2>2
<1>9. /\ \A i \in (m + 1)..n : t[i] \in Block => page'[t[i]] = Prefix(s, i)
      /\ \A b \in Block : (\A i \in (m + 1)..Len(t) : t[i] # b) => page'[b] = page[b]
  <2>1. n <= Len(t)
    BY <1>3, <1>7
  <2>2. /\ t \in Seq(Int) /\ s \in Stream /\ m \in Nat /\ n \in Nat /\ m <= n /\ n <= Len(s)
        /\ n <= Len(t) /\ \A i, j \in (m + 1)..Len(t) : t[i] = t[j] => i = j
    BY <1>1, <1>3, <1>7, <1>8, <2>1
  <2>3. /\ \A i \in (m + 1)..n : t[i] \in Block => Forwarded(t, s, m, n)[t[i]] = Prefix(s, i)
        /\ \A b \in Block : (\A i \in (m + 1)..Len(t) : t[i] # b)
                              => Forwarded(t, s, m, n)[b] = page[b]
    BY ONLY <2>2, ForwardedIs
  <2> QED
    BY <1>7, <2>3
<1>10. ASSUME NEW b \in Block \ Elems(l) PROVE page'[b] = page[b]
  <2>1. \A i \in (m + 1)..Len(t) : t[i] # b
    <3> SUFFICES ASSUME NEW i \in (m + 1)..Len(t) PROVE t[i] # b
      OBVIOUS
    <3>1. i \in (k + 1)..Len(t)
      BY <1>1, <1>3, <1>7
    <3> QED
      BY <1>4, <1>6, <3>1
  <2> QED
    BY <1>9, <2>1
<1>11. ASSUME NEW i \in (k + 1)..m PROVE page'[l[i - k]] = page[l[i - k]]
  <2>1. i \in (k + 1)..Len(t) /\ i \in Nat
    BY <1>1, <1>3, <1>7
  <2>2. i - k \in 1..Len(l)
    BY <1>4, <2>1
  <2>3. \A j \in (m + 1)..Len(t) : t[j] # l[i - k]
    <3> SUFFICES ASSUME NEW j \in (m + 1)..Len(t), t[j] = l[i - k] PROVE FALSE
      OBVIOUS
    <3>1. j \in (k + 1)..Len(t) /\ j \in Nat /\ j > m /\ i <= m
      BY <1>1, <1>3, <1>7
    <3>2. j - k \in 1..Len(l) /\ l[j - k] = l[i - k]
      BY <1>4, <3>1
    <3>3. j - k = i - k
      BY <1>5, <2>2, <3>2 DEF Once
    <3> QED
      BY <1>1, <2>1, <3>1, <3>3
  <2> QED
    BY <1>6, <1>9, <2>2, <2>3
<1>12. ASSUME NEW i \in (m + 1)..n PROVE page'[l[i - k]] = Prefix(s, i)
  <2>1. i \in (k + 1)..Len(t)
    BY <1>1, <1>3, <1>7
  <2>2. i - k \in 1..Len(l) /\ t[i] = l[i - k]
    BY <1>4, <2>1
  <2> QED
    BY <1>6, <1>9, <2>2
<1> QED
  BY <1>10, <1>11, <1>12 DEF l, k, m

(* A running request is forwarded by pages of its stream, as far as its    *)
(* blocks reach.                                                           *)
LEMMA ForwardStep ==
  ASSUME Typed, OneOwner, RunningLengths, RunningStreams, RunningSeated, RunningRows,
         NEW c \in Conv, Prefill(c) \/ \E x \in Page : Decode(c, x)
  PROVE  /\ c \in running /\ \A b \in Block \ Elems(tail[c]) : page'[b] = page[b]
         /\ Row(c)'
         /\ UNCHANGED <<indexed, place, running, sealed, tail, hostPage>>
         /\ \A d \in running \ {c} : pos'[d] = pos[d] /\ work'[d] = work[d]
<1>1. /\ c \in running /\ c \in known /\ Seated(c) /\ list[c] = Chain(work[c], 0, sealed[c])
      /\ sealed[c] <= pos[c] /\ Row(c)
  BY DEF RunningStreams, RunningSeated, RunningRows, Prefill, Decode
<1>2. /\ work \in [Conv -> Stream] /\ pos \in [Conv -> Nat] /\ pos[c] <= Len(work[c])
      /\ running \subseteq Conv /\ tail[c] \in Seq(Block) /\ sealed[c] \in Nat
      /\ work[c] \in Seq(Page) /\ Len(work[c]) \in Nat /\ Len(tail[c]) \in Nat
      /\ room[c] \in Nat
  <2>1. work \in [Conv -> Stream] /\ pos \in [Conv -> Nat] /\ pos[c] <= Len(work[c])
        /\ running \subseteq Conv /\ tail[c] \in Seq(Block) /\ sealed[c] \in Nat
        /\ room[c] \in Nat
    BY DEF Typed, StateTyped, ConvTyped, RowTyped
  <2>2. work[c] \in Seq(Page)
    BY <2>1, StreamIs
  <2> QED
    BY <2>1, <2>2
<1>3. /\ Len(work[c]) <= sealed[c] + Len(tail[c]) /\ room[c] <= sealed[c] + Len(tail[c])
  BY <1>1 DEF RunningLengths
<1>4. UNCHANGED <<indexed, place, running, sealed, tail, hostPage>>
  BY DEF Prefill, Decode, indexVars, convVars
<1>5. \E s \in Stream, n \in Nat :
        /\ pos[c] <= n /\ n <= Len(s) /\ n <= sealed[c] + Len(tail[c])
        /\ page' = Forwarded(table[seat[c]], s, pos[c], n)
        /\ pos' = [pos EXCEPT ![c] = n] /\ work' = [work EXCEPT ![c] = s]
        /\ \A i \in 1..pos[c] : Prefix(s, i) = Prefix(work[c], i)
  <2>1. CASE Prefill(c)
    <3>1. PICK n \in pos[c]..Len(work[c]) :
            /\ page' = Forwarded(table[seat[c]], work[c], pos[c], n)
            /\ pos' = [pos EXCEPT ![c] = n]
      BY <2>1 DEF Prefill
    <3>2. work' = [work EXCEPT ![c] = work[c]]
      BY <1>2, <2>1 DEF Prefill
    <3>3. n \in Nat /\ pos[c] <= n /\ n <= Len(work[c]) /\ n <= sealed[c] + Len(tail[c])
      BY <1>2, <1>3, <3>1
    <3>4. work[c] \in Stream
      BY <1>2
    <3> QED
      BY <3>1, <3>2, <3>3, <3>4
  <2>2. ASSUME NEW x \in Page, Decode(c, x)
        PROVE  \E s \in Stream, n \in Nat :
                 /\ pos[c] <= n /\ n <= Len(s) /\ n <= sealed[c] + Len(tail[c])
                 /\ page' = Forwarded(table[seat[c]], s, pos[c], n)
                 /\ pos' = [pos EXCEPT ![c] = n] /\ work' = [work EXCEPT ![c] = s]
                 /\ \A i \in 1..pos[c] : Prefix(s, i) = Prefix(work[c], i)
    <3> DEFINE s == Append(work[c], x)
               n == pos[c] + 1
    <3>1. /\ pos[c] = Len(work[c]) /\ Len(work[c]) < MaxPages /\ pos[c] < room[c]
          /\ work' = [work EXCEPT ![c] = s] /\ page' = Forwarded(table[seat[c]], work'[c], pos[c], n)
          /\ pos' = [pos EXCEPT ![c] = n]
      BY <2>2 DEF Decode
    <3>2. s \in Seq(Page) /\ Len(s) = Len(work[c]) + 1 /\ work'[c] = s
      BY <1>2, <3>1
    <3>3. s \in Stream
      <4>1. Len(s) <= MaxPages
        BY <1>2, <3>1, <3>2, MaxPagesAssumption
      <4> QED
        BY <3>2, <4>1, StreamIs
    <3>4. n \in Nat /\ pos[c] <= n /\ n <= Len(s) /\ n <= sealed[c] + Len(tail[c])
      BY <1>2, <1>3, <3>1, <3>2
    <3>5. \A i \in 1..pos[c] : Prefix(s, i) = Prefix(work[c], i)
      <4> SUFFICES ASSUME NEW i \in 1..pos[c] PROVE Prefix(s, i) = Prefix(work[c], i)
        OBVIOUS
      <4>1. i \in 0..Len(work[c]) /\ i \in 0..Len(s)
        BY <1>2, <3>1, <3>2
      <4>2. /\ Prefix(s, i) \in Seq(Page) /\ Len(Prefix(s, i)) = i
            /\ \A j \in 1..i : Prefix(s, i)[j] = s[j]
        BY <3>2, <4>1, FirstPart
      <4>3. /\ Prefix(work[c], i) \in Seq(Page) /\ Len(Prefix(work[c], i)) = i
            /\ \A j \in 1..i : Prefix(work[c], i)[j] = work[c][j]
        BY <1>2, <4>1, FirstPart
      <4>4. \A j \in 1..i : s[j] = work[c][j]
        BY <1>2, <4>1
      <4> HIDE DEF s
      <4> QED
        BY <4>2, <4>3, <4>4
    <3> HIDE DEF s, n
    <3> QED
      BY <3>1, <3>2, <3>3, <3>4, <3>5
  <2> QED
    BY <2>1, <2>2
<1>6. PICK s \in Stream, n \in Nat :
        /\ pos[c] <= n /\ n <= Len(s) /\ n <= sealed[c] + Len(tail[c])
        /\ page' = Forwarded(table[seat[c]], s, pos[c], n)
        /\ pos' = [pos EXCEPT ![c] = n] /\ work' = [work EXCEPT ![c] = s]
        /\ \A i \in 1..pos[c] : Prefix(s, i) = Prefix(work[c], i)
  BY <1>5
<1>7. /\ \A b \in Block \ Elems(tail[c]) : page'[b] = page[b]
      /\ \A i \in (sealed[c] + 1)..pos[c] :
           page'[tail[c][i - sealed[c]]] = page[tail[c][i - sealed[c]]]
      /\ \A i \in (pos[c] + 1)..n : page'[tail[c][i - sealed[c]]] = Prefix(s, i)
  BY <1>1, <1>6, ForwardRows
<1>8. pos'[c] = n /\ work'[c] = s
  BY <1>2, <1>6
<1>9. Row(c)'
  <2> SUFFICES ASSUME NEW i \in (sealed[c] + 1)..n
               PROVE  page'[tail[c][i - sealed[c]]] = Prefix(s, i)
    BY <1>4, <1>8 DEF Row
  <2>1. CASE i \in (sealed[c] + 1)..pos[c]
    <3>1. i \in 1..pos[c]
      BY <1>2, <2>1
    <3> QED
      BY <1>1, <1>6, <1>7, <2>1, <3>1 DEF Row
  <2>2. CASE i \in (pos[c] + 1)..n
    BY <1>7, <2>2
  <2> QED
    BY <1>2, <2>1, <2>2
<1>10. \A d \in running \ {c} : pos'[d] = pos[d] /\ work'[d] = work[d]
  BY <1>2, <1>6
<1> QED
  BY <1>1, <1>4, <1>7, <1>9, <1>10

(* What is sealed is true whatever step is taken.                          *)
LEMMA SealedRowsStep ==
  ASSUME Typed, Indexed, OneOwner, OneHolder, RunningLengths, RunningStreams, RunningSeated,
         RunningRows, SealedRowsAlwaysTrue, [Next]_vars
  PROVE  SealedRowsAlwaysTrue'
<1>1. indexed \subseteq Unit /\ running \subseteq Conv
  BY DEF Typed, StateTyped, MemoryTyped, RowTyped
<1>2. CASE Departing
  <2>1. PICK cs \in SUBSET Conv : Departs(cs) /\ DepartsAside(cs)
    BY <1>2, Departures
  <2>2. UNCHANGED deviceVars
    BY <2>1 DEF DepartsAside
  <2>3. CASE Leave(cs)
    BY <1>1, <2>2, <2>3, EvictWrites, UnwrittenRows DEF Leave, Forget
  <2>4. CASE UNCHANGED indexVars
    BY <2>2, <2>4, UnwrittenRows DEF indexVars, Unwritten
  <2> QED
    BY <2>1, <2>3, <2>4 DEF Departs
<1>3. CASE EvictUnreferenced \/ Sweep
  BY <1>1, <1>3, EvictWrites, UnwrittenRows DEF EvictUnreferenced, Sweep
<1>4. CASE Standing
  BY <1>4, StandingWrites, UnwrittenRows DEF Unwritten
<1>5. CASE Demote \/ Promote \/ FreshRead
  BY <1>5, DemoteRows, PromoteRows, FreshRows
<1>6. ASSUME NEW c \in Conv, End(c) PROVE SealedRowsAlwaysTrue'
  <2>1. c \in running /\ Row(c)
    BY <1>6 DEF End, RunningRows
  <2> QED
    BY <1>6, <2>1, EndRows
<1>7. ASSUME NEW c \in Conv, Prefill(c) \/ \E x \in Page : Decode(c, x)
      PROVE  SealedRowsAlwaysTrue'
  <2>1. /\ \A b \in Block \ Elems(tail[c]) : page'[b] = page[b]
        /\ UNCHANGED <<indexed, place, hostPage>>
    BY <1>7, ForwardStep
  <2>2. \A u \in indexed : OnDevice(u) => page'[place[u][2]] = page[place[u][2]]
    <3> SUFFICES ASSUME NEW u \in indexed, OnDevice(u)
                 PROVE  page'[place[u][2]] = page[place[u][2]]
      OBVIOUS
    <3>1. place[u][2] \in used \ TailsOf(Conv)
      BY <1>1 DEF OneOwner, UnitsApart
    <3>2. used \subseteq Block /\ Elems(tail[c]) \subseteq TailsOf(Conv)
      BY DEF Typed, StateTyped, BooksTyped, TailsOf
    <3> QED
      BY <2>1, <3>1, <3>2
  <2> QED
    BY <2>1, <2>2 DEF SealedRowsAlwaysTrue, OnDevice, OnHost
<1> QED
  BY <1>2, <1>3, <1>4, <1>5, <1>6, <1>7
  DEF Next, Engine, MakingRoom, Beginning, Departing, Standing

(* A request's rows stay where they are through what leaves it alone.      *)
LEMMA RowStays ==
  ASSUME NEW d, Row(d), UNCHANGED page, sealed'[d] = sealed[d], pos'[d] = pos[d],
         tail'[d] = tail[d], work'[d] = work[d]
  PROVE  Row(d)'
BY DEF Row

(* Or that writes none of its blocks.                                      *)
LEMMA RowKept ==
  ASSUME Typed, RunningLengths, NEW d \in running, d \in known, Row(d),
         \A b \in Elems(tail[d]) : page'[b] = page[b], sealed'[d] = sealed[d], pos'[d] = pos[d],
         \A i \in 1..Len(tail[d]) : tail'[d][i] = tail[d][i], work'[d] = work[d]
  PROVE  Row(d)'
<1>1. /\ d \in Conv /\ tail[d] \in Seq(Block) /\ Len(tail[d]) \in Nat /\ sealed[d] \in Nat
      /\ pos[d] \in Nat /\ pos[d] <= Len(work[d]) /\ Len(work[d]) \in Nat
  <2>1. d \in Conv /\ tail[d] \in Seq(Block) /\ sealed[d] \in Nat /\ pos[d] \in Nat
        /\ pos[d] <= Len(work[d]) /\ work[d] \in Stream
    BY DEF Typed, StateTyped, ConvTyped, RowTyped
  <2>2. work[d] \in Seq(Page)
    BY <2>1, StreamIs
  <2> QED
    BY <2>1, <2>2
<1>2. Len(work[d]) <= sealed[d] + Len(tail[d])
  BY DEF RunningLengths
<1> SUFFICES ASSUME NEW i \in (sealed[d] + 1)..pos[d]
             PROVE  page'[tail'[d][i - sealed[d]]] = Prefix(work[d], i)
  BY DEF Row
<1>3. i - sealed[d] \in 1..Len(tail[d])
  BY <1>1, <1>2
<1>4. tail[d][i - sealed[d]] \in Elems(tail[d])
  BY <1>1, <1>3, ElemsIs
<1> QED
  BY <1>3, <1>4 DEF Row

(* What a running request has written stays written.                       *)
LEMMA RunningRowsStep ==
  ASSUME Typed, Indexed, OneOwner, Stages, RunningLengths, RunningStreams, RunningSeated,
         EngStreams, SealedRowsAlwaysTrue, RunningRows, ~failed, [Next]_vars
  PROVE  RunningRows'
<1>1. /\ running \subseteq Conv /\ tail \in [Conv -> Seq(Block)] /\ pos \in [Conv -> Nat]
      /\ sealed \in [Conv -> Nat] /\ used \subseteq Block
      /\ \A c \in Conv : Elems(tail[c]) \subseteq used
  BY DEF Typed, StateTyped, ConvTyped, RowTyped, BooksTyped, OneOwner, TailsApart
<1>2. ASSUME UNCHANGED page,
             \A d \in running' :
               /\ d \in running /\ sealed'[d] = sealed[d] /\ pos'[d] = pos[d]
               /\ tail'[d] = tail[d] /\ work'[d] = work[d]
      PROVE  RunningRows'
  BY <1>2, RowStays DEF RunningRows
<1>3. CASE Departing
  <2>1. PICK cs \in SUBSET Conv : Departs(cs) /\ DepartsAside(cs)
    BY <1>3, Departures
  <2>2. running' = running \ cs /\ UNCHANGED page
    BY <2>1 DEF DepartsAside, deviceVars
  <2>3. \A d \in Conv \ cs : /\ sealed'[d] = sealed[d] /\ pos'[d] = pos[d]
                             /\ tail'[d] = tail[d] /\ work'[d] = work[d]
    BY <2>1, DepartsTo DEF DepartsAside
  <2> QED
    BY <1>1, <1>2, <2>2, <2>3
<1>4. CASE Aside /\ ~Promote /\ ~(\E c \in Conv : Prefill(c))
  <2>1. UNCHANGED <<sealed, tail, running, work>>
    BY <1>4, AsideKeeps
  <2>2. UNCHANGED <<page, pos>>
    <3>1. CASE EvictUnreferenced \/ Sweep
      BY <3>1 DEF EvictUnreferenced, Sweep, deviceVars, rowVars
    <3>2. CASE Standing
      <4>1. UNCHANGED page
        BY <3>2, StandingWrites DEF deviceVars
      <4>2. UNCHANGED pos
        BY <1>4 DEF Aside, EvictUnreferenced, NoHostRoom, Roomy, PrepareDemote, DemoteFails,
           Admitting, ChargeSlot, DoNotCharge, Admit, SwitchExplicit, Sweep, EnterFast,
           EnterGeneral, PreparePromote, PromoteFails, AllocOne, Exhausted, RestoreFails,
           CommitFails, FastTables, NotServed, Begin, Grow, rowVars, vars
      <4> QED
        BY <4>1, <4>2
    <3> QED
      BY <1>4, <3>1, <3>2 DEF Aside, Standing
  <2> QED
    BY <1>2, <2>1, <2>2
<1>5. CASE Promote
  <2>1. UNCHANGED <<sealed, tail, running, work, known>>
    BY <1>5, AsideKeeps DEF Aside
  <2>2. UNCHANGED pos /\ At("probe") /\ \A b \in Block \ Reserved : page'[b] = page[b]
    BY <1>5 DEF Promote, rowVars
  <2> SUFFICES ASSUME NEW d \in running PROVE Row(d)'
    BY <2>1 DEF RunningRows
  <2>3. \A b \in Elems(tail[d]) : page'[b] = page[b]
    <3>1. Elems(tail[d]) \subseteq used \ Taken
      BY <1>1 DEF OneOwner, TailsApart
    <3>2. Reserved \subseteq Taken
      BY <2>2 DEF Taken, Promised
    <3> QED
      BY <1>1, <2>2, <3>1, <3>2
  <2>4. d \in known /\ Row(d)
    BY DEF RunningStreams, RunningRows
  <2> QED
    BY <2>1, <2>2, <2>3, <2>4, RowKept
<1>6. CASE Own
  <2>1. /\ eng.conv \in Conv \ running /\ UNCHANGED <<running, work, pos>>
        /\ \A d \in Conv \ {eng.conv} : tail'[d] = tail[d] /\ sealed'[d] = sealed[d]
    BY <1>6, OwnKeeps
  <2> SUFFICES ASSUME NEW d \in running PROVE Row(d)'
    BY <2>1 DEF RunningRows
  <2>2. \A b \in Elems(tail[d]) : page'[b] = page[b]
    <3>1. CASE FreshRead
      <4>1. \A b \in Block : b \notin Elems(eng.out) => page'[b] = page[b]
        BY <3>1, FreshRows
      <4>2. Elems(tail[d]) \subseteq used \ Elems(eng.out)
        BY <1>1 DEF OneOwner, TailsApart, Taken
      <4> QED
        BY <1>1, <4>1, <4>2
    <3>2. CASE Standing
      BY <3>2, StandingWrites DEF deviceVars
    <3> QED
      BY <1>6, <3>1, <3>2 DEF Own, Standing
  <2>3. d \in known /\ Row(d) /\ d \in Conv \ {eng.conv}
    BY <1>1, <2>1 DEF RunningStreams, RunningRows
  <2> QED
    BY <2>1, <2>2, <2>3, RowKept
<1>7. CASE Demote \/ DemoteIdle
  <2>1. /\ UNCHANGED <<sealed, running, work, pos>>
        /\ \A d \in running \cup {eng.conv} : d \in Conv => tail'[d] = tail[d]
    BY <1>7, IdleTails
  <2>2. UNCHANGED page
    BY <1>7, StandingWrites DEF Demote, Standing, deviceVars
  <2> QED
    BY <1>1, <1>2, <2>1, <2>2
<1>8. CASE Serve
  <2>1. /\ At("headers") /\ running' = running \cup {eng.conv}
        /\ work' = [work EXCEPT ![eng.conv] = eng.prompt]
        /\ pos' = [pos EXCEPT ![eng.conv] = eng.resume]
        /\ UNCHANGED <<sealed, tail, page>>
    BY <1>8 DEF Serve, Start, convVars, deviceVars
  <2>2. eng.conv \in Conv
    BY <2>1 DEF Typed, EngAgrees, At
  <2> SUFFICES ASSUME NEW d \in running' PROVE Row(d)'
    BY DEF RunningRows
  <2>3. CASE d = eng.conv
    <3>1. pos'[d] = sealed'[d] /\ sealed'[d] \in Nat
      BY <1>1, <2>1, <2>2, <2>3 DEF EngStreams, Ready
    <3> QED
      BY <3>1 DEF Row
  <2>4. CASE d # eng.conv
    <3>1. d \in running
      BY <2>1, <2>4
    <3>2. d \in Conv /\ Row(d) /\ pos'[d] = pos[d]
      BY <1>1, <2>1, <2>4, <3>1 DEF RunningRows
    <3>3. work'[d] = work[d]
      BY <2>1, <2>4, <3>2 DEF Typed, StateTyped, RowTyped
    <3> QED
      BY <2>1, <3>2, <3>3, RowStays
  <2> QED
    BY <2>3, <2>4
<1>9. CASE ServeCold
  BY <1>9 DEF ServeCold, Stages, StageFailed
<1>10. CASE Grown
  <2>1. /\ For("grow") /\ tail' = [tail EXCEPT ![eng.conv] = tail[eng.conv] \o eng.out]
        /\ UNCHANGED <<sealed, running, work, pos, page, known>>
    BY <1>10 DEF Grown, Allocated, For, Allocating, deviceVars
  <2>2. EngTyped /\ eng.out \in Seq(Block)
    BY EngIs DEF Typed
  <2> SUFFICES ASSUME NEW d \in running PROVE Row(d)'
    BY <2>1 DEF RunningRows
  <2>3. d \in Conv /\ tail[d] \in Seq(Block) /\ d \in known /\ Row(d)
    BY <1>1 DEF RunningStreams, RunningRows
  <2>4. \A i \in 1..Len(tail[d]) : tail'[d][i] = tail[d][i]
    <3>1. CASE d = eng.conv
      <4>1. tail'[d] = tail[d] \o eng.out
        BY <1>1, <2>1, <2>3, <3>1
      <4>2. \A s, o \in Seq(Block) : \A i \in 1..Len(s) : (s \o o)[i] = s[i]
        OBVIOUS
      <4> QED
        BY ONLY <2>2, <2>3, <4>1, <4>2
    <3>2. CASE d # eng.conv
      BY <1>1, <2>1, <2>3, <3>2
    <3> QED
      BY <3>1, <3>2
  <2> QED
    BY <2>1, <2>3, <2>4, RowKept
<1>11. ASSUME NEW c \in Conv, End(c) \/ EndUnderflows(c) \/ EndUnknown(c) PROVE RunningRows'
  <2>1. /\ running' = running \ {c} /\ UNCHANGED page
        /\ work' = [work EXCEPT ![c] = <<>>] /\ pos' = [pos EXCEPT ![c] = 0]
    BY <1>11 DEF End, EndUnderflows, EndUnknown, LeaveSlot, Stop, deviceVars
  <2>2. \/ UNCHANGED <<tail, sealed>>
        \/ \E t, n : tail' = [tail EXCEPT ![c] = t] /\ sealed' = [sealed EXCEPT ![c] = n]
    <3>1. CASE End(c)
      BY <3>1 DEF End
    <3>2. CASE EndUnderflows(c)
      BY <3>2 DEF EndUnderflows
    <3>3. CASE EndUnknown(c)
      BY <3>3 DEF EndUnknown, convVars
    <3> QED
      BY <1>11, <3>1, <3>2, <3>3
  <2>3. work \in [Conv -> Stream]
    BY DEF Typed, StateTyped, RowTyped
  <2>4. \A d \in running' : /\ d \in running /\ d \in Conv /\ d # c
                            /\ pos'[d] = pos[d] /\ work'[d] = work[d]
    BY <1>1, <2>1, <2>3
  <2>5. \A d \in running' : tail'[d] = tail[d] /\ sealed'[d] = sealed[d]
    BY <1>1, <2>2, <2>4
  <2> QED
    BY <1>2, <2>1, <2>4, <2>5
<1>12. ASSUME NEW c \in Conv, Prefill(c) \/ \E x \in Page : Decode(c, x) PROVE RunningRows'
  <2>1. /\ c \in running /\ \A b \in Block \ Elems(tail[c]) : page'[b] = page[b]
        /\ Row(c)' /\ UNCHANGED <<running, sealed, tail>>
        /\ \A d \in running \ {c} : pos'[d] = pos[d] /\ work'[d] = work[d]
    BY <1>12, ForwardStep
  <2> SUFFICES ASSUME NEW d \in running \ {c} PROVE Row(d)'
    BY <2>1 DEF RunningRows
  <2>2. d \in Conv /\ d \in known /\ Row(d) /\ pos'[d] = pos[d] /\ work'[d] = work[d]
    BY <1>1, <2>1 DEF RunningStreams, RunningRows
  <2>3. \A b \in Elems(tail[d]) : page'[b] = page[b]
    <3>1. Elems(tail[d]) \cap Elems(tail[c]) = {} /\ Elems(tail[d]) \subseteq Block
      BY <1>1, <2>2 DEF OneOwner, TailsApart
    <3> QED
      BY <2>1, <3>1
  <2> QED
    BY <2>1, <2>2, <2>3, RowKept
<1> QED
  BY <1>3, <1>4, <1>5, <1>6, <1>7, <1>8, <1>9, <1>10, <1>11, <1>12
  DEF Next, Engine, MakingRoom, Beginning, Departing, Aside, Own

RowsTrue == SealedRowsAlwaysTrue /\ RunningRows

(* Rows are true until a begin fails.                                      *)
LEMMA RowsAlways ==
  ASSUME ~Replay
  PROVE  Spec => [](Flowing /\ (~failed => Slotted) /\ (~failed => RowsTrue))
<1> DEFINE Standable == Flowing /\ (~failed => Slotted)
<1>1. Standable /\ (~failed => RowsTrue) /\ [Next]_vars => (~failed' => RowsTrue')
  <2> SUFFICES ASSUME Standable, ~failed => RowsTrue, [Next]_vars, ~failed'
               PROVE  RowsTrue'
    OBVIOUS
  <2>1. ~failed
    BY FailedStays
  <2>2. /\ Typed /\ Indexed /\ OneOwner /\ OneHolder /\ Stages /\ RunningStreams /\ EngStreams
        /\ RunningSeated /\ SealedRowsAlwaysTrue /\ RunningRows
    BY <2>1 DEF Flowing, Pool, Streams, Slotted, RowsTrue
  <2>3. RunningLengths
    <3>1. cold = 0
      <4>1. cold \in Nat /\ ~(cold > 0)
        BY <2>1 DEF Flowing, Lengths, Stages, StageFailed
      <4> QED
        BY <4>1
    <3> QED
      BY <3>1 DEF Flowing, Lengths
  <2>4. SealedRowsAlwaysTrue'
    BY <2>2, <2>3, SealedRowsStep
  <2>5. RunningRows'
    BY <2>1, <2>2, <2>3, RunningRowsStep
  <2> QED
    BY <2>4, <2>5 DEF RowsTrue
<1>2. Init => RowsTrue
  BY DEF Init, InitResident, RowsTrue, SealedRowsAlwaysTrue, RunningRows
<1>3. Spec => []Standable
  BY SlotsAlways
<1> HIDE DEF Standable
<1>4. Spec => [](Standable /\ (~failed => RowsTrue))
  BY <1>1, <1>2, <1>3, PTL DEF Spec
<1> QED
  BY <1>4, PTL DEF Standable

(* Without replay, until a begin fails: the rows of every unit a prompt    *)
(* can match are that unit's rows, wherever they lie (pool.rs: "sealed     *)
(* shared units must never be rewritten"), whatever other requests wrote,  *)
(* sealed, evicted and moved.                                              *)
THEOREM SealedRowsKept ==
  ASSUME ~Replay
  PROVE  Spec => []SealedRowsTrue
<1>1. (~failed => RowsTrue) => SealedRowsTrue
  BY DEF RowsTrue, SealedRowsTrue
<1>2. Spec => [](Flowing /\ (~failed => Slotted) /\ (~failed => RowsTrue))
  BY RowsAlways
<1> QED
  BY <1>1, <1>2, PTL

(* And a running request reads and writes its own through its table, while *)
(* units move between the device and the host.                             *)
THEOREM RowsKept ==
  ASSUME ~Replay
  PROVE  Spec => []RowsStand
<1>1. Spec => []SealedRowsTrue
  BY SealedRowsKept
<1>2. Spec => []SlotsStand
  BY SlotsKept
<1>3. SealedRowsTrue /\ SlotsStand => RowsStand
  BY DEF SlotsStand, RowsStand
<1> QED
  BY <1>1, <1>2, <1>3, PTL

-----------------------------------------------------------------------------
(* Room.  Without host transfers, and until a begin fails, a request that  *)
(* was admitted by fit finds the room it was admitted for.                 *)

NoHost == \A u \in Unit : ~OnHost(u)

Besides ==
  eng.beside => /\ eng.at \notin {"free", "charge", "admit", "cold", "abandon"}
                /\ At("alloc") => eng.then # "grow"

(* Whoever has blocks is in the order by which idle conversations go.      *)
InLru ==
  /\ \A c \in Conv : list[c] # <<>> \/ c \in known => c \in Elems(lru)
  /\ \A c \in Conv : tail[c] # <<>> => c \in known
  /\ For("tail") \/ For("fresh") => eng.conv \in Elems(lru)

(* An append asks for no more than its prompt takes.                       *)
FastRoom ==
  For("fast") /\ eng.need > 0 =>
    ((sealed[eng.conv] + Len(tail[eng.conv])) + Len(eng.out)) + eng.need <= Upper(eng.prompt)

(* The blocks that no allocation may free, as obtainable_units counts them. *)
HeldBlocks == BlocksOf(UnitsOf(Held)) \cup TailsOf(Held)

RoomKept ==
  ~failed /\ eng.beside =>
    Cardinality(HeldBlocks) + withheld + Upper(eng.prompt) <= Capacity

Roomed == NoHost /\ Besides /\ InLru /\ FastRoom /\ RoomKept

(* The steps of a begin that was admitted by fit, from the switch on.      *)
Placing ==
  \/ EvictUnreferenced \/ DropLru \/ SwitchShared \/ EnterFast \/ EnterGeneral
  \/ Probe \/ PreparePromote \/ Promote \/ StandOnResident \/ StandOnDisk
  \/ AllocOne \/ FastAllocated \/ FreshRead \/ FastTables \/ Install
  \/ UNCHANGED vars

AdmitsBeside ==
  /\ At("admit") /\ Obtainable >= Upper(eng.prompt) + Cardinality(running)
  /\ eng' = [eng EXCEPT !.at = "switch", !.beside = TRUE]
  /\ UNCHANGED <<indexVars, lru, used, hosts, convVars, recent, slotVars, rowVars,
                 deviceVars, stored, ctlVars>>

(* Which steps leave a request admitted by fit.                            *)
LEMMA BesideStep ==
  ASSUME Typed, Stages, Besides, ~Explicit, [Next]_vars, eng'.beside
  PROVE  /\ \/ AdmitsBeside
            \/ eng.beside /\ Placing
         /\ eng'.conv = eng.conv /\ eng'.prompt = eng.prompt
         /\ Besides'
<1>0. EngTyped /\ EngAgrees
  BY DEF Typed
<1>1. eng' # Free /\ \A blocks : ~Fail(blocks)
  <2>1. ASSUME eng' = Free PROVE FALSE
    BY <2>1 DEF Free
  <2>2. ASSUME NEW blocks, Fail(blocks) PROVE FALSE
    BY <2>2 DEF Fail, Free
  <2> QED
    BY <2>1, <2>2
<1>2. CASE eng.beside /\ Placing
  <2>1. /\ ~At("charge") /\ ~At("admit") /\ ~At("free")
        /\ At("alloc") => eng.then # "grow"
        /\ At("probe") => eng.then \in {"choose", "tables"}
    BY <1>0, <1>2 DEF Besides, EngAgrees, At
  <2>2. CASE EvictUnreferenced \/ DropLru \/ UNCHANGED vars
    <3>1. eng' = eng
      BY <2>2 DEF EvictUnreferenced, DropLru, vars
    <3> QED
      BY <1>2, <3>1 DEF Besides, At
  <2>3. CASE SwitchShared \/ EnterFast \/ EnterGeneral \/ Probe \/ PreparePromote \/ Promote
    <3>1. /\ eng'.conv = eng.conv /\ eng'.prompt = eng.prompt
          /\ \/ eng'.at \in {"enter", "probe"} /\ eng'.then \in {eng.then, "choose"}
             \/ eng'.at = "alloc" /\ eng'.then = "fast"
             \/ eng'.at = eng.then /\ eng'.then = eng.then /\ At("probe")
      BY <1>0, <2>3 DEF EngTyped, SwitchShared, EnterFast, EnterGeneral, Probe, PreparePromote,
         Promote, GoTo, At
    <3>2. /\ eng'.at = "alloc" => eng'.then # "grow"
          /\ eng'.at \notin {"free", "charge", "admit", "cold", "abandon"}
      BY <2>1, <3>1
    <3> QED
      BY <1>2, <3>1, <3>2 DEF Besides, At
  <2>4. CASE StandOnResident \/ StandOnDisk \/ AllocOne \/ FastAllocated \/ FreshRead
             \/ FastTables \/ Install
    <3> DEFINE Same == eng'.conv = eng.conv /\ eng'.prompt = eng.prompt
    <3>1. CASE StandOnResident
      <4>1. Same /\ eng'.at = "alloc" /\ eng'.then = "tail"
        BY <1>0, <3>1 DEF EngTyped, StandOnResident
      <4> QED
        BY <1>2, <4>1 DEF Besides, At
    <3>2. CASE StandOnDisk
      <4>1. Same /\ eng'.at = "alloc" /\ eng'.then = "fresh"
        BY <1>0, <3>2 DEF EngTyped, StandOnDisk
      <4> QED
        BY <1>2, <4>1 DEF Besides, At
    <3>3. CASE AllocOne
      <4>1. Same /\ eng'.at = "alloc" /\ At("alloc") /\ eng'.then = eng.then
        BY <1>0, <3>3 DEF EngTyped, AllocOne, At
      <4> QED
        BY <1>2, <2>1, <4>1 DEF Besides, At
    <3>4. CASE FastAllocated \/ FastTables \/ Install
      <4>1. Same /\ eng'.at \in {"probe", "headers"}
        BY <1>0, <3>4 DEF EngTyped, FastAllocated, FastTables, Install, GoTo
      <4> QED
        BY <1>2, <4>1 DEF Besides, At
    <3>5. CASE FreshRead
      <4>1. Same /\ eng'.at = "alloc" /\ eng'.then = "tail"
        BY <1>0, <3>5 DEF EngTyped, FreshRead, Allocated, At
      <4> QED
        BY <1>2, <4>1 DEF Besides, At
    <3> QED
      BY <1>2, <2>4, <3>1, <3>2, <3>3, <3>4, <3>5
  <2> QED
    BY <1>2, <2>2, <2>3, <2>4 DEF Placing
<1>3. CASE Placing /\ ~eng.beside
  <2>1. eng'.beside = eng.beside
    <3>1. CASE EvictUnreferenced \/ DropLru \/ SwitchShared \/ EnterFast \/ EnterGeneral
               \/ UNCHANGED vars
      BY <1>0, <3>1 DEF EngTyped, EvictUnreferenced, DropLru, SwitchShared, EnterFast,
         EnterGeneral, GoTo, vars
    <3>2. CASE Probe \/ PreparePromote \/ Promote \/ StandOnResident \/ StandOnDisk
      BY <1>0, <3>2 DEF EngTyped, Probe, PreparePromote, Promote, StandOnResident, StandOnDisk,
         GoTo
    <3>3. CASE AllocOne \/ FastAllocated \/ FreshRead \/ FastTables \/ Install
      BY <1>0, <3>3 DEF EngTyped, AllocOne, FastAllocated, FreshRead, FastTables, Install, GoTo
    <3> QED
      BY <1>3, <3>1, <3>2, <3>3 DEF Placing
  <2> QED
    BY <1>3, <2>1
<1>4. CASE Admit
  <2>1. AdmitsBeside
    BY <1>0, <1>1, <1>4 DEF EngTyped, Admit, AdmitsBeside, Besides, At
  <2> QED
    BY <1>0, <2>1 DEF EngTyped, AdmitsBeside, Besides, At
<1>5. ~ChargeSlot /\ ~DoNotCharge
  BY <1>0, <1>1 DEF EngTyped, ChargeSlot, DoNotCharge, GoTo, Besides, At
<1>6. ~EvictHostToDisk /\ ~NoHostRoom /\ ~Roomy /\ ~PrepareDemote /\ ~Demote /\ ~DemoteFails
      /\ ~DemoteIdle /\ ~SwitchExplicit /\ ~Sweep
  BY DEF Stages, StageMoves, EvictHostToDisk, NoHostRoom, Roomy, PrepareDemote, Demote,
     DemoteFails, DemoteIdle, SwitchExplicit, Sweep
<1>7. ~PromoteFails /\ ~Exhausted /\ ~CommitFails /\ ~RestoreFails
  BY <1>1 DEF PromoteFails, Exhausted, CommitFails, RestoreFails
<1>8. ~Serve /\ ~ServeCold /\ ~NotServed /\ ~Grown /\ ~GrowthFailed
  BY <1>1 DEF Serve, ServeCold, Start, NotServed, Grown, GrowthFailed
<1>9. ~Trim /\ \A c \in Conv : /\ ~Prefill(c) /\ ~Grow(c) /\ ~End(c) /\ ~EndUnderflows(c)
                               /\ ~EndUnknown(c) /\ ~Abandon(c) /\ ~Erase(c)
                               /\ \A x \in Page : ~Decode(c, x)
  <2>1. ~Trim
    BY <1>1 DEF Trim
  <2> SUFFICES ASSUME NEW c \in Conv
               PROVE  /\ ~Prefill(c) /\ ~Grow(c) /\ ~End(c) /\ ~EndUnderflows(c)
                      /\ ~EndUnknown(c) /\ ~Abandon(c) /\ ~Erase(c)
                      /\ \A x \in Page : ~Decode(c, x)
    BY <2>1
  <2>2. ~Prefill(c) /\ ~Abandon(c) /\ ~Erase(c) /\ \A x \in Page : ~Decode(c, x)
    BY <1>1 DEF Prefill, Abandon, Erase, Decode
  <2>3. ~End(c) /\ ~EndUnderflows(c) /\ ~EndUnknown(c)
    BY <1>1 DEF End, EndUnderflows, EndUnknown
  <2>4. ~Grow(c)
    BY DEF Grow, Free
  <2> QED
    BY <2>2, <2>3, <2>4
<1>10. \A c \in Conv, p \in Stream : ~Begin(c, p)
  BY DEF Begin, Free
<1> QED
  BY <1>2, <1>3, <1>4, <1>5, <1>6, <1>7, <1>8, <1>9, <1>10
  DEF Next, Engine, MakingRoom, Admitting, Beginning, Placing

(* Which steps leave a request asking for blocks.                          *)
LEMMA AskingStep ==
  ASSUME Typed, Stages, ~Explicit, [Next]_vars, Allocating', eng'.then # "grow"
  PROVE  /\ eng'.conv = eng.conv /\ eng'.prompt = eng.prompt
         /\ \/ Allocating /\ eng' = eng /\ (EvictUnreferenced \/ DropLru \/ UNCHANGED vars)
            \/ EnterFast \/ StandOnResident \/ StandOnDisk \/ AllocOne \/ FreshRead
<1>0. EngTyped /\ EngAgrees /\ eng'.at \in {"alloc", "hostroom", "demote"}
  BY DEF Typed, Allocating, At
<1>1. eng' # Free /\ \A blocks : ~Fail(blocks)
  <2>1. ASSUME eng' = Free PROVE FALSE
    BY <1>0, <2>1 DEF Free
  <2>2. ASSUME NEW blocks, Fail(blocks) PROVE FALSE
    <3>1. eng'.at \in {"abandon", "cold"}
      BY <2>2 DEF Fail, Free
    <3> QED
      BY <1>0, <3>1
  <2> QED
    BY <2>1, <2>2
<1>2. CASE EvictUnreferenced \/ DropLru \/ UNCHANGED vars
  <2>1. eng' = eng
    BY <1>2 DEF EvictUnreferenced, DropLru, vars
  <2> QED
    BY <1>2, <2>1 DEF Allocating, At
<1>3. CASE EnterFast \/ AllocOne \/ FreshRead
  <2>1. eng'.conv = eng.conv /\ eng'.prompt = eng.prompt
    BY <1>0, <1>3 DEF EngTyped, EnterFast, AllocOne, FreshRead
  <2> QED
    BY <1>3, <2>1
<1>4. CASE StandOnResident \/ StandOnDisk
  <2>1. \E r, n, t : eng' = [eng EXCEPT !.at = "alloc", !.then = t, !.resume = r, !.need = n]
    BY <1>4 DEF StandOnResident, StandOnDisk
  <2>2. eng'.conv = eng.conv /\ eng'.prompt = eng.prompt
    BY <1>0, <2>1 DEF EngTyped
  <2> QED
    BY <1>4, <2>2
<1>5. ~EvictHostToDisk /\ ~NoHostRoom /\ ~Roomy /\ ~PrepareDemote /\ ~Demote /\ ~DemoteFails
      /\ ~DemoteIdle /\ ~SwitchExplicit /\ ~Sweep
  BY DEF Stages, StageMoves, EvictHostToDisk, NoHostRoom, Roomy, PrepareDemote, Demote,
     DemoteFails, DemoteIdle, SwitchExplicit, Sweep
<1>6. ~PromoteFails /\ ~Exhausted /\ ~CommitFails /\ ~RestoreFails
  BY <1>1 DEF PromoteFails, Exhausted, CommitFails, RestoreFails
<1>7. ~Serve /\ ~ServeCold /\ ~NotServed /\ ~Grown /\ ~GrowthFailed
  BY <1>1 DEF Serve, ServeCold, Start, NotServed, Grown, GrowthFailed
<1>8. ~Admitting /\ ~EnterGeneral
  <2>1. ~ChargeSlot /\ ~EnterGeneral /\ ~DoNotCharge
    BY <1>0, <1>1 DEF ChargeSlot, EnterGeneral, DoNotCharge, GoTo, EngTyped
  <2>2. ASSUME Admit PROVE FALSE
    <3>1. eng' = [eng EXCEPT !.at = "switch"] \/ eng' = [eng EXCEPT !.at = "switch", !.beside = TRUE]
      BY <1>1, <2>2 DEF Admit
    <3> QED
      BY <1>0, <3>1 DEF EngTyped
  <2> QED
    BY <2>1, <2>2 DEF Admitting
<1>9. ~SwitchShared /\ ~FastTables /\ ~FastAllocated /\ ~Install
  BY <1>0 DEF SwitchShared, FastTables, FastAllocated, Install, GoTo, EngTyped
<1>10. ~Probe /\ ~PreparePromote /\ ~Promote
  BY <1>0 DEF Probe, PreparePromote, Promote, GoTo, EngTyped, EngAgrees, At
<1>11. ~Trim /\ \A c \in Conv : /\ ~Prefill(c) /\ ~Grow(c) /\ ~End(c) /\ ~EndUnderflows(c)
                                /\ ~EndUnknown(c) /\ ~Abandon(c) /\ ~Erase(c)
                                /\ \A x \in Page : ~Decode(c, x)
  <2>1. ~Trim
    BY <1>1 DEF Trim
  <2> SUFFICES ASSUME NEW c \in Conv
               PROVE  /\ ~Prefill(c) /\ ~Grow(c) /\ ~End(c) /\ ~EndUnderflows(c)
                      /\ ~EndUnknown(c) /\ ~Abandon(c) /\ ~Erase(c)
                      /\ \A x \in Page : ~Decode(c, x)
    BY <2>1
  <2>2. ~Prefill(c) /\ ~Abandon(c) /\ ~Erase(c) /\ \A x \in Page : ~Decode(c, x)
    BY <1>1 DEF Prefill, Abandon, Erase, Decode
  <2>3. ~End(c) /\ ~EndUnderflows(c) /\ ~EndUnknown(c)
    BY <1>1 DEF End, EndUnderflows, EndUnknown
  <2>4. ~Grow(c)
    BY <1>0 DEF Grow, Free
  <2> QED
    BY <2>2, <2>3, <2>4
<1>12. \A c \in Conv, p \in Stream : ~Begin(c, p)
  BY <1>0 DEF Begin, Free
<1> QED
  BY <1>2, <1>3, <1>4, <1>5, <1>6, <1>7, <1>8, <1>9, <1>10, <1>11, <1>12
  DEF Next, Engine, MakingRoom, Beginning

(* Nothing goes to the host.                                               *)
LEMMA NoHostStep ==
  ASSUME Typed, Stages, ~Explicit, NoHost, [Next]_vars
  PROVE  NoHost'
<1>0. place \in [Unit -> Placement] /\ EngTyped
  BY DEF Typed, StateTyped, MemoryTyped
<1>1. ASSUME NEW q, place' = [u \in Unit |-> q[u]],
             \A u \in Unit : q[u] = place[u] \/ q[u] = Nowhere \/ \E b : q[u] = Device(b)
      PROVE  NoHost'
  BY <1>1 DEF NoHost, OnHost, Nowhere, Device
<1>2. ASSUME place' = place PROVE NoHost'
  BY <1>2 DEF NoHost, OnHost
<1>3. ASSUME NEW counts, NEW blocks, Evict(counts, blocks) PROVE NoHost'
  BY <1>3 DEF Evict, NoHost, OnHost, Nowhere
<1>4. CASE Departing
  <2>1. PICK cs \in SUBSET Conv : Departs(cs)
    BY <1>4, Departures
  <2>2. CASE Leave(cs)
    BY <1>3, <2>2 DEF Leave, Forget
  <2>3. CASE cs = {} /\ UNCHANGED <<indexVars, lru, used, hosts, convVars, recent, occupant>>
    BY <1>2, <2>3 DEF indexVars
  <2> QED
    BY <2>1, <2>2, <2>3 DEF Departs
<1>5. CASE EvictUnreferenced \/ Sweep
  BY <1>3, <1>5 DEF EvictUnreferenced, Sweep
<1>6. CASE FreshRead \/ \E c \in Conv : End(c)
  <2>1. ASSUME NEW c, NEW s, NEW m, NEW blocks, Seal(c, s, m, blocks) PROVE NoHost'
    BY <2>1 DEF Seal, NoHost, OnHost, Device
  <2> QED
    BY <1>6, <2>1 DEF FreshRead, End
<1>7. CASE Promote
  <2>1. place' = [u \in Unit |-> IF Moved(u) THEN Device(Target(u)) ELSE place[u]]
    BY <1>7 DEF Promote
  <2> QED
    BY <2>1 DEF NoHost, OnHost, Device
<1>8. ~Demote
  BY DEF Demote, Stages, StageMoves
<1>9. CASE Aside /\ ~EvictUnreferenced /\ ~Sweep /\ ~Promote
  <2>1. place' = place
    BY <1>9 DEF Aside, NoHostRoom, Roomy, PrepareDemote, DemoteFails, Admitting, ChargeSlot,
       DoNotCharge, Admit, SwitchExplicit, EnterFast, EnterGeneral, PreparePromote,
       PromoteFails, AllocOne, Exhausted, RestoreFails, CommitFails, FastTables, NotServed, Begin,
       Prefill, Grow, indexVars, vars
  <2> QED
    BY <1>2, <2>1
<1>10. CASE DemoteIdle \/ Probe \/ StandOnResident \/ StandOnDisk \/ FastAllocated \/ Install
            \/ CommitFails \/ Serve \/ ServeCold \/ Grown
            \/ (\E e \in Conv : EndUnderflows(e) \/ EndUnknown(e))
            \/ (\E e \in Conv, x \in Page : Decode(e, x))
  <2>1. place' = place
    BY <1>10 DEF DemoteIdle, Probe, StandOnResident, StandOnDisk, FastAllocated,
       Install, CommitFails, Serve, ServeCold, Grown, EndUnderflows, EndUnknown, Decode, indexVars
  <2> QED
    BY <1>2, <2>1
<1> QED
  BY <1>4, <1>5, <1>6, <1>7, <1>8, <1>9, <1>10
  DEF Next, Engine, MakingRoom, Beginning, Departing, Aside, Own

(* The order keeps whoever has blocks.                                     *)
LEMMA InLruStep ==
  ASSUME Typed, Stages, ~Explicit, InLru, [Next]_vars
  PROVE  InLru'
<1> DEFINE c == eng.conv
<1>0. /\ lru \in Seq(Conv) /\ EngTyped /\ EngAgrees /\ running \subseteq Conv
      /\ list \in [Conv -> Seq(Unit)] /\ tail \in [Conv -> Seq(Block)]
  BY DEF Typed, StateTyped, OrderTyped, ListsTyped, ConvTyped, RowTyped
<1>1. For("tail")' \/ For("fresh")' => eng'.conv \in Elems(lru')
  <2> SUFFICES ASSUME For("tail")' \/ For("fresh")' PROVE eng'.conv \in Elems(lru')
    OBVIOUS
  <2>1. Allocating' /\ eng'.then \in {"tail", "fresh"}
    BY DEF For
  <2>2. /\ eng'.conv = c
        /\ \/ Allocating /\ eng' = eng /\ (EvictUnreferenced \/ DropLru \/ UNCHANGED vars)
           \/ EnterFast \/ StandOnResident \/ StandOnDisk \/ AllocOne \/ FreshRead
    BY <2>1, AskingStep
  <2>3. CASE Allocating /\ eng' = eng /\ (EvictUnreferenced \/ UNCHANGED vars)
    <3>1. lru' = lru /\ (For("tail") \/ For("fresh"))
      BY <2>1, <2>3 DEF EvictUnreferenced, vars, For
    <3> QED
      BY <2>2, <3>1 DEF InLru
  <2>4. CASE Allocating /\ eng' = eng /\ DropLru
    <3>1. For("tail") \/ For("fresh")
      BY <2>1, <2>4 DEF For
    <3>2. PICK x \in Droppable : Leave({x})
      BY <2>4 DEF DropLru
    <3>3. lru' = Without(lru, {x}) /\ x # c
      BY <3>2 DEF Leave, Forget, Droppable, Spare
    <3> QED
      BY <1>0, <2>2, <3>1, <3>3, WithoutIs DEF InLru
  <2>5. CASE EnterFast
    <3>1. eng'.then = "fast"
      BY <1>0, <2>5 DEF EngTyped, EnterFast
    <3> QED
      BY <2>1, <3>1
  <2>6. CASE StandOnResident \/ StandOnDisk
    <3>1. lru' = Touch(lru, c) /\ c \in Conv
      BY <1>0, <2>6 DEF StandOnResident, StandOnDisk, EngAgrees, At
    <3> QED
      BY <1>0, <2>2, <3>1, TouchTyped
  <2>7. CASE AllocOne \/ FreshRead
    <3>1. lru' = lru /\ Allocating /\ eng.then \in {"tail", "fresh"}
      BY <1>0, <2>1, <2>7 DEF AllocOne, FreshRead, Allocated, EngTyped, Allocating
    <3> QED
      BY <2>2, <3>1 DEF InLru, For
  <2> QED
    BY <2>2, <2>3, <2>4, <2>5, <2>6, <2>7
<1>2. ASSUME NEW d, Elems(lru) \subseteq Elems(lru'), d \in Conv => d \in Elems(lru'),
             known \subseteq known', known' \subseteq known \cup {d},
             d \in known' \/ (tail'[d] = tail[d] \/ tail'[d] = <<>>),
             \A e \in Conv \ {d} : list'[e] = list[e] /\ tail'[e] = tail[e]
      PROVE  InLru'
  BY <1>1, <1>2 DEF InLru
<1>3. ASSUME lru' = lru, list' = list, known' = known, tail' = tail
      PROVE  InLru'
  BY <1>1, <1>3 DEF InLru
<1>4. CASE Departing
  <2>1. PICK cs \in SUBSET Conv : Departs(cs)
    BY <1>4, Departures
  <2>2. /\ \A e \in Conv \ cs : list'[e] = list[e] /\ tail'[e] = tail[e]
        /\ \A e \in cs : list'[e] = <<>> /\ tail'[e] = <<>>
        /\ known' = known \ cs
    BY <2>1, DepartsTo
  <2>3. Elems(lru) \ cs \subseteq Elems(lru')
    <3>1. CASE Leave(cs)
      <4>1. lru' = Without(lru, cs)
        BY <3>1 DEF Leave, Forget
      <4> QED
        BY <1>0, <4>1, WithoutIs
    <3>2. CASE lru' = lru
      BY <3>2
    <3> QED
      BY <2>1, <3>1, <3>2 DEF Departs
  <2> QED
    BY <1>1, <2>2, <2>3 DEF InLru
<1>5. CASE Aside
  <2>1. UNCHANGED <<list, known, tail>>
    BY <1>5, AsideKeeps
  <2>2. lru' = lru
    BY <1>5 DEF Aside, EvictUnreferenced, NoHostRoom, Roomy, PrepareDemote, DemoteFails, Admitting,
       ChargeSlot, DoNotCharge, Admit, SwitchExplicit, Sweep, EnterFast, EnterGeneral,
       PreparePromote, Promote, PromoteFails, AllocOne, Exhausted, RestoreFails, CommitFails, Fail,
       FastTables, NotServed, Begin, Prefill, Grow, vars
  <2> QED
    BY <1>3, <2>1, <2>2
<1>6. CASE Own
  <2>1. /\ c \in Conv
        /\ \A e \in Conv \ {c} : list'[e] = list[e] /\ tail'[e] = tail[e]
    BY <1>6, OwnKeeps
  <2>2. CASE Probe \/ StandOnResident \/ StandOnDisk
    <3>1. /\ lru' = Touch(lru, c) /\ known' = known
          /\ tail' = tail \/ tail' = [tail EXCEPT ![c] = <<>>]
      BY <2>2 DEF Probe, StandOnResident, StandOnDisk, ReplaceTail, convVars
    <3>2. Elems(lru) \cup {c} \subseteq Elems(lru')
      BY <1>0, <2>1, <3>1, TouchTyped
    <3>3. tail'[c] = tail[c] \/ tail'[c] = <<>>
      BY <1>0, <2>1, <3>1
    <3> QED
      BY <1>2, <2>1, <3>1, <3>2, <3>3
  <2>3. CASE FastAllocated \/ (CommitFails /\ eng.then = "fast")
    <3>1. lru' = lru /\ known' = known /\ For("fast")
      BY <2>3 DEF FastAllocated, CommitFails, Allocated, For, Allocating
    <3>2. c \in known
      BY <3>1 DEF Stages, StageSeat, Appending
    <3> QED
      BY <1>2, <2>1, <3>1, <3>2 DEF InLru
  <2>4. CASE FreshRead \/ Install
    <3>1. /\ lru' = lru /\ (For("tail") \/ For("fresh"))
          /\ \/ known' = known /\ tail' = tail
             \/ known' = known \cup {c}
      BY <2>4 DEF FreshRead, Install, Allocated, For, Allocating, convVars
    <3>2. c \in Elems(lru)
      BY <3>1 DEF InLru
    <3> QED
      BY <1>2, <2>1, <2>4, <3>1, <3>2 DEF FreshRead, Install, convVars
  <2> QED
    BY <1>6, <2>2, <2>3, <2>4 DEF Own
<1>7. CASE Serve \/ ServeCold \/ \E d \in Conv, x \in Page : Decode(d, x)
  BY <1>3, <1>7 DEF Serve, ServeCold, Decode, indexVars, convVars
<1>8. CASE Grown
  <2>1. /\ lru' = lru /\ list' = list /\ known' = known /\ For("grow")
        /\ tail' = [tail EXCEPT ![c] = tail[c] \o eng.out]
    BY <1>8 DEF Grown, Allocated, For, Allocating, indexVars
  <2>2. c \in known
    BY <2>1 DEF Stages, StageSeat
  <2>3. \A e \in Conv \ {c} : list'[e] = list[e] /\ tail'[e] = tail[e]
    BY <1>0, <2>1
  <2>4. c \in Conv => c \in Elems(lru)
    BY <2>2 DEF InLru
  <2> QED
    BY <1>2, <2>1, <2>2, <2>3, <2>4
<1>9. ASSUME NEW e \in Conv, End(e) PROVE InLru'
  <2>1. /\ lru' = lru /\ known' = known /\ e \in known
        /\ \E l : list' = [list EXCEPT ![e] = l]
        /\ \E l : tail' = [tail EXCEPT ![e] = l]
    BY <1>9 DEF End, Seal
  <2>2. \A d \in Conv \ {e} : list'[d] = list[d] /\ tail'[d] = tail[d]
    BY <1>0, <2>1
  <2>3. e \in Elems(lru)
    BY <2>1 DEF InLru
  <2> QED
    BY <1>2, <2>1, <2>2, <2>3
<1>10. ASSUME NEW e \in Conv, EndUnderflows(e) \/ EndUnknown(e) PROVE InLru'
  <2>1. /\ lru' = lru /\ list' = list /\ known' = known
        /\ tail' = tail \/ tail' = [tail EXCEPT ![e] = <<>>]
    BY <1>10 DEF EndUnderflows, EndUnknown, indexVars, convVars
  <2>2. \A d \in Conv : tail'[d] = tail[d] \/ tail'[d] = <<>>
    BY <1>0, <2>1
  <2> QED
    BY <1>1, <2>1, <2>2 DEF InLru
<1>11. ~Demote /\ ~DemoteIdle /\ ~EvictHostToDisk
  BY DEF Demote, DemoteIdle, EvictHostToDisk, Stages, StageMoves
<1> QED
  BY <1>4, <1>5, <1>6, <1>7, <1>8, <1>9, <1>10, <1>11
  DEF Next, Engine, MakingRoom, Beginning, Departing, Aside, Own

(* An append counts what the conversation has and what it has taken.       *)
LEMMA FastRoomStep ==
  ASSUME Typed, Stages, ~Explicit, FastRoom, [Next]_vars
  PROVE  FastRoom'
<1> SUFFICES ASSUME For("fast")', eng'.need > 0
             PROVE  ((sealed'[eng'.conv] + Len(tail'[eng'.conv])) + Len(eng'.out)) + eng'.need
                      <= Upper(eng'.prompt)
  BY DEF FastRoom, Upper
<1> DEFINE c == eng.conv
<1>0. /\ EngTyped /\ EngAgrees /\ Allocating' /\ eng'.then = "fast"
      /\ sealed \in [Conv -> 0..MaxPages] /\ tail \in [Conv -> Seq(Block)]
  BY DEF Typed, StateTyped, ConvTyped, For
<1>1. /\ eng'.conv = c /\ eng'.prompt = eng.prompt
      /\ \/ Allocating /\ eng' = eng /\ (EvictUnreferenced \/ DropLru \/ UNCHANGED vars)
         \/ EnterFast \/ StandOnResident \/ StandOnDisk \/ AllocOne \/ FreshRead
  BY <1>0, AskingStep
<1>2. c \in Conv
  BY <1>0, <1>1 DEF EngAgrees, At, Allocating, EnterFast, StandOnResident, StandOnDisk, AllocOne,
     FreshRead, Allocated
<1>3. /\ Len(eng.out) \in Nat /\ eng.out \in Seq(Block) /\ eng.need \in Nat
      /\ Upper(eng.prompt) \in Nat /\ Len(tail[c]) \in Nat /\ sealed[c] \in Nat
  BY <1>0, <1>2, EngIs, MaxPagesAssumption
<1>4. CASE Allocating /\ eng' = eng /\ (EvictUnreferenced \/ DropLru \/ UNCHANGED vars)
  <2>1. sealed'[c] = sealed[c] /\ tail'[c] = tail[c]
    <3>1. CASE EvictUnreferenced \/ UNCHANGED vars
      BY <3>1 DEF EvictUnreferenced, vars, convVars
    <3>2. CASE DropLru
      <4>1. PICK x \in Droppable : Leave({x})
        BY <3>2 DEF DropLru
      <4>2. Droppable \subseteq Conv
        BY ElemsIs DEF Droppable, Typed, StateTyped, OrderTyped
      <4>3. x # c /\ {x} \in SUBSET Conv /\ Departs({x})
        BY <4>1, <4>2 DEF Droppable, Spare, Departs
      <4> QED
        BY <1>2, <4>3, DepartsTo
    <3> QED
      BY <1>4, <3>1, <3>2
  <2>2. For("fast")
    BY <1>0, <1>4 DEF For
  <2> QED
    BY <1>4, <2>1, <2>2 DEF FastRoom
<1>5. CASE EnterFast
  <2>1. /\ At("enter") /\ sealed' = sealed /\ tail' = tail
        /\ eng' = [eng EXCEPT !.at = "alloc", !.then = "fast", !.resume = Len(text[c]),
                     !.need = Beyond(Upper(eng.prompt), sealed[c] + Len(tail[c]))]
    BY <1>5 DEF EnterFast, convVars
  <2>2. eng.out = <<>>
    BY <1>0, <2>1 DEF EngAgrees, At
  <2>3. eng'.out = <<>> /\ eng'.need = Beyond(Upper(eng.prompt), sealed[c] + Len(tail[c]))
    BY <1>0, <2>1, <2>2 DEF EngTyped
  <2>4. Len(eng'.out) = 0
    BY <2>3
  <2> QED
    BY <1>1, <1>3, <2>1, <2>3, <2>4 DEF Beyond
<1>6. CASE AllocOne
  <2>1. /\ At("alloc") /\ eng.need > 0 /\ sealed' = sealed /\ tail' = tail
        /\ eng' = [eng EXCEPT !.need = @ - 1, !.out = Append(@, LowestFree)]
    BY <1>6 DEF AllocOne, convVars
  <2>2. /\ eng'.need = eng.need - 1 /\ eng'.out = Append(eng.out, LowestFree)
        /\ eng.then = "fast"
    BY <1>0, <2>1 DEF EngTyped
  <2>3. Len(eng'.out) = Len(eng.out) + 1
    <3>1. LowestFree \in Block
      BY <1>6, BooksTake DEF AllocOne, slotVars, Typed, StateTyped
    <3>2. Len(Append(eng.out, LowestFree)) = Len(eng.out) + 1
      BY <1>3, <3>1
    <3> QED
      BY <2>2, <3>2
  <2>4. ((sealed[c] + Len(tail[c])) + Len(eng.out)) + eng.need <= Upper(eng.prompt)
    <3>1. For("fast") /\ eng.need > 0
      BY <2>1, <2>2 DEF For, Allocating
    <3> QED
      BY <3>1, Zenon DEF FastRoom
  <2>5. sealed'[eng'.conv] = sealed[c] /\ tail'[eng'.conv] = tail[c] /\ eng'.prompt = eng.prompt
    BY <1>1, <2>1
  <2>6. eng'.need = eng.need - 1
    BY <2>2
  <2> QED
    <3> DEFINE a == sealed[c]
               b == Len(tail[c])
               o == Len(eng.out)
               n == eng.need
               u == Upper(eng.prompt)
    <3>1. a \in Nat /\ b \in Nat /\ o \in Nat /\ n \in Nat /\ u \in Nat
      BY <1>3
    <3>2. ((a + b) + o) + n <= u
      BY <2>4
    <3> HIDE DEF a, b, o, n, u
    <3>3. ((a + b) + (o + 1)) + (n - 1) <= u
      BY <3>1, <3>2
    <3>4. /\ sealed'[eng'.conv] = a /\ Len(tail'[eng'.conv]) = b /\ Len(eng'.out) = o + 1
          /\ eng'.need = n - 1 /\ Upper(eng'.prompt) = u
      BY <2>3, <2>5, <2>6 DEF a, b, o, n, u
    <3> QED
      BY ONLY <3>3, <3>4
<1>7. ~StandOnResident /\ ~StandOnDisk /\ ~FreshRead
  <2>1. ~StandOnResident
    BY <1>0 DEF EngTyped, StandOnResident
  <2>2. ~StandOnDisk
    BY <1>0 DEF EngTyped, StandOnDisk
  <2>3. ~FreshRead
    BY <1>0 DEF EngTyped, FreshRead
  <2> QED
    BY <2>1, <2>2, <2>3
<1> QED
  BY <1>1, <1>4, <1>5, <1>6, <1>7

(* Without a host a unit that is indexed is on the device.                 *)
LEMMA AllOnDevice ==
  ASSUME Typed, Indexed, NoHost, NEW u \in indexed
  PROVE  u \in Unit /\ OnDevice(u)
<1>1. u \in Unit /\ place[u] # Nowhere /\ place[u] \in Placement
  BY DEF Indexed, IndexedMeansPlaced, Typed, StateTyped, MemoryTyped
<1>2. ~OnHost(u)
  BY <1>1 DEF NoHost
<1>3. ASSUME NEW k, place[u] = Host(k) PROVE OnHost(u)
  BY <1>3 DEF OnHost, Host
<1>4. \E b : place[u] = Device(b)
  BY <1>1, <1>2, <1>3 DEF Placement
<1> QED
  BY <1>1, <1>4 DEF OnDevice, Device

(* Held conversations are conversations.                                   *)
LEMMA HeldIs ==
  ASSUME Typed
  PROVE  Held \subseteq Conv
BY DEF Held, Typed, StateTyped, RowTyped, SlotTyped

(* A request admitted by fit is not one of those that are held.            *)
LEMMA NotHeld ==
  ASSUME Typed, Stages, ~Explicit, EngSlot, Besides, eng.beside
  PROVE  eng.conv \in Conv \ Held
<1>1. ~At("free") /\ ~At("charge") /\ ~Growing
  BY DEF Besides, Growing, For, Allocating, At, Stages, StageMoves
<1>2. eng.conv \in Conv /\ eng.conv \notin running
  BY <1>1 DEF Typed, EngAgrees, Stages, StageSeat
<1>3. cur = eng.slot /\ \A s \in Slot \ {eng.slot} : occupant[s] # eng.conv
  BY <1>1 DEF EngSlot, Preparing
<1> QED
  BY <1>2, <1>3 DEF Held

(* What is held beside the request only shrinks while it is placed.        *)
LEMMA HeldShrinks ==
  ASSUME Typed, Indexed, Stages, ~Explicit, NoHost, EngSlot, Besides, [Next]_vars, eng.beside,
         Placing
  PROVE  HeldBlocks' \subseteq HeldBlocks /\ withheld' = withheld
<1> DEFINE c == eng.conv
<1>0. /\ c \in Conv \ Held /\ Held \subseteq Conv
      /\ occupant \in [Slot -> Conv \cup {NoConv}] /\ cur \in Slot
  BY NotHeld, HeldIs DEF Typed, StateTyped, SlotTyped
<1>1. /\ Held' \subseteq Held /\ withheld' = withheld
      /\ \A d \in Held' : list'[d] = list[d] /\ tail'[d] = tail[d]
  <2>1. CASE DropLru \/ SwitchShared
    <3>1. PICK cs \in SUBSET Conv : Departs(cs) /\ DepartsAside(cs)
      BY <2>1, Departures DEF Departing
    <3>2. cur' = cur /\ withheld' = withheld /\ running' = running \ cs
      BY <2>1, <3>1 DEF DropLru, SwitchShared, DepartsAside
    <3>3. \A s \in Slot : occupant'[s] = IF occupant[s] \in cs THEN NoConv ELSE occupant[s]
      BY <3>1, DepartsSlots
    <3>4. Held' \subseteq Held \ cs
      BY <3>2, <3>3 DEF Held
    <3> QED
      BY <1>0, <3>1, <3>2, <3>4, DepartsTo
  <2>2. CASE EvictUnreferenced \/ EnterFast \/ EnterGeneral \/ PreparePromote \/ Promote
             \/ AllocOne \/ FastTables \/ UNCHANGED vars
    <3>1. Aside
      BY <2>2 DEF Aside
    <3>2. UNCHANGED <<list, tail, running>>
      BY <3>1, AsideKeeps
    <3>3. UNCHANGED <<occupant, cur, withheld>>
      BY <2>2 DEF EvictUnreferenced, EnterFast, EnterGeneral, PreparePromote, Promote, AllocOne,
         FastTables, slotVars, vars
    <3> QED
      BY <3>2, <3>3 DEF Held
  <2>3. CASE Probe \/ StandOnResident \/ StandOnDisk \/ FastAllocated \/ FreshRead \/ Install
    <3>1. /\ running' = running
          /\ \A d \in Conv \ {c} : list'[d] = list[d] /\ tail'[d] = tail[d]
      BY <2>3, OwnKeeps DEF Own
    <3>2. /\ UNCHANGED <<cur, withheld>>
          /\ occupant' = occupant \/ occupant' = [occupant EXCEPT ![cur] = c]
      BY <2>3 DEF Probe, StandOnResident, StandOnDisk, FastAllocated, FreshRead, Install, slotVars
    <3>3. \A s \in Slot \ {cur} : occupant'[s] = occupant[s]
      BY <1>0, <3>2
    <3>4. Held' = Held
      BY <3>1, <3>2, <3>3 DEF Held
    <3> QED
      BY <1>0, <3>1, <3>2, <3>4
  <2> QED
    BY <2>1, <2>2, <2>3 DEF Placing
<1>2. ASSUME NEW u \in UnitsOf(Held)'
      PROVE  u \in UnitsOf(Held) /\ OnDevice(u) /\ place'[u] = place[u]
  <2>1. PICK d \in Held' : u \in Elems(list'[d])
    BY DEF UnitsOf, Elems
  <2>2. d \in Held /\ d \in Conv /\ u \in Elems(list[d])
    BY <1>0, <1>1, <2>1
  <2>3. u \in indexed
    BY <2>2 DEF Indexed, Backed
  <2>4. OnDevice(u)
    BY <2>3, AllOnDevice
  <2>5. ~At("demote")
    BY DEF Stages, StageMoves
  <2>6. place'[u] = place[u]
    BY <2>1, <2>2, <2>4, <2>5, PlaceKept
  <2> QED
    BY <2>2, <2>4, <2>6 DEF UnitsOf
<1>3. BlocksOf(UnitsOf(Held))' \subseteq BlocksOf(UnitsOf(Held))
  BY <1>2 DEF BlocksOf
<1>4. TailsOf(Held)' \subseteq TailsOf(Held)
  BY <1>1 DEF TailsOf
<1> QED
  BY <1>1, <1>3, <1>4 DEF HeldBlocks

(* Blocks that lie somewhere are blocks, and can be counted.               *)
LEMMA BlocksCounted ==
  ASSUME Typed, NEW S, S \subseteq Unit, NEW cs, cs \subseteq Conv
  PROVE  /\ BlocksOf(S) \cup TailsOf(cs) \subseteq Block
         /\ IsFiniteSet(BlocksOf(S) \cup TailsOf(cs))
         /\ Cardinality(BlocksOf(S) \cup TailsOf(cs)) \in Nat
<1>1. BlocksOf(S) \subseteq Block
  <2> SUFFICES ASSUME NEW u \in S, OnDevice(u) PROVE place[u][2] \in Block
    BY DEF BlocksOf
  <2>1. place[u] \in Placement /\ place[u][1] = "device"
    BY DEF Typed, StateTyped, MemoryTyped, OnDevice
  <2>2. \E b \in Block : place[u] = Device(b)
    BY <2>1 DEF Placement, Device, Host, Nowhere
  <2> QED
    BY <2>2 DEF Device
<1>2. TailsOf(cs) \subseteq Block
  <2> SUFFICES ASSUME NEW d \in cs PROVE Elems(tail[d]) \subseteq Block
    BY DEF TailsOf
  <2> QED
    BY ElemsIs DEF Typed, StateTyped, ConvTyped
<1>3. IsFiniteSet(Block)
  BY FS_Interval, CapacityAssumption DEF Block
<1>4. BlocksOf(S) \cup TailsOf(cs) \subseteq Block
  BY <1>1, <1>2
<1> QED
  BY <1>3, <1>4, FS_Subset, FS_CardinalityType

(* The units of conversations are units.                                   *)
LEMMA UnitsOfAre ==
  ASSUME Typed, NEW cs, cs \subseteq Conv
  PROVE  UnitsOf(cs) \subseteq Unit
<1> SUFFICES ASSUME NEW d \in cs PROVE Elems(list[d]) \subseteq Unit
  BY DEF UnitsOf
<1> QED
  BY ElemsIs DEF Typed, StateTyped, ListsTyped

(* A request admitted by fit keeps the room it was admitted for.           *)
LEMMA RoomKeptStep ==
  ASSUME Typed, Indexed, Stages, ~Explicit, NoHost, Besides, RoomKept,
         ~failed => EngSlot /\ RunningSeated, [Next]_vars
  PROVE  RoomKept'
<1> SUFFICES ASSUME ~failed', eng'.beside
             PROVE  Cardinality(HeldBlocks') + withheld' + Upper(eng'.prompt) <= Capacity
  BY DEF RoomKept, Upper
<1>0. ~failed /\ EngSlot /\ RunningSeated
  BY FailedStays
<1>1. /\ AdmitsBeside \/ (eng.beside /\ Placing)
      /\ eng'.prompt = eng.prompt
  BY BesideStep
<1>2. IsFiniteSet(HeldBlocks) /\ Cardinality(HeldBlocks) \in Nat
  BY HeldIs, UnitsOfAre, BlocksCounted DEF HeldBlocks
<1>3. withheld \in Nat /\ Upper(eng.prompt) \in Nat
  BY BooksAre, EngIs DEF Typed, StateTyped
<1>4. CASE AdmitsBeside
  <2>1. /\ UNCHANGED <<list, tail, place, running, occupant, cur, withheld>>
        /\ Obtainable >= Upper(eng.prompt) + Cardinality(running)
    BY <1>4 DEF AdmitsBeside, indexVars, convVars, slotVars, rowVars
  <2>2. HeldBlocks' = HeldBlocks
    BY <2>1 DEF HeldBlocks, BlocksOf, UnitsOf, TailsOf, Held, OnDevice
  <2>3. Obtainable = Capacity - Cardinality(HeldBlocks) - withheld
    BY DEF Obtainable, HeldBlocks, UnitsOf
  <2>4. Cardinality(running) \in Nat
    <3> DEFINE f == [d \in running |-> seat[d]]
    <3>1. f \in [running -> Slot] /\ \A d, e \in running : f[d] = f[e] => d = e
      BY <1>0 DEF RunningSeated, Seated, Typed, StateTyped, RowTyped
    <3> HIDE DEF f
    <3>2. f \in Injection(running, Slot)
      BY <3>1 DEF Injection, IsInjective
    <3>3. IsFiniteSet(Slot)
      BY FS_Interval, SlotsAssumption DEF Slot
    <3>4. IsFiniteSet(running)
      BY <3>2, <3>3, FS_Injection
    <3> QED
      BY <3>4, FS_CardinalityType
  <2> QED
    BY <1>1, <1>2, <1>3, <2>1, <2>2, <2>3, <2>4, CapacityAssumption
<1>5. CASE eng.beside /\ Placing
  <2>1. HeldBlocks' \subseteq HeldBlocks /\ withheld' = withheld
    BY <1>0, <1>5, HeldShrinks
  <2>2. Cardinality(HeldBlocks') \in Nat /\ Cardinality(HeldBlocks') <= Cardinality(HeldBlocks)
    BY <1>2, <2>1, FS_Subset, FS_CardinalityType
  <2>3. Cardinality(HeldBlocks) + withheld + Upper(eng.prompt) <= Capacity
    BY <1>0, <1>5 DEF RoomKept
  <2> QED
    BY <1>1, <1>2, <1>3, <2>1, <2>2, <2>3, CapacityAssumption
<1> QED
  BY <1>1, <1>4, <1>5

(* What n positions name are n things at most.                             *)
LEMMA NamedAtMost ==
  ASSUME NEW n \in Nat, NEW f, NEW S, S \subseteq {f[i] : i \in 1..n}
  PROVE  IsFiniteSet(S) /\ Cardinality(S) \in Nat /\ Cardinality(S) <= n
<1> DEFINE T == {f[i] : i \in 1..n}
           g == [i \in 1..n |-> f[i]]
<1>1. g \in Surjection(1..n, T)
  BY DEF Surjection
<1>2. IsFiniteSet(1..n) /\ Cardinality(1..n) = n
  BY FS_Interval
<1> HIDE DEF g
<1>3. IsFiniteSet(T) /\ Cardinality(T) <= n
  BY <1>1, <1>2, FS_Surjection
<1>4. IsFiniteSet(S) /\ Cardinality(S) <= Cardinality(T)
  BY <1>3, FS_Subset DEF T
<1>5. Cardinality(S) \in Nat /\ Cardinality(T) \in Nat
  BY <1>3, <1>4, FS_CardinalityType
<1> QED
  BY <1>3, <1>4, <1>5

(* Two sets together have at most what they have apart.                    *)
LEMMA AtMostBoth ==
  ASSUME NEW S, NEW T, IsFiniteSet(S), IsFiniteSet(T)
  PROVE  /\ IsFiniteSet(S \cup T) /\ Cardinality(S \cup T) \in Nat
         /\ Cardinality(S \cup T) <= Cardinality(S) + Cardinality(T)
<1>1. /\ IsFiniteSet(S \cup T) /\ IsFiniteSet(S \cap T)
      /\ Cardinality(S \cup T) = Cardinality(S) + Cardinality(T) - Cardinality(S \cap T)
  BY FS_Union, FS_Intersection
<1>2. /\ Cardinality(S) \in Nat /\ Cardinality(T) \in Nat /\ Cardinality(S \cap T) \in Nat
      /\ Cardinality(S \cup T) \in Nat
  BY <1>1, FS_CardinalityType
<1> QED
  BY <1>1, <1>2

(* What the request's own conversation has, and what has been taken for    *)
(* it, is no more than its prompt takes.                                   *)
LEMMA AsksWithin ==
  ASSUME Typed, Stages, SpokenStreams, EngStreams, FastRoom, Besides, eng.beside, At("alloc"),
         eng.need > 0
  PROVE  (Len(list[eng.conv]) + Len(tail[eng.conv])) + (Len(eng.out) + eng.need)
           <= Upper(eng.prompt)
<1> DEFINE c == eng.conv
<1>1. /\ EngTyped /\ eng.then \in {"fast", "tail", "fresh"} /\ c \in Conv /\ c \notin running
      /\ eng.resume <= Len(eng.prompt) /\ Allocating
  BY DEF Typed, EngAgrees, At, Besides, Stages, StageSeat, Growing, For, Allocating
<1>2. /\ Len(eng.out) \in Nat /\ eng.need \in Nat /\ eng.resume \in Nat
      /\ Len(eng.prompt) \in Nat /\ Upper(eng.prompt) = Len(eng.prompt) + 1
  BY <1>1, EngIs
<1>3. /\ Len(list[c]) \in Nat /\ Len(tail[c]) \in Nat /\ sealed[c] \in 0..MaxPages
      /\ sealed[c] \in Nat
  BY <1>1, MaxPagesAssumption DEF Typed, StateTyped, ListsTyped, ConvTyped
<1>4. CASE eng.then = "tail"
  <2>1. /\ tail[c] = <<>> /\ list[c] = Chain(eng.prompt, 0, eng.resume)
        /\ Len(eng.out) + eng.need = Upper(eng.prompt) - eng.resume
    BY <1>1, <1>4 DEF Stages, StageList, For
  <2>2. Len(list[c]) = eng.resume
    BY <1>1, <1>2, <2>1, ChainShort DEF EngTyped
  <2>3. Len(tail[c]) = 0
    BY <2>1
  <2> QED
    BY <1>2, <2>1, <2>2, <2>3
<1>5. CASE eng.then = "fresh"
  <2>1. tail[c] = <<>> /\ Len(eng.out) + eng.need = eng.resume - Len(list[c])
    BY <1>1, <1>5 DEF Stages, StageList, For
  <2>2. Len(tail[c]) = 0
    BY <2>1
  <2> QED
    BY <1>1, <1>2, <1>3, <2>1, <2>2
<1>6. CASE eng.then = "fast"
  <2>1. For("fast") /\ ~Unsettled
    BY <1>1, <1>6 DEF For, Unsettled, At
  <2>2. c \in spoken
    BY <2>1 DEF EngStreams, Onward, FastWay
  <2>3. sealed[c] = Len(text[c]) /\ list[c] = Chain(text[c], 0, sealed[c]) /\ text[c] \in Stream
    BY <1>1, <2>1, <2>2 DEF SpokenStreams, Typed, StateTyped, ConvTyped
  <2>4. Len(list[c]) = sealed[c]
    BY <1>3, <2>3, ChainShort
  <2>5. ((sealed[c] + Len(tail[c])) + Len(eng.out)) + eng.need <= Upper(eng.prompt)
    BY <2>1, Zenon DEF FastRoom
  <2> DEFINE a == sealed[c]
             b == Len(tail[c])
             o == Len(eng.out)
             n == eng.need
             p == Upper(eng.prompt)
  <2>6. a \in Nat /\ b \in Nat /\ o \in Nat /\ n \in Nat /\ p \in Nat
    BY <1>2, <1>3
  <2>7. ((a + b) + o) + n <= p
    BY <2>5
  <2> HIDE DEF a, b, o, n, p
  <2>8. (a + b) + (o + n) <= p
    BY <2>6, <2>7
  <2> QED
    BY <2>4, <2>8 DEF a, b, o, n, p
<1> QED
  BY <1>1, <1>4, <1>5, <1>6

(* With the room kept, blocks are there to free while any are wanted.      *)
LEMMA RoomFits ==
  ASSUME Typed, Indexed, Stages, SpokenStreams, EngStreams, EngSlot, Roomed, OwnedOnce,
         ~Explicit, ~failed
  PROVE  AdmittedFits
<1> SUFFICES ASSUME eng.beside, At("alloc"), RoomWanted, Evictable(ref) = {}, Droppable = {}
             PROVE  FALSE
  BY DEF AdmittedFits
<1> DEFINE c == eng.conv
           own == BlocksOf(Elems(list[c]))
<1>0. NoHost /\ Besides /\ InLru /\ FastRoom /\ RoomKept
  BY DEF Roomed
<1>1. c \in Conv \ Held /\ Held \subseteq Conv
  BY <1>0, NotHeld, HeldIs
<1>2. eng.need > 0 /\ Full
  BY DEF RoomWanted, At
<1>3. \A d \in Conv : list[d] # <<>> \/ tail[d] # <<>> => d = c \/ d \in Held
  <2> TAKE d \in Conv
  <2>1. list[d] # <<>> \/ tail[d] # <<>> => d \in Elems(lru)
    BY <1>0 DEF InLru
  <2> QED
    BY <2>1 DEF Droppable, Spare
<1>4. \A u \in indexed : u \in Elems(list[c]) \/ u \in UnitsOf(Held)
  <2> TAKE u \in indexed
  <2>1. u \in Unit /\ ref[u] # 0
    BY <1>0, AllOnDevice DEF Evictable
  <2>2. ref[u] = Times(list, Conv, u) /\ Lists(list)
    BY <2>1, ListsAre, CountedIs DEF Indexed, Typed, StateTyped
  <2>3. PICK d \in Conv : u \in Elems(list[d])
    BY <2>1, <2>2, TimesIs
  <2>4. list[d] # <<>>
    BY <2>3 DEF Elems
  <2>5. d = c \/ d \in Held
    BY <1>3, <2>4
  <2> QED
    BY <2>3, <2>5 DEF UnitsOf
<1>5. used \subseteq HeldBlocks \cup (own \cup (Elems(tail[c]) \cup Elems(eng.out)))
  <2>1. used = BlocksOf(indexed) \cup TailsOf(Conv) \cup Elems(eng.out)
    BY DEF OwnedOnce, Promised, At
  <2>2. BlocksOf(indexed) \subseteq own \cup BlocksOf(UnitsOf(Held))
    BY <1>4 DEF BlocksOf
  <2>3. TailsOf(Conv) \subseteq Elems(tail[c]) \cup TailsOf(Held)
    <3> SUFFICES ASSUME NEW d \in Conv, NEW b \in Elems(tail[d])
                 PROVE  b \in Elems(tail[c]) \cup TailsOf(Held)
      BY DEF TailsOf
    <3>1. tail[d] # <<>>
      BY DEF Elems
    <3> QED
      BY <1>3, <3>1 DEF TailsOf
  <2> QED
    BY <2>1, <2>2, <2>3 DEF HeldBlocks
<1>6. (Len(list[c]) + Len(tail[c])) + (Len(eng.out) + eng.need) <= Upper(eng.prompt)
  BY <1>0, <1>2, AsksWithin
<1>7. /\ list[c] \in Seq(Unit) /\ tail[c] \in Seq(Block) /\ eng.out \in Seq(Block)
      /\ Len(list[c]) \in Nat /\ Len(tail[c]) \in Nat /\ Len(eng.out) \in Nat /\ eng.need \in Nat
      /\ Upper(eng.prompt) \in Nat
  BY <1>1, EngIs DEF Typed, StateTyped, ListsTyped, ConvTyped
<1>8. IsFiniteSet(own) /\ Cardinality(own) \in Nat /\ Cardinality(own) <= Len(list[c])
  <2> DEFINE f == [i \in 1..Len(list[c]) |-> place[list[c][i]][2]]
  <2>1. own \subseteq {f[i] : i \in 1..Len(list[c])}
    <3> SUFFICES ASSUME NEW u \in Elems(list[c]), OnDevice(u)
                 PROVE  \E i \in 1..Len(list[c]) : f[i] = place[u][2]
      BY DEF BlocksOf
    <3>1. PICK i \in 1..Len(list[c]) : list[c][i] = u
      BY <1>7, ElemsIs
    <3> QED
      BY <3>1
  <2> HIDE DEF f, own
  <2> QED
    BY <1>7, <2>1, NamedAtMost
<1>9. /\ IsFiniteSet(Elems(tail[c])) /\ Cardinality(Elems(tail[c])) \in Nat
      /\ Cardinality(Elems(tail[c])) <= Len(tail[c])
  <2>1. Elems(tail[c]) \subseteq {tail[c][i] : i \in 1..Len(tail[c])}
    BY <1>7, ElemsIs
  <2> QED
    BY <1>7, <2>1, NamedAtMost
<1>10. /\ IsFiniteSet(Elems(eng.out)) /\ Cardinality(Elems(eng.out)) \in Nat
       /\ Cardinality(Elems(eng.out)) <= Len(eng.out)
  <2>1. Elems(eng.out) \subseteq {eng.out[i] : i \in 1..Len(eng.out)}
    BY <1>7, ElemsIs
  <2> QED
    BY <1>7, <2>1, NamedAtMost
<1>11. IsFiniteSet(HeldBlocks) /\ Cardinality(HeldBlocks) \in Nat
  BY <1>1, UnitsOfAre, BlocksCounted DEF HeldBlocks
<1> HIDE DEF own
<1>12. /\ IsFiniteSet(used) /\ Cardinality(used) \in Nat
       /\ Cardinality(used) <= Cardinality(HeldBlocks)
            + (Cardinality(own) + (Cardinality(Elems(tail[c])) + Cardinality(Elems(eng.out))))
  <2> DEFINE a == Elems(tail[c]) \cup Elems(eng.out)
             b == own \cup a
             d == HeldBlocks \cup b
  <2>1. /\ IsFiniteSet(a) /\ Cardinality(a) \in Nat
        /\ Cardinality(a) <= Cardinality(Elems(tail[c])) + Cardinality(Elems(eng.out))
    BY <1>9, <1>10, AtMostBoth
  <2>2. /\ IsFiniteSet(b) /\ Cardinality(b) \in Nat
        /\ Cardinality(b) <= Cardinality(own) + Cardinality(a)
    BY <1>8, <2>1, AtMostBoth
  <2>3. /\ IsFiniteSet(d) /\ Cardinality(d) \in Nat
        /\ Cardinality(d) <= Cardinality(HeldBlocks) + Cardinality(b)
    BY <1>11, <2>2, AtMostBoth
  <2>4. IsFiniteSet(used) /\ Cardinality(used) \in Nat /\ Cardinality(used) <= Cardinality(d)
    BY <1>5, <2>3, FS_Subset, FS_CardinalityType
  <2> HIDE DEF a, b, d
  <2> QED
    BY <1>8, <1>9, <1>10, <1>11, <2>1, <2>2, <2>3, <2>4
<1>13. Cardinality(used) + withheld >= Capacity /\ withheld \in Nat
  BY <1>2, BooksAre DEF Full, Typed, StateTyped
<1>14. Cardinality(HeldBlocks) + withheld + Upper(eng.prompt) <= Capacity
  BY <1>0 DEF RoomKept
<1> DEFINE h == Cardinality(HeldBlocks)
           x == Cardinality(own)
           y == Cardinality(Elems(tail[c]))
           z == Cardinality(Elems(eng.out))
           l == Len(list[c])
           t == Len(tail[c])
           o == Len(eng.out)
           n == eng.need
           p == Upper(eng.prompt)
           w == Cardinality(used)
<1>15. /\ h \in Nat /\ x \in Nat /\ y \in Nat /\ z \in Nat /\ l \in Nat /\ t \in Nat
       /\ o \in Nat /\ n \in Nat /\ n > 0 /\ p \in Nat /\ w \in Nat
  BY <1>2, <1>7, <1>8, <1>9, <1>10, <1>11, <1>12
<1>16. /\ x <= l /\ y <= t /\ z <= o /\ (l + t) + (o + n) <= p
       /\ w <= h + (x + (y + z)) /\ w + withheld >= Capacity /\ h + withheld + p <= Capacity
  BY <1>6, <1>8, <1>9, <1>10, <1>12, <1>13, <1>14
<1> HIDE DEF h, x, y, z, l, t, o, n, p, w
<1> QED
  BY <1>13, <1>15, <1>16, CapacityAssumption

(* At first nothing is held and nothing asked for.                         *)
LEMMA RoomedInit == Init => Roomed
<1> SUFFICES ASSUME Init PROVE Roomed
  OBVIOUS
<1>1. eng = Free /\ ~eng.beside /\ ~Allocating
  BY DEF Init, Free, Allocating, At
<1>2. NoHost
  BY DEF Init, InitResident, NoHost, OnHost, Nowhere
<1>3. InLru
  BY <1>1 DEF Init, InitResident, InLru, For
<1> QED
  BY <1>1, <1>2, <1>3 DEF Roomed, Besides, FastRoom, For, RoomKept

(* Every step keeps the room.                                              *)
LEMMA RoomedStep ==
  ASSUME Typed, Indexed, Stages, ~Explicit, Roomed, ~failed => EngSlot /\ RunningSeated,
         [Next]_vars
  PROVE  Roomed'
<1>1. NoHost /\ Besides /\ InLru /\ FastRoom /\ RoomKept
  BY DEF Roomed
<1>2. NoHost' /\ InLru' /\ FastRoom' /\ RoomKept'
  BY <1>1, NoHostStep, InLruStep, FastRoomStep, RoomKeptStep
<1>3. Besides'
  BY <1>1, BesideStep DEF Besides
<1> QED
  BY <1>2, <1>3 DEF Roomed

(* A request admitted beside running rows never finds the pool exhausted,  *)
(* whatever evictions and departures ran since obtainable_units answered:  *)
(* without host transfers, for prompts that bring back no page another     *)
(* stream sealed, and until a begin fails.                                 *)
THEOREM AdmittedFitsAlways ==
  ASSUME ~Replay, ~Explicit
  PROVE  Spec => []AdmittedFits
<1> DEFINE S == Flowing /\ (~failed => Slotted)
           O == cold = 0 => OwnedOnce
<1>1. Spec => []S
  BY SlotsAlways
<1>2. Spec => []O
  BY BlocksOwned
<1>3. Init => Roomed
  BY RoomedInit
<1>4. S /\ Roomed /\ [Next]_vars => Roomed'
  BY RoomedStep DEF Flowing, Pool, Slotted
<1>5. S /\ O /\ Roomed => AdmittedFits
  <2> SUFFICES ASSUME S, O, Roomed, ~failed PROVE AdmittedFits
    BY DEF AdmittedFits
  <2>1. Typed /\ Indexed /\ Stages /\ SpokenStreams /\ EngStreams /\ EngSlot
    BY DEF Flowing, Pool, Streams, Slotted
  <2>2. cold = 0
    BY <2>1 DEF Stages, StageFailed, Flowing, Lengths
  <2> QED
    BY <2>1, <2>2, RoomFits
<1> QED
  BY <1>1, <1>2, <1>3, <1>4, <1>5, PTL DEF Spec
=============================================================================
