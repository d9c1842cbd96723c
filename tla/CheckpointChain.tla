-------------------------- MODULE CheckpointChain --------------------------
(***************************************************************************)
(* imparo-kv/src/pool.rs and state.rs: the checkpoints of a windowed model *)
(* (CheckpointShape::WindowDeltas).  A checkpoint is a link: the window    *)
(* rows of [from, boundary); the window at a boundary is put together from *)
(* the link there and the ones before it.                                  *)
(*                                                                         *)
(* Positions count grid steps (64 tokens).  A stream is the sequence of its*)
(* whole steps; two tokens or more of the next one follow, so that every   *)
(* whole step can be resumed at.  Every boundary is on the grid, where a   *)
(* link has no tail rows of its own.                                       *)
(***************************************************************************)
EXTENDS Integers, FiniteSets, SequencesExt

CONSTANTS Window,   \* steps a windowed layer reads back
          CkptCap,  \* ckpt_cap: checkpoints in memory
          DiskCap,  \* disk_ckpt_cap: turns a manifest names
          None

ASSUME WindowAssumption == Window \in Nat \ {0}
ASSUME CapAssumption == CkptCap \in Nat \ {0} /\ DiskCap \in Nat \ {0}

Higher(i, j) == IF i > j THEN i ELSE j
Lower(i, j) == IF i < j THEN i ELSE j

Prefix(s, n) == SubSeq(s, 1, n)

(* chain_floor                                                              *)
Floor(b) == Higher(b - Window, 0)

(* A link: rows[p] is what the ring held for step p when it was captured.   *)
Base(from, b) == Higher(Floor(b), from)

-----------------------------------------------------------------------------
(* assemble_chain: newest first, each link gives its slice; a link that     *)
(* ends below what is still needed is a hole.                               *)
Sliced(floor, a, d) ==
  LET lo == Higher(Base(d.from, d.boundary), floor)
  IN  IF ~a.whole \/ a.need <= floor THEN a
      ELSE IF d.boundary < a.need THEN [a EXCEPT !.whole = FALSE]
      ELSE [whole |-> TRUE, need |-> lo,
            rows |-> [p \in DOMAIN a.rows |->
                        IF p \in lo + 1..a.need THEN d.rows[p] ELSE a.rows[p]]]

Assembly(links) ==
  LET b == links[1].boundary
      after[i \in 0..Len(links)] ==
        IF i = 0 THEN [whole |-> TRUE, need |-> b, rows |-> [p \in Floor(b) + 1..b |-> <<>>]]
        ELSE Sliced(Floor(b), after[i - 1], links[i])
  IN  after[Len(links)]

Assembles(links) ==
  Assembly(links).whole /\ Assembly(links).need <= Floor(links[1].boundary)
Assemble(links) == Assembly(links).rows

-----------------------------------------------------------------------------
(* window_ckpts and ckpt_order: memory.at maps the prefix a checkpoint is   *)
(* of to its entry, memory.order has the oldest first.                      *)
NoMemory == [at |-> <<>>, order |-> <<>>]

(* What of an order is in S.                                                *)
Only(order, S) ==
  LET among[i \in 0..Len(order)] ==
        IF i = 0 THEN <<>>
        ELSE IF order[i] \in S THEN Append(among[i - 1], order[i]) ELSE among[i - 1]
  IN  among[Len(order)]

KeptOf(memory, S) ==
  [at |-> [k \in DOMAIN memory.at \cap S |-> memory.at[k]], order |-> Only(memory.order, S)]

(* What nothing chains from, the oldest first, but never the newest entry.  *)
EvictableByAge(memory) == Front(memory.order)

Evictable(memory) ==
  LET depended == {memory.at[k].prev : k \in DOMAIN memory.at}
  IN  Only(Front(memory.order), DOMAIN memory.at \ depended)

(* An eviction that leaves the entry in the order.                          *)
EvictedFromTheMap(memory, k) ==
  [memory EXCEPT !.at = [j \in DOMAIN memory.at \ {k} |-> memory.at[j]]]

Evicted(memory, k) == KeptOf(memory, DOMAIN memory.at \ {k})

(* remember_delta: at its cap the memory gives up entries, unless all the   *)
(* others are of live chains.                                               *)
RememberDelta(memory, key, prev, delta, turn) ==
  LET known == key \in DOMAIN memory.at
      entry == [delta |-> delta, prev |-> prev,
                turn |-> turn \/ (known /\ memory.at[key].turn)]
      new == [at |-> [j \in DOMAIN memory.at \cup {key} |->
                        IF j = key THEN entry ELSE memory.at[j]],
              order |-> Append(Only(memory.order, DOMAIN memory.at \ {key}), key)]
      shrunk[n \in 0..Len(new.order)] ==
        IF n = 0 THEN new
        ELSE LET m == shrunk[n - 1]
             IN  IF Len(m.order) <= CkptCap \/ Evictable(m) = <<>> THEN m
                 ELSE Evicted(m, Head(Evictable(m)))
  IN  shrunk[Len(new.order)]

(* matching_ckpts: the checkpoints s reproduces at or below a boundary, and *)
(* the deepest of them (prev_ckpt_at).                                      *)
Matching(keys, s, upto) == {k \in keys : Len(k) <= upto /\ IsPrefix(k, s)}

DeepestOf(keys) ==
  IF keys = {} THEN None ELSE CHOOSE k \in keys : \A j \in keys : Len(j) <= Len(k)

(* The keys from key down, as far as they are in memory, and their links:   *)
(* each is shorter than the one before it.                                  *)
ChainFrom(memory, key) ==
  LET chain[i \in 0..Len(key)] ==
        IF i = 0 THEN <<key>>
        ELSE LET prev == memory.at[Last(chain[i - 1])].prev
             IN  IF prev \in DOMAIN memory.at THEN Append(chain[i - 1], prev) ELSE chain[i - 1]
  IN  chain[Len(key)]

DeltasFrom(memory, key) ==
  LET chain == ChainFrom(memory, key)
  IN  [i \in DOMAIN chain |-> memory.at[chain[i]].delta]

(* try_assemble, at the deepest that is whole.                              *)
Resumable(memory, s, upto) ==
  DeepestOf({k \in Matching(DOMAIN memory.at, s, upto) : Assembles(DeltasFrom(memory, k))})

-----------------------------------------------------------------------------
(* A named checkpoint is its link and whether a user turn starts there.     *)
Boundaries(kept) == {c.delta.boundary : c \in kept}
Deeper(c, d) == c.delta.boundary > d.delta.boundary
NewestFirst(kept) ==
  [i \in 1..Cardinality(kept) |->
     CHOOSE c \in kept : Cardinality({d \in kept : Deeper(d, c)}) = i - 1]

(* What is still needed below r after the kept links down from it: the walk *)
(* of the lookup and of cap_ckpts.  It gives the links it went through.     *)
NothingBetween(need, c) == FALSE
HoleAbove(need, c) == c.delta.boundary < need

Through(floor, a, c) ==
  IF a.need <= floor \/ HoleAbove(a.need, c) THEN a
  ELSE [need |-> Lower(a.need, c.delta.from), links |-> a.links \cup {c}]

WalkDown(kept, r) ==
  LET older == NewestFirst({c \in kept : c.delta.boundary <= r})
      after[i \in 0..Len(older)] ==
        IF i = 0 THEN [need |-> r, links |-> {}] ELSE Through(Floor(r), after[i - 1], older[i])
  IN  after[Len(older)]

Reaches(kept, r) == WalkDown(kept, r).need <= Floor(r)

(* cap_ckpts: the newest DiskCap turns, the tip, and what they read through.*)
Turns(kept) == {c \in kept : c.turn}
Newest(n, kept) == {c \in kept : Cardinality({d \in kept : Deeper(d, c)}) < n}
Roots(kept) == Newest(DiskCap, Turns(kept)) \cup Newest(1, kept)

CapOrphaning(kept) == Roots(kept)
CapCkpts(kept) ==
  Roots(kept) \cup UNION {WalkDown(kept, c.delta.boundary).links : c \in Roots(kept)}

(* ckpt_chain: the link at key and those its window needs.                  *)
CkptChain(memory, key) ==
  LET chain == ChainFrom(memory, key)
      From(i) == memory.at[chain[i]].delta.from
      needed == {i \in DOMAIN chain : \A j \in 1..i - 1 : From(j) > Floor(Len(key)) /\ From(j) # 0}
  IN  SubSeq(chain, 1, Cardinality(needed))

(* The part of commit_to_disk that chooses what a manifest names.  An older *)
(* link at the same boundary that reaches as deep wins; a boundary is named *)
(* only where an extent ends.                                               *)
OneMore(tip, cuts, a, e) ==
  LET d == e.delta
      there == {c \in a.kept : c.delta.boundary = d.boundary}
      wins == {c \in there : c.delta.from <= d.from}
  IN  IF (d.boundary < tip /\ a.need <= Floor(tip)) \/ d.boundary \notin cuts THEN a
      ELSE IF wins # {} THEN [a EXCEPT !.need = Lower(@, (CHOOSE c \in wins : TRUE).delta.from)]
      ELSE [kept |-> (a.kept \ there) \cup {[delta |-> d, turn |-> e.turn]},
            need |-> Lower(a.need, d.from)]

Named(memory, key, old, cuts, length) ==
  LET chain == CkptChain(memory, key)
      after[i \in 0..Len(chain)] ==
        IF i = 0 THEN [kept |-> old, need |-> Len(key)]
        ELSE OneMore(Len(key), cuts, after[i - 1], memory.at[chain[i]])
  IN  CapCkpts({c \in after[Len(chain)].kept :
                  c.delta.boundary <= length /\ c.delta.boundary \in cuts})
=============================================================================
