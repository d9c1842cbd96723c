---------------------------- MODULE Checkpoints ----------------------------
(***************************************************************************)
(* imparo-kv/src/pool.rs with imparo-server/src/main.rs: the checkpoints of*)
(* the conversations of one slot, through begin, the branch point of a     *)
(* prompt, the turn's end with its write-through, rewinds, forks, the loss *)
(* of residency and restarts.                                              *)
(*                                                                         *)
(* The window rows are in one ring; each step of it holds the stream prefix*)
(* whose rows were written there last.  Room is never short (KvPool), and  *)
(* what is written to disk stays there (DiskTier).                         *)
(***************************************************************************)
EXTENDS CheckpointChain

CONSTANTS Conv, Step,
          MaxSteps,     \* the longest stream
          Slack,        \* ring - window, in steps
          MaxEvents     \* bounds the run: requests, and losses (abandoned, dropped,
                        \* evicted, restarted)

ASSUME BoundAssumption == {MaxSteps, Slack, MaxEvents} \subseteq Nat
ASSUME NoneAssumption == None \notin Seq(Step)

VARIABLES
  conv,      \* convs: the stream, its cuts, what the store names for it
  memory,    \* window_ckpts and ckpt_order
  units,     \* the prefixes whose units are resident
  ring, owner, \* the windowed ring, and the conversation that used it last
  run,       \* the request being served
  manifests,
  events

vars == <<conv, memory, units, ring, owner, run, manifests, events>>

Streams == UNION {[1..n -> Step] : n \in 1..MaxSteps}
RingSteps == Window + Slack

Init ==
  /\ conv = [c \in Conv |-> None] /\ memory = NoMemory /\ units = {}
  /\ ring = [i \in 0..RingSteps - 1 |-> <<>>] /\ owner = None
  /\ run = None /\ manifests = [c \in Conv |-> None]
  /\ events = 0

-----------------------------------------------------------------------------
(* The ring after the forward ran steps lo + 1..hi of s, and after a part   *)
(* of the step behind them.                                                 *)
Written(r, s, lo, hi) ==
  [i \in DOMAIN r |->
     LET ps == {p \in lo + 1..hi : p % RingSteps = i}
     IN  IF ps = {} THEN r[i] ELSE Prefix(s, CHOOSE p \in ps : \A q \in ps : q <= p)]

WrittenPast(r, s, lo, hi) == [Written(r, s, lo, hi) EXCEPT ![(hi + 1) % RingSteps] = <<>>]

Restored(r, rows) ==
  [i \in DOMAIN r |->
     LET ps == {p \in DOMAIN rows : p % RingSteps = i}
     IN  IF ps = {} THEN r[i] ELSE rows[CHOOSE p \in ps : TRUE]]

(* kv_capture_delta: what the ring has, whatever that is.                   *)
Capture(r, from, b) ==
  [boundary |-> b, from |-> from, rows |-> [p \in Base(from, b) + 1..b |-> r[p % RingSteps]]]

PrevOf(keys, s, b) == DeepestOf(Matching(keys, s, b - 1))
FromOf(prev) == IF prev = None THEN 0 ELSE Len(prev)

(* slack reaches from the part of a step behind the stream's last.          *)
WithinSlack(length, b) == length + 1 - b <= Slack

-----------------------------------------------------------------------------
(* The stored boundaries a prompt can stand on above k, and the links that  *)
(* are read for one.                                                        *)
Usable(m, s, k) ==
  {b \in Boundaries(m.ckpts) :
     /\ k < b /\ b <= Len(s) /\ b \in m.cuts
     /\ IsPrefix(Prefix(m.stream, b), s)
     /\ Reaches(m.ckpts, b)}

LinksUpTo(m, b) ==
  LET older == NewestFirst({c \in m.ckpts : c.delta.boundary <= b})
  IN  [i \in DOMAIN older |-> older[i].delta]

Stored == {c \in Conv : manifests[c] # None}
DeepestStored(s, k) ==
  LET all == UNION {{[of |-> c, at |-> b] : b \in Usable(manifests[c], s, k)} : c \in Stored}
  IN  {x \in all : \A y \in all : y.at <= x.at}

(* A disk restore becomes memory: an anchor, then every link it read, the   *)
(* shallowest first, under the prompt's own prefixes.                       *)
Remembered(s, m, b) ==
  LET links == Reverse(LinksUpTo(m, b))
      anchor == [boundary |-> b, from |-> 0, rows |-> Assemble(LinksUpTo(m, b))]
      key(i) == Prefix(s, links[i].boundary)
      after[i \in 0..Len(links)] ==
        IF i = 0 THEN RememberDelta(memory, Prefix(s, b), None, anchor, TRUE)
        ELSE RememberDelta(after[i - 1], key(i), IF i = 1 THEN None ELSE key(i - 1),
                           links[i], TRUE)
  IN  after[Len(links)]

-----------------------------------------------------------------------------
PrefixesUpTo(s, n) == {Prefix(s, i) : i \in 1..n}

TokensOf(c) == IF conv[c] = None THEN <<>> ELSE conv[c].tokens
PriorCuts(c) == IF conv[c] = None THEN {} ELSE conv[c].cuts
PriorDisk(c) == IF conv[c] = None THEN {} ELSE conv[c].disk

Happens == events < MaxEvents /\ events' = events + 1

(* The request stands at step at of its prompt.                             *)
Begins(c, s, at) ==
  /\ run = None /\ Happens
  /\ run' = [conv |-> c, prompt |-> s, at |-> at, branched |-> FALSE]
  /\ owner' = c
  /\ UNCHANGED manifests

(* The fast path: the stream goes on where it stopped.                      *)
Continue(c, s) ==
  /\ owner = c /\ TokensOf(c) # <<>> /\ IsPrefix(TokensOf(c), s)
  /\ Begins(c, s, Len(TokensOf(c)))
  /\ UNCHANGED <<conv, memory, units, ring>>

(* The general path ends with a fresh record of the conversation.           *)
Fresh(c, cuts, disk) ==
  conv' = [conv EXCEPT ![c] = [tokens |-> <<>>, cuts |-> cuts, disk |-> disk, committed |-> 0]]

LiveWindow(c, at) ==
  /\ owner = c
  /\ at <= Len(TokensOf(c)) /\ WithinSlack(Len(TokensOf(c)), at)

Resumed(c, at, rows) ==
  ring' = IF LiveWindow(c, at) THEN ring ELSE Restored(ring, rows)

(* probe: how many steps of the prompt are resident.                        *)
Hit(s) == Cardinality({n \in 1..Len(s) : Prefix(s, n) \in units})

Switch(c, s) ==
  LET key == Resumable(memory, s, Hit(s))
      k == FromOf(key)
      found == DeepestStored(s, k)
  IN  \/ /\ found = {}
         /\ Begins(c, s, k)
         /\ Fresh(c, PriorCuts(c), PriorDisk(c))
         /\ IF key = None THEN UNCHANGED ring
            ELSE Resumed(c, k, Assemble(DeltasFrom(memory, key)))
         /\ UNCHANGED <<memory, units>>
      \/ \E x \in found :
           LET m == manifests[x.of]
               links == LinksUpTo(m, x.at)
           IN  /\ Assembles(links)
               /\ Begins(c, s, x.at)
               /\ Fresh(c, {p \in m.cuts : p <= x.at}, m.ckpts)
               /\ Resumed(c, x.at, Assemble(links))
               /\ memory' = Remembered(s, m, x.at)
               /\ units' = units \cup PrefixesUpTo(s, x.at)

-----------------------------------------------------------------------------
CutAt(cuts, b) == cuts \cup ({b} \ {0})

(* A prompt has at most one branch point b, where its last user message     *)
(* starts.  A reply that may outrun the ring has it captured as the prefill *)
(* passes it: note_ckpt.                                                    *)
PassBranch(b) ==
  /\ run # None /\ ~run.branched /\ b \in 1..Len(run.prompt) /\ run.at <= b
  /\ LET c == run.conv
         r == Written(ring, run.prompt, run.at, b)
         prev == PrevOf(DOMAIN memory.at, run.prompt, b)
     IN  /\ ring' = r
         /\ memory' = RememberDelta(memory, Prefix(run.prompt, b), prev,
                                    Capture(r, FromOf(prev), b), TRUE)
         /\ conv' = [conv EXCEPT ![c].cuts = CutAt(@, b)]
         /\ run' = [run EXCEPT !.at = b, !.branched = TRUE]
  /\ UNCHANGED <<units, owner, manifests, events>>

(* The turn ends with stream t: note_branch for a branch point b that could *)
(* wait (0: none), end's cut and checkpoint, and what commit_to_disk takes. *)
CutsAfter(c, b, t) == CutAt({p \in CutAt(conv[c].cuts, b) : p < Len(t)}, Len(t))

Materialized(b, t, r) ==
  LET branch == IF b = 0 THEN {} ELSE {Prefix(t, b)}
      prevB == PrevOf(DOMAIN memory.at, t, b)
      prevT == PrevOf(DOMAIN memory.at \cup branch, t, Len(t))
      first == IF b = 0 THEN memory
               ELSE RememberDelta(memory, Prefix(t, b), prevB,
                                  Capture(r, FromOf(prevB), b), TRUE)
  IN  IF b = Len(t) THEN first
      ELSE RememberDelta(first, t, prevT, Capture(r, FromOf(prevT), Len(t)), FALSE)

(* Nothing new since the last commit: it may be left out.  Without a whole   *)
(* checkpoint the code names the stream's end, off the grid, where no lookup *)
(* stands.                                                                   *)
MaySkip(c, t, mem) == Len(t) <= conv[c].committed \/ Resumable(mem, t, Len(t)) = None

Commit(c, t, cuts, mem) ==
  LET key == Resumable(mem, t, Len(t))
      kept == Named(mem, key, conv[c].disk, cuts, Len(t))
  IN  /\ key # None
      /\ manifests' = [manifests EXCEPT ![c] =
            [stream |-> key, cuts |-> {p \in cuts : p <= Len(key)}, ckpts |-> kept,
             boundary |-> Len(key)]]
      /\ conv' = [conv EXCEPT ![c] = [tokens |-> t, cuts |-> cuts, disk |-> kept,
                                      committed |-> Len(key)]]

Finish(b, t) ==
  /\ run # None /\ IsPrefix(run.prompt, t)
  /\ b # 0 => ~run.branched /\ b <= Len(run.prompt) /\ WithinSlack(Len(t), b)
  /\ LET c == run.conv
         r == WrittenPast(ring, t, run.at, Len(t))
         cuts == CutsAfter(c, b, t)
         mem == Materialized(b, t, r)
     IN  /\ ring' = r /\ memory' = mem /\ units' = units \cup PrefixesUpTo(t, Len(t))
         /\ \/ Commit(c, t, cuts, mem)
            \/ /\ MaySkip(c, t, mem)
               /\ conv' = [conv EXCEPT ![c].tokens = t, ![c].cuts = cuts]
               /\ UNCHANGED manifests
  /\ run' = None
  /\ UNCHANGED <<owner, events>>

(* Units that no conversation holds leave with the next one that goes.      *)
HeldBy(C) == UNION {PrefixesUpTo(TokensOf(c), Len(TokensOf(c))) : c \in C}

(* abandon: a request that failed part way is forgotten.                    *)
Abandon ==
  /\ run # None /\ Happens
  /\ conv' = [conv EXCEPT ![run.conv] = None]
  /\ units' = units \cap HeldBy(Conv \ {run.conv})
  /\ ring' \in {WrittenPast(ring, run.prompt, run.at, n) : n \in run.at..Len(run.prompt)}
  /\ run' = None
  /\ UNCHANGED <<memory, owner, manifests>>

(* A conversation loses its residency, to room or to a trim; a trim also    *)
(* lets go of the checkpoints no other conversation reaches.                *)
ReachedBy(C) ==
  LET roots == DOMAIN memory.at \cap HeldBy(C)
      Chained(j) == LET chain == ChainFrom(memory, j) IN {chain[i] : i \in DOMAIN chain}
  IN  UNION {Chained(j) : j \in roots}

Drop(c) ==
  /\ run = None /\ conv[c] # None /\ Happens
  /\ conv' = [conv EXCEPT ![c] = None]
  /\ units' = units \cap HeldBy(Conv \ {c})
  /\ memory' \in {memory, KeptOf(memory, ReachedBy(Conv \ {c}))}
  /\ UNCHANGED <<ring, owner, run, manifests>>

(* Room: units no conversation holds go first.                              *)
EvictUnreferenced ==
  /\ run = None /\ Happens
  /\ units' = units \cap HeldBy(Conv) /\ units' # units
  /\ UNCHANGED <<conv, memory, ring, owner, run, manifests>>

Restart ==
  /\ Happens
  /\ conv' = [c \in Conv |-> None] /\ memory' = NoMemory /\ units' = {}
  /\ ring' = [i \in 0..RingSteps - 1 |-> <<>>] /\ owner' = None /\ run' = None
  /\ UNCHANGED <<manifests>>

Next ==
  \/ \E c \in Conv, s \in Streams : Continue(c, s) \/ Switch(c, s)
  \/ \E b \in 1..MaxSteps : PassBranch(b)
  \/ \E b \in 0..MaxSteps, t \in Streams : Finish(b, t)
  \/ Abandon \/ EvictUnreferenced \/ Restart
  \/ \E c \in Conv : Drop(c)

Spec == Init /\ [][Next]_vars

-----------------------------------------------------------------------------
TypeOK ==
  /\ \A c \in Conv : conv[c] # None =>
       /\ conv[c].tokens \in Streams \cup {<<>>}
       /\ conv[c].cuts \subseteq 1..MaxSteps /\ conv[c].committed \in 0..MaxSteps
  /\ DOMAIN memory.at = {memory.order[i] : i \in DOMAIN memory.order}
  /\ Len(memory.order) = Cardinality(DOMAIN memory.at)
  /\ \A k \in DOMAIN memory.at :
       LET e == memory.at[k]
       IN  /\ k \in Streams /\ e.delta.boundary = Len(k) /\ e.turn \in BOOLEAN
           /\ e.prev \in (Streams \ {k}) \cup {None}
           /\ e.delta.from \in 0..Len(k) - 1
  /\ units \subseteq Streams
  /\ ring \in [0..RingSteps - 1 -> Streams \cup {<<>>}] /\ owner \in Conv \cup {None}
  /\ \A c \in Conv : manifests[c] # None => manifests[c].boundary = Len(manifests[c].stream)

(* What was committed can be come back to: the newest boundary a manifest   *)
(* names is one a restart finds.                                            *)
NewestServes ==
  \A c \in Conv : manifests[c] # None =>
    manifests[c].boundary \in Usable(manifests[c], manifests[c].stream, 0)

(* The lookup picks a boundary by arithmetic on the manifest and reads the  *)
(* links afterwards: what it accepts always assembles, so that a restore    *)
(* never fails the request, where no named link lies inside a newer one.    *)
Nested(kept) ==
  \E c, d \in kept :
    c.delta.boundary < d.delta.boundary /\ d.delta.from < c.delta.from

AcceptedAssembles ==
  \A c \in Conv : manifests[c] # None /\ ~Nested(manifests[c].ckpts) =>
    \A p \in Usable(manifests[c], manifests[c].stream, 0) :
      Assembles(LinksUpTo(manifests[c], p))

(* The same of every manifest.                                              *)
NoRestoreFails ==
  \A c \in Conv : manifests[c] # None =>
    \A p \in Usable(manifests[c], manifests[c].stream, 0) :
      Assembles(LinksUpTo(manifests[c], p))

(* A commit keeps every turn it could go back to, down to the cap, and the  *)
(* tip: it is still named, and so is everything its window reads through.   *)
(* The exception: a checkpoint in memory that reaches lower takes the place *)
(* of the one stored there, with what memory knows of it.                   *)
Displaced(mem, s, q) ==
  LET k == Prefix(s, q.delta.boundary)
  IN  k \in DOMAIN mem.at /\ mem.at[k].delta.from < q.delta.from /\ ~mem.at[k].turn

CutStill(c) == {q \in conv[c].disk : q.delta.boundary \in conv'[c].cuts}

TurnsStayOf(c, old) ==
  LET new == manifests'[c].ckpts
      all == new \cup {q \in old : q.delta.boundary \notin Boundaries(new)}
  IN  \A q \in Roots(all) : Reaches(all, q.delta.boundary) => q \in new /\ Reaches(new, q.delta.boundary)

TurnsStay ==
  \A c \in Conv : manifests'[c] # manifests[c] =>
    TurnsStayOf(c, {q \in CutStill(c) : ~Displaced(memory', conv'[c].tokens, q)})

(* The same without the exception.                                          *)
TurnsAlwaysStay ==
  [][\A c \in Conv : manifests'[c] # manifests[c] => TurnsStayOf(c, CutStill(c))]_vars

(* That a user message starts at a boundary is a fact about the position    *)
(* (pool.rs, remember_delta): a commit marks what memory has marked.        *)
MarksAreNamed ==
  [][\A c \in Conv : manifests'[c] # manifests[c] =>
       \A q \in manifests'[c].ckpts :
         LET k == Prefix(manifests'[c].stream, q.delta.boundary)
         IN  k \in DOMAIN memory'.at /\ memory'.at[k].turn => q.turn]_vars

(* What an entry in memory chains from stays as long as the entry does: the *)
(* cap, a restore and a trim give up nothing that is read through.          *)
AncestorsStay ==
  \A k \in DOMAIN memory.at \cap DOMAIN memory'.at :
    /\ memory'.at[k] = memory.at[k] /\ k # Last(memory'.order)
    /\ memory.at[k].prev \in DOMAIN memory.at
    => memory.at[k].prev \in DOMAIN memory'.at

TurnsKept == [][TurnsStay /\ AncestorsStay]_vars

(* A manifest names the stream it is of: the rows of every boundary a prompt*)
(* of that stream can stand on are that stream's.                           *)
NamesThisStream ==
  \A c \in Conv : manifests[c] # None =>
    LET m == manifests[c]
    IN  \A b \in Usable(m, m.stream, 0) :
          LET rows == Assemble(LinksUpTo(m, b))
          IN  \A p \in DOMAIN rows : rows[p] = Prefix(m.stream, p)

(* A request starts with the window of its own prompt.                      *)
WindowIsThePrompts ==
  run # None => \A p \in Floor(run.at) + 1..run.at : ring[p % RingSteps] = Prefix(run.prompt, p)
=============================================================================
