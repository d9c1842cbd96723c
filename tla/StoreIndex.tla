----------------------------- MODULE StoreIndex -----------------------------
(* The index of the KV store (imparo-kv/src/store.rs): an append-only file   *)
(* saying which conversation has a cut behind which prefix, the in-memory    *)
(* parse of it that all handles of one process share, the disk writer that   *)
(* appends, retracts and compacts, and the lookup of a request thread that   *)
(* reads the index, then the manifests it named.                             *)
(*                                                                           *)
(* A prefix hash is the prefix itself, one token per step of the identity    *)
(* grid.  The file is a sequence of lines and its length in bytes is their   *)
(* number.  PER_POSITION and PROBE_FANOUT, which only drop hits, are left    *)
(* out, and so is an append that leaves a part of itself behind.             *)
EXTENDS Naturals, FiniteSets, SequencesExt

CONSTANTS
  Name,         \* conversations, by the name of their file
  Stream,       \* token streams a conversation or a prompt may be
  CompactMin,   \* INDEX_COMPACT_MIN, in lines
  Fallible,     \* of {"append", "sweep"}: what may fail
  MaxCommits, MaxRemoves, MaxKills, MaxLookups,   \* bounds
  None

ASSUME IndexAssumption ==
  /\ IsFiniteSet(Name)
  /\ \A s \in Stream : /\ s \in Seq(ToSet(s)) /\ s # <<>>
                       /\ \A k \in 1..Len(s) : SubSeq(s, 1, k) \in Stream
  /\ CompactMin \in Nat \ {0}
  /\ {MaxCommits, MaxRemoves, MaxKills, MaxLookups} \subseteq Nat
  /\ Fallible \subseteq {"append", "sweep"}

VARIABLES
  file,       \* the index file: its lines, oldest first
  manifest,   \* conv/<name>.manifest of each conversation, or None
  cache,      \* IndexCache: length parsed, what it said, length when compacted
  writer,     \* the disk writer, at a step of a commit or of a sweep
  lookup,     \* the request thread, at a step of probe
  behind,     \* names whose last commit never reached the index
  apart,      \* names the cache may know more of than the file
  spent       \* how much of each bound is used

vars == <<file, manifest, cache, writer, lookup, behind, apart, spent>>


(* What Cut::for_stream returns beside the cuts: the prefix at each of them. *)
PrefixesAt(m) == {SubSeq(m.stream, 1, e) : e \in m.ends}

Manifest == UNION {{[stream |-> s, ends |-> e] : e \in (SUBSET DOMAIN s) \ {{}}} : s \in Stream}

----------------------------------------------------------------------------
(* Reading the file.                                                        *)

At(p, n) == [kind |-> "at", prefix |-> p, name |-> n]
Gone(n) == [kind |-> "gone", prefix |-> <<>>, name |-> n]
Line == {At(p, n) : p \in Stream, n \in Name} \union {Gone(n) : n \in Name}

Nothing == [n \in Name |-> {}]
EmptyCache == [len |-> 0, map |-> Nothing, compacted |-> 0]

(* Index::add and Index::forget, as the line asks.                          *)
Apply(map, line) ==
  [n \in Name |-> IF n # line.name THEN map[n]
                  ELSE IF line.kind = "gone" THEN {} ELSE map[n] \union {line.prefix}]

Replay(map, lines) ==
  LET after[i \in 0..Len(lines)] == IF i = 0 THEN map ELSE Apply(after[i - 1], lines[i])
  IN  after[Len(lines)]

(* with_index once the length is read: the cache stands when it is as long,  *)
(* starts over when it is longer, and takes in whatever lies past it.        *)
Refreshed(len) ==
  IF cache.len = len THEN cache
  ELSE LET base == IF len < cache.len THEN [EmptyCache EXCEPT !.compacted = len] ELSE cache
       IN [base EXCEPT !.len = len,
                       !.map = Replay(@, SubSeq(file, base.len + 1, Len(file)))]

(* What compact_index keeps: what the file says of the conversations that     *)
(* are there.  It writes them in the order of their names, which are hashes.  *)
Kept == [n \in Name |-> IF manifest[n] = None THEN {} ELSE Replay(Nothing, file)[n]]
LinesOf(n, prefixes) == [i \in 1..Cardinality(prefixes) |-> At(SetToSeq(prefixes)[i], n)]
Canonical(names) == FlattenSeq([i \in DOMAIN names |-> LinesOf(names[i], Kept[names[i]])])

----------------------------------------------------------------------------
IdleWriter == [at |-> "idle", name |-> None, want |-> {}, len |-> 0, body |-> <<>>]
IdleLookup == [at |-> "idle", prompt |-> <<>>, len |-> 0, deepest |-> <<>>,
               hits |-> <<>>, disturbed |-> {}]

Init ==
  /\ file = <<>>
  /\ manifest = [n \in Name |-> None]
  /\ cache = EmptyCache
  /\ writer = IdleWriter
  /\ lookup = IdleLookup
  /\ behind = {}
  /\ apart = {}
  /\ spent = [commits |-> 0, removes |-> 0, kills |-> 0, lookups |-> 0]

WriterAt(p) == writer.at = p
LookupAt(p) == lookup.at = p
Spend(what, bound) == spent[what] < bound /\ spent' = [spent EXCEPT ![what] = @ + 1]

(* A lookup under way saw, or may see, n from before and from after.        *)
Disturb(n) ==
  lookup' = IF LookupAt("idle") THEN lookup
            ELSE [lookup EXCEPT !.disturbed = @ \union {n}]

(* Store::commit: the manifest lands, then the index is extended.           *)
Commit(n, m) ==
  /\ WriterAt("idle")
  /\ Spend("commits", MaxCommits)
  /\ manifest' = [manifest EXCEPT ![n] = m]
  /\ writer' = [IdleWriter EXCEPT !.at = "stat", !.name = n, !.want = PrefixesAt(m)]
  /\ Disturb(n)
  /\ UNCHANGED <<file, cache, behind, apart>>

(* extend_index asks with_index, which measures the file first.             *)
Measure ==
  /\ WriterAt("stat")
  /\ writer' = [writer EXCEPT !.at = "read", !.len = Len(file)]
  /\ UNCHANGED <<file, manifest, cache, lookup, behind, apart, spent>>

(* Appending only: what was abandoned stays.                                *)
ExtensionNoRetraction(have, n, want) == LinesOf(n, want \ have)

(* What to append for n: a retraction and every prefix when the index holds  *)
(* one that is no longer claimed, else the prefixes it lacks.                *)
Extension(have, n, want) ==
  IF have \subseteq want THEN LinesOf(n, want \ have) ELSE <<Gone(n)>> \o LinesOf(n, want)

DecideExtension ==
  /\ WriterAt("read")
  /\ LET c == Refreshed(writer.len)
         body == Extension(c.map[writer.name], writer.name, writer.want)
     IN /\ cache' = c
        /\ IF body = <<>>
           THEN writer' = IdleWriter /\ behind' = behind \ {writer.name}
           ELSE writer' = [writer EXCEPT !.at = "append", !.body = body] /\ UNCHANGED behind
  /\ UNCHANGED <<file, manifest, lookup, apart, spent>>

(* The append, under the write lock: the cache takes the lines in, and their *)
(* length only if the file was what it had parsed.                           *)
AppendLines ==
  /\ WriterAt("append")
  /\ file' = file \o writer.body
  /\ cache' = [cache EXCEPT !.map = Replay(@, writer.body),
                            !.len = IF @ = Len(file) THEN @ + Len(writer.body) ELSE @]
  /\ writer' = [writer EXCEPT !.at = "measure"]
  /\ behind' = behind \ {writer.name}
  /\ apart' = IF writer.body[1].kind = "gone" THEN apart \ {writer.name} ELSE apart
  /\ UNCHANGED <<manifest, lookup, spent>>

(* The append fails, and nobody is told.                                    *)
AppendFails ==
  /\ WriterAt("append")
  /\ "append" \in Fallible
  /\ writer' = [writer EXCEPT !.at = "measure"]
  /\ behind' = behind \union {writer.name}
  /\ UNCHANGED <<file, manifest, cache, lookup, apart, spent>>

(* compact_if_doubled: the length, and what it is compared with.            *)
CheckDoubled ==
  /\ WriterAt("measure")
  /\ writer' = IF Len(file) < CompactMin \/ Len(file) < 2 * cache.compacted
               THEN IdleWriter
               ELSE [IdleWriter EXCEPT !.at = "compact"]
  /\ UNCHANGED <<file, manifest, cache, lookup, behind, apart, spent>>

(* A reader that measured before an append and parsed after it leaves the    *)
(* cache shorter than what it took in.  A compaction then drops lines, and    *)
(* the cache need not notice.                                                *)
Unnoticed ==
  IF cache.len < Len(file) THEN {n \in Name : cache.map[n] # Kept[n]} ELSE {}

Compact ==
  /\ \E names \in SetToSeqs(Name) : file' = Canonical(names)
  /\ apart' = apart \union Unnoticed

CompactDoubled ==
  /\ WriterAt("compact")
  /\ Compact
  /\ writer' = [writer EXCEPT !.at = "forget"]
  /\ UNCHANGED <<manifest, cache, lookup, behind, spent>>

ForgetParse ==
  /\ WriterAt("forget")
  /\ cache' = [EmptyCache EXCEPT !.compacted = Len(file)]
  /\ writer' = IdleWriter
  /\ UNCHANGED <<file, manifest, lookup, behind, apart, spent>>

(* erase, erase_paths and gc_measured remove manifests one by one, sweep the *)
(* blobs and rewrite the index once; a sweep that fails leaves it as it was. *)
RemoveManifest(n) ==
  /\ writer.at \in {"idle", "sweep"}
  /\ manifest[n] # None
  /\ Spend("removes", MaxRemoves)
  /\ manifest' = [manifest EXCEPT ![n] = None]
  /\ writer' = [IdleWriter EXCEPT !.at = "sweep"]
  /\ Disturb(n)
  /\ UNCHANGED <<file, cache, behind, apart>>

Sweep ==
  /\ WriterAt("sweep")
  /\ \/ Compact
     \/ "sweep" \in Fallible /\ UNCHANGED <<file, apart>>
  /\ writer' = IdleWriter
  /\ UNCHANGED <<manifest, cache, lookup, behind, spent>>

----------------------------------------------------------------------------
(* The conversation whose manifest has landed and whose lines have not.     *)
Unindexed == IF writer.at \in {"stat", "read", "append"} THEN {writer.name} ELSE {}

(* Store::probe, for a prompt.  It measures the file ...                    *)
Probe(prompt) ==
  /\ LookupAt("idle")
  /\ Spend("lookups", MaxLookups)
  /\ lookup' = [IdleLookup EXCEPT !.at = "read", !.prompt = prompt, !.len = Len(file),
                                  !.disturbed = Unindexed]
  /\ UNCHANGED <<file, manifest, cache, writer, behind, apart>>

(* The first position in common, where the deepest one is asked for.        *)
DeepestIsShallow(map, prompt) ==
  LET common(n) == {p \in DOMAIN prompt : SubSeq(prompt, 1, p) \in map[n]}
      first(n) == CHOOSE p \in common(n) : \A q \in common(n) : p <= q
  IN [n \in {m \in Name : common(m) # {}} |-> first(n)]

(* ... takes from the index, for each conversation, the deepest position it  *)
(* has in common with the prompt ...                                         *)
Deepest(map, prompt) ==
  LET common(n) == {p \in DOMAIN prompt : SubSeq(prompt, 1, p) \in map[n]}
      deepest(n) == CHOOSE p \in common(n) : \A q \in common(n) : q <= p
  IN [n \in {m \in Name : common(m) # {}} |-> deepest(n)]

Shortlist ==
  /\ LookupAt("read")
  /\ cache' = Refreshed(lookup.len)
  /\ lookup' = [lookup EXCEPT !.at = "manifests", !.deepest = Deepest(cache'.map, lookup.prompt)]
  /\ UNCHANGED <<file, manifest, writer, behind, apart, spent>>

(* ... and then reads the manifests, one at a time.  The cuts it agrees with  *)
(* are the ones that end no deeper (agreed_cuts).                            *)
AgreedCuts(m, deepest) == {e \in m.ends : e <= deepest}

(* Taking an index line at its word, whatever has become of the manifest.   *)
ReadManifestUnchecked(n) ==
  /\ LookupAt("manifests")
  /\ n \in DOMAIN lookup.deepest
  /\ lookup' = [lookup EXCEPT
       !.deepest = [o \in DOMAIN @ \ {n} |-> @[o]],
       !.hits = Append(@, [name |-> n, of |-> manifest[n], cuts |-> {lookup.deepest[n]}])]
  /\ UNCHANGED <<file, manifest, cache, writer, behind, apart, spent>>

ReadManifest(n) ==
  /\ LookupAt("manifests")
  /\ n \in DOMAIN lookup.deepest
  /\ LET m == manifest[n]
         hit == IF m = None THEN {} ELSE AgreedCuts(m, lookup.deepest[n])
     IN lookup' = [lookup EXCEPT
          !.deepest = [o \in DOMAIN @ \ {n} |-> @[o]],
          !.hits = IF hit = {} THEN @ ELSE Append(@, [name |-> n, of |-> m, cuts |-> hit])]
  /\ UNCHANGED <<file, manifest, cache, writer, behind, apart, spent>>

Answered == LookupAt("manifests") /\ DOMAIN lookup.deepest = {}

Return ==
  /\ Answered
  /\ lookup' = IdleLookup
  /\ UNCHANGED <<file, manifest, cache, writer, behind, apart, spent>>

(* The process ends anywhere, and Store::open parses the file again.        *)
Kill ==
  /\ Spend("kills", MaxKills)
  /\ cache' = [EmptyCache EXCEPT !.len = Len(file), !.map = Replay(Nothing, file)]
  /\ writer' = IdleWriter
  /\ lookup' = IdleLookup
  /\ behind' = behind \union apart \union Unindexed
  /\ apart' = {}
  /\ UNCHANGED <<file, manifest>>

Next ==
  \/ \E n \in Name : \E m \in Manifest : Commit(n, m)
  \/ Measure \/ DecideExtension \/ AppendLines \/ AppendFails
  \/ CheckDoubled \/ CompactDoubled \/ ForgetParse
  \/ \E n \in Name : RemoveManifest(n)
  \/ Sweep
  \/ \E prompt \in Stream : Probe(prompt)
  \/ Shortlist
  \/ \E n \in Name : ReadManifest(n)
  \/ Return
  \/ Kill

Spec == Init /\ [][Next]_vars

----------------------------------------------------------------------------
(* Types; the cache never claims less than it took in when it was compacted. *)
TypeOK ==
  /\ file \in Seq(Line)
  /\ manifest \in [Name -> Manifest \union {None}]
  /\ cache \in [len : Nat, map : [Name -> SUBSET Stream], compacted : Nat]
  /\ writer \in [at : {"idle", "stat", "read", "append", "measure", "compact", "forget", "sweep"},
                 name : Name \union {None}, want : SUBSET Stream, len : Nat, body : Seq(Line)]
  /\ lookup.at \in {"idle", "read", "manifests"}
  /\ DOMAIN lookup.deepest \subseteq Name
  /\ \A i \in DOMAIN lookup.hits : lookup.hits[i].of \in Manifest
  /\ behind \subseteq Name /\ apart \subseteq Name

(* Once a commit is through, the file says of that conversation its cuts and *)
(* nothing else, whatever was rewound, swept, compacted or lost since: only   *)
(* a commit that was cut short leaves it behind.                             *)
FileIsTheManifests ==
  \A n \in Name \ (behind \union apart \union Unindexed) :
    manifest[n] # None => Replay(Nothing, file)[n] = PrefixesAt(manifest[n])

(* A cache as long as the file says what the file says of every conversation  *)
(* that is there, whichever reader refreshed it with whatever length it had   *)
(* measured: but for one a compaction dropped lines of while the cache was    *)
(* shorter than the file.                                                    *)
CacheIsTheFile ==
  cache.len = Len(file) =>
    \A n \in Name \ apart :
      manifest[n] # None => cache.map[n] = Replay(Nothing, file)[n]

(* The length of the file is an exact version marker, with no exception.  It  *)
(* is not: a sweep can leave the file no shorter than a reader set the cache. *)
LengthIsTheVersion ==
  cache.len = Len(file) =>
    \A n \in Name : manifest[n] # None => cache.map[n] = Replay(Nothing, file)[n]

IndexTrue == FileIsTheManifests /\ CacheIsTheFile

SharedCuts(m, prompt) == {e \in m.ends : IsPrefix(SubSeq(m.stream, 1, e), prompt)}

(* A lookup of a conversation nothing was done to meanwhile agrees with       *)
(* exactly the cuts it shares with the prompt, and misses none.              *)
QuietLookupsAreExact ==
  Answered => \A n \in Name \ (lookup.disturbed \union behind \union apart) :
    LET answers == {lookup.hits[i].cuts : i \in {j \in DOMAIN lookup.hits : lookup.hits[j].name = n}}
    IN manifest[n] # None =>
         answers = {SharedCuts(manifest[n], lookup.prompt)} \ {{}}

(* What a lookup says it agrees with is what the prompt shares with the       *)
(* manifest it read ("the manifest is the authority").  It is not.            *)
AgreementIsTheManifests ==
  \A i \in DOMAIN lookup.hits :
    lookup.hits[i].cuts \subseteq SharedCuts(lookup.hits[i].of, lookup.prompt)
=============================================================================
