# Imparo's KV memory and the control around it, specified

Imparo serves language models from a single process. Its own core logic, as opposed to
kernels and numerical code, is the life of the *KV state*: which rows of which prompts
lie where, who may read or rewrite them, who is made to give way when there is no room,
what of it survives on disk, and in which order requests and their tokens go through it.
The TLA+ modules here model that part of the program: `crates/imparo-kv`, the part of
`crates/imparo-server` that drives it, the decode loop of `crates/imparo-model`, and the
pack store, `crates/imparo-program-pack`. TLC checks them on small instances and TLAPS
proves theorems about them for every value of the constants. `PROJECT.json` lists the
runs, maps every definition to the lines it models, and lists the hazards the properties
are for.

Paths below are relative to `src/`; `kv/` stands for `crates/imparo-kv/src/`, `server/`
for `crates/imparo-server/src/`, `model/` for `crates/imparo-model/src/`.

## 1. Inventory

### Components

| Component | State | Operations | Correct when |
|---|---|---|---|
| Block allocator, `kv/alloc.rs` | holes, high-water mark, withheld count, per layer | `alloc`, `free`, `set_withheld` | the answer is the lowest free block; the mark ends at a block in use; in use and withheld fit together |
| Content index, `kv/index.rs`; residency, `kv/resident.rs` | hash to unit, refcounts, unit lists, LRU; placement of each unit | `lookup_prefix`, `adopt_units`, `truncate`, `seal_unit`, `evict_unreferenced`, `forget`, two-phase demote and promote | a unit lives exactly as long as some list names it; an indexed unit has rows somewhere; a block or handle has one owner |
| Resident pool, `kv/pool.rs` | conversations (tokens, sealed units, tail), slots, device tables, host copies | `begin_to`, `end`, `grow_room`, `switch_out`, `release_idle`, eviction, demotion, promotion, restore, `charge_slot`, `forget`, `trim` | a running row's table names exactly its rows; sealed rows are never rewritten; loops that make room end; an admitted request fits |
| Disk writer, `kv/disk.rs` | FIFO of jobs, the job in hand, marks, in-flight counts, GC counters, pending error | one thread: units, commit, erase, GC, barrier | counts and marks exact; a barrier means durable; a skipped GC walk was not needed |
| Store, `kv/store.rs` | unit, checkpoint and manifest files | `put_unit`, `put_checkpoint`, `commit`, `erase`, `sweep`, `gc`, lookup | a manifest names only files that exist, at every moment a crash could fall on |
| Store index, `kv/store.rs` | an append-only file of lines; a parse of it the handles of one process share | extend, retract, forget, two compactions, reopen; lookup over index, then manifests | the index says what the manifests say; a lookup agrees with exactly the cuts its prompt shares |
| Disk tier of the pool, `kv/pool.rs` | remembered boundaries, adopted keyless manifest | lookup, restore, `commit_to_disk`, supersede, spill, erase, drain | a return visit finds what was committed; an erased conversation stays erased; a replacement is down before the original goes |
| Checkpoint chain, `kv/pool.rs`, `kv/state.rs` | links of window rows, the ring and its owner, cuts named by manifests | capture, `remember_delta`, `assemble_chain`, both caps, lookup, restore | what the lookup accepts assembles to the prompt's rows; the kept turns are kept with all they read through |
| Scheduler, `server/sched.rs`, `server/main.rs` | waiting line, rows, seats, parked rows, the engine lock | admit, prefill chunk, joint step, end, fail, abandon, park, resume | one request per slot and label; a row never decodes past its room; every request is answered |
| Speculative and pipelined decode, `model/speculative.rs`, `verification.rs`, `dspark.rs`, `lib.rs`, `server/main.rs` | cache rows, recurrent planes, queue of steps, drafter rows and history, the recurrent note | prefill, draft, verify, compact, queued step, recovery, single step, hand-over to the co-batch, record | by any route the reply is the target's greedy continuation; what a turn leaves behind is the state of what its record says |
| Program packs, `crates/imparo-program-pack` | objects, admissions, the channel's directory, two pointers and a journal in it | install, advance, roll back, state, recovery | at every crash the pair of pointers is the old or the new one; what was answered stands once the channel's directory has outlived a power loss |
| Content identity, `kv/identity.rs`; tensor state, `kv/state.rs`, `kv/tenant.rs` | none | hashes, byte layouts | taken as data: a hash names the whole prefix |
| Everything else | host fit, HTTP, templates, kernels and model graph, backends, tokenizer, GGUF, tuning | | data and devices, not control; see section 8 |

### How they interact

One engine lock admits one operation on the pool at a time (`server/sched.rs`, `run`).
The operations of several requests interleave *between* such operations: requests are
admitted, prefilled by chunks and decoded jointly while others run, and a request that is
alone is decoded inside its own admission, by drafts or by queued steps, until company
comes. Erases and trims are other threads that take the same lock. The pool calls the
index and the allocators directly. It calls the backend to commit storage and to copy
rows, and both can fail in the middle of an operation. It talks to the disk writer by a
FIFO of jobs plus two pieces of shared state that are read without waiting: the marks
(`queued`) and the in-flight counts (`writing`). The writer is a thread and never takes
the engine lock; the holder of the lock sometimes waits for the writer (a superseding
commit, an erase, a barrier, a spill, and `wait_for_commits`). A request's lookup reads
the store's index and manifests while the writer changes both. The pack store is separate:
processes meet in its files and in two `flock` locks.

### What is hard

* operations that stop half way: an allocation that fails at its second block, a copy
  that fails after handles were taken, a `begin` that fails and is served anyway, a queued
  decode step that fails with the next one already encoded;
* making room for one request while another runs over shared pages;
* reads of shared state used later: `holds` before a commit, a lookup before a restore,
  the index before the manifest it leads to;
* state left for a later turn: a ring, a recurrent note, a drafter's history, an index
  line, each matched by less than what it holds;
* crashes between two files; failures of any one file operation; renames that are seen
  before they are durable;
* counters that stand for a walk that was not made.

Each is listed in `PROJECT.json` under `hazards` at its line, with the properties that
watch it, or with the reason none does.

## 2. Modules

| Module | Models | Uses |
|---|---|---|
| `LowestFree` | the promise of `kv/alloc.rs`: answers are a function of the set in use | |
| `BlockAllocator` | `kv/alloc.rs` | `LowestFree`, by refinement |
| `ResidentKv` | `kv/index.rs`, `kv/resident.rs` as operators over their state | |
| `KvPool` | `kv/pool.rs` as the server drives it | extends `ResidentKv` |
| `SlotPool` | the pool as the scheduler sees it: counts of pages, slots, pins | |
| `Scheduler` | `server/sched.rs` and the starts and ends of requests in `server/main.rs` | extends `SlotPool` |
| `DiskQueue` | `kv/disk.rs` over `kv/store.rs`: the writer thread and its files | |
| `DiskTier` | the holder of the engine lock over the writer, and crashes | extends `DiskQueue` |
| `StoreIndex` | the prefix index of `kv/store.rs` and the lookup over it | |
| `CheckpointChain` | links, assembly and caps of `kv/pool.rs`, `kv/state.rs`, as operators | |
| `Checkpoints` | the ring and the chain through requests, rewinds and restarts | extends `CheckpointChain` |
| `GreedyDecode` | the promise to a greedy request, whichever route decodes it | |
| `Target` | cache, recurrent planes and queue of the target model, as operators | |
| `Decode` | the decode routes of one request after another | extends `Target`; `GreedyDecode`, by refinement |
| `AtomicPair` | the promise of a release channel: one pair that moves as a whole | |
| `PackChannel` | `imparo-program-pack/src/install.rs` | `AtomicPair`, by refinement |
| `...Proofs` | theorems, section 6 | the module they are named for (`Kv...`: `KvPool`, one extending the other) |
| `MC...` | the instances TLC checks | |

### State and actions against the code

**BlockAllocator.** `holes`, `high`, `withheld` are the fields; `FromHole`, `FromTop` and
`Refuse` are the exits of `alloc`; `FreeTop` with `WalkDown` and `FreeBelow` the branches
of `free`. The refinement maps `used` of `LowestFree` to `InUse`, the blocks below the
mark that are not holes.

**ResidentKv and KvPool.** `indexed`, `ref`, `list`, `lru` are the index; `place` is
`residency`; `used`, `withheld` the allocator; `hosts` the host handles; `known`,
`spoken`, `text`, `sealed`, `tail` a `ConvState`; `recent` the pool's recency; `occupant`,
`cur`, `charged` the slots; `running`, `seat`, `work`, `pos`, `room` a scheduler row;
`table` the block table applied on the device. `page` and `hostPage` are what the device's
blocks and the host's allocations *hold*: a forward writes through the applied table and a
copy moves rows, so "the rows of this unit are that unit's rows" is a statement about
the memory and not about the bookkeeping.
`eng` is the program counter of the holder of the lock. An operation that cannot fail
half way is one action (`End`, `Leave`, `Trim`); one that can fail, or that loops, is a
sequence of `eng` steps, one per call that can fail: `Begin`, `ChargeSlot`, `Admit`,
`SwitchShared`/`SwitchExplicit`, `EnterFast`/`EnterGeneral`, `Probe` with promotion,
`StandOnResident`/`StandOnDisk`, `AllocOne` with the loop that makes room, and the
installation of the tables. `Fallible` names the backend operations that may fail.

**Scheduler.** `pc` is the place in one iteration of `run`: take, resume, admit (charge,
begin), step, deal, prefill, yield. `channel`, `line` and `blocked` are where a request
waits (sent, waiting, its conversation running); `rows`, `parked`, `prefilling`, `hand`
where it runs; `stalled` is the memory that the head of the line did not fit, with whether
`LEFT` has moved since; `inflight` is `IN_FLIGHT`; `wanted` is `ENGINE_WANTED`. A request
that is alone runs to its end inside its admission, or leaves for the co-batch when company
comes. `SlotPool` is a record with the pages of each conversation, who occupies which slot,
who is pinned or parked, which slots are charged, and how far the state in a slot's buffers
stands.

**DiskQueue and DiskTier.** Each file operation of the writer is one step, so that a crash
falls between any two: `WriteBlob`, `Commit` (the manifest), `Count` (the in-flight
count), `Supersede`, `Sweep`, `GcEvict`, `End` (marks and acknowledgement). `Send` places
marks and counts together with the jobs. `eng` is again the holder of the lock. `sent`
is a history variable: the manifest last handed to the queue.

**StoreIndex.** `file` is the index as a sequence of lines, `manifest` the manifests,
`cache` the `IndexCache` (length parsed, what it said, length when compacted). The writer
is at one step of a commit or a sweep (`stat`, `read`, `append`, `measure`, `compact`,
`forget`, `sweep`), the lookup at its read of the index or of the manifests, so either may
come between two file operations of the other. Two history variables name what is excused:
`behind`, names whose last commit was cut short before its index lines, and `apart`, names
of which the cache may hold lines the file has lost.

**CheckpointChain and Checkpoints.** A link is the window rows of `[from, boundary)` with
the link before it. `memory` is `window_ckpts` with `ckpt_order`; `ring` is what each step
of the windowed ring holds (the stream prefix whose rows were written there last), `owner`
the conversation that used it last; `manifests` is what the disk names. Rows are again
contents: a restored window is right when it is the window of the prompt.

**Decode.** `target` is a record of cache rows, recurrent planes, the recurrent note and
the queue of encoded steps; each holds the prefix it was computed over, or `Wrong` when it
was computed over something that is no prefix. A forward is right when the rows below its
position and the plane it reads agree, so a row left by a rejected draft, or a plane read
twice, shows as `Wrong`. `cursor` is the drafting cursor (position, tokens not handed out,
budget, whether it may draft), `drafter` the draft model's cache with its `history`,
`cached` what a turn leaves of it for the next. `config` is how the process was started;
`phase` the place in `generate`.

**PackChannel.** `now[f]` is a file as processes see it and `may[f]` the contents a power
loss may leave: a rename adds to `may`, a directory sync reduces it. `directory` is the
entry `channels/<channel>`, which the lock of the first call makes (`install.rs:535`,
`:1236`) and which nothing syncs: it is `new` until a power loss has left it in place, then
`kept`; while it is `new`, a power loss may take it with all files. Each process is `at` a
step of the call `op` for the pack `arg`, with the transaction it carries out in `plan`.
`objects` and `admissions` have a durable part each. The refinement maps the pairs to which
recovery would lead from any content of `may` to `possible` of `AtomicPair`, and the loss of the
directory to its step `Lose`, which is not possible once the channel is `kept`.

### Abstractions

* A stream is counted in whole pages (`KvPool`, `Scheduler`) or grid steps (`Checkpoints`,
  `StoreIndex`) and ends inside the next one. A unit, a checkpoint or an index entry is
  named by the whole prefix that ends with it, which is what chained hashing gives.
* Every layer's allocator gets the same calls in the same order, so one stands for all.
* Which checkpoints are in memory is not tracked in `KvPool`: `StandOnResident` may choose
  any boundary of what was adopted. This includes what the code would choose.
* In `KvPool` the disk is the set of units written through; how they get there, and what
  can go wrong on the way, is `DiskTier`. In `DiskTier` the index is exact; how it gets
  there is `StoreIndex`. In `Checkpoints` what is written stays.
* A joint decode step of several rows is a step of each: rows do not read each other.
* A pin goes with its request: `Vacate` of `KvPool` leaves the running set to `Stop`.
* A row that cannot grow beside other rows parks. That is an action of `Scheduler`; in
  `KvPool` such a row waits (`Grow` is not enabled).
* In `Scheduler` the pages of a conversation are its own: what sharing changes is
  `KvPool`'s. What a request contains (parsing, sampling, the text) is left out, except
  that a reply may end at any token.
* In `DiskQueue` a blob weighs one and a manifest nothing. `DropManifests` is left out:
  nothing in the repository sends it.
* In `DiskTier` resident units and disk extents are cut at the same places, and
  `commit_to_disk` is one step: nobody else sends, and what the writer does between its
  reads it may also do before or after them.
* In `Checkpoints` a commit that finds no whole checkpoint in memory writes nothing: the
  code's fallback captures an anchor at the stream's end, off the grid, where no lookup
  stands. The limits of 16 and 32 links to a chain are above every instance's.
* In `StoreIndex` the length of the file is its number of lines. An append that leaves a
  part of a line, a second process on the store, and the limits of the shortlist
  (`PER_POSITION`, `PROBE_FANOUT`, which only drop hits) are left out.
* `Decode` has requests without sampling, one request at a time in full; the co-batch it
  hands over to is the row it becomes there. Its note is the one the host keeps (interleaved
  decode), its session Metal's without tail room. CUDA's native sessions and window
  history, branch pauses and the choice of a tree's shape are left out.
* `PackChannel` takes an admission as valid when its files are there; signatures, trust,
  revocation and policy are left out, and so is Windows, which syncs no directory. The store
  itself is presumed durable: `prepare_cache` syncs `v1` (`install.rs:346`), but not the cache
  root in which it makes `v1`, so a power loss after the very first install could take all of
  it. With it `InstalledStays` would not hold of a store just made.

## 3. Runs that pass

| Run | Instance | Distinct states | Shows |
|---|---|---|---|
| `allocator` | 5 blocks | small | every set in use, with every amount withheld; the refinement |
| `disk_tier` | two conversations of two extents sharing the first; manifests and sweeps may fail; 4 operations, 1 crash; no cap | 728,047 | manifests are complete, erases final, barriers honest, return visits find what was committed, the replacement is down first |
| `disk_tier_evicting` | the same, cap 3, every file operation may fail, 3 operations | 750,620 | counts and marks exact, the GC skip right while the process lives, the lock always given back |
| `pool_shared` | shared memory: 2 conversations, streams of up to 2 pages, 5 blocks, 2 slots of 2 blocks each, 3 requests; committing storage and restoring from disk may fail | | ownership of blocks, refcounts, rows and tables, admission |
| `pool_explicit` | host transfers: 3 conversations of one page, all sharing it, 2 slots of 1 block, 3 blocks, 1 host handle, 4 requests, one served cold; writes, spills, demotions and promotions may fail | 559,697 | ownership of handles, moved rows stay true, running tables exact, last copies durable before they go, every loop that makes room ends |
| `scheduler` | 3 requests, two of them of one conversation, with 1, 2, 3 pages of prompt and up to 7, 2, 1 of reply; 2 slots, 12 pages, 6 of them charged to the second slot; every step may fail; one erase or trim | 261,930 | a request is in one place and in a slot of its own, fails for want of room only where it must, and is answered |
| `checkpoints` | one conversation of up to 3 steps of two contents, window 2, ring 5, 2 checkpoints in memory, 1 turn on disk, 3 events | 84,230 | what the lookup accepts assembles; a commit keeps the turns of its cap with all they read through, and no eviction takes what an entry in memory chains from |
| `store_index` | two conversations over 4 streams that branch at the first step or the second; 2 commits, 1 removal, 1 kill, 2 lookups; appends and sweeps may fail | 791,868 | the file and the cache say what the manifests say once a commit is through; a lookup nothing came in between of is exact |
| `pack_channel` | 2 processes, 2 packs, 3 generations, failures, kills and power losses anywhere, which may take a channel just made | 749,637 | the pair is whole, moves as one, installs stay, and a channel is lost only before its directory has outlived a power loss |
| `decode` | 2 turns, 12 ways to start the process, 14 positions, prompts of 4 and 5 tokens, answers of 1 to 5, budgets 1 and 5, draft blocks of 2 and a tree of 4 | 1,572,917 | the reply is greedy decoding's; state, note and history are those of the record |

The properties by what they say:

* **Ownership.** `IndexExact` (a unit's refcount is the number of lists that name it, and
  what is indexed has rows), `OwnedOnce`, `HandlesOwned`: at every step, also in the middle
  of an operation, each block and handle has one owner and none is lost.
* **Rows.** `SealedRowsTrue`: what a prompt can match holds the rows it says. `RowsStand`
  adds, and `SlotsStand` has with the occupants, that a running row's table names its own
  blocks in order, whatever was evicted, moved or admitted between two of its steps.
* **Room.** `AdmittedFits`: until a begin fails, a request admitted beside running rows
  never finds the pool exhausted. `NeverShortOfRoom`: a request that fails for want of a page
  is larger than the tier, or fails in one of two named situations (pages stranded by a
  request that left after `begin`, or a slot charged after the room was counted), never
  because slot choice, admission or parking let in too many.
* **Order.** `SeatedOnce`: a request is in one place, its slot is its own, and no two
  requests run for one conversation. `EveryoneAnswered`: every request's response ends.
* **Durability.** `ManifestComplete`, `EraseIsFinal`, `BarrierMeansDurable`,
  `ReturnFindsItsCommit`, `ReplacementFirst`, `SpilledIsStored`.
* **The writer's shared state.** `BooksExact` (the in-flight counts are the commits not yet
  counted down; a mark stands for a job that is pending), `CapKept` (a skipped GC walk was
  not needed, and after a walk the cap is respected).
* **Checkpoints.** `AcceptedAssembles`: the lookup decides by arithmetic on names and the
  restore reads the links; whatever is accepted assembles, where no named link lies inside a
  newer one. `TurnsKept`: the cap of a manifest drops no ancestor of what it keeps, and none
  of the newest turns unless a checkpoint in memory that reaches lower, and is not a turn's,
  takes the place of one (`TurnsStay`); and no cap, restore or trim takes from memory what an
  entry there chains from (`AncestorsStay`).
* **The index.** `IndexTrue`: the file says the manifests' cuts and the cache says the
  file's, between commits. `QuietLookupsAreExact`: a lookup agrees with exactly the cuts
  its prompt shares when no commit or sweep came in between.
* **Decoding.** `DecodesGreedily`: the refinement of `GreedyDecode`. `StateIsTheStreams`:
  what stands recorded is a stream whose rows, plane and note are its own.
  `HistoryFollows`: the drafter's history agrees with the stream it will be used for.
* **Packs.** `PairWhole`, `InstalledStays`, and `MovesAsOne`: the refinement of
  `AtomicPair`. What is answered there stands as long as the channel does, and the channel
  does once its directory is kept.
* **Progress.** `EngineIsAnswered`, in both compositions of the pool and the disk, and
  `EveryoneAnswered`.

### Bounds, and why they are enough to show something

`MaxRequests`, `MaxOps`, `MaxCrashes`, `MaxCold`, `MaxOutside`, `MaxEvents`, `MaxTurns`,
`MaxGen`, `MaxCommits`, `MaxRemoves`, `MaxKills`, `MaxLookups` bound how much happens;
`MaxPages`, `MaxSteps`, `Capacity`, `HostCap` how large it is. Two conversations that share a
prefix and then part are the smallest instance in which sharing, merge-on-seal and a sweep
that must spare something occur. Capacities are chosen so that two requests together do not
fit: the loops that make room run in every pool instance, and rows park in `scheduler`. Three
conversations and a single host handle make a demotion need a spill first. Two slots are
needed for one request to displace another while it runs, and two requests of one
conversation for one to be blocked by the other. A window of two steps and streams of three
give chains with an ancestor below the window; with a ring of five a branch point two steps
below the stream's end can wait for it. Five larger instances of one content (windows to 5,
streams to 6 steps, caps to 3 and 5) pass as well. In `decode` the budgets and answers reach an
end by stop, by budget and by text, before, at and after a drafted block. In `store_index`
compaction starts at 3 lines, so that a commit, a retraction and a removal reach it; with 3
commits, 1 lookup and 3 streams the run also ends without an error, after 9.8 million states.

Pages, labels, processes, packs and contents are interchangeable where a run uses symmetry;
`pool_explicit`, `scheduler` and `disk_tier_evicting` check liveness and do not.

`CHECK_DEADLOCK FALSE` where the bounded number of requests, events, turns or calls is used
up and nothing is left to do. `DiskTier` has the step `Quiescent` for this, and it and the
allocator check deadlock.

### What the passing runs leave out, and why

Some promises of the code do not hold in general (section 4). The passing runs state what
does hold, under a condition that is named:

* `SealedRowsTrue`, `RowsStand`, `SlotsStand` hold until some `begin` has failed (`failed`).
  `PoolCold.cfg` shows why.
* `HandlesOwned` holds until then as well. `HandleLeak.cfg` shows why.
* `SpilledIsStored` speaks of the spill that makes room on the host, and of a pool that has
  served no request cold: a begin that failed leaves a list in which a unit may stand behind
  units the disk does not have.
* `Replay = FALSE` leaves out a prompt that matches more of a conversation's own old units
  than it has sealed now. `PoolReplay.cfg` shows why.
* `SeatedOnce` and `NeverShortOfRoom` hold until a request is served whose `begin` failed
  (`cold`).
* `OwnedOnce` runs on shared memory, where no demotion can fail in the middle of an
  allocation. `PoolLeak.cfg` shows why.
* `AdmittedFits` runs on shared memory as well: with host transfers the occupant of the
  selected slot, which the budget `Retained` lets keep its pages, is neither counted by
  `obtainable_units` nor moved by `demote_idle_for_allocation`, which passes over the active
  conversation (`kv/pool.rs:1521`). `PoolLeak.cfg` with `AdmittedFits` in the place of
  `OwnedOnce` ends where nothing is left to demote. And it holds until a begin has
  failed: such a begin may leave a list longer than what is sealed, and the next append of
  that conversation counts the sealed pages only. With both conversations of `pool_shared`,
  `Capacity = 4`, `MaxPages = 2` and a commit that fails, the pool is then exhausted.
* `MovesAsOne` lets a power loss take a channel, answered or not, until its directory has
  outlived one. `PackUndurable.cfg` with `AnswersForward` shows why.
* `disk_tier` has no cap and no failing unit write, `QueuedSweep.cfg` and `UnitFails.cfg`
  show why; `disk_tier_evicting` has no crash, `CapAfterRestart.cfg` shows why. In
  `disk_tier` the window covers the whole stream; with a window of one extent
  `ManifestComplete` fails after an erase of the other conversation, for the reason of
  `QueuedSweep.cfg`.
* `CapKept` stops at a store with no manifest left: `gc` evicts manifests, and what no
  manifest names is swept only after one was removed.
* `AcceptedAssembles` speaks of manifests in which no named link lies inside a newer one;
  `CkptNested.cfg` shows why.
* `TurnsStay` excuses a turn whose record another one has taken the place of (`Displaced`).
  With one conversation that does not happen; `CkptDisplaced.cfg` has two.
* `IndexTrue` excuses the names in `behind` and `apart`: a commit cut short before its index
  lines, and an outdated length (`IndexLength.cfg`).
* `decode` has prompts of at least 4 tokens (`DecodeNote.cfg`), and no drafted answer that
  ends at a stop token while others wait (`decode_handover`).

## 4. Disagreements found

In each TLC finds the counterexample. Two are runs, and `PROJECT.json` quotes their lines:

| Run | What the code does |
|---|---|
| `index_agreement` | A lookup between a commit's manifest and its index lines, or after a kill there, counts the cuts that end below the position the index gave; they may be cuts of the stream that replaced the one the index still names. `kv/store.rs:1745` says agreement is recomputed from what the manifest holds. |
| `decode_handover` | A drafted answer that ends at a stop token with drafts accepted is handed to the co-batch, which feeds its last token again, one position on, and goes on past the stop. |

The others are configurations kept beside them, each of one property that TLC refutes:

| Configuration, property | What the code does |
|---|---|
| `UnitFails`, `ManifestComplete` | A unit write that fails is remembered for the barrier only; the commit behind it writes a manifest that names the missing unit. |
| `QueuedSweep`, `ManifestComplete` | A turn asks what the disk holds when it *queues* its commit; a GC queued before it removes what it relied on. |
| `CapAfterRestart`, `CapRespected` | The counters that stand for the GC walk start at 0 on a store that is not empty. |
| `PoolReplay`, `SealedRowsTrue` | The append path sizes the tail by the sealed count, and the probe after it may adopt more than that; the turn is then sealed under the wrong pages. |
| `PoolCold`, `SealedRowsAlwaysTrue` | A request whose `begin` failed runs from position 0 through the table the slot had, over pages other prompts can match (`server/main.rs:2262`). |
| `HandleLeak`, `HandlesAlwaysOwned` | After a begin that failed, the list of a conversation may lack a page that is on the host. The page is computed again and sealed under the unit's name; `kv/resident.rs:241` says of the host copy this replaces "The caller must release this backend handle"; the read from the disk seals with `let _ =` (`kv/pool.rs:2233`). |
| `PoolLeak`, `OwnedOnce` | An allocation that fails inside a demotion does not give back the blocks it already took. |
| `PoolLeak`, with `AdmittedFits` | `kv/pool.rs:902`: "Every other conversation's pages can be dropped, its turns being on disk." With host transfers the outgoing occupant's cannot. |
| `InFlight`, `InFlightIsRunning` | `kv/pool.rs:1010`: "A request is in flight for `label`: running (pinned) or parked." Dropping a parked conversation removes its mark while the request goes on waiting. |
| `CkptRewind`, `NamesThisStream` | A prompt that replaces the conversation keeps the old boundaries that are cuts of the new stream as well (`kv/pool.rs:2967`), though "A REWIND replaces the conversation from its branch point" (2962); the manifest then names rows of the abandoned stream. |
| `CkptRewind`, with `WindowIsThePrompts` | The ring is taken to hold a conversation's window when its length says so (`kv/pool.rs:2328`); the rows may be of a stream it had before. |
| `CkptNested`, `NoRestoreFails` | A link can be named although a newer one covers it and more: links of `[0,1)`, `[3,4)` and `[1,5)` stand in one manifest after a commit that came back to 1. The lookup's arithmetic steps down by the minimum of both starts and accepts 5; `assemble_chain` (`kv/state.rs:439`) takes the start of the link it reads, climbs back to 3 and finds a hole. The request fails, though `kv/pool.rs:1950` says such a boundary is "skipped HERE ... instead of failing the request". |
| `CkptRewind`, with `NewestServes` | The newest boundary of a conversation cannot always be resumed at: links it reads through are in memory but are not cuts of the conversation. `docs/STATUS.md:345`: "rewind and branch survive a restart". |
| `CkptMarks`, `MarksAreNamed` | A commit leaves a stored record alone when it reaches as deep (`kv/pool.rs:2918`), with its mark as it was. The end of a turn is stored unmarked; the next user message starts there and marks it in memory, its commit does not mark it on disk, and a later one drops it. `kv/pool.rs:1094`: "A user message starting here is a fact about the position, not about which capture got here last." |
| `CkptDisplaced`, `TurnsAlwaysStay` | Where memory's checkpoint reaches lower it takes the stored record's place with memory's mark (`kv/pool.rs:2953`). After another conversation with the same prefix has captured that boundary as a step, the turn stored there is a step too, and the cap drops it. Same line of the code. |
| `IndexLength`, `LengthIsTheVersion` | `kv/store.rs:76`: the file's length "is an exact version marker". A reader that measured it before an append and parsed after it leaves a length too short in the cache; a sweep then shortens the file unnoticed, and a conversation committed again appends nothing and is not found after a restart. |
| `DecodeNote`, `StateIsTheStreams` | Without a pool the recurrent note is matched by its position alone; a prompt too short to keep one of its own is decoded from the note of another stream (`server/main.rs:2339`). |
| `PackUndurable`, `ToldIsDurable` | `install.rs:116` calls the answer "A durable channel view"; an advance takes no install lock and accepts an admission another process has renamed into place and not yet synced. |
| `PackUndurable`, with `AnswersForward` | The first advance of a channel makes `channels/<channel>` (`install.rs:535`) and syncs that directory, never `channels/` (`:346`, `:599`, `:603`, `:801`). The power goes after the answer, the directory is gone with both pointers and the journal, and `channel_state` answers the empty channel at once (`:676`). `docs/program-pack-threat-model.md:105`: "crash recovery rolls back only unacknowledged transitions and completes acknowledged ones." |

Met on the way, without a counterexample that breaks a stated promise: a resume that cannot
be charged after its trim fails its request where it could stay parked; a cold `begin`
beside running rows leaves its request in a slot it was not given; the `NoSlot` branch of
the resume is never taken; a deferred branch note below the resume point captures ring rows
the restore did not write; a turn's end looks up what its checkpoint will chain from before the
waiting branch point is captured, and that capture may evict it (`kv/pool.rs:1119` spares
what *entries* chain from), so the tip hangs in the air and the commit names a shallower
boundary; a branch point more than a window below the tip is never named by
a commit; `release_idle` asks the host for more room than it needs (`kv/pool.rs:3135`); a
forward that fails in the plain or queued loop ends its reply as "stop"; after a cut in the
text the drafter's history is kept, though the comment near `server/main.rs:3034` says
partial draft state is never published (its rows are still those of the stream, which
`HistoryFollows` checks).

## 5. Fairness

`DiskTier`: weak fairness of the writer (a thread of its own that never waits for the
engine lock and receives whenever the queue is not empty) and of the steps by which the
holder of the lock goes on once it has what it waits for. No fairness is assumed of
clients, of the end of a turn, or of failures: a file operation may fail every time.

`KvPool`: weak fairness of `Engine`, the steps of the thread that holds the lock. They are
one thread's sequential code. That the loops end is therefore a fact about what each round
gives up, which is what `EngineIsAnswered` asks.

`Scheduler`: weak fairness of `Loop`, the iteration of the engine thread, and of `Erase` and
`TrimIdle`, the other threads once they want the engine: the loop yields to whoever waits
(`ENGINE_WANTED`). None of clients, which may leave or never come, and none of success: any
step may fail each time.

`StoreIndex`, `Checkpoints`, `Decode` and `PackChannel` state safety only.

## 6. What is proved

TLAPS checks, for every value of the constants:

| Module | Theorem | Statement |
|---|---|---|
| `BlockAllocatorProofs` | `AllocatorTypes` | `Spec => []TypeOK` |
| | `BooksAreTight` | `Spec => []BooksTight` |
| | `AllocatorImplementsLowestFree` | `Spec => ImplementsLowestFree` |
| `PackChannelProofs` | `InstallsAreDurable` | `Spec => []InstalledStays` |
| | `TypeCorrect` | `Spec => []TypeOK` |
| | `PairIsWhole` | `Spec => []PairWhole` |
| | `ImplementsAtomicPair` | `Spec => MovesAsOne` |
| | `AnswersStand` | while the channel's directory is there, a pair once answered is what is found again, or a later one (the abstract `NeverTakenBack`); once the directory has outlived a power loss it stays, and answers never go back (`KeptForGood`) |
| `DiskTierProofs` | `ErasedStaysErased` | `Spec => []EraseIsFinal` |
| | `BarrierTellsTheTruth` | `~Evicting`: `Spec => []BarrierMeansDurable` |
| | `TypeCorrect` | `Spec => []TypeOK` |
| | `BooksStayExact` | `Spec => []BooksExact` |
| | `CapIsKept` | `Spec => [](crashes = 0 => CapKept)` |
| | `ManifestsStayComplete` | `~Evicting`, `Covered`, `BlobsLand`: `Spec => []ManifestComplete` |
| | `ReplacedOnlyByWhole` | under the same: `Spec => ReplacementFirst` |
| | `ReturnsFindTheirCommits` | under the same: `Spec => []ReturnFindsItsCommit` |
| `KvOwnerProofs` | `PoolTyped` | `Spec => []TypeOK` |
| | `IndexTrue` | `Spec => []IndexExact` |
| | `OwnersApart` | `Spec => []Pool`: a block and a handle have one owner, in every mode and after every failure |
| | `BlocksOwned` | `~Replay`, `~Explicit`: `Spec => [](cold = 0 => OwnedOnce)` |
| | `BlocksAlwaysOwned` | and `MaxCold = 0`: `Spec => []OwnedOnce` |
| | `SpilledStored` | `~Replay`: `Spec => SpilledIsStored` |
| `KvStreamProofs` | `HandlesKeptOwned` | `~Replay`: `Spec => []HandlesOwned` |
| | `SlotsKept` | `~Replay`: `Spec => []SlotsStand` |
| | `SealedRowsKept` | `~Replay`: `Spec => []SealedRowsTrue` |
| | `RowsKept` | `~Replay`: `Spec => []RowsStand` |
| | `AdmittedFitsAlways` | `~Replay`, `~Explicit`: `Spec => []AdmittedFits` |
| `SchedulerProofs` | `TypeCorrect` | `Spec => []TypeOK` |
| | `EveryoneSeatedOnce` | `Spec => []SeatedOnce` |
| | `NobodyIsShortOfRoom` | `Spec => NeverShortOfRoom` |
| `StoreIndexProofs` | `TypeCorrect` | `Spec => []TypeOK` |
| | `IndexIsTrue` | `Spec => []IndexTrue` |
| | `QuietLookupsExact` | `Spec => []QuietLookupsAreExact` |
| `CheckpointsProofs` | `TypeCorrect` | `Spec => []TypeOK` |
| | `AcceptedAreWhole` | `Spec => []AcceptedAssembles` |
| | `AncestorsStand` | `Spec => [][AncestorsStay]_vars` |
| | `TurnsKeptAlways` | `Spec => TurnsKept` |

Assumptions are those the modules name for their constants, which TLC evaluates in every
run, and what the table says of a theorem: `~Evicting`, that there is no cap; `Covered`,
that the window region holds every stream whole; `BlobsLand`, that of the writes to the disk
only manifests and sweeps may fail; `~Explicit`, the memory of Metal, shared by device and
host; `~Replay`, that no prompt matches more of a conversation's own old units than it has
sealed now. Each is a setting of a run that checks the property, and where it is dropped TLC
refutes most of them: `PoolReplay.cfg` refutes `SealedRowsTrue`, and so `RowsStand`, and
with the name changed `OwnedOnce` and `SlotsStand`; `PoolLeak.cfg` refutes both properties
that ask `~Explicit`; and `ManifestComplete` is violated when any one of its three is dropped
(`MayFail` with units or checkpoints, `Window = 1`, a cap that evicts). For `HandlesOwned`,
`SpilledIsStored` and `AdmittedFits` TLC found no counterexample with replayed prompts; there
`~Replay` comes from `Lengths` and `Streams`, which their proofs rest on.

**The allocator.** The code never counts the blocks in use; it subtracts the number of holes
from the mark. That is the right number only if every hole lies below the mark, and that
in turn is kept by `free` only because it walks the mark down past *all* holes it meets.
So no invariant can be shown alone, and `IInv` is their conjunction: the tight mark
gives `UsedIsInUse` (the count read is the size of the set in use, by `CountBelowMark`),
which gives the bound across `alloc` and `set_withheld`; and the bound with the count gives
`TypeOK` (the block at the mark exists when the count admits one). `StepRefines` maps each
step to the step of `LowestFree` with the same name.

**The pack channel.** `PairWhole` speaks of what recovery makes of files that may be lost,
so it needs to know where each process is. `Good` is inductive: the shapes of files and
calls, who holds the lock, `Whole` and, for each process inside a move, the phase it is in.
`Whole` is the core: if no journal may be what is left, the pointers are settled and match;
and every journal that may be left leads to the pair that is found. A step of a process then
changes one file, and the phases say which pairs were possible before and after; the
refinement reads them off. A power loss that takes the directory maps to `Lose`; `Made`, that
a channel without a directory has no files and nobody at work on it, makes the answer of
`channel_state` there the one pair possible. `AnswersStand` adds that every pair that may
still be found is the one last answered or has a later generation (`Stand`): each of the abstract
steps the refinement maps to keeps it, and of them only `Lose` sets the answer back, which a
kept directory rules out. `InstallsAreDurable` needs less: `Shape` and `Stored`, that what
a process is about to sync contains what its answer will speak of.

**The disk tier.** What matters is the queue between the holder of the lock and the
writer, under failures and crashes. `ErasedStaysErased` rests on `Stands`: the queue is in
the order of sending (`Staged`, `InLine`), an erase's removal is behind every commit of its
conversation (`Removed`), and once nothing is sent for a conversation it has neither a
manifest nor a commit to come (`Forgotten`). The holder waits for the last job it sent, so
at its answer the queue is empty. `BarrierTellsTheTruth` adds to it: until a failure is
remembered, the last commit to come, in the queue, in hand or already the manifest, names
what was last handed over (`Known`); it uses that nothing is collected (`NoGc`).
`BooksStayExact` counts: the marks of a commit's jobs are disjoint and pending, and what the
books hold for a commit is the number of its jobs that have not been done; `CapIsKept`
follows until a crash forgets what a sweep had still to remove. The three theorems on
manifests rest on `Backed`: whatever a commit names is on the disk, in hand, or before it in
the queue, and no sweep removes it, because a sweep runs only in a job its sender waits for.

**The scheduler.** Requests move between six places, and every counter of the loop is a
number of requests somewhere, so the invariant again grows in layers.

* `Settled`: where a request may be, and that the lists, sets and counters name the same
  ones. `Typed` and `Sound`: pages are counted as a set of pairs of a conversation and a
  number, which makes a sum over conversations the cardinality of a union; what an
  allocation drops is a stack taken from the idle ones.
* `Firm`, until a begin fails (`cold`): the pinned slots are exactly those of requests that
  are seated, no two of one conversation are in flight, the slot a request is about to
  begin in is nobody's pinned one, and a prefill holds pages for what it has read. An
  operator of the pool keeps this (`Keeps`) because it drops only what is idle, and nobody
  pinned is idle. A begin that failed after it dropped its own pages is still served, so
  this is as far as the code goes.
* `NeverShortOfRoom` speaks of a step, and of the smallest number of others to drop. `Dues`:
  every slot that is selected or occupied is charged, and parked conversations are the
  pool's. `InTurn`: a slot is charged only while there are fewer rows than slots. With these
  a refusal that comes after everything idle was dropped (`DroppedIs`, `RoomMade`) leaves
  the pages and charges of the request alone beside what may not be dropped, and in each
  place where one is failed that is nobody's, so the tier itself is too small for it.

**The resident pool.** An operation is many steps, and what a step may rely on depends on
how far the operation has come, so the invariant grows in layers, each inductive together
with those below it.

* `Typed` (types, and what the program counter implies of the plan, `EngAgrees`) and
  `Indexed`: the reference count of a unit is the number of places where the lists name it.
  The counts change one unit at a time by folds over a list, so `KvOwnerProofs` first proves
  what the folds of adopting, releasing and sealing return for a list of any length, by
  well-founded induction on the length (`Recursion`, `SetInduction`).
* `OneOwner` and `OneHolder`: units, tails, the blocks an allocation has taken so far and the
  blocks promised to a promotion are apart, and so are the handles. These need no
  assumption at all. That nothing is *lost* (`NoneLost`, `NoHandleLost`) is the other
  inclusion, and there the failures count: `OwnedOnce` with its counts follows from both.
* `Stages`: what each place in an operation knows, such as that what was read from the index
  before an allocation is still what the conversation's list says after the loop that makes
  room, and `Lengths`, that a list with its tail covers what the request will write.
* `Streams`, until a begin fails: a list is the chain of its own stream, and the index is
  closed under prefixes. With `FreshMisses` a read from the disk seals only units the index
  lacks, so no host copy is replaced and no handle dropped.
* `Slotted`: running requests have their seats (`RunningSeated`), no slot is another's
  (`Occupants`), the operation under way has its slot (`EngSlot`) and its units on the device
  (`EngAboard`), and what is being moved to the host is named by no running request
  (`MovesAside`): that is why tables stay right while units move.
* `RowsTrue`: sealed rows, and the rows written and not yet sealed (`RunningRows`). A forward
  writes through the applied table; by `Slotted` and `OneOwner` these are blocks of its own
  tail, at positions above what is sealed.
* `Roomed`: a count made at admission, relied on in an allocation many steps later. What the
  rows beside the request hold only shrinks while it is placed (`HeldShrinks`), so the room
  counted then is still there (`RoomKept`). Whoever has blocks is in the LRU order
  (`InLru`); with nothing to evict and nobody to drop, every block in use is thus held by
  those rows or is the request's own (`AllOnDevice`, `BlocksCounted`). Its own with what it
  still asks for are no more than its prompt takes (`FastRoom`, `AsksWithin`), and the tier
  cannot be full (`RoomFits`).

**The store index.** Replaying lines is recursive, so it is first shown, by induction on
their number (`ReplayIs`), that what lines say of a conversation is what they claim since
they last retract it (`Said`, `Retracting`), added to the map replayed into unless they do
retract it. Then concatenation is a matter of sets, and what a compaction writes lists each
claim once, so it is no longer than the file, and shorter if it drops anything
(`CanonicalIs`): the length can only fail to tell two files apart where a reader left the
cache short.

* `Faithful`: the rest of the file, taken into the parse, says what the file says (`Parsed`),
  except that a cache longer than the file may be wrong about conversations that are gone,
  and starts over at the next reader; the writer, of whom there is one, knows the length it
  measured; what it is about to append makes the file say its manifest's cuts.
* `Watching` follows one lookup. After it measures, for every conversation that stays quiet,
  the length is not zero, and should the parse be as long, it is exact (`Reading`): another
  handle may have refreshed or appended in between, and the length alone decides whether
  the reader looks again. After it read the parse, the deepest common position is the
  deepest cut shared, because a prefix of a prefix is one (`SharedIs`), and a conversation
  answered has just those cuts (`Told`).

**The checkpoints.** Nearly every operator here is recursive: a chain, an assembly, the walk
of the lookup, the cap, what a commit names, what a restore remembers. Each is a recursive
function, so each is first shown to have a value that its steps lead to (`...Unfolds`), and
what it returns follows by induction on the steps (`SetInduction`).

* `Typed` is inductive by itself. It says more than `TypeOK`: a link holds a row for every
  step of its window above `from`, the named checkpoints of a manifest are at different
  boundaries, an entry chains from a shorter prefix. The last makes a chain end
  (`ChainIs`) and a link well-formed; the second orders them (`NewestFirstIs`).
* `AcceptedAreWhole`: the walk of the lookup keeps going after a link that ends above what
  is needed, whatever its `from`, and `assemble_chain` cuts what it needs to the link's own
  rows. `Together` relates the two after each link: as long as no hole was found they need
  the same, and after one the walk's need is above the floor and every link still to come
  is below it, so neither gets further. It needs that no link lies inside a newer one.
* `AncestorsStand`: an eviction takes only what nothing chains from (`EvictableIs`), so no
  chain of the old memory is broken while it shrinks (`Shrinks`), through any number of
  entries remembered in one restore (`Restoring`); and a trim keeps whole chains
  (`ReachedCloses`). The exception is real: at the end of a turn the new entry may chain from
  one that the entry of its branch point has pushed out.
* `TurnsKeptAlways` adds what a commit still names. A window is reached exactly when its
  walk has no `Gap`: a position above the window's floor that everything at or above it,
  up to the boundary, stays above (`ShortWalk`, `WholeWalk`). So a root reaches through the
  links the walk went through, which the cap keeps, and nothing that reaches lower at the
  same boundaries opens a gap. What was named has a record at its boundary among what the
  cap chooses from, its own or one from memory that reaches lower (`GatheringReplaces`; the
  chain in memory is of prefixes of the stream, `ChainPrefixes`), and a turn the cap passed
  over has as many newer turns as the cap allows (`NewestAre`): they are named, so it would
  not have been a root before.
  The proof is what showed that the record from memory need not carry the turn's mark.

Only model-checked: `Decode`, and liveness under fairness
(`EngineIsAnswered` of `KvPool` and `DiskTier`, `EveryoneAnswered` of `Scheduler`), which the
prover does not do.

## 7. Plan

Done: the allocator with its proofs; residency and the pool, with proofs of all but
liveness; the disk writer and the disk tier, with proofs of all but liveness;
the scheduler over counts of pages, with proofs of its safety; checkpoints with their
proofs; the store index with its proofs; decoding and its refinement; the pack channel with its refinement proved.

What would add most, in this order:

1. `Scheduler` over `KvPool`: show that `KvPool` grants and refuses pages as `SlotPool`
   says, when pages are shared.
2. Two conversations in `Checkpoints`: the supersede of a keyless manifest by a commit that
   does not name every boundary it did (`kv/pool.rs:3000`), several window regions.
3. Torn appends and a second process in `StoreIndex`.
4. Proofs: `StateIsTheStreams` and `HistoryFollows` of `Decode`, and in `GreedyDecode`, that the
   reply is a prefix of the answer.

## 8. Not modelled

* Most of the repository's lines are kernels, device backends, the model graph, and tools
  that measure and tune them: numerical code whose control is a straight line. The models
  take from it that a forward reads and writes rows through the applied table, and that
  decode steps read one plane and write another.
* The `slot_state_budget` path of `charge_slot` (fixed arenas): a different accounting for
  backends that do not take slot state from the tier.
* Several window regions at once (`claim_region`), snapshots of recurrent state and the
  prompt anchor, tails below a grid step, the host tier of checkpoints.
* CUDA's native sessions and window history, sampling, branch pauses, the choice of a draft
  tree.
* Content hashing (`kv/identity.rs`) and byte layouts (`kv/state.rs`, `kv/tenant.rs`): the
  models take from them that a hash names the whole prefix.
* Signatures, trust, revocation and policy of packs, and Windows.
* `server/host_fit.rs`: arithmetic on measured memory, once at start.
* HTTP, templates, the tokenizer, GGUF, tuning: parsing, formatting and measuring.

## 9. Running it

    tlc -config DiskTier.cfg MCDiskTier.tla
    tlapm DiskTierProofs.tla

The runs take between a second and about two minutes with two workers; of the proof modules
`KvStreamProofs` takes about eight minutes, `KvOwnerProofs` about seven, and `DiskTierProofs`
`SchedulerProofs` and `CheckpointsProofs` up to five on four threads, the others up to two. `PROJECT.json` names module and
configuration of each run, and for each property the mutated definition under which TLC
finds it violated; those forms stand next to the definitions they change, such as
`TakeNewest` beside `Take`. The configurations of section 4 that are not runs are checked
in the same way, against the `MC` module of their component: `tlc -config CkptRewind.cfg
MCCheckpoints.tla`.
