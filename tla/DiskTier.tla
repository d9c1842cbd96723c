------------------------------ MODULE DiskTier ------------------------------
(***************************************************************************)
(* The holder of the engine lock over DiskQueue: the lookup of begin_to,   *)
(* commit_to_disk at the end of a turn, erase_conversations, the durability *)
(* barrier, evict_oldest_host_to_disk_with, release of an idle             *)
(* conversation, and a crash.  One of them runs at a time; the writer runs *)
(* beside it.  commit_to_disk is one step: between its checks and its      *)
(* sends the writer could only do what it may also do before or after,     *)
(* because nobody else sends.                                              *)
(*                                                                         *)
(* Resident units and disk extents are cut at the same places here.        *)
(***************************************************************************)
EXTENDS DiskQueue

CONSTANTS Stream,      \* the extents of each conversation
          Keyless,     \* conversations whose label derives from their content
          Window,      \* how many newest boundaries a commit looks at again
          Evicting,    \* whether turns end with a GC job
          MaxOps,      \* bound: requests, erases, barriers, spills, releases
          MaxCrashes   \* bound: crashes

ASSUME StreamAssumption == Stream \in [Conv -> Seq(Extent)]
(* Hashes chain: two streams share an extent only with all before it. *)
ASSUME ChainAssumption ==
  \A c, d \in Conv : \A i \in DOMAIN Stream[c], j \in DOMAIN Stream[d] :
    Stream[c][i] = Stream[d][j] =>
      i = j /\ SubSeq(Stream[c], 1, i) = SubSeq(Stream[d], 1, i)
ASSUME WindowAssumption == Window \in Nat \ {0}
ASSUME EvictingAssumption == Evicting \in BOOLEAN

VARIABLES
  resident,  \* conversations the pool has a record of
  history,   \* how many extents of its stream each conversation has reached
  open,      \* where the turn being decoded will end, 0 when none is
  kept,      \* disk_ckpts: boundaries it believes it has on disk
  adopted,   \* the keyless manifest it was restored from and will replace
  eng,       \* what the holder of the lock is doing, and has read so far
  sent,      \* history variable: the manifest last handed to the queue
  ops, crashes

poolVars == <<resident, history, open, kept, adopted>>
vars == <<diskVars, poolVars, eng, sent, ops, crashes>>

Free == [at |-> "free", conv |-> NoConv, held |-> 0, upto |-> 0,
         from |-> NoConv, names |-> {}]

Init ==
  /\ InitStore /\ InitMem
  /\ resident = {} /\ history = [c \in Conv |-> 0] /\ open = [c \in Conv |-> 0]
  /\ kept = [c \in Conv |-> {}] /\ adopted = [c \in Conv |-> NoConv]
  /\ eng = Free
  /\ sent = [c \in Conv |-> {}] /\ ops = 0 /\ crashes = 0

Between(c, m, n) == {Stream[c][i] : i \in (m + 1)..n}
Through(c, n) == Between(c, 0, n)

Engine(at) == eng.at = at
Operate == eng = Free /\ ops < MaxOps /\ ops' = ops + 1 /\ UNCHANGED crashes
Continue == UNCHANGED <<ops, crashes>>

(* The record of a conversation goes; what the client holds does not. *)
Drop(c) ==
  /\ resident' = resident \ {c}
  /\ kept' = [kept EXCEPT ![c] = {}]
  /\ adopted' = [adopted EXCEPT ![c] = NoConv]

-----------------------------------------------------------------------------
(* begin_to.  The prompt brings the stream up to p; the turn will end one  *)
(* extent later.  h is the deepest boundary a resident checkpoint offers:  *)
(* this conversation's or one it shares a prefix with, or none, because     *)
(* checkpoints are dropped from memory one by one.                          *)
Resident(c, h) == \E d \in resident : h <= history[d] /\ Stream[d][h] = Stream[c][h]

Begin(c, p, h) ==
  /\ Operate
  /\ open[c] = 0
  /\ p \in history[c]..(Len(Stream[c]) - 1)
  /\ h \in 0..p /\ (h > 0 => Resident(c, h))
  /\ eng' = [Free EXCEPT !.at = "lookup", !.conv = c, !.held = h, !.upto = p]
  /\ UNCHANGED <<diskVars, poolVars, sent>>

(* A boundary a manifest can be restored at: its extents are named and on   *)
(* disk, and so is every checkpoint named at it or below.                   *)
Restorable(d, c, n) ==
  LET below == Through(c, n)
  IN  /\ {Unit(e) : e \in below} \cup {Ckpt(Stream[c][n])} \subseteq manifest[d]
      /\ {b \in manifest[d] : b[2] \in below} \subseteq disk

Candidates ==
  {n \in (eng.held + 1)..eng.upto : \E d \in Conv : Restorable(d, eng.conv, n)}

(* Looking the store up while a commit that reaches deeper is on its way.  *)
WaitForNothing == TRUE

WaitForCommits == ~InFlight(Between(eng.conv, eng.held, eng.upto))

Enter(c, p) ==
  /\ open' = [open EXCEPT ![c] = p + 1]
  /\ resident' = resident \cup {c}
  /\ eng' = Free

(* Nothing deeper than residency: the rest is prefilled. *)
LookUpNothing ==
  /\ Engine("lookup") /\ WaitForCommits
  /\ Candidates = {}
  /\ Enter(eng.conv, eng.upto)
  /\ adopted' = [adopted EXCEPT ![eng.conv] = NoConv]
  /\ Continue
  /\ UNCHANGED <<diskVars, history, kept, sent>>

(* The deepest boundary is chosen and its checkpoints are read; the extents *)
(* are only known to exist.                                                 *)
LookUp ==
  /\ Engine("lookup") /\ WaitForCommits
  /\ \E n \in Candidates, d \in Conv :
       /\ \A m \in Candidates : m <= n
       /\ Restorable(d, eng.conv, n)
       /\ eng' = [eng EXCEPT !.at = "read", !.from = d,
                    !.names = {b \in manifest[d] : b[1] = "ckpt" \/ b[2] \in Through(eng.conv, n)}]
  /\ Continue
  /\ UNCHANGED <<diskVars, poolVars, sent>>

ExtentsThere == {b \in eng.names : b[1] = "unit"} \subseteq disk

(* The manifest's boundaries are taken over with it, and a keyless manifest *)
(* under another name is to be replaced.                                    *)
ReadExtents ==
  /\ Engine("read") /\ ExtentsThere
  /\ Enter(eng.conv, eng.upto)
  /\ kept' = [kept EXCEPT ![eng.conv] = Ckpts(eng.names)]
  /\ adopted' = [adopted EXCEPT ![eng.conv] =
       IF {eng.conv, eng.from} \subseteq Keyless /\ eng.conv # eng.from
       THEN eng.from ELSE NoConv]
  /\ Continue
  /\ UNCHANGED <<diskVars, history, sent>>

(* An extent swept since it was looked up: begin_to returns the error. *)
ReadMissing ==
  /\ Engine("read") /\ ~ExtentsThere
  /\ eng' = Free
  /\ Continue
  /\ UNCHANGED <<diskVars, poolVars, sent>>

-----------------------------------------------------------------------------
(* commit_to_disk, at the end of a turn.                                   *)
(* A unit job for each extent not held, in the stream's order.              *)
FreshUnits(c, n) ==
  LET absent == {i \in 1..n : ~Holds(Unit(Stream[c][i]))}
      inOrder == {f \in [1..Cardinality(absent) -> absent] :
                    \A i, j \in DOMAIN f : i < j => f[i] < f[j]}
  IN  {[i \in DOMAIN f |-> UnitJob(Stream[c][f[i]])] : f \in inOrder}

(* The boundaries that cover a window back from the newest, which are       *)
(* looked at one by one; an older one is named again as remembered.         *)
Chain(c, n) == Between(c, IF n > Window THEN n - Window ELSE 0, n)
Boundaries(c, n) == (kept[c] \cap Through(c, n)) \cup Chain(c, n)
(* Taking the remembered boundaries for written, without asking.           *)
FreshCkptsByMemory(c, n) == {Ckpt(e) : e \in Chain(c, n) \ kept[c]}

FreshCkpts(c, n) == {Ckpt(e) : e \in {x \in Chain(c, n) : ~Holds(Ckpt(x))}}

Names(c, n) ==
  {Unit(e) : e \in Through(c, n)} \cup {Ckpt(e) : e \in Boundaries(c, n)}

Collect == IF Evicting THEN <<GcJob>> ELSE <<>>

EndTurn(c) ==
  /\ eng = Free /\ open[c] > 0
  /\ LET n == open[c]
         job == CommitJob(c, Names(c, n), FreshCkpts(c, n), adopted[c])
     IN  \E units \in FreshUnits(c, n) :
         /\ sent' = [sent EXCEPT ![c] = job.names]
         /\ IF adopted[c] = NoConv
            THEN /\ Send(units \o <<job>> \o Collect)
                 /\ kept' = [kept EXCEPT ![c] = Ckpts(job.names)]
                 /\ UNCHANGED <<eng, reply>>
            ELSE /\ Send(units \o <<job>>)
                 /\ eng' = [Free EXCEPT !.at = "commit", !.conv = c, !.names = job.names]
                 /\ reply' = "none"
                 /\ UNCHANGED kept
  /\ history' = [history EXCEPT ![c] = open[c]]
  /\ open' = [open EXCEPT ![c] = 0]
  /\ Continue
  /\ UNCHANGED <<storeVars, writer, written, lastTotal, pendingError, resident, adopted>>

(* The superseding commit was waited for; on its error nothing is noted. *)
Superseded ==
  /\ Engine("commit") /\ reply # "none"
  /\ IF reply = "ok"
     THEN /\ kept' = [kept EXCEPT ![eng.conv] = Ckpts(eng.names)]
          /\ sent' = [sent EXCEPT ![adopted[eng.conv]] = {}]
          /\ adopted' = [adopted EXCEPT ![eng.conv] = NoConv]
          /\ Send(Collect)
     ELSE UNCHANGED <<kept, sent, adopted, queue, marked, writing>>
  /\ eng' = Free
  /\ Continue
  /\ UNCHANGED <<storeVars, writer, written, lastTotal, pendingError, reply,
                 resident, history, open>>

-----------------------------------------------------------------------------
(* One job sent and waited for. *)
Ask(at, c, job) ==
  /\ Send(<<job>>)
  /\ reply' = "none"
  /\ eng' = [Free EXCEPT !.at = at, !.conv = c]
  /\ UNCHANGED <<storeVars, writer, written, lastTotal, pendingError>>

(* erase_conversations: refused while a request runs; the pool forgets the  *)
(* conversation before the store does.                                      *)
EraseConversation(c) ==
  /\ Operate
  /\ open[c] = 0
  /\ Drop(c)
  /\ history' = [history EXCEPT ![c] = 0]
  /\ Ask("erase", c, EraseJob(c))
  /\ UNCHANGED <<open, sent>>

Erased ==
  /\ Engine("erase") /\ reply # "none"
  /\ sent' = IF reply = "ok" THEN [sent EXCEPT ![eng.conv] = {}] ELSE sent
  /\ eng' = Free
  /\ Continue
  /\ UNCHANGED <<diskVars, poolVars>>

(* The durability barrier, and the one at shutdown. *)
Drain ==
  /\ Operate
  /\ Ask("drain", NoConv, BarrierJob)
  /\ UNCHANGED <<poolVars, sent>>

Drained ==
  /\ Engine("drain") /\ reply # "none"
  /\ eng' = Free
  /\ Continue
  /\ UNCHANGED <<diskVars, poolVars, sent>>

-----------------------------------------------------------------------------
(* evict_oldest_host_to_disk_with: each last copy is made durable in turn,  *)
(* and only then is the conversation forgotten.                             *)
Spill(c) ==
  /\ Operate
  /\ c \in resident /\ open[c] = 0 /\ history[c] > 0
  /\ eng' = [Free EXCEPT !.at = "spill", !.conv = c, !.upto = 1]
  /\ UNCHANGED <<diskVars, poolVars, sent>>

SpillUnit ==
  /\ Engine("spill") /\ eng.upto <= history[eng.conv]
  /\ LET e == Stream[eng.conv][eng.upto]
     IN  IF Unit(e) \in disk
         THEN /\ eng' = [eng EXCEPT !.upto = @ + 1]
              /\ UNCHANGED diskVars
         ELSE /\ Send(<<UnitDurableJob(e)>>)
              /\ eng' = [eng EXCEPT !.at = "durable"]
              /\ reply' = "none"
              /\ UNCHANGED <<storeVars, writer, written, lastTotal, pendingError>>
  /\ Continue
  /\ UNCHANGED <<poolVars, sent>>

(* A failed write leaves the conversation where it is. *)
Durable ==
  /\ Engine("durable") /\ reply # "none"
  /\ eng' = IF reply = "ok" THEN [eng EXCEPT !.at = "spill", !.upto = @ + 1] ELSE Free
  /\ Continue
  /\ UNCHANGED <<diskVars, poolVars, sent>>

Spilled ==
  /\ Engine("spill") /\ eng.upto > history[eng.conv]
  /\ Drop(eng.conv)
  /\ eng' = Free
  /\ Continue
  /\ UNCHANGED <<diskVars, history, open, sent>>

(* release_idle and trim on shared addressing: an idle conversation leaves, *)
(* its commit on disk or still on its way there.                            *)
Release(c) ==
  /\ Operate
  /\ c \in resident /\ open[c] = 0
  /\ Drop(c)
  /\ UNCHANGED <<diskVars, history, open, eng, sent>>

-----------------------------------------------------------------------------
(* The process dies and starts again: the files stay, all else is gone.  A  *)
(* client whose turn was lost sends its prompt again.                       *)
Crash ==
  /\ crashes < MaxCrashes
  /\ crashes' = crashes + 1
  /\ RestartMem
  /\ resident' = {} /\ open' = [c \in Conv |-> 0]
  /\ kept' = [c \in Conv |-> {}] /\ adopted' = [c \in Conv |-> NoConv]
  /\ eng' = Free
  /\ sent' = manifest
  /\ UNCHANGED <<storeVars, history, ops>>

Writer == WriterStep /\ UNCHANGED <<poolVars, eng, sent, ops, crashes>>

Request ==
  \/ \E c \in Conv : \E p, h \in 0..Len(Stream[c]) : Begin(c, p, h)
  \/ LookUpNothing
  \/ LookUp
  \/ ReadExtents
  \/ ReadMissing
  \/ \E c \in Conv : EndTurn(c)
  \/ Superseded

Maintenance ==
  \/ \E c \in Conv : EraseConversation(c)
  \/ Erased
  \/ Drain
  \/ Drained
  \/ \E c \in Conv : Spill(c)
  \/ SpillUnit
  \/ Durable
  \/ Spilled
  \/ \E c \in Conv : Release(c)

(* Nothing left to do within the bounds. *)
Quiescent ==
  /\ ops = MaxOps /\ eng = Free /\ At("idle") /\ queue = <<>>
  /\ \A c \in Conv : open[c] = 0
  /\ UNCHANGED vars

Next == Writer \/ Request \/ Maintenance \/ Crash \/ Quiescent

(* The writer is a thread of its own that never waits for the lock, and the *)
(* holder of the lock goes on once it is answered.                          *)
Fairness ==
  /\ WF_vars(Writer)
  /\ WF_vars(LookUpNothing \/ LookUp \/ ReadExtents \/ ReadMissing \/ Superseded
               \/ Erased \/ Drained \/ SpillUnit \/ Durable \/ Spilled)

Spec == Init /\ [][Next]_vars /\ Fairness
-----------------------------------------------------------------------------
TypeOK ==
  /\ disk \subseteq Blob
  /\ manifest \in [Conv -> SUBSET Blob]
  /\ touched \in Seq(Conv)
  /\ queue \in Seq(Job)
  /\ writer.job \in Job /\ writer.left \subseteq Blob /\ writer.failed \in BOOLEAN
  /\ marked \subseteq Blob
  /\ writing \in [Extent -> Nat]
  /\ written \in Nat /\ lastTotal \in Nat
  /\ pendingError \in BOOLEAN /\ reply \in {"none", "ok", "err"}
  /\ resident \subseteq Conv
  /\ \A c \in Conv : history[c] \in 0..Len(Stream[c]) /\ open[c] \in 0..Len(Stream[c])
  /\ kept \in [Conv -> SUBSET Extent]
  /\ adopted \in [Conv -> Conv \cup {NoConv}]
  /\ sent \in [Conv -> SUBSET Blob]

(* The jobs not finished: in the queue, or in hand. *)
Pending == {queue[i] : i \in DOMAIN queue} \cup (IF At("idle") THEN {} ELSE {writer.job})

(* Every manifest names only files that are there, at every moment a crash  *)
(* could fall on (Store::commit: "every blob it names must already be on    *)
(* disk").                                                                  *)
ManifestComplete == \A c \in Conv : manifest[c] \subseteq disk

(* A commit is counted from before it is queued until its manifest is down, *)
(* and once each: what wait_for_commits relies on to wait, and to stop.     *)
UncountedYet == writer.job.op = "commit" /\ writer.at \in {"write", "manifest", "count"}

WritingCounts ==
  \A e \in Extent :
    writing[e] = Cardinality({i \in DOMAIN queue : queue[i].op = "commit"
                                                   /\ Unit(e) \in queue[i].names})
                 + IF UncountedYet /\ Unit(e) \in writer.job.names THEN 1 ELSE 0

(* A blob not yet written is marked whenever a turn may ask, so that it is  *)
(* not queued twice; and a mark never outlives its job, or a blob that      *)
(* failed would be believed written for good.                               *)
MarksArePending ==
  /\ eng = Free => \A j \in Pending : j.blobs \subseteq marked \cup disk
  /\ marked \subseteq UNION {j.blobs : j \in Pending}

(* The books an asking turn goes by are those of the queue as it is.        *)
BooksExact == WritingCounts /\ MarksArePending

(* A conversation erased does not come back: no commit of it queued before  *)
(* the erase lands after it.                                                *)
EraseIsFinal ==
  eng = Free => \A c \in Conv : sent[c] = {} => manifest[c] = {}

(* A barrier that says durable: everything handed over before it is on      *)
(* disk under the manifest last sent, however long ago a write failed.      *)
BarrierMeansDurable ==
  Engine("drain") /\ reply = "ok" => \A c \in Conv : sent[c] # {} => manifest[c] = sent[c]

(* A return visit finds what its conversation, or one it shares a prefix    *)
(* with, last committed: with no failure the lookup stands at least as deep *)
(* as the deepest boundary any live commit named.                           *)
ReturnFindsItsCommit ==
  Engine("lookup") /\ WaitForCommits /\ ~pendingError =>
    \A n \in (eng.held + 1)..eng.upto :
      (\E c \in Conv : {Ckpt(Stream[eng.conv][n]), Unit(Stream[eng.conv][n])} \subseteq sent[c])
        => n \in Candidates

(* A manifest is only ever superseded by a commit whose own manifest is     *)
(* down, with everything it names.                                          *)
ReplacementFirst ==
  [][\A c \in Conv :
       (At("supersede") /\ manifest[c] # {} /\ manifest'[c] = {}) =>
         manifest[writer.job.conv] = writer.job.names /\ writer.job.names \subseteq disk]_vars

(* The store has grown by no more than `written` since it was measured: why *)
(* a skipped walk could not have found it over its cap.                     *)
GrowthBounded == Cardinality(disk) <= lastTotal + written

(* A GC job, walked or skipped, leaves the store within its cap, or with no *)
(* conversation left to evict.                                              *)
CapRespected ==
  At("end") /\ writer.job.op = "gc" /\ ~writer.failed =>
    Cardinality(disk) <= Cap \/ touched = <<>>

(* The cap is kept: a walk is skipped only when it could have found nothing, *)
(* and one that runs does what the cap asks.                                *)
CapKept == GrowthBounded /\ CapRespected

(* The holder of the lock is always answered, whatever failed on the way.   *)
EngineIsAnswered == []<>(eng = Free)
=============================================================================
