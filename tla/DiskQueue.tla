----------------------------- MODULE DiskQueue -----------------------------
(***************************************************************************)
(* imparo-kv/src/disk.rs over imparo-kv/src/store.rs: the one thread that  *)
(* writes the disk tier, the queue it drains, and the store it writes.     *)
(*                                                                         *)
(* A stream is cut into extents.  An extent hash chains over everything    *)
(* before it, so an extent stands for its rows (the unit file), for the    *)
(* checkpoint blob at its end and for the prefix that ends there.  A       *)
(* manifest is the set of blobs it names, {} when there is no file.        *)
(* Every blob weighs one; what the manifests weigh is left out.  Each file *)
(* operation is one step: a crash falls between two of them.               *)
(***************************************************************************)
EXTENDS Integers, Sequences, FiniteSets

CONSTANTS Conv,     \* conversation labels
          Extent,   \* extent hashes
          Cap,      \* the store's cap, in blobs
          MayFail,  \* the file operations that may return an error
          NoConv    \* no conversation

ASSUME CapAssumption == Cap \in Nat
ASSUME MayFailAssumption == MayFail \subseteq {"unit", "ckpt", "manifest", "sweep"}
ASSUME NoConvAssumption == NoConv \notin Conv

VARIABLES
  disk,          \* unit and checkpoint files
  manifest,      \* the manifest file of each conversation
  touched,       \* the conversations with a manifest, oldest write first
  queue,         \* jobs sent and not yet received by the writer
  writer,        \* the job in hand and how far it has got
  marked,        \* `queued`: blobs handed to the queue and not yet finished
  writing,       \* prefixes of commits on their way to disk, counted
  written,       \* bytes handed to the writer since the last GC walk
  lastTotal,     \* what that walk measured
  pendingError,  \* some job failed since the queue was opened
  reply          \* what the writer acknowledged last, "none" while it has not

storeVars == <<disk, manifest, touched>>
memVars == <<queue, writer, marked, writing, written, lastTotal, pendingError, reply>>
diskVars == <<storeVars, memVars>>

Unit(e) == <<"unit", e>>
Ckpt(e) == <<"ckpt", e>>
Blob == {"unit", "ckpt"} \X Extent

Units(m) == {e \in Extent : Unit(e) \in m}
Ckpts(m) == {e \in Extent : Ckpt(e) \in m}

Job == [op : {"none", "unit", "commit", "erase", "gc", "barrier"},
        conv : Conv \cup {NoConv}, blobs : SUBSET Blob, names : SUBSET Blob,
        over : Conv \cup {NoConv}, ack : BOOLEAN]

Plain(op) == [op |-> op, conv |-> NoConv, blobs |-> {}, names |-> {},
              over |-> NoConv, ack |-> FALSE]
UnitJob(e) == [Plain("unit") EXCEPT !.blobs = {Unit(e)}]
UnitDurableJob(e) == [UnitJob(e) EXCEPT !.ack = TRUE]
(* Superseding is the one commit that is waited for. *)
CommitJob(c, names, blobs, over) ==
  [Plain("commit") EXCEPT !.conv = c, !.names = names, !.blobs = blobs,
                          !.over = over, !.ack = over # NoConv]
EraseJob(c) == [Plain("erase") EXCEPT !.conv = c, !.ack = TRUE]
GcJob == Plain("gc")
BarrierJob == [Plain("barrier") EXCEPT !.ack = TRUE]

Idle == [job |-> Plain("none"), at |-> "idle", left |-> {}, failed |-> FALSE]

(* A fresh queue on whatever the store holds. *)
InitMem ==
  /\ queue = <<>> /\ writer = Idle /\ marked = {}
  /\ writing = [e \in Extent |-> 0]
  /\ written = 0 /\ lastTotal = 0 /\ pendingError = FALSE /\ reply = "none"

InitStore == disk = {} /\ manifest = [c \in Conv |-> {}] /\ touched = <<>>

RestartMem ==
  /\ queue' = <<>> /\ writer' = Idle /\ marked' = {}
  /\ writing' = [e \in Extent |-> 0]
  /\ written' = 0 /\ lastTotal' = 0 /\ pendingError' = FALSE /\ reply' = "none"

-----------------------------------------------------------------------------
(* The sending side.  Marks and counts are in place before the job is.     *)
(* A conversation has one manifest, so it stands in the order once at most. *)
Without(s, c) ==
  IF \E i \in DOMAIN s : s[i] = c
  THEN LET i == CHOOSE i \in DOMAIN s : s[i] = c
       IN  SubSeq(s, 1, i - 1) \o SubSeq(s, i + 1, Len(s))
  ELSE s

InFlight(prefixes) == \E e \in prefixes : writing[e] > 0

Holds(b) == b \in marked \/ b \in disk

(* Leaving the marks to the writer: a second turn queues the blob again.   *)
SendUnmarked(jobs) ==
  /\ queue' = queue \o jobs
  /\ writing' = [e \in Extent |->
       writing[e] + Cardinality({i \in DOMAIN jobs :
                                   jobs[i].op = "commit" /\ Unit(e) \in jobs[i].names})]
  /\ UNCHANGED marked

Send(jobs) ==
  /\ queue' = queue \o jobs
  /\ marked' = marked \cup UNION {jobs[i].blobs : i \in DOMAIN jobs}
  /\ writing' = [e \in Extent |->
       writing[e] + Cardinality({i \in DOMAIN jobs :
                                   jobs[i].op = "commit" /\ Unit(e) \in jobs[i].names})]

-----------------------------------------------------------------------------
(* The writer.  `at` is the next thing it does with the job in hand.       *)
At(stage) == writer.at = stage
GoTo(stage) == writer' = [writer EXCEPT !.at = stage]

Fail(stage) ==
  /\ writer' = [writer EXCEPT !.at = stage, !.failed = TRUE]
  /\ pendingError' = TRUE

FirstStage(op) == CASE op = "unit" -> "write"  [] op = "commit" -> "write"
                    [] op = "erase" -> "erase" [] op = "gc" -> "gc"
                    [] OTHER -> "end"

(* Taking the newest job: an erase overtakes the commits queued before it. *)
TakeNewest ==
  /\ At("idle") /\ queue # <<>>
  /\ LET j == queue[Len(queue)]
     IN  writer' = [job |-> j, at |-> FirstStage(j.op), left |-> j.blobs, failed |-> FALSE]
  /\ queue' = SubSeq(queue, 1, Len(queue) - 1)
  /\ UNCHANGED <<storeVars, marked, writing, written, lastTotal, pendingError, reply>>

Take ==
  /\ At("idle") /\ queue # <<>>
  /\ LET j == Head(queue)
     IN  writer' = [job |-> j, at |-> FirstStage(j.op), left |-> j.blobs, failed |-> FALSE]
  /\ queue' = Tail(queue)
  /\ UNCHANGED <<storeVars, marked, writing, written, lastTotal, pendingError, reply>>

(* put_unit and put_checkpoint write only what is absent.  A failure does  *)
(* not stop the blobs after it.                                            *)
WriteBlob(b) ==
  /\ At("write") /\ b \in writer.left
  /\ written' = written + 1
  /\ \/ /\ disk' = disk \cup {b}
        /\ writer' = [writer EXCEPT !.left = @ \ {b}]
        /\ UNCHANGED pendingError
     \/ /\ b \notin disk /\ b[1] \in MayFail
        /\ writer' = [writer EXCEPT !.left = @ \ {b}, !.failed = TRUE]
        /\ pendingError' = TRUE
        /\ UNCHANGED disk
  /\ UNCHANGED <<manifest, touched, queue, marked, writing, lastTotal, reply>>

(* Counting the commit as finished when its blobs are down.                *)
WroteBlobsAndCounted ==
  /\ At("write") /\ writer.left = {}
  /\ GoTo(IF writer.job.op = "commit" THEN "manifest" ELSE "end")
  /\ writing' = [e \in Extent |->
       IF Unit(e) \in writer.job.names THEN writing[e] - 1 ELSE writing[e]]
  /\ UNCHANGED <<storeVars, queue, marked, written, lastTotal, pendingError, reply>>

WroteBlobs ==
  /\ At("write") /\ writer.left = {}
  /\ GoTo(IF writer.job.op = "commit" THEN "manifest" ELSE "end")
  /\ UNCHANGED <<storeVars, queue, marked, writing, written, lastTotal, pendingError, reply>>

(* The commit line, reached only when every blob of this job was written.  *)
Commit ==
  /\ At("manifest")
  /\ \/ /\ ~writer.failed
        /\ manifest' = [manifest EXCEPT ![writer.job.conv] = writer.job.names]
        /\ touched' = Append(Without(touched, writer.job.conv), writer.job.conv)
        /\ GoTo("count")
        /\ UNCHANGED pendingError
     \/ /\ writer.failed \/ "manifest" \in MayFail
        /\ Fail("count")
        /\ UNCHANGED <<manifest, touched>>
  /\ UNCHANGED <<disk, queue, marked, writing, written, lastTotal, reply>>

(* Counting only what was committed: a failed commit is waited for for good. *)
CountCommitted ==
  /\ At("count")
  /\ writing' = [e \in Extent |->
       IF ~writer.failed /\ Unit(e) \in writer.job.names THEN writing[e] - 1 ELSE writing[e]]
  /\ GoTo("supersede")
  /\ UNCHANGED <<storeVars, queue, marked, written, lastTotal, pendingError, reply>>

(* Wakes wait_for_commits.  After the manifest, so that a lookup held back  *)
(* until now reads it.                                                      *)
Count ==
  /\ At("count")
  /\ writing' = [e \in Extent |->
       IF Unit(e) \in writer.job.names THEN writing[e] - 1 ELSE writing[e]]
  /\ GoTo("supersede")
  /\ UNCHANGED <<storeVars, queue, marked, written, lastTotal, pendingError, reply>>

RemoveThenSweep(c) ==
  \/ /\ manifest' = [manifest EXCEPT ![c] = {}]
     /\ touched' = Without(touched, c)
     /\ GoTo("sweep")
     /\ UNCHANGED <<disk, pendingError>>
  \/ "sweep" \in MayFail /\ Fail("end") /\ UNCHANGED storeVars

(* Superseding whatever became of the replacement.                         *)
SupersedeRegardless ==
  /\ At("supersede")
  /\ LET o == writer.job.over
     IN  IF o # NoConv /\ o # writer.job.conv /\ manifest[o] # {}
         THEN RemoveThenSweep(o)
         ELSE UNCHANGED <<storeVars, pendingError>> /\ GoTo("end")
  /\ UNCHANGED <<queue, marked, writing, written, lastTotal, reply>>

(* The manifest the new one replaces goes, and the sweep follows only when  *)
(* a file was removed.                                                      *)
Supersede ==
  /\ At("supersede")
  /\ LET o == writer.job.over
     IN  IF ~writer.failed /\ o # NoConv /\ o # writer.job.conv /\ manifest[o] # {}
         THEN RemoveThenSweep(o)
         ELSE UNCHANGED <<storeVars, pendingError>> /\ GoTo("end")
  /\ UNCHANGED <<queue, marked, writing, written, lastTotal, reply>>

Erase ==
  /\ At("erase")
  /\ RemoveThenSweep(writer.job.conv)
  /\ UNCHANGED <<queue, marked, writing, written, lastTotal, reply>>

(* A file survives exactly while some manifest names it. *)
Swept(files, m) == files \cap UNION {m[c] : c \in Conv}

(* A sweep that fails has removed some of the files it should. *)
Sweep ==
  /\ At("sweep")
  /\ \/ disk' = Swept(disk, manifest) /\ GoTo("end") /\ UNCHANGED pendingError
     \/ /\ "sweep" \in MayFail
        /\ \E gone \in SUBSET (disk \ Swept(disk, manifest)) : disk' = disk \ gone
        /\ Fail("end")
  /\ UNCHANGED <<manifest, touched, queue, marked, writing, written, lastTotal, reply>>

(* Leaving out what the store held already. *)
HeadroomOfEmpty == Cap

(* A GC that cannot find the store over its cap does not walk it: `written` *)
(* bounds what the store can have grown by.                                 *)
Headroom == IF Cap > lastTotal THEN Cap - lastTotal ELSE 0

GcSkip ==
  /\ At("gc") /\ written < Headroom
  /\ GoTo("end")
  /\ UNCHANGED <<storeVars, queue, marked, writing, written, lastTotal, pendingError, reply>>

GcWalk ==
  /\ At("gc") /\ written >= Headroom
  /\ GoTo("evict")
  /\ UNCHANGED <<storeVars, queue, marked, writing, written, lastTotal, pendingError, reply>>

(* Oldest manifest first; what nothing else names goes with it. *)
GcEvict ==
  /\ At("evict") /\ Cardinality(disk) > Cap /\ touched # <<>>
  /\ manifest' = [manifest EXCEPT ![Head(touched)] = {}]
  /\ touched' = Tail(touched)
  /\ \/ disk' = Swept(disk, manifest') /\ UNCHANGED <<writer, pendingError>>
     \/ /\ "sweep" \in MayFail
        /\ \E gone \in SUBSET (disk \ Swept(disk, manifest')) : disk' = disk \ gone
        /\ Fail("end")
  /\ UNCHANGED <<queue, marked, writing, written, lastTotal, reply>>

GcMeasured ==
  /\ At("evict") /\ (Cardinality(disk) <= Cap \/ touched = <<>>)
  /\ lastTotal' = Cardinality(disk) /\ written' = 0
  /\ GoTo("end")
  /\ UNCHANGED <<storeVars, queue, marked, writing, pendingError, reply>>

(* A barrier that reports its own failures only.                           *)
AnswerOfJob == IF writer.failed THEN "err" ELSE "ok"

(* A barrier answers for every job before it; any other job for itself.    *)
Answer ==
  IF writer.failed \/ (writer.job.op = "barrier" /\ pendingError) THEN "err" ELSE "ok"

(* The marks go when the blobs are down, or have failed and the store is   *)
(* the truth; then whoever waits is told.                                  *)
End ==
  /\ At("end")
  /\ marked' = marked \ writer.job.blobs
  /\ reply' = IF writer.job.ack THEN Answer ELSE reply
  /\ writer' = Idle
  /\ UNCHANGED <<storeVars, queue, writing, written, lastTotal, pendingError>>

WriterStep ==
  \/ Take
  \/ \E b \in Blob : WriteBlob(b)
  \/ WroteBlobs
  \/ Commit
  \/ Count
  \/ Supersede
  \/ Erase
  \/ Sweep
  \/ GcSkip
  \/ GcWalk
  \/ GcEvict
  \/ GcMeasured
  \/ End
=============================================================================
