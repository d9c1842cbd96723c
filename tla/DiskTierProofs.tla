--------------------------- MODULE DiskTierProofs ---------------------------
(* DiskTier for every set of conversations, streams that chain, cap, set of *)
(* file operations that fail, and bounds: what was erased stays erased, a   *)
(* barrier tells the truth, the books of marks and counts are exact, the    *)
(* cap is kept, and, on a store that is not capped while it runs and whose  *)
(* blobs land, a manifest names only what is there.                         *)
EXTENDS DiskTier, Functions, FiniteSetTheorems, WellFoundedInduction, TLAPS

Stage == {"idle", "write", "manifest", "count", "supersede", "erase", "sweep", "gc", "evict",
          "end"}
Waiting == {"commit", "erase", "drain", "durable"}
EngineStage == {"free", "lookup", "read", "spill"} \cup Waiting

-----------------------------------------------------------------------------
(* What the steps read has its type, and a cut lies on its stream.          *)
QueueTyped ==
  /\ queue \in Seq(Job)
  /\ writer \in [job : Job, at : Stage, left : SUBSET Blob, failed : BOOLEAN]
  /\ reply \in {"none", "ok", "err"}
  /\ manifest \in [Conv -> SUBSET Blob]

PoolTyped ==
  /\ kept \in [Conv -> SUBSET Extent]
  /\ adopted \in [Conv -> Conv \cup {NoConv}]
  /\ sent \in [Conv -> SUBSET Blob]
  /\ history \in [Conv -> Nat] /\ open \in [Conv -> Nat]
  /\ \A c \in Conv : history[c] <= Len(Stream[c]) /\ open[c] <= Len(Stream[c])
  /\ \A c \in Conv : adopted[c] # c

EngineTyped ==
  /\ eng \in [at : EngineStage, conv : Conv \cup {NoConv}, held : Nat, upto : Nat,
              from : Conv \cup {NoConv}, names : SUBSET Blob]
  /\ eng.at \notin {"free", "drain"} => eng.conv \in Conv
  /\ eng.at \in {"lookup", "read"} => eng.upto < Len(Stream[eng.conv])
  /\ eng.at = "read" => eng.from \in Conv
  /\ eng.at \in {"spill", "durable"} => 1 <= eng.upto
  /\ eng.at = "durable" => eng.upto <= history[eng.conv]

Typed == QueueTyped /\ PoolTyped /\ EngineTyped

-----------------------------------------------------------------------------
(* The stage of the writer fits the job in hand, commits and erases are of  *)
(* a conversation, and what removes a manifest is waited for.               *)
WellFormed(j) ==
  /\ j.op \in {"commit", "erase"} => j.conv \in Conv
  /\ j.op = "erase" => j.ack
  /\ j.op = "commit" /\ j.over # NoConv => j.ack

Staged ==
  /\ \A i \in DOMAIN queue : WellFormed(queue[i])
  /\ WellFormed(writer.job)
  /\ At("write") => writer.job.op \in {"unit", "commit"}
  /\ writer.at \in {"manifest", "count", "supersede"} => writer.job.op = "commit"
  /\ At("erase") => writer.job.op = "erase"
  /\ At("sweep") => writer.job.op \in {"erase", "commit"}
  /\ writer.at \in {"gc", "evict"} => writer.job.op = "gc"

(* The job the holder of the lock waits for is the last one pending, and    *)
(* the only one that acknowledges.                                          *)
Asked(j, e, over) ==
  /\ j.ack
  /\ e.at = "erase" => j.op = "erase" /\ j.conv = e.conv
  /\ e.at = "commit" => j.op = "commit" /\ j.conv = e.conv /\ j.over = over[e.conv]
  /\ e.at = "drain" => j.op = "barrier"
  /\ e.at = "durable" => j.op = "unit"

Unanswered == eng.at \in Waiting /\ reply = "none"

InLine ==
  /\ \A i \in DOMAIN queue :
       queue[i].ack => i = Len(queue) /\ Unanswered /\ Asked(queue[i], eng, adopted)
  /\ ~At("idle") /\ writer.job.ack => queue = <<>> /\ Unanswered /\ Asked(writer.job, eng, adopted)
  /\ Unanswered =>
       IF queue # <<>> THEN queue[Len(queue)].ack ELSE ~At("idle") /\ writer.job.ack
  /\ eng.at \in Waiting /\ reply # "none" => queue = <<>> /\ At("idle")
  /\ eng.at = "commit" => adopted[eng.conv] # NoConv

(* What a job that removes a manifest has done by its sweep.                *)
Removes(c) ==
  \/ writer.job.op = "erase" /\ writer.job.conv = c
  \/ writer.job.op = "commit" /\ writer.job.over = c /\ writer.job.conv # c

Removed ==
  /\ \A c \in Conv : At("sweep") \/ (At("end") /\ ~writer.failed) =>
       (Removes(c) => manifest[c] = {})
  /\ reply = "ok" =>
       /\ eng.at = "erase" => manifest[eng.conv] = {}
       /\ eng.at = "commit" => manifest[adopted[eng.conv]] = {}

(* While nothing is known of a conversation, it has no manifest and no      *)
(* commit that would give it one.                                           *)
ToCome(c) ==
  \/ \E i \in DOMAIN queue : queue[i].op = "commit" /\ queue[i].conv = c
  \/ writer.at \in {"write", "manifest"} /\ writer.job.op = "commit" /\ writer.job.conv = c

Forgotten == \A c \in Conv : sent[c] = {} => manifest[c] = {} /\ ~ToCome(c)

(* The conversation whose manifest the job asked for removes.               *)
BeingRemoved(c) == \/ eng.at = "erase" /\ eng.conv = c
                   \/ eng.at = "commit" /\ adopted[eng.conv] = c

(* What a step of the holder of the lock does to the queue: it sends jobs   *)
(* of its own, and waits for the last of them or for none.                  *)
EngineStep(jobs) ==
  /\ queue' = queue \o jobs /\ UNCHANGED <<writer, manifest, pendingError>>
  /\ \A i \in DOMAIN jobs :
       /\ WellFormed(jobs[i])
       /\ jobs[i].op = "commit" => /\ sent'[jobs[i].conv] # {}
                                   /\ sent'[jobs[i].conv] = jobs[i].names
       /\ jobs[i].op = "gc" => Evicting
       /\ jobs[i].ack => i = Len(jobs) /\ eng'.at \in Waiting
  /\ ~Unanswered
  /\ IF eng'.at \in Waiting
     THEN /\ reply' = "none"
          /\ jobs # <<>> /\ Asked(jobs[Len(jobs)], eng', adopted')
          /\ eng'.at = "commit" => adopted'[eng'.conv] # NoConv
     ELSE reply' = reply
  /\ \A c \in Conv :
       IF reply = "ok" /\ BeingRemoved(c)
       THEN sent'[c] = {}
       ELSE \/ sent'[c] = sent[c]
            \/ \E i \in DOMAIN jobs : jobs[i].op = "commit" /\ jobs[i].conv = c


-----------------------------------------------------------------------------
(* The jobs a turn and the other requests send.                             *)
LEMMA JobTyped ==
  /\ \A e \in Extent : /\ UnitJob(e) \in Job /\ UnitJob(e).op = "unit" /\ ~UnitJob(e).ack
                       /\ UnitDurableJob(e) \in Job /\ UnitDurableJob(e).op = "unit"
                       /\ UnitDurableJob(e).ack
  /\ \A c \in Conv : /\ EraseJob(c) \in Job /\ EraseJob(c).op = "erase"
                     /\ EraseJob(c).conv = c /\ EraseJob(c).ack
  /\ GcJob \in Job /\ GcJob.op = "gc" /\ ~GcJob.ack
  /\ BarrierJob \in Job /\ BarrierJob.op = "barrier" /\ BarrierJob.ack
  /\ Plain("none") \in Job
<1>1. ASSUME NEW e \in Extent
      PROVE  /\ UnitJob(e) \in Job /\ UnitJob(e).op = "unit" /\ ~UnitJob(e).ack
             /\ UnitDurableJob(e) \in Job /\ UnitDurableJob(e).op = "unit"
             /\ UnitDurableJob(e).ack
  <2>1. {Unit(e)} \in SUBSET Blob
    BY DEF Unit, Blob
  <2>2. /\ UnitJob(e) \in Job /\ UnitJob(e).op = "unit" /\ ~UnitJob(e).ack
        /\ UnitJob(e).blobs = {Unit(e)}
    BY <2>1 DEF UnitJob, Plain, Job
  <2> QED
    BY <2>2 DEF UnitDurableJob, Job
<1>2. ASSUME NEW c \in Conv
      PROVE  EraseJob(c) \in Job /\ EraseJob(c).op = "erase" /\ EraseJob(c).conv = c
               /\ EraseJob(c).ack
  BY DEF EraseJob, Plain, Job
<1>3. \A op \in {"none", "gc"} : Plain(op) \in Job /\ Plain(op).op = op /\ ~Plain(op).ack
  BY DEF Plain, Job
<1>4. BarrierJob \in Job /\ BarrierJob.op = "barrier" /\ BarrierJob.ack
  BY DEF BarrierJob, Plain, Job
<1> QED
  BY <1>1, <1>2, <1>3, <1>4 DEF GcJob

(* The commit of a turn; it is waited for when it supersedes.               *)
LEMMA CommitTyped ==
  ASSUME NEW c \in Conv, NEW names \in SUBSET Blob, NEW blobs \in SUBSET Blob,
         NEW o \in Conv \cup {NoConv}
  PROVE  LET j == CommitJob(c, names, blobs, o)
         IN  /\ j \in Job /\ j.op = "commit" /\ j.conv = c /\ j.names = names
             /\ j.blobs = blobs /\ j.over = o /\ (j.ack <=> o # NoConv)
BY DEF CommitJob, Plain, Job

(* Extents below a cut of a stream.                                         *)
LEMMA OnStream ==
  ASSUME NEW c \in Conv, NEW n \in Nat, n <= Len(Stream[c])
  PROVE  /\ \A i \in 1 .. n : Stream[c][i] \in Extent
         /\ \A m \in Nat : Between(c, m, n) \subseteq Extent
         /\ Through(c, n) \subseteq Extent
<1>1. Stream[c] \in Seq(Extent)
  BY StreamAssumption
<1>2. \A i \in 1 .. n : Stream[c][i] \in Extent
  BY <1>1
<1>3. \A m \in Nat : Between(c, m, n) \subseteq Extent
  BY <1>2 DEF Between
<1> QED
  BY <1>2, <1>3 DEF Through

(* The unit jobs of a turn.                                                 *)
LEMMA FreshTyped ==
  ASSUME NEW c \in Conv, NEW n \in Nat, n <= Len(Stream[c]), NEW units \in FreshUnits(c, n)
  PROVE  /\ units \in Seq(Job)
         /\ \A i \in DOMAIN units : units[i].op = "unit" /\ ~units[i].ack
<1> DEFINE absent == {i \in 1 .. n : ~Holds(Unit(Stream[c][i]))}
<1>1. Cardinality(absent) \in Nat
  <2>1. IsFiniteSet(1 .. n)
    BY FS_Interval
  <2>2. IsFiniteSet(absent)
    BY <2>1, FS_Subset
  <2> QED
    BY <2>2, FS_CardinalityType
<1>2. PICK f \in [1 .. Cardinality(absent) -> absent] :
        units = [i \in DOMAIN f |-> UnitJob(Stream[c][f[i]])]
  BY DEF FreshUnits
<1>3. \A i \in DOMAIN f : Stream[c][f[i]] \in Extent
  BY <1>2, OnStream
<1>4. \A i \in DOMAIN f : units[i] = UnitJob(Stream[c][f[i]])
  BY <1>2
<1>5. \A i \in DOMAIN units : units[i] \in Job /\ units[i].op = "unit" /\ ~units[i].ack
  BY <1>2, <1>3, <1>4, JobTyped
<1>6. units \in [1 .. Cardinality(absent) -> Job]
  BY <1>2, <1>5
<1>7. \A k \in Nat : [1 .. k -> Job] \subseteq Seq(Job)
  OBVIOUS
<1>8. units \in Seq(Job)
  BY <1>1, <1>6, <1>7
<1> QED
  BY <1>5, <1>8

(* What its manifest names, never nothing.                                  *)
LEMMA NamesTyped ==
  ASSUME NEW c \in Conv, NEW n \in Nat, n <= Len(Stream[c])
  PROVE  /\ Names(c, n) \subseteq Blob /\ FreshCkpts(c, n) \subseteq Blob
         /\ n > 0 => Names(c, n) # {}
<1>1. Chain(c, n) \subseteq Extent
  <2>1. CASE n > Window
    BY <2>1, OnStream, WindowAssumption DEF Chain
  <2>2. CASE ~(n > Window)
    BY <2>2, OnStream DEF Chain
  <2> QED
    BY <2>1, <2>2
<1>2. Through(c, n) \subseteq Extent
  BY OnStream
<1>3. n > 0 => Unit(Stream[c][1]) \in Names(c, n)
  BY DEF Names, Through, Between
<1>4. \A e \in Extent : Unit(e) \in Blob /\ Ckpt(e) \in Blob
  BY DEF Unit, Ckpt, Blob
<1>5. Boundaries(c, n) \subseteq Extent
  BY <1>1, <1>2 DEF Boundaries
<1>6. Names(c, n) \subseteq Blob
  BY <1>2, <1>4, <1>5 DEF Names
<1>7. FreshCkpts(c, n) \subseteq Blob
  BY <1>1, <1>4 DEF FreshCkpts
<1> QED
  BY <1>3, <1>6, <1>7

-----------------------------------------------------------------------------
(* The types hold at the start.                                             *)
LEMMA TypedInitially == Init => Typed
<1>1. Init => QueueTyped
  BY JobTyped DEF Init, InitStore, InitMem, QueueTyped, Idle, Stage
<1>2. Init => PoolTyped
  <2>1. \A c \in Conv : Len(Stream[c]) \in Nat
    BY StreamAssumption
  <2> QED
    BY <2>1, NoConvAssumption DEF Init, PoolTyped
<1>3. Init => EngineTyped
  BY DEF Init, EngineTyped, Free, EngineStage
<1> QED
  BY <1>1, <1>2, <1>3 DEF Typed

(* The writer keeps the types of the queue and of the store.                *)
LEMMA WriterTyped ==
  ASSUME QueueTyped, Staged, WriterStep
  PROVE  QueueTyped'
<1> USE DEF QueueTyped, Stage, At, GoTo
<1>1. CASE Take
  <2>1. queue # <<>> /\ Head(queue) \in Job /\ Tail(queue) \in Seq(Job)
    BY <1>1 DEF Take
  <2>2. Head(queue).blobs \in SUBSET Blob
    BY <2>1 DEF Job
  <2>3. FirstStage(Head(queue).op) \in Stage
    BY DEF FirstStage
  <2> QED
    BY <1>1, <2>1, <2>2, <2>3 DEF Take, storeVars
<1>2. ASSUME NEW b \in Blob, WriteBlob(b) PROVE QueueTyped'
  BY <1>2 DEF WriteBlob
<1>3. CASE WroteBlobs
  BY <1>3 DEF WroteBlobs, storeVars
<1>4. CASE Commit
  <2>1. writer.job.names \in SUBSET Blob
    BY DEF Job
  <2> QED
    BY <1>4, <2>1 DEF Commit, Fail
<1>5. CASE Count
  BY <1>5 DEF Count, storeVars
<1>6. ASSUME NEW c, RemoveThenSweep(c),
             UNCHANGED <<queue, marked, writing, written, lastTotal, reply>>
      PROVE  QueueTyped'
  BY <1>6 DEF RemoveThenSweep, Fail, storeVars
<1>7. CASE Supersede
  BY <1>6, <1>7 DEF Supersede, storeVars
<1>8. CASE Erase
  BY <1>6, <1>8 DEF Erase
<1>9. CASE Sweep
  BY <1>9 DEF Sweep, Fail
<1>10. CASE GcSkip \/ GcWalk
  BY <1>10 DEF GcSkip, GcWalk, storeVars
<1>11. CASE GcEvict
  BY <1>11 DEF GcEvict, Fail
<1>12. CASE GcMeasured
  BY <1>12 DEF GcMeasured, storeVars
<1>13. CASE End
  BY <1>13, JobTyped DEF End, Answer, Idle, storeVars
<1> QED
  BY <1>1, <1>2, <1>3, <1>4, <1>5, <1>7, <1>8, <1>9, <1>10, <1>11, <1>12, <1>13 DEF WriterStep

(* A turn that ends sends well-typed jobs.                                  *)
LEMMA EndTurnTyped ==
  ASSUME Typed, NEW c \in Conv, EndTurn(c)
  PROVE  Typed'
<1> DEFINE n == open[c]
           job == CommitJob(c, Names(c, n), FreshCkpts(c, n), adopted[c])
<1>1. n \in Nat /\ n <= Len(Stream[c]) /\ adopted[c] \in Conv \cup {NoConv}
  BY DEF Typed, PoolTyped
<1>2. Names(c, n) \in SUBSET Blob /\ FreshCkpts(c, n) \in SUBSET Blob
  BY <1>1, NamesTyped
<1>3. job \in Job /\ job.names = Names(c, n)
  BY <1>1, <1>2, CommitTyped
<1>4. PICK units \in FreshUnits(c, n) :
         /\ sent' = [sent EXCEPT ![c] = job.names]
         /\ IF adopted[c] = NoConv
            THEN /\ Send(units \o <<job>> \o Collect)
                 /\ kept' = [kept EXCEPT ![c] = Ckpts(job.names)]
                 /\ UNCHANGED <<eng, reply>>
            ELSE /\ Send(units \o <<job>>)
                 /\ eng' = [Free EXCEPT !.at = "commit", !.conv = c, !.names = job.names]
                 /\ reply' = "none"
                 /\ UNCHANGED kept
  BY DEF EndTurn
<1>5. units \in Seq(Job)
  BY <1>1, FreshTyped
<1>6. Collect \in Seq(Job)
  BY JobTyped DEF Collect
<1>7. units \o <<job>> \in Seq(Job) /\ units \o <<job>> \o Collect \in Seq(Job)
  BY <1>3, <1>5, <1>6
<1>8. QueueTyped'
  <2>1. queue' \in Seq(Job)
    <3>1. CASE adopted[c] = NoConv
      <4>1. queue' = queue \o (units \o <<job>> \o Collect)
        BY <1>4, <3>1 DEF Send
      <4> HIDE DEF job
      <4> QED
        BY <1>7, <4>1 DEF Typed, QueueTyped
    <3>2. CASE adopted[c] # NoConv
      <4>1. queue' = queue \o (units \o <<job>>)
        BY <1>4, <3>2 DEF Send
      <4> HIDE DEF job
      <4> QED
        BY <1>7, <4>1 DEF Typed, QueueTyped
    <3> QED
      BY <3>1, <3>2
  <2>2. writer' = writer /\ manifest' = manifest /\ reply' \in {reply, "none"}
    BY <1>4 DEF EndTurn, storeVars
  <2> QED
    BY <2>1, <2>2 DEF Typed, QueueTyped
<1>9. PoolTyped'
  <2>1. Ckpts(job.names) \in SUBSET Extent
    BY DEF Ckpts
  <2> QED
    BY <1>1, <1>2, <1>3, <1>4, <2>1 DEF EndTurn, Typed, PoolTyped
<1>10. EngineTyped'
  <2>1. CASE adopted[c] = NoConv
    BY <1>4, <2>1 DEF EndTurn, Typed, EngineTyped, Free
  <2>2. CASE adopted[c] # NoConv
    <3>1. eng' = [Free EXCEPT !.at = "commit", !.conv = c, !.names = job.names]
      BY <1>4, <2>2
    <3>2. /\ eng' \in [at : EngineStage, conv : Conv \cup {NoConv}, held : Nat, upto : Nat,
                       from : Conv \cup {NoConv}, names : SUBSET Blob]
          /\ eng'.at = "commit" /\ eng'.conv = c
      BY <1>2, <1>3, <3>1 DEF Free, EngineStage, Waiting
    <3> QED
      BY <3>2 DEF EngineTyped
  <2> QED
    BY <2>1, <2>2
<1> QED
  BY <1>8, <1>9, <1>10 DEF Typed

(* Forgetting a conversation keeps the types of the pool.                   *)
LEMMA DropTyped ==
  ASSUME PoolTyped, NEW d, Drop(d), UNCHANGED <<open, sent>>,
         history' \in {history, [history EXCEPT ![d] = 0]}
  PROVE  PoolTyped'
<1>0. \A c \in Conv : Len(Stream[c]) \in Nat
  BY StreamAssumption
<1>1. kept' \in [Conv -> SUBSET Extent]
  BY DEF Drop, PoolTyped
<1>2. adopted' \in [Conv -> Conv \cup {NoConv}] /\ \A c \in Conv : adopted'[c] # c
  BY NoConvAssumption DEF Drop, PoolTyped
<1>3. history' \in [Conv -> Nat] /\ \A c \in Conv : history'[c] <= Len(Stream[c])
  BY <1>0 DEF PoolTyped
<1> QED
  BY <1>1, <1>2, <1>3 DEF PoolTyped

(* Sending one job and waiting keeps the types.                             *)
LEMMA AskTyped ==
  ASSUME Typed, NEW at \in {"erase", "drain"}, NEW c \in Conv \cup {NoConv},
         at = "erase" => c \in Conv, NEW job \in Job, Ask(at, c, job), UNCHANGED <<sent, open>>,
         NEW d, \/ UNCHANGED <<kept, adopted, history>>
                \/ Drop(d) /\ history' = [history EXCEPT ![d] = 0]
  PROVE  Typed'
<1>1. QueueTyped'
  BY DEF Ask, Send, Typed, QueueTyped, storeVars
<1>2. PoolTyped'
  <2>1. CASE UNCHANGED <<kept, adopted, history>>
    BY <2>1 DEF Typed, PoolTyped
  <2>2. CASE Drop(d) /\ history' = [history EXCEPT ![d] = 0]
    BY <2>2, DropTyped DEF Typed
  <2> QED
    BY <2>1, <2>2
<1>3. /\ eng' \in [at : EngineStage, conv : Conv \cup {NoConv}, held : Nat, upto : Nat,
                   from : Conv \cup {NoConv}, names : SUBSET Blob]
      /\ eng'.at = at /\ eng'.conv = c
  BY DEF Ask, Free, EngineStage, Waiting
<1>4. EngineTyped'
  BY <1>3 DEF EngineTyped
<1> QED
  BY <1>1, <1>2, <1>4 DEF Typed

(* So does every step of a request.                                         *)
LEMMA RequestTyped ==
  ASSUME Typed, Request
  PROVE  Typed'
<1> USE DEF Typed
<1>0. \A c \in Conv : Len(Stream[c]) \in Nat
  BY StreamAssumption
<1>1. ASSUME NEW c \in Conv, NEW p \in 0 .. Len(Stream[c]), NEW h \in 0 .. Len(Stream[c]),
             Begin(c, p, h)
      PROVE  Typed'
  <2>0. p \in Nat /\ h \in Nat
    BY <1>0
  <2>1. /\ eng' \in [at : EngineStage, conv : Conv \cup {NoConv}, held : Nat, upto : Nat,
                     from : Conv \cup {NoConv}, names : SUBSET Blob]
        /\ eng'.at = "lookup" /\ eng'.conv = c /\ eng'.upto = p
    <3>1. eng' = [Free EXCEPT !.at = "lookup", !.conv = c, !.held = h, !.upto = p]
      BY <1>1 DEF Begin
    <3> QED
      BY <2>0, <3>1 DEF Free, EngineStage
  <2>2. p < Len(Stream[c])
    BY <1>0, <1>1 DEF Begin, PoolTyped
  <2>3. EngineTyped'
    BY <2>1, <2>2 DEF EngineTyped
  <2> QED
    BY <1>1, <2>3 DEF Begin, QueueTyped, PoolTyped, diskVars, poolVars, storeVars, memVars
<1>2. ASSUME eng.at \in {"lookup", "read"}, Enter(eng.conv, eng.upto),
             UNCHANGED <<diskVars, history, sent>>,
             \/ kept' = kept
             \/ kept' = [kept EXCEPT ![eng.conv] = Ckpts(eng.names)],
             \E o \in Conv \cup {NoConv} :
               o # eng.conv /\ adopted' = [adopted EXCEPT ![eng.conv] = o]
      PROVE  Typed'
  <2>1. eng.conv \in Conv /\ eng.upto \in Nat /\ eng.upto < Len(Stream[eng.conv])
    BY <1>2 DEF EngineTyped
  <2>2. QueueTyped'
    BY <1>2 DEF QueueTyped, diskVars, storeVars, memVars
  <2>3. open' \in [Conv -> Nat] /\ \A c \in Conv : open'[c] <= Len(Stream[c])
    BY <1>0, <1>2, <2>1 DEF Enter, PoolTyped
  <2>4. kept' \in [Conv -> SUBSET Extent]
    BY <1>2 DEF PoolTyped, Ckpts
  <2>5. adopted' \in [Conv -> Conv \cup {NoConv}] /\ \A c \in Conv : adopted'[c] # c
    BY <1>2, <2>1 DEF PoolTyped
  <2>6. PoolTyped'
    BY <1>2, <2>3, <2>4, <2>5 DEF PoolTyped
  <2>7. EngineTyped'
    BY <1>2 DEF Enter, Free, EngineTyped, EngineStage
  <2> QED
    BY <2>2, <2>6, <2>7
<1>3. CASE LookUpNothing
  <2>1. eng.conv \in Conv
    BY <1>3 DEF LookUpNothing, Engine, EngineTyped
  <2> QED
    BY <1>2, <1>3, <2>1, NoConvAssumption DEF LookUpNothing, Engine
<1>4. CASE LookUp
  <2>1. PICK n \in Candidates, d \in Conv :
          eng' = [eng EXCEPT !.at = "read", !.from = d,
                    !.names = {b \in manifest[d] : b[1] = "ckpt" \/ b[2] \in Through(eng.conv, n)}]
    BY <1>4 DEF LookUp
  <2>2. {b \in manifest[d] : b[1] = "ckpt" \/ b[2] \in Through(eng.conv, n)} \in SUBSET Blob
    BY DEF QueueTyped
  <2>3. eng.at = "lookup"
    BY <1>4 DEF LookUp, Engine
  <2>4. EngineTyped'
    BY <2>1, <2>2, <2>3 DEF EngineTyped, EngineStage
  <2> QED
    BY <1>4, <2>4 DEF LookUp, QueueTyped, PoolTyped, diskVars, poolVars, storeVars, memVars
<1>5. CASE ReadExtents
  <2>1. eng.conv \in Conv /\ eng.from \in Conv
    BY <1>5 DEF ReadExtents, Engine, EngineTyped
  <2> QED
    BY <1>2, <1>5, <2>1, NoConvAssumption DEF ReadExtents, Engine
<1>6. ASSUME eng' = Free, UNCHANGED <<diskVars, poolVars>>,
             \/ sent' = sent
             \/ \E c \in Conv : sent' = [sent EXCEPT ![c] = {}]
      PROVE  Typed'
  BY <1>6 DEF QueueTyped, PoolTyped, EngineTyped, Free, EngineStage, diskVars, poolVars,
    storeVars, memVars
<1>7. CASE ReadMissing
  BY <1>6, <1>7 DEF ReadMissing
<1>8. ASSUME NEW c \in Conv, EndTurn(c) PROVE Typed'
  BY <1>8, EndTurnTyped
<1>9. CASE Superseded
  <2>1. eng.at = "commit" /\ eng.conv \in Conv /\ eng' = Free
    BY <1>9 DEF Superseded, Engine, EngineTyped
  <2>2. EngineTyped'
    BY <2>1 DEF EngineTyped, Free, EngineStage
  <2>3. QueueTyped'
    <3>1. Collect \in Seq(Job)
      BY JobTyped DEF Collect
    <3>2. CASE reply = "ok"
      <4>1. queue' = queue \o Collect
        BY <1>9, <3>2 DEF Superseded, Send
      <4> QED
        BY <1>9, <3>1, <4>1 DEF Superseded, QueueTyped, storeVars
    <3>3. CASE reply # "ok"
      BY <1>9, <3>3 DEF Superseded, QueueTyped, storeVars
    <3> QED
      BY <3>2, <3>3
  <2>4. PoolTyped'
    <3>1. CASE reply = "ok"
      <4>1. /\ kept' = [kept EXCEPT ![eng.conv] = Ckpts(eng.names)]
            /\ sent' = [sent EXCEPT ![adopted[eng.conv]] = {}]
            /\ adopted' = [adopted EXCEPT ![eng.conv] = NoConv]
            /\ UNCHANGED <<history, open>>
        BY <1>9, <3>1 DEF Superseded
      <4>2. Ckpts(eng.names) \in SUBSET Extent
        BY DEF Ckpts
      <4> QED
        BY <2>1, <4>1, <4>2, NoConvAssumption DEF PoolTyped
    <3>2. CASE reply # "ok"
      BY <1>9, <3>2 DEF Superseded, PoolTyped
    <3> QED
      BY <3>1, <3>2
  <2> QED
    BY <2>2, <2>3, <2>4
<1> QED
  BY <1>1, <1>3, <1>4, <1>5, <1>7, <1>8, <1>9 DEF Request

(* So does every other step of the holder of the lock.                      *)
LEMMA MaintenanceTyped ==
  ASSUME Typed, Maintenance
  PROVE  Typed'
<1> USE DEF Typed
<1>1. ASSUME NEW c \in Conv, EraseConversation(c) PROVE Typed'
  BY <1>1, AskTyped, JobTyped DEF EraseConversation
<1>2. ASSUME eng' = Free, UNCHANGED <<diskVars, poolVars>>,
             \/ sent' = sent
             \/ \E c \in Conv : sent' = [sent EXCEPT ![c] = {}]
      PROVE  Typed'
  BY <1>2 DEF QueueTyped, PoolTyped, EngineTyped, Free, EngineStage, diskVars, poolVars,
    storeVars, memVars
<1>3. CASE Erased
  <2>1. eng.conv \in Conv
    BY <1>3 DEF Erased, Engine, EngineTyped
  <2> QED
    BY <1>2, <1>3, <2>1 DEF Erased
<1>4. CASE Drain
  BY <1>4, AskTyped, JobTyped DEF Drain, poolVars
<1>5. CASE Drained
  BY <1>2, <1>5 DEF Drained
<1>6. ASSUME NEW c \in Conv, Spill(c) PROVE Typed'
  <2>1. eng' = [Free EXCEPT !.at = "spill", !.conv = c, !.upto = 1]
    BY <1>6 DEF Spill
  <2>2. /\ eng' \in [at : EngineStage, conv : Conv \cup {NoConv}, held : Nat, upto : Nat,
                     from : Conv \cup {NoConv}, names : SUBSET Blob]
        /\ eng'.at = "spill" /\ eng'.conv = c /\ eng'.upto = 1
    BY <2>1 DEF Free, EngineStage
  <2>3. EngineTyped'
    BY <2>2 DEF EngineTyped
  <2> QED
    BY <1>6, <2>3 DEF Spill, QueueTyped, PoolTyped, diskVars, poolVars, storeVars, memVars
<1>7. CASE SpillUnit
  <2>1. /\ eng.at = "spill" /\ eng.conv \in Conv /\ eng.upto \in Nat
        /\ 1 <= eng.upto /\ eng.upto <= history[eng.conv]
    BY <1>7 DEF SpillUnit, Engine, EngineTyped
  <2>2. Stream[eng.conv][eng.upto] \in Extent
    BY <2>1, StreamAssumption DEF PoolTyped
  <2>3. QueueTyped'
    <3> DEFINE e == Stream[eng.conv][eng.upto]
    <3>1. /\ UnitDurableJob(e) \in Job
          /\ writer' = writer /\ manifest' = manifest
          /\ \/ queue' = queue /\ reply' = reply
             \/ queue' = queue \o <<UnitDurableJob(e)>> /\ reply' = "none"
      BY <1>7, <2>2, JobTyped DEF SpillUnit, Send, diskVars, storeVars, memVars
    <3> DEFINE job == UnitDurableJob(e)
    <3> HIDE DEF e, job
    <3>2. queue \in Seq(Job) /\ queue \o <<job>> \in Seq(Job)
      BY <3>1 DEF QueueTyped, job
    <3>3. queue' \in Seq(Job) /\ reply' \in {"none", "ok", "err"}
      BY <3>1, <3>2 DEF QueueTyped, job
    <3> QED
      BY <3>1, <3>3 DEF QueueTyped
  <2>4. PoolTyped'
    BY <1>7 DEF SpillUnit, PoolTyped, poolVars
  <2>5. EngineTyped'
    BY <1>7, <2>1 DEF SpillUnit, EngineTyped, EngineStage, Waiting, poolVars
  <2> QED
    BY <2>3, <2>4, <2>5
<1>8. CASE Durable
  <2>1. EngineTyped'
    <3>1. eng.at = "durable" /\ eng' \in {Free, [eng EXCEPT !.at = "spill", !.upto = @ + 1]}
      BY <1>8 DEF Durable, Engine
    <3>2. CASE eng' = Free
      BY <3>2 DEF EngineTyped, EngineStage, Free
    <3>3. CASE eng' = [eng EXCEPT !.at = "spill", !.upto = @ + 1]
      <4>1. eng.conv \in Conv /\ eng.upto \in Nat /\ eng.upto + 1 \in Nat
        BY <3>1 DEF EngineTyped
      <4>2. /\ eng' \in [at : EngineStage, conv : Conv \cup {NoConv}, held : Nat, upto : Nat,
                         from : Conv \cup {NoConv}, names : SUBSET Blob]
            /\ eng'.at = "spill" /\ eng'.conv = eng.conv /\ eng'.upto = eng.upto + 1
        BY <3>3, <4>1 DEF EngineTyped, EngineStage
      <4> QED
        BY <3>1, <4>1, <4>2 DEF EngineTyped
    <3> QED
      BY <3>1, <3>2, <3>3
  <2> QED
    BY <1>8, <2>1 DEF Durable, QueueTyped, PoolTyped, diskVars, poolVars, storeVars, memVars
<1>9. ASSUME NEW c, Drop(c), UNCHANGED <<diskVars, history, open, sent>>,
             eng' \in {eng, Free}, eng.at \in {"free", "spill"}
      PROVE  Typed'
  <2>1. PoolTyped'
    BY <1>9, DropTyped
  <2>2. EngineTyped'
    BY <1>9 DEF EngineTyped, EngineStage, Free
  <2> QED
    BY <1>9, <2>1, <2>2 DEF QueueTyped, diskVars, storeVars, memVars
<1>10. CASE Spilled
  BY <1>9, <1>10 DEF Spilled, Engine
<1>11. ASSUME NEW c \in Conv, Release(c) PROVE Typed'
  BY <1>9, <1>11 DEF Release, Operate, Free
<1> QED
  BY <1>1, <1>3, <1>4, <1>5, <1>6, <1>7, <1>8, <1>10, <1>11 DEF Maintenance

(* Hence every step.                                                        *)
LEMMA TypedStands == Typed /\ Staged /\ [Next]_vars => Typed'
<1> SUFFICES ASSUME Typed, Staged, [Next]_vars PROVE Typed'
  OBVIOUS
<1>1. CASE Writer
  <2>1. QueueTyped'
    BY <1>1, WriterTyped DEF Writer, Typed
  <2> QED
    BY <1>1, <2>1 DEF Writer, Typed, PoolTyped, EngineTyped, poolVars
<1>2. CASE Crash
  <2>1. QueueTyped'
    BY <1>2, JobTyped DEF Crash, RestartMem, Typed, QueueTyped, Idle, Stage, storeVars
  <2>2. PoolTyped'
    <3>1. \A c \in Conv : Len(Stream[c]) \in Nat
      BY StreamAssumption
    <3> QED
      BY <1>2, <3>1, NoConvAssumption DEF Crash, Typed, QueueTyped, PoolTyped
  <2>3. EngineTyped'
    BY <1>2 DEF Crash, EngineTyped, Free, EngineStage
  <2> QED
    BY <2>1, <2>2, <2>3 DEF Typed
<1>3. CASE UNCHANGED vars
  BY <1>3 DEF vars, Typed, QueueTyped, PoolTyped, EngineTyped, diskVars, poolVars, storeVars,
    memVars
<1> QED
  BY <1>1, <1>2, <1>3, RequestTyped, MaintenanceTyped DEF Next, Quiescent

-----------------------------------------------------------------------------
(* The lemmas of EngineStep, one per way of sending.                        *)
LEMMA Sends ==
  ASSUME Typed, ~Unanswered, NEW jobs \in Seq(Job), queue' = queue \o jobs,
         UNCHANGED <<writer, manifest, pendingError>>,
         \A c \in Conv : sent'[c] = IF reply = "ok" /\ BeingRemoved(c) THEN {} ELSE sent[c],
         \A i \in DOMAIN jobs : /\ ~jobs[i].ack
                                /\ jobs[i].op = "unit" \/ (jobs[i].op = "gc" /\ Evicting),
         eng'.at \notin Waiting, reply' = reply
  PROVE  EngineStep(jobs)
BY DEF EngineStep, WellFormed

(* Steps that send nothing.                                                 *)
LEMMA SendsNothing ==
  ASSUME Typed, ~Unanswered, UNCHANGED <<queue, writer, manifest, pendingError, reply>>,
         \A c \in Conv : sent'[c] = IF reply = "ok" /\ BeingRemoved(c) THEN {} ELSE sent[c],
         eng'.at \notin Waiting
  PROVE  \E jobs \in Seq(Job) : EngineStep(jobs)
<1>1. <<>> \in Seq(Job) /\ queue' = queue \o <<>>
  BY DEF Typed, QueueTyped
<1>2. \A i \in DOMAIN <<>> : /\ ~<<>>[i].ack
                             /\ <<>>[i].op = "unit" \/ (<<>>[i].op = "gc" /\ Evicting)
  OBVIOUS
<1> QED
  BY <1>1, <1>2, Sends

(* Steps that send one job and wait for it.                                 *)
LEMMA Asks ==
  ASSUME Typed, eng.at \notin Waiting, NEW job \in Job, queue' = queue \o <<job>>,
         UNCHANGED <<writer, manifest, pendingError, sent>>, reply' = "none",
         eng'.at \in {"erase", "drain", "durable"}, Asked(job, eng', adopted'),
         WellFormed(job), job.op \notin {"commit", "gc"}
  PROVE  \E jobs \in Seq(Job) : EngineStep(jobs)
<1>1. /\ <<job>> \in Seq(Job) /\ Len(<<job>>) = 1
      /\ \A i \in DOMAIN <<job>> : i = 1 /\ <<job>>[i] = job
  OBVIOUS
<1> DEFINE jobs == <<job>>
<1>2. /\ jobs \in Seq(Job) /\ jobs # <<>> /\ queue' = queue \o jobs /\ jobs[Len(jobs)] = job
      /\ \A i \in DOMAIN jobs : i = Len(jobs) /\ jobs[i] = job
  BY <1>1
<1> HIDE DEF jobs
<1>3. eng'.at \in Waiting /\ eng'.at # "commit" /\ ~Unanswered
  BY DEF Waiting, Unanswered
<1>4. \A c : ~BeingRemoved(c)
  BY DEF BeingRemoved, Waiting
<1>5. EngineStep(jobs)
  BY <1>2, <1>3, <1>4 DEF EngineStep
<1> QED
  BY <1>2, <1>5

(* The end of a turn.                                                       *)
LEMMA EndTurnSends ==
  ASSUME Typed, NEW c \in Conv, EndTurn(c)
  PROVE  \E jobs \in Seq(Job) : EngineStep(jobs)
<1> DEFINE n == open[c]
           job == CommitJob(c, Names(c, n), FreshCkpts(c, n), adopted[c])
<1>1. n \in Nat /\ n > 0 /\ n <= Len(Stream[c]) /\ adopted[c] \in Conv \cup {NoConv}
  BY DEF Typed, PoolTyped, EndTurn
<1>2. Names(c, n) \in SUBSET Blob /\ FreshCkpts(c, n) \in SUBSET Blob /\ Names(c, n) # {}
  BY <1>1, NamesTyped
<1>3. /\ job \in Job /\ job.op = "commit" /\ job.conv = c /\ job.names = Names(c, n)
      /\ job.over = adopted[c] /\ (job.ack <=> adopted[c] # NoConv)
  BY <1>1, <1>2, CommitTyped
<1>4. PICK units \in FreshUnits(c, n) :
         /\ sent' = [sent EXCEPT ![c] = job.names]
         /\ IF adopted[c] = NoConv
            THEN /\ Send(units \o <<job>> \o Collect)
                 /\ kept' = [kept EXCEPT ![c] = Ckpts(job.names)]
                 /\ UNCHANGED <<eng, reply>>
            ELSE /\ Send(units \o <<job>>)
                 /\ eng' = [Free EXCEPT !.at = "commit", !.conv = c, !.names = job.names]
                 /\ reply' = "none"
                 /\ UNCHANGED kept
  BY DEF EndTurn
<1> HIDE DEF job
<1>5. units \in Seq(Job) /\ \A i \in DOMAIN units : units[i].op = "unit" /\ ~units[i].ack
  BY <1>1, FreshTyped
<1>6. /\ Collect \in Seq(Job)
      /\ \A i \in DOMAIN Collect : Collect[i].op = "gc" /\ Evicting /\ ~Collect[i].ack
  BY JobTyped DEF Collect
<1>7. \A d \in Conv : d # c => sent'[d] = sent[d]
  BY <1>4 DEF Typed, PoolTyped
<1>8. sent'[c] # {} /\ sent'[c] = job.names
  BY <1>2, <1>3, <1>4 DEF Typed, PoolTyped
<1>9. UNCHANGED <<writer, manifest, pendingError, adopted>> /\ eng = Free
  BY DEF EndTurn, storeVars
<1>10. ~Unanswered /\ eng.at \notin Waiting /\ \A d : ~BeingRemoved(d)
  BY <1>9 DEF Unanswered, BeingRemoved, Free, Waiting
<1>11. CASE adopted[c] = NoConv
  <2> DEFINE jobs == units \o <<job>> \o Collect
  <2>1. jobs \in Seq(Job)
    BY <1>3, <1>5, <1>6
  <2>2. \A i \in DOMAIN jobs : /\ ~jobs[i].ack
                               /\ \/ jobs[i].op = "unit" \/ (jobs[i].op = "gc" /\ Evicting)
                                  \/ jobs[i] = job
    BY <1>3, <1>5, <1>6, <1>11
  <2>6. \E i \in DOMAIN jobs : jobs[i] = job
    <3>1. Len(units) + 1 \in DOMAIN jobs /\ jobs[Len(units) + 1] = job
      BY <1>3, <1>5, <1>6
    <3> QED
      BY <3>1
  <2>3. queue' = queue \o jobs /\ eng' = eng /\ reply' = reply
    BY <1>4, <1>11 DEF Send
  <2> HIDE DEF jobs
  <2>4. \A i \in DOMAIN jobs : /\ WellFormed(jobs[i])
                               /\ jobs[i].op = "commit" =>
                                    /\ sent'[jobs[i].conv] # {}
                                    /\ sent'[jobs[i].conv] = jobs[i].names
                               /\ jobs[i].op = "gc" => Evicting
    BY <1>3, <1>8, <1>11, <2>2 DEF WellFormed
  <2>7. \A d \in Conv : \/ sent'[d] = sent[d]
                         \/ \E i \in DOMAIN jobs : jobs[i].op = "commit" /\ jobs[i].conv = d
    BY <1>3, <1>7, <2>6
  <2>5. EngineStep(jobs)
    <3>1. eng'.at \notin Waiting
      BY <1>10, <2>3
    <3> QED
      BY <1>9, <1>10, <2>2, <2>3, <2>4, <2>7, <3>1 DEF EngineStep
  <2> QED
    BY <2>1, <2>5
<1>12. CASE adopted[c] # NoConv
  <2> DEFINE jobs == units \o <<job>>
  <2>1. jobs \in Seq(Job) /\ jobs # <<>> /\ jobs[Len(jobs)] = job
    BY <1>3, <1>5
  <2>2. \A i \in DOMAIN jobs : \/ i = Len(jobs)
                               \/ i \in DOMAIN units /\ jobs[i] = units[i]
    BY <1>3, <1>5
  <2>3. /\ queue' = queue \o jobs /\ reply' = "none"
        /\ eng' = [Free EXCEPT !.at = "commit", !.conv = c, !.names = job.names]
    BY <1>4, <1>12 DEF Send
  <2>4. eng'.at = "commit" /\ eng'.conv = c
    BY <2>3 DEF Free
  <2> HIDE DEF jobs
  <2>5. \A i \in DOMAIN jobs : /\ WellFormed(jobs[i])
                               /\ jobs[i].op = "commit" =>
                                    /\ sent'[jobs[i].conv] # {}
                                    /\ sent'[jobs[i].conv] = jobs[i].names
                               /\ jobs[i].op = "gc" => Evicting
                               /\ jobs[i].ack => i = Len(jobs)
    BY <1>3, <1>5, <1>8, <2>1, <2>2 DEF WellFormed
  <2>6. Asked(jobs[Len(jobs)], eng', adopted')
    BY <1>3, <1>9, <1>12, <2>1, <2>4 DEF Asked
  <2>7. eng'.at \in Waiting
    BY <2>4 DEF Waiting
  <2>8. adopted'[eng'.conv] # NoConv
    BY <1>9, <1>12, <2>4
  <2>9. \A d \in Conv : \/ sent'[d] = sent[d]
                          \/ \E i \in DOMAIN jobs : jobs[i].op = "commit" /\ jobs[i].conv = d
    <3>1. Len(jobs) \in DOMAIN jobs
      BY <2>1
    <3> QED
      BY <1>3, <1>7, <2>1, <3>1
  <2>10. EngineStep(jobs)
    BY <2>9, <1>9, <1>10, <2>1, <2>3, <2>5, <2>6, <2>7, <2>8 DEF EngineStep
  <2> QED
    BY <2>1, <2>10
<1> QED
  BY <1>11, <1>12

(* Hence every step of the holder of the lock.                              *)
LEMMA EngineSteps ==
  ASSUME Typed, Request \/ Maintenance
  PROVE  \E jobs \in Seq(Job) : EngineStep(jobs)
<1>0. ASSUME UNCHANGED <<queue, writer, manifest, pendingError, reply, sent>>,
             eng'.at \notin Waiting, ~Unanswered,
             reply # "ok" \/ eng.at \notin {"erase", "commit"}
      PROVE  \E jobs \in Seq(Job) : EngineStep(jobs)
  <2>1. ~(reply = "ok" /\ \E c : BeingRemoved(c))
    BY <1>0 DEF BeingRemoved
  <2> QED
    BY <1>0, <2>1, SendsNothing
<1>1. ASSUME NEW c \in Conv, NEW p, NEW h, Begin(c, p, h)
      PROVE  \E jobs \in Seq(Job) : EngineStep(jobs)
  <2>1. UNCHANGED <<queue, writer, manifest, pendingError, reply, sent>>
    BY <1>1 DEF Begin, diskVars, memVars, storeVars
  <2>2. eng'.at \notin Waiting /\ ~Unanswered /\ (reply # "ok" \/ eng.at \notin {"erase", "commit"})
    BY <1>1 DEF Begin, Operate, Engine, Free, Waiting, Unanswered
  <2> QED
    BY <1>0, <2>1, <2>2
<1>2. CASE LookUpNothing \/ ReadExtents \/ ReadMissing
  <2>1. UNCHANGED <<queue, writer, manifest, pendingError, reply, sent>>
    BY <1>2 DEF LookUpNothing, ReadExtents, ReadMissing, Enter, diskVars, memVars, storeVars
  <2>2. eng'.at \notin Waiting /\ ~Unanswered /\ (reply # "ok" \/ eng.at \notin {"erase", "commit"})
    BY <1>2 DEF LookUpNothing, ReadExtents, ReadMissing, Enter, Engine, Free, Waiting,
      Unanswered
  <2> QED
    BY <1>0, <2>1, <2>2
<1>11. CASE LookUp
  <2>1. UNCHANGED <<queue, writer, manifest, pendingError, reply, sent>>
    BY <1>11 DEF LookUp, diskVars, memVars, storeVars
  <2>2. PICK n \in Candidates, d \in Conv :
          eng' = [eng EXCEPT !.at = "read", !.from = d,
                    !.names = {b \in manifest[d] : b[1] = "ckpt" \/ b[2] \in Through(eng.conv, n)}]
    BY <1>11 DEF LookUp
  <2>3. eng'.at = "read"
    BY <2>2 DEF Typed, EngineTyped
  <2>4. eng.at = "lookup"
    BY <1>11 DEF LookUp, Engine
  <2>5. eng'.at \notin Waiting /\ ~Unanswered /\ (reply # "ok" \/ eng.at \notin {"erase", "commit"})
    BY <2>3, <2>4 DEF Waiting, Unanswered
  <2> QED
    BY <1>0, <2>1, <2>5
<1>3. CASE Superseded
  <2>1. CASE reply = "ok"
    <3>1. /\ Collect \in Seq(Job)
          /\ \A i \in DOMAIN Collect : Collect[i].op = "gc" /\ Evicting /\ ~Collect[i].ack
      BY JobTyped DEF Collect
    <3>2. /\ queue' = queue \o Collect /\ UNCHANGED <<writer, manifest, pendingError, reply>>
          /\ eng.at = "commit" /\ eng' = Free
          /\ sent' = [sent EXCEPT ![adopted[eng.conv]] = {}]
      BY <1>3, <2>1 DEF Superseded, Send, Engine, storeVars
    <3>3. \A c \in Conv : sent'[c] = IF BeingRemoved(c) THEN {} ELSE sent[c]
      BY <3>2 DEF BeingRemoved, Typed, PoolTyped
    <3>4. eng'.at \notin Waiting /\ ~Unanswered
      BY <2>1, <3>2 DEF Free, Waiting, Unanswered
    <3>5. EngineStep(Collect)
      BY <2>1, <3>1, <3>2, <3>3, <3>4, Sends
    <3> QED
      BY <3>1, <3>5
  <2>2. CASE reply # "ok"
    <3>1. UNCHANGED <<queue, writer, manifest, pendingError, reply, sent>>
      BY <1>3, <2>2 DEF Superseded, storeVars
    <3>2. /\ eng'.at \notin Waiting /\ ~Unanswered
          /\ (reply # "ok" \/ eng.at \notin {"erase", "commit"})
      BY <1>3, <2>2 DEF Superseded, Engine, Free, Waiting, Unanswered
    <3> QED
      BY <1>0, <3>1, <3>2
  <2> QED
    BY <2>1, <2>2
<1>4. ASSUME NEW c \in Conv, EraseConversation(c)
      PROVE  \E jobs \in Seq(Job) : EngineStep(jobs)
  <2>1. eng'.at = "erase" /\ eng'.conv = c
    BY <1>4 DEF EraseConversation, Ask, Free
  <2>2. Asked(EraseJob(c), eng', adopted') /\ WellFormed(EraseJob(c))
    BY <2>1, JobTyped DEF Asked, WellFormed
  <2> QED
    BY <1>4, <2>1, <2>2, Asks, JobTyped
      DEF EraseConversation, Operate, Ask, Send, storeVars, Free, Waiting
<1>5. CASE Erased
  <2>1. \A c \in Conv : sent'[c] = IF reply = "ok" /\ BeingRemoved(c) THEN {} ELSE sent[c]
    <3>1. sent' = IF reply = "ok" THEN [sent EXCEPT ![eng.conv] = {}] ELSE sent
      BY <1>5 DEF Erased
    <3>2. eng.at = "erase"
      BY <1>5 DEF Erased, Engine
    <3> QED
      BY <3>1, <3>2 DEF BeingRemoved, Typed, PoolTyped
  <2>2. UNCHANGED <<queue, writer, manifest, pendingError, reply>>
    BY <1>5 DEF Erased, diskVars, memVars, storeVars
  <2>3. eng'.at \notin Waiting /\ ~Unanswered
    BY <1>5 DEF Erased, Free, Waiting, Unanswered
  <2> QED
    BY <2>1, <2>2, <2>3, SendsNothing
<1>6. CASE Drain
  <2>1. eng'.at = "drain"
    BY <1>6 DEF Drain, Ask, Free
  <2>2. Asked(BarrierJob, eng', adopted') /\ WellFormed(BarrierJob)
    BY <2>1, JobTyped DEF Asked, WellFormed
  <2> QED
    BY <1>6, <2>1, <2>2, Asks, JobTyped DEF Drain, Operate, Ask, Send, storeVars, Free, Waiting
<1>7. CASE Drained \/ Durable
  <2>1. UNCHANGED <<queue, writer, manifest, pendingError, reply, sent>>
    BY <1>7 DEF Drained, Durable, diskVars, memVars, storeVars
  <2>2. /\ reply # "none" /\ eng.at \in {"drain", "durable"}
        /\ eng' \in {Free, [eng EXCEPT !.at = "spill", !.upto = @ + 1]}
    BY <1>7 DEF Drained, Durable, Engine
  <2>3. eng'.at \in {"free", "spill"}
    <3>1. CASE eng' = Free
      BY <3>1 DEF Free
    <3>2. CASE eng' = [eng EXCEPT !.at = "spill", !.upto = @ + 1]
      BY <3>2 DEF Typed, EngineTyped
    <3> QED
      BY <2>2, <3>1, <3>2
  <2>4. eng'.at \notin Waiting /\ ~Unanswered /\ (reply # "ok" \/ eng.at \notin {"erase", "commit"})
    BY <2>2, <2>3 DEF Waiting, Unanswered
  <2> QED
    BY <1>0, <2>1, <2>4
<1>8. ASSUME NEW c \in Conv, Spill(c) \/ Release(c)
      PROVE  \E jobs \in Seq(Job) : EngineStep(jobs)
  <2>1. UNCHANGED <<queue, writer, manifest, pendingError, reply, sent>>
    BY <1>8 DEF Spill, Release, diskVars, memVars, storeVars
  <2>2. eng = Free /\ eng' \in {eng, [Free EXCEPT !.at = "spill", !.conv = c, !.upto = 1]}
    BY <1>8 DEF Spill, Release, Operate
  <2>3. eng.at = "free" /\ eng'.at \in {"free", "spill"}
    <3>1. CASE eng' = eng
      BY <2>2, <3>1 DEF Free
    <3>2. CASE eng' = [Free EXCEPT !.at = "spill", !.conv = c, !.upto = 1]
      BY <2>2, <3>2 DEF Free
    <3> QED
      BY <2>2, <3>1, <3>2
  <2>4. eng'.at \notin Waiting /\ ~Unanswered /\ (reply # "ok" \/ eng.at \notin {"erase", "commit"})
    BY <2>3 DEF Waiting, Unanswered
  <2> QED
    BY <1>0, <2>1, <2>4
<1>9. CASE SpillUnit
  <2>1. /\ eng.at = "spill" /\ eng.conv \in Conv /\ eng.upto \in Nat
        /\ 1 <= eng.upto /\ eng.upto <= history[eng.conv]
    BY <1>9 DEF SpillUnit, Engine, Typed, EngineTyped
  <2> DEFINE e == Stream[eng.conv][eng.upto]
  <2>2. e \in Extent
    BY <2>1, StreamAssumption DEF Typed, PoolTyped
  <2>3. CASE Unit(e) \in disk
    <3>1. UNCHANGED <<queue, writer, manifest, pendingError, reply, sent>>
      BY <1>9, <2>3 DEF SpillUnit, diskVars, memVars, storeVars
    <3>2. eng' = [eng EXCEPT !.upto = @ + 1]
      BY <1>9, <2>3 DEF SpillUnit
    <3>3. eng'.at = "spill"
      BY <2>1, <3>2 DEF Typed, EngineTyped
    <3>4. /\ eng'.at \notin Waiting /\ ~Unanswered
          /\ (reply # "ok" \/ eng.at \notin {"erase", "commit"})
      BY <2>1, <3>3 DEF Waiting, Unanswered
    <3> QED
      BY <1>0, <3>1, <3>4
  <2>4. CASE Unit(e) \notin disk
    <3>1. eng' = [eng EXCEPT !.at = "durable"]
      BY <1>9, <2>4 DEF SpillUnit
    <3>2. eng'.at = "durable"
      BY <3>1 DEF Typed, EngineTyped
    <3>3. Asked(UnitDurableJob(e), eng', adopted') /\ WellFormed(UnitDurableJob(e))
      BY <2>2, <3>2, JobTyped DEF Asked, WellFormed
    <3>4. /\ queue' = queue \o <<UnitDurableJob(e)>> /\ reply' = "none"
          /\ UNCHANGED <<writer, manifest, pendingError, sent>>
      BY <1>9, <2>4 DEF SpillUnit, Send, storeVars
    <3>5. UnitDurableJob(e) \in Job /\ UnitDurableJob(e).op \notin {"commit", "gc"}
      BY <2>2, JobTyped
    <3>6. eng.at \notin Waiting
      BY <2>1 DEF Waiting
    <3> HIDE DEF e
    <3> QED
      BY <2>1, <3>2, <3>3, <3>4, <3>5, <3>6, Asks
  <2> QED
    BY <2>3, <2>4
<1>10. CASE Spilled
  <2>1. UNCHANGED <<queue, writer, manifest, pendingError, reply, sent>>
    BY <1>10 DEF Spilled, diskVars, memVars, storeVars
  <2>2. eng'.at \notin Waiting /\ ~Unanswered /\ (reply # "ok" \/ eng.at \notin {"erase", "commit"})
    BY <1>10 DEF Spilled, Engine, Free, Waiting, Unanswered
  <2> QED
    BY <1>0, <2>1, <2>2
<1> QED
  BY <1>1, <1>2, <1>3, <1>4, <1>5, <1>6, <1>7, <1>8, <1>9, <1>10, <1>11,
    EndTurnSends
    DEF Request, Maintenance

-----------------------------------------------------------------------------
(* The steps of the writer: it takes the next job, ends the one in hand, or *)
(* goes on with it.                                                         *)
GoesOn ==
  \/ \E b \in Blob : WriteBlob(b)
  \/ WroteBlobs \/ Commit \/ Count \/ Supersede \/ Erase \/ Sweep
  \/ GcSkip \/ GcWalk \/ GcEvict \/ GcMeasured

(* Going on keeps the job, the queue and the last answer.                   *)
LEMMA Goes ==
  ASSUME QueueTyped, GoesOn
  PROVE  /\ ~At("idle") /\ ~At("end")
         /\ UNCHANGED <<queue, reply>> /\ writer'.job = writer.job /\ writer'.at # "idle"
<1> USE DEF QueueTyped, At, GoTo, Fail
<1>1. ASSUME NEW b \in Blob, WriteBlob(b)
      PROVE  /\ At("write") /\ writer'.at = writer.at
             /\ UNCHANGED <<queue, reply, manifest>> /\ writer'.job = writer.job
  BY <1>1 DEF WriteBlob
<1>2. ASSUME NEW c, RemoveThenSweep(c)
      PROVE  writer'.job = writer.job /\ writer'.at \in {"sweep", "end"}
  BY <1>2 DEF RemoveThenSweep
<1>3. CASE WroteBlobs
  BY <1>3 DEF WroteBlobs
<1>4. CASE Commit
  BY <1>4 DEF Commit
<1>5. CASE Count
  BY <1>5 DEF Count
<1>6. CASE Supersede
  BY <1>2, <1>6 DEF Supersede
<1>7. CASE Erase
  BY <1>2, <1>7 DEF Erase
<1>8. CASE Sweep
  BY <1>8 DEF Sweep
<1>9. CASE GcSkip \/ GcWalk \/ GcMeasured
  BY <1>9 DEF GcSkip, GcWalk, GcMeasured
<1>10. CASE GcEvict
  BY <1>10 DEF GcEvict
<1> QED
  BY <1>1, <1>3, <1>4, <1>5, <1>6, <1>7, <1>8, <1>9, <1>10 DEF GoesOn

(* What becomes of the manifests and of the stage on the way.               *)
LEMMA Stages ==
  ASSUME QueueTyped, Staged, GoesOn
  PROVE  \/ /\ At("write") /\ writer'.at = "write" /\ manifest' = manifest
         \/ /\ At("write") /\ writer'.at = "manifest" /\ writer.job.op = "commit"
            /\ manifest' = manifest
         \/ /\ At("write") /\ writer'.at = "end" /\ writer.job.op = "unit"
            /\ manifest' = manifest
         \/ /\ At("manifest") /\ writer'.at = "count"
            /\ \/ writer'.failed /\ manifest' = manifest
               \/ manifest' = [manifest EXCEPT ![writer.job.conv] = writer.job.names]
         \/ At("count") /\ writer'.at = "supersede" /\ manifest' = manifest
         \/ /\ At("supersede") /\ writer'.at = "end" /\ manifest' = manifest
            /\ writer'.failed \/ writer.job.over \in {NoConv, writer.job.conv}
                 \/ manifest[writer.job.over] = {}
         \/ /\ At("supersede") /\ writer'.at = "sweep" /\ writer.job.over # NoConv
            /\ manifest' = [manifest EXCEPT ![writer.job.over] = {}]
         \/ At("erase") /\ writer'.at = "end" /\ writer'.failed /\ manifest' = manifest
         \/ /\ At("erase") /\ writer'.at = "sweep"
            /\ manifest' = [manifest EXCEPT ![writer.job.conv] = {}]
         \/ At("sweep") /\ writer'.at = "end" /\ manifest' = manifest
         \/ /\ writer.job.op = "gc" /\ writer'.at \in {"evict", "end"}
            /\ \A c \in Conv : manifest'[c] \in {manifest[c], {}}
<1> USE DEF QueueTyped, At, GoTo, Fail
<1>1. ASSUME NEW b \in Blob, WriteBlob(b)
      PROVE  At("write") /\ writer'.at = "write" /\ manifest' = manifest
  BY <1>1 DEF WriteBlob
<1>2. CASE WroteBlobs
  BY <1>2 DEF WroteBlobs, Staged, storeVars
<1>3. CASE Commit
  BY <1>3 DEF Commit
<1>4. CASE Count
  BY <1>4 DEF Count, storeVars
<1>5. ASSUME NEW c, RemoveThenSweep(c)
      PROVE  \/ /\ writer'.at = "sweep" /\ manifest' = [manifest EXCEPT ![c] = {}]
             \/ writer'.at = "end" /\ writer'.failed /\ manifest' = manifest
  BY <1>5 DEF RemoveThenSweep, storeVars
<1>6. CASE Supersede
  <2> DEFINE o == writer.job.over
  <2>1. CASE ~writer.failed /\ o # NoConv /\ o # writer.job.conv /\ manifest[o] # {}
    BY <1>5, <1>6, <2>1 DEF Supersede
  <2>2. CASE ~(~writer.failed /\ o # NoConv /\ o # writer.job.conv /\ manifest[o] # {})
    BY <1>6, <2>2 DEF Supersede, storeVars
  <2> QED
    BY <2>1, <2>2
<1>7. CASE Erase
  BY <1>5, <1>7 DEF Erase
<1>8. CASE Sweep
  BY <1>8 DEF Sweep
<1>9. CASE GcSkip \/ GcWalk \/ GcMeasured
  BY <1>9 DEF GcSkip, GcWalk, GcMeasured, Staged, storeVars
<1>10. CASE GcEvict
  BY <1>10 DEF GcEvict, Staged
<1> QED
  BY <1>1, <1>2, <1>3, <1>4, <1>6, <1>7, <1>8, <1>9, <1>10 DEF GoesOn

(* Taking a job.                                                            *)
LEMMA Taken ==
  ASSUME QueueTyped, Take
  PROVE  /\ At("idle") /\ queue # <<>> /\ queue[1] \in Job
         /\ queue' \in Seq(Job) /\ Len(queue') = Len(queue) - 1
         /\ \A i \in DOMAIN queue' : i + 1 \in DOMAIN queue /\ queue'[i] = queue[i + 1]
         /\ writer'.job = queue[1] /\ writer'.at = FirstStage(queue[1].op)
         /\ writer'.at # "idle"
         /\ UNCHANGED <<reply, manifest>>
<1>1. /\ queue \in Seq(Job) /\ queue # <<>> /\ At("idle")
      /\ queue' = Tail(queue)
      /\ writer' = [job |-> Head(queue), at |-> FirstStage(Head(queue).op),
                    left |-> Head(queue).blobs, failed |-> FALSE]
      /\ UNCHANGED <<reply, manifest>>
  BY DEF QueueTyped, Take, storeVars
<1>2. Head(queue) = queue[1] /\ queue[1] \in Job
  BY <1>1
<1>3. FirstStage(queue[1].op) # "idle"
  BY DEF FirstStage
<1>4. /\ Len(queue') = Len(queue) - 1 /\ queue' \in Seq(Job)
      /\ \A i \in DOMAIN queue' : i + 1 \in DOMAIN queue /\ queue'[i] = queue[i + 1]
  BY <1>1
<1> QED
  BY <1>1, <1>2, <1>3, <1>4

(* Ending one.                                                              *)
LEMMA Ended ==
  ASSUME QueueTyped, End
  PROVE  /\ At("end") /\ UNCHANGED <<queue, manifest>> /\ writer' = Idle
         /\ writer'.at = "idle" /\ writer'.job = Plain("none") /\ Plain("none").op = "none"
         /\ reply' = IF writer.job.ack THEN Answer ELSE reply
         /\ Answer \in {"ok", "err"} /\ (Answer = "ok" => ~writer.failed)
BY DEF End, Idle, Answer, storeVars, Plain

(* There is no other step.                                                  *)
LEMMA WriterSteps == WriterStep => Take \/ GoesOn \/ End
BY DEF WriterStep, GoesOn

-----------------------------------------------------------------------------
(* The inductive invariant: EraseIsFinal is its last part, which the others *)
(* make inductive.                                                          *)
Stands == Typed /\ Staged /\ InLine /\ Removed /\ Forgotten

(* The queue after a step of the holder of the lock.                        *)
LEMMA Appended ==
  ASSUME Typed, NEW jobs \in Seq(Job), EngineStep(jobs)
  PROVE  /\ Len(queue') = Len(queue) + Len(jobs)
         /\ \A i \in DOMAIN queue' :
              \/ i \in DOMAIN queue /\ queue'[i] = queue[i]
              \/ /\ i - Len(queue) \in DOMAIN jobs
                 /\ queue'[i] = jobs[i - Len(queue)]
         /\ UNCHANGED <<writer, manifest, pendingError>>
         /\ jobs # <<>> => queue' # <<>> /\ queue'[Len(queue')] = jobs[Len(jobs)]
         /\ jobs = <<>> => queue' = queue
<1>1. queue \in Seq(Job) /\ queue' = queue \o jobs
  BY DEF Typed, QueueTyped, EngineStep
<1> QED
  BY <1>1 DEF EngineStep

(* The state after a crash.                                                 *)
LEMMA CrashTo ==
  ASSUME Crash
  PROVE  /\ queue' = <<>> /\ writer'.at = "idle" /\ writer'.job = Plain("none")
         /\ Plain("none").op = "none" /\ reply' = "none" /\ eng'.at = "free"
         /\ sent' = manifest /\ manifest' = manifest
BY DEF Crash, RestartMem, Idle, Free, Plain, storeVars

(* The stage fits the job after every step.                                 *)
LEMMA StagedStands ==
  ASSUME Typed, Staged,
         \/ WriterStep
         \/ \E jobs \in Seq(Job) : EngineStep(jobs)
         \/ Crash
  PROVE  Staged'
<1> USE DEF Staged, At
<1>1. CASE Take
  <2>1. WellFormed(queue[1])
    BY <1>1, Taken DEF Typed
  <2>2. WellFormed(writer'.job)
    BY <1>1, <2>1, Taken DEF Typed
  <2>3. \A i \in DOMAIN queue' : WellFormed(queue'[i])
    BY <1>1, Taken DEF Typed
  <2>4. /\ writer'.at = "write" => writer'.job.op \in {"unit", "commit"}
        /\ writer'.at = "erase" => writer'.job.op = "erase"
        /\ writer'.at = "gc" => writer'.job.op = "gc"
        /\ writer'.at \in {"write", "erase", "gc", "end"}
    BY <1>1, Taken DEF Typed, FirstStage
  <2> QED
    BY <2>2, <2>3, <2>4 DEF WellFormed
<1>2. CASE GoesOn
  <2>1. UNCHANGED queue /\ writer'.job = writer.job
    BY <1>2, Goes DEF Typed
  <2>2. /\ \A i \in DOMAIN queue' : WellFormed(queue'[i])
        /\ WellFormed(writer'.job)
    BY <2>1
  <2>3. /\ writer'.at = "write" => writer.job.op \in {"unit", "commit"}
        /\ writer'.at \in {"manifest", "count", "supersede"} => writer.job.op = "commit"
        /\ writer'.at # "erase"
        /\ writer'.at = "sweep" => writer.job.op \in {"erase", "commit"}
        /\ writer'.at \in {"gc", "evict"} => writer.job.op = "gc"
    BY <1>2, Stages DEF Typed
  <2> QED
    BY <2>1, <2>2, <2>3 DEF WellFormed
<1>3. CASE End
  BY <1>3, Ended DEF Typed, WellFormed
<1>4. ASSUME NEW jobs \in Seq(Job), EngineStep(jobs) PROVE Staged'
  <2>1. \A i \in DOMAIN jobs : WellFormed(jobs[i])
    BY <1>4 DEF EngineStep
  <2>2. \A i \in DOMAIN queue' : WellFormed(queue'[i])
    BY <1>4, <2>1, Appended
  <2>3. UNCHANGED writer
    BY <1>4, Appended
  <2> QED
    BY <2>2, <2>3 DEF WellFormed
<1>5. CASE Crash
  BY <1>5, CrashTo DEF WellFormed
<1> QED
  BY <1>1, <1>2, <1>3, <1>4, <1>5, WriterSteps

(* The job waited for is the last pending one after every step.             *)
LEMMA InLineStands ==
  ASSUME Typed, Staged, InLine,
         \/ WriterStep /\ UNCHANGED <<eng, adopted>>
         \/ \E jobs \in Seq(Job) : EngineStep(jobs)
         \/ Crash
  PROVE  InLine'
<1> USE DEF At
<1>1. CASE Take /\ UNCHANGED <<eng, adopted>>
  <2>0. Len(queue) \in Nat /\ Len(queue') \in Nat
    BY <1>1, Taken DEF Typed, QueueTyped
  <2>1. UNCHANGED <<eng, adopted, reply>> /\ (Unanswered' <=> Unanswered)
    BY <1>1, Taken DEF Typed, Unanswered
  <2>2. ASSUME NEW i \in DOMAIN queue', queue'[i].ack
        PROVE  i = Len(queue') /\ Unanswered' /\ Asked(queue'[i], eng', adopted')
    BY <1>1, <2>0, <2>1, <2>2, Taken DEF Typed, InLine
  <2>3. ASSUME writer'.job.ack
        PROVE  queue' = <<>> /\ Unanswered' /\ Asked(writer'.job, eng', adopted')
    <3>1. 1 \in DOMAIN queue /\ queue[1].ack
      BY <1>1, <2>0, <2>3, Taken DEF Typed
    <3>2. 1 = Len(queue) /\ Unanswered /\ Asked(queue[1], eng, adopted)
      BY <3>1 DEF InLine
    <3>3. queue' = <<>>
      BY <1>1, <3>2, Taken DEF Typed
    <3> QED
      BY <1>1, <2>1, <3>2, <3>3, Taken DEF Typed
  <2>4. ASSUME Unanswered'
        PROVE  IF queue' # <<>> THEN queue'[Len(queue')].ack
               ELSE writer'.at # "idle" /\ writer'.job.ack
    <3>1. queue[Len(queue)].ack
      BY <1>1, <2>1, <2>4, Taken DEF Typed, InLine
    <3>2. CASE queue' # <<>>
      <4>1. Len(queue') \in DOMAIN queue'
        BY <1>1, <2>0, <3>2, Taken DEF Typed
      <4> QED
        BY <1>1, <2>0, <3>1, <3>2, <4>1, Taken DEF Typed
    <3>3. CASE queue' = <<>>
      <4>1. Len(queue) = 1
        BY <1>1, <2>0, <3>3, Taken DEF Typed
      <4> QED
        BY <1>1, <3>1, <3>3, <4>1, Taken DEF Typed
    <3> QED
      BY <3>2, <3>3
  <2>5. ~(eng'.at \in Waiting /\ reply' # "none")
    BY <1>1, <2>1, Taken DEF Typed, InLine
  <2>6. eng'.at = "commit" => adopted'[eng'.conv] # NoConv
    BY <2>1 DEF InLine
  <2> QED
    BY <2>2, <2>3, <2>4, <2>5, <2>6 DEF InLine
<1>2. CASE GoesOn /\ UNCHANGED <<eng, adopted>>
  <2>1. /\ UNCHANGED <<eng, adopted, reply, queue>> /\ (Unanswered' <=> Unanswered)
        /\ writer'.job = writer.job /\ ~At("idle") /\ writer'.at # "idle"
    BY <1>2, Goes DEF Typed, Unanswered
  <2> QED
    BY <2>1 DEF InLine
<1>3. CASE End /\ UNCHANGED <<eng, adopted>>
  <2>1. /\ UNCHANGED <<eng, adopted, queue>> /\ ~At("idle") /\ writer'.at = "idle"
        /\ reply' = IF writer.job.ack THEN Answer ELSE reply
        /\ Answer # "none"
    BY <1>3, Ended DEF Typed
  <2>2. CASE writer.job.ack
    <3>1. queue' = <<>> /\ reply' # "none"
      BY <2>1, <2>2 DEF InLine
    <3>2. ~Unanswered'
      BY <3>1 DEF Unanswered
    <3> QED
      BY <2>1, <3>1, <3>2 DEF InLine
  <2>3. CASE ~writer.job.ack
    <3>1. reply' = reply /\ (Unanswered' <=> Unanswered)
      BY <2>1, <2>3 DEF Unanswered
    <3> QED
      BY <2>1, <2>3, <3>1 DEF InLine
  <2> QED
    BY <2>2, <2>3
<1>4. ASSUME NEW jobs \in Seq(Job), EngineStep(jobs) PROVE InLine'
  <2>0. Len(queue) \in Nat /\ Len(jobs) \in Nat /\ (jobs # <<>> => Len(jobs) > 0)
    BY DEF Typed, QueueTyped
  <2>1. /\ \A i \in DOMAIN queue : ~queue[i].ack
        /\ At("idle") \/ ~writer.job.ack
    BY <1>4 DEF EngineStep, InLine
  <2>2. writer' = writer
    BY <1>4, Appended
  <2>3. ASSUME NEW i \in DOMAIN queue', queue'[i].ack
        PROVE  /\ i = Len(queue') /\ eng'.at \in Waiting
               /\ queue'[i] = jobs[Len(jobs)]
    <3>1. i - Len(queue) \in DOMAIN jobs /\ queue'[i] = jobs[i - Len(queue)]
      BY <1>4, <2>1, <2>3, Appended
    <3>2. i - Len(queue) = Len(jobs) /\ eng'.at \in Waiting
      BY <1>4, <2>3, <3>1 DEF EngineStep
    <3>3. i \in Int
      BY <1>4, <2>0 DEF Typed, QueueTyped, EngineStep
    <3> QED
      BY <1>4, <2>0, <3>1, <3>2, <3>3, Appended
  <2>4. CASE eng'.at \in Waiting
    <3>1. /\ reply' = "none" /\ jobs # <<>> /\ Asked(jobs[Len(jobs)], eng', adopted')
          /\ eng'.at = "commit" => adopted'[eng'.conv] # NoConv
      BY <1>4, <2>4 DEF EngineStep
    <3>2. Unanswered'
      BY <2>4, <3>1 DEF Unanswered
    <3>3. queue' # <<>> /\ queue'[Len(queue')].ack
      BY <1>4, <3>1, Appended DEF Asked
    <3> QED
      BY <2>1, <2>2, <2>3, <2>4, <3>1, <3>2, <3>3 DEF InLine
  <2>5. CASE eng'.at \notin Waiting
    <3>1. ~Unanswered' /\ eng'.at # "commit"
      BY <2>5 DEF Unanswered, Waiting
    <3> QED
      BY <2>1, <2>2, <2>3, <2>5, <3>1 DEF InLine
  <2> QED
    BY <2>4, <2>5
<1>5. CASE Crash
  <2>1. eng'.at \notin Waiting /\ eng'.at # "commit" /\ queue' = <<>> /\ writer'.at = "idle"
    BY <1>5, CrashTo DEF Waiting
  <2> QED
    BY <2>1 DEF InLine, Unanswered
<1> QED
  BY <1>1, <1>2, <1>3, <1>4, <1>5, WriterSteps

(* A removal has removed by the time it is answered.                        *)
LEMMA RemovedStands ==
  ASSUME Typed, Staged, InLine, Removed,
         \/ WriterStep /\ UNCHANGED <<eng, adopted>>
         \/ \E jobs \in Seq(Job) : EngineStep(jobs)
         \/ Crash
  PROVE  Removed'
<1> USE DEF At
<1>1. ASSUME Take \/ GoesOn, UNCHANGED <<eng, adopted>>, NEW c \in Conv,
             writer'.at = "sweep" \/ (writer'.at = "end" /\ ~writer'.failed), Removes(c)'
      PROVE  manifest'[c] = {}
  <2>1. CASE Take
    <3>1. writer'.job.op \notin {"commit", "erase"}
      BY <1>1, <2>1, Taken DEF Typed, FirstStage
    <3> QED
      BY <1>1, <3>1 DEF Removes
  <2>2. CASE GoesOn
    <3>1. writer'.job = writer.job
      BY <2>2, Goes DEF Typed
    <3>2. Removes(c)
      BY <1>1, <3>1 DEF Removes
    <3>3. CASE At("sweep")
      <4>1. manifest' = manifest
        BY <2>2, <3>3, <3>2, Stages DEF Typed, Removes
      <4> QED
        BY <3>2, <3>3, <4>1 DEF Removed
    <3>4. CASE At("supersede")
      <4>1. writer.job.op = "commit" /\ writer.job.over = c /\ writer.job.conv # c
        BY <3>2, <3>4 DEF Staged, Removes
      <4>2. c # NoConv
        BY NoConvAssumption
      <4> QED
        BY <1>1, <2>2, <3>4, <4>1, <4>2, Stages DEF Typed, QueueTyped
    <3>5. CASE At("erase")
      <4>1. writer.job.op = "erase" /\ writer.job.conv = c
        BY <3>2, <3>5 DEF Staged, Removes
      <4> QED
        BY <1>1, <2>2, <3>5, <4>1, Stages DEF Typed, QueueTyped
    <3>6. CASE writer.at \notin {"sweep", "supersede", "erase"}
      <4>1. writer.job.op \in {"unit", "gc"}
        BY <1>1, <2>2, <3>6, Stages DEF Typed
      <4> QED
        BY <3>2, <4>1 DEF Removes
    <3> QED
      BY <3>3, <3>4, <3>5, <3>6
  <2> QED
    BY <1>1, <2>1, <2>2
<1>2. CASE (Take \/ GoesOn) /\ UNCHANGED <<eng, adopted>>
  <2>1. reply' = reply /\ ~(At("idle") /\ queue = <<>>)
    BY <1>2, Taken, Goes DEF Typed
  <2>2. ~(eng'.at \in Waiting /\ reply' # "none")
    BY <1>2, <2>1 DEF InLine
  <2>3. ~(eng'.at \in {"erase", "commit"} /\ reply' = "ok")
    BY <2>2 DEF Waiting
  <2> QED
    BY <1>1, <1>2, <2>3 DEF Removed
<1>3. CASE End /\ UNCHANGED <<eng, adopted>>
  <2>1. /\ UNCHANGED <<eng, adopted, manifest>> /\ At("end") /\ writer'.at = "idle"
        /\ reply' = IF writer.job.ack THEN Answer ELSE reply
        /\ Answer = "ok" => ~writer.failed
    BY <1>3, Ended DEF Typed
  <2>2. ASSUME reply' = "ok", eng.at \in {"erase", "commit"}
        PROVE  writer.job.ack /\ ~writer.failed /\ Asked(writer.job, eng, adopted)
    <3>1. CASE writer.job.ack
      BY <2>1, <2>2, <3>1 DEF InLine
    <3>2. CASE ~writer.job.ack
      BY <2>1, <2>2, <3>2 DEF InLine, Waiting
    <3> QED
      BY <3>1, <3>2
  <2>3. ASSUME reply' = "ok", eng.at = "erase" PROVE manifest[eng.conv] = {}
    <3>1. eng.conv \in Conv
      BY <2>3 DEF Typed, EngineTyped
    <3>2. Removes(eng.conv)
      BY <2>2, <2>3 DEF Asked, Removes
    <3> QED
      BY <2>1, <2>2, <2>3, <3>1, <3>2 DEF Removed
  <2>4. ASSUME reply' = "ok", eng.at = "commit" PROVE manifest[adopted[eng.conv]] = {}
    <3>1. eng.conv \in Conv
      BY <2>4 DEF Typed, EngineTyped
    <3>2. adopted[eng.conv] \in Conv /\ adopted[eng.conv] # eng.conv
      BY <2>4, <3>1 DEF Typed, PoolTyped, InLine
    <3>3. Removes(adopted[eng.conv])
      BY <2>2, <2>4, <3>2 DEF Asked, Removes
    <3> QED
      BY <2>1, <2>2, <2>4, <3>2, <3>3 DEF Removed
  <2> QED
    BY <2>1, <2>3, <2>4 DEF Removed
<1>4. ASSUME NEW jobs \in Seq(Job), EngineStep(jobs) PROVE Removed'
  <2>1. UNCHANGED <<writer, manifest>> /\ (eng'.at \in Waiting => reply' = "none")
    BY <1>4 DEF EngineStep
  <2>2. ~(eng'.at \in {"erase", "commit"} /\ reply' = "ok")
    BY <2>1 DEF Waiting
  <2> QED
    BY <2>1, <2>2 DEF Removed, Removes
<1>5. CASE Crash
  BY <1>5, CrashTo DEF Removed
<1> QED
  BY <1>2, <1>3, <1>4, <1>5, WriterSteps

(* Nothing brings back what was forgotten.                                  *)
LEMMA ForgottenStands ==
  ASSUME Typed, Staged, InLine, Removed, Forgotten,
         \/ WriterStep /\ UNCHANGED sent
         \/ \E jobs \in Seq(Job) : EngineStep(jobs)
         \/ Crash
  PROVE  Forgotten'
<1> USE DEF At
<1>1. CASE Take /\ UNCHANGED sent
  <2>1. ASSUME NEW c \in Conv, ToCome(c)' PROVE ToCome(c)
    <3>1. CASE writer'.job.op = "commit" /\ writer'.job.conv = c
      <4>1. 1 \in DOMAIN queue /\ queue[1].op = "commit" /\ queue[1].conv = c
        BY <1>1, <3>1, Taken DEF Typed, QueueTyped
      <4> QED
        BY <4>1 DEF ToCome
    <3>2. ASSUME NEW i \in DOMAIN queue', queue'[i].op = "commit" /\ queue'[i].conv = c
          PROVE  ToCome(c)
      BY <1>1, <3>2, Taken DEF Typed, ToCome
    <3> QED
      BY <2>1, <3>1, <3>2 DEF ToCome
  <2>2. manifest' = manifest
    BY <1>1, Taken DEF Typed
  <2> QED
    BY <1>1, <2>1, <2>2 DEF Forgotten
<1>2. CASE GoesOn /\ UNCHANGED sent
  <2>1. queue' = queue /\ writer'.job = writer.job
    BY <1>2, Goes DEF Typed
  <2>2. writer'.at \in {"write", "manifest"} => writer.at = "write"
    BY <1>2, Stages DEF Typed
  <2>3. ASSUME NEW c \in Conv, ToCome(c)' PROVE ToCome(c)
    BY <2>1, <2>2, <2>3 DEF ToCome
  <2>4. ASSUME NEW c \in Conv, manifest[c] = {}, ~ToCome(c) PROVE manifest'[c] = {}
    <3>1. At("manifest") => writer.job.conv # c
      BY <2>4 DEF Staged, ToCome
    <3> QED
      BY <1>2, <2>4, <3>1, Stages DEF Typed, QueueTyped
  <2> QED
    BY <1>2, <2>3, <2>4 DEF Forgotten
<1>3. CASE End /\ UNCHANGED sent
  <2>1. UNCHANGED <<queue, manifest>> /\ writer'.at = "idle"
    BY <1>3, Ended DEF Typed
  <2> QED
    BY <1>3, <2>1 DEF Forgotten, ToCome
<1>4. ASSUME NEW jobs \in Seq(Job), EngineStep(jobs) PROVE Forgotten'
  <2>1. SUFFICES ASSUME NEW c \in Conv, sent'[c] = {}
                 PROVE  manifest'[c] = {} /\ ~ToCome(c)'
    BY DEF Forgotten
  <2>2. sent[c] = {} \/ (reply = "ok" /\ BeingRemoved(c))
    BY <1>4, <2>1 DEF EngineStep
  <2>3. manifest[c] = {} /\ ~ToCome(c)
    <3>1. CASE sent[c] = {}
      BY <3>1 DEF Forgotten
    <3>2. CASE reply = "ok" /\ BeingRemoved(c)
      <4>1. manifest[c] = {}
        BY <3>2 DEF Removed, BeingRemoved
      <4>2. queue = <<>> /\ At("idle")
        BY <3>2 DEF InLine, BeingRemoved, Waiting
      <4> QED
        BY <4>1, <4>2 DEF ToCome
    <3> QED
      BY <2>2, <3>1, <3>2
  <2>4. UNCHANGED <<writer, manifest>>
    BY <1>4, Appended
  <2>5. ASSUME NEW i \in DOMAIN queue', queue'[i].op = "commit", queue'[i].conv = c
        PROVE  FALSE
    <3>1. CASE i \in DOMAIN queue /\ queue'[i] = queue[i]
      BY <2>3, <2>5, <3>1 DEF ToCome
    <3>2. CASE i - Len(queue) \in DOMAIN jobs /\ queue'[i] = jobs[i - Len(queue)]
      BY <1>4, <2>1, <2>5, <3>2 DEF EngineStep
    <3> QED
      BY <1>4, <3>1, <3>2, Appended
  <2> QED
    BY <2>3, <2>4, <2>5 DEF ToCome
<1>5. CASE Crash
  BY <1>5, CrashTo DEF Forgotten, ToCome
<1> QED
  BY <1>1, <1>2, <1>3, <1>4, <1>5, WriterSteps

-----------------------------------------------------------------------------
(* The invariant at the start.                                              *)
LEMMA StandsInitially == Init => Stands
<1> SUFFICES ASSUME Init PROVE Stands
  OBVIOUS
<1>1. /\ queue = <<>> /\ writer.at = "idle" /\ writer.job = Plain("none") /\ reply = "none"
      /\ eng.at = "free" /\ Plain("none").op = "none"
      /\ \A c \in Conv : manifest[c] = {}
  BY DEF Init, InitStore, InitMem, Idle, Plain, Free
<1>2. Staged
  BY <1>1 DEF Staged, WellFormed, At
<1>3. InLine
  BY <1>1 DEF InLine, Unanswered, Waiting, At
<1>4. Removed /\ Forgotten
  BY <1>1 DEF Removed, Forgotten, ToCome, At
<1> QED
  BY <1>2, <1>3, <1>4, TypedInitially DEF Stands

(* The invariant after a step.                                              *)
LEMMA StandsInductively == Stands /\ [Next]_vars => Stands'
<1> SUFFICES ASSUME Stands, [Next]_vars PROVE Stands'
  OBVIOUS
<1> USE DEF Stands
<1>1. Typed'
  BY TypedStands
<1>2. CASE Writer
  <2>1. WriterStep /\ UNCHANGED <<eng, adopted>> /\ UNCHANGED sent
    BY <1>2 DEF Writer, poolVars
  <2> QED
    BY <1>1, <2>1, StagedStands, InLineStands, RemovedStands, ForgottenStands
<1>3. CASE Request \/ Maintenance
  <2>1. \E jobs \in Seq(Job) : EngineStep(jobs)
    BY <1>3, EngineSteps
  <2> QED
    BY <1>1, <2>1, StagedStands, InLineStands, RemovedStands, ForgottenStands
<1>4. CASE Crash
  BY <1>1, <1>4, StagedStands, InLineStands, RemovedStands, ForgottenStands
<1>5. CASE UNCHANGED vars
  BY <1>1, <1>5 DEF vars, poolVars, diskVars, storeVars, memVars, Staged, InLine, Removed,
    Forgotten, Unanswered, Removes, ToCome, At
<1> QED
  BY <1>2, <1>3, <1>4, <1>5 DEF Next, Quiescent

(* The invariant.                                                           *)
LEMMA StandsAlways == Spec => []Stands
<1> QED
  BY StandsInitially, StandsInductively, PTL DEF Spec

(* Erasing a conversation is final, whatever was queued for it and whatever *)
(* failed: the erase is asked for and waited for, so that when it is        *)
(* answered no commit of the conversation is left to bring it back.         *)
THEOREM ErasedStaysErased == Spec => []EraseIsFinal
<1>1. Stands => EraseIsFinal
  BY DEF Stands, Forgotten, EraseIsFinal
<1> QED
  BY <1>1, StandsAlways, PTL

-----------------------------------------------------------------------------
(* What a barrier that says durable means, for a store that is not capped   *)
(* while it runs: with nothing failed since the queue was opened, every     *)
(* manifest is the one last handed over.                                    *)

(* The last commit of a conversation in the queue.                          *)
LastToCome(c, i) ==
  /\ queue[i].op = "commit" /\ queue[i].conv = c
  /\ \A k \in DOMAIN queue : k > i => ~(queue[k].op = "commit" /\ queue[k].conv = c)

NoneToCome(c) == \A i \in DOMAIN queue : ~(queue[i].op = "commit" /\ queue[i].conv = c)

InHand(c) == writer.at \in {"write", "manifest"} /\ writer.job.op = "commit" /\ writer.job.conv = c

(* Until a failure, the last commit to come names what was handed over, or  *)
(* the one in hand does, or the manifest is it.                             *)
KnownOf(c) ==
  /\ \A i \in DOMAIN queue : LastToCome(c, i) => queue[i].names = sent[c]
  /\ NoneToCome(c) => IF InHand(c) THEN writer.job.names = sent[c] ELSE manifest[c] = sent[c]

Known == ~pendingError => \A c \in Conv : sent[c] # {} /\ ~BeingRemoved(c) => KnownOf(c)

(* A failure is noted before anyone is told, and a barrier asks for it.     *)
Noted ==
  /\ writer.failed => pendingError
  /\ eng.at \in Waiting /\ reply = "err" => pendingError
  /\ eng.at = "drain" /\ reply = "ok" => ~pendingError

NoGc ==
  /\ \A i \in DOMAIN queue : queue[i].op # "gc"
  /\ ~At("idle") => writer.job.op # "gc"

-----------------------------------------------------------------------------
(* No step of the writer takes a failure back.                              *)
LEMMA Failures ==
  ASSUME QueueTyped, GoesOn
  PROVE  /\ pendingError => pendingError'
         /\ writer'.failed => writer.failed \/ pendingError'
<1> USE DEF QueueTyped, At, GoTo, Fail
<1>1. ASSUME NEW b \in Blob, WriteBlob(b)
      PROVE  /\ pendingError => pendingError'
             /\ writer'.failed => writer.failed \/ pendingError'
  BY <1>1 DEF WriteBlob
<1>2. ASSUME NEW c, RemoveThenSweep(c)
      PROVE  /\ pendingError => pendingError'
             /\ writer'.failed => writer.failed \/ pendingError'
  BY <1>2 DEF RemoveThenSweep
<1>3. CASE WroteBlobs
  BY <1>3 DEF WroteBlobs
<1>4. CASE Commit
  BY <1>4 DEF Commit
<1>5. CASE Count
  BY <1>5 DEF Count
<1>6. CASE Supersede
  BY <1>2, <1>6 DEF Supersede
<1>7. CASE Erase
  BY <1>2, <1>7 DEF Erase
<1>8. CASE Sweep
  BY <1>8 DEF Sweep
<1>9. CASE GcSkip \/ GcWalk \/ GcMeasured
  BY <1>9 DEF GcSkip, GcWalk, GcMeasured
<1>10. CASE GcEvict
  BY <1>10 DEF GcEvict
<1> QED
  BY <1>1, <1>3, <1>4, <1>5, <1>6, <1>7, <1>8, <1>9, <1>10 DEF GoesOn

(* What an answer says of the failures so far.                              *)
LEMMA EndedNoting ==
  ASSUME QueueTyped, End
  PROVE  /\ pendingError' = pendingError /\ ~writer'.failed
         /\ Answer = "err" => writer.failed \/ pendingError
         /\ Answer = "ok" /\ writer.job.op = "barrier" => ~pendingError
BY DEF End, Idle, Answer

(* Taking a job notes nothing.                                              *)
LEMMA TakenNoting ==
  ASSUME QueueTyped, Take
  PROVE  pendingError' = pendingError /\ ~writer'.failed
BY DEF Take

(* Failures are noted before they are told.                                 *)
LEMMA NotedStands ==
  ASSUME Stands, Noted,
         \/ WriterStep /\ UNCHANGED <<eng, adopted>>
         \/ \E jobs \in Seq(Job) : EngineStep(jobs)
         \/ Crash
  PROVE  Noted'
<1> USE DEF Stands, Typed
<1>1. CASE (Take \/ GoesOn) /\ UNCHANGED <<eng, adopted>>
  <2>1. reply' = reply /\ ~(At("idle") /\ queue = <<>>)
    BY <1>1, Taken, Goes
  <2>2. ~(eng'.at \in Waiting /\ reply' # "none")
    BY <1>1, <2>1 DEF InLine
  <2>3. writer'.failed => pendingError'
    BY <1>1, Failures, TakenNoting DEF Noted
  <2> QED
    BY <2>2, <2>3 DEF Noted, Waiting
<1>2. CASE End /\ UNCHANGED <<eng, adopted>>
  <2>1. /\ ~At("idle") /\ reply' = IF writer.job.ack THEN Answer ELSE reply
        /\ UNCHANGED <<eng, pendingError>> /\ ~writer'.failed
        /\ Answer = "err" => writer.failed \/ pendingError
        /\ Answer = "ok" /\ writer.job.op = "barrier" => ~pendingError
    BY <1>2, Ended, EndedNoting DEF At
  <2>2. CASE writer.job.ack
    <3>1. Asked(writer.job, eng, adopted)
      BY <2>1, <2>2 DEF InLine
    <3> QED
      BY <2>1, <2>2, <3>1 DEF Noted, Asked
  <2>3. CASE ~writer.job.ack
    <3>1. ~(eng.at \in Waiting /\ reply # "none")
      BY <2>1 DEF InLine
    <3> QED
      BY <2>1, <2>3, <3>1 DEF Noted, Waiting
  <2> QED
    BY <2>2, <2>3
<1>3. ASSUME NEW jobs \in Seq(Job), EngineStep(jobs) PROVE Noted'
  <2>1. UNCHANGED <<writer, pendingError>> /\ (eng'.at \in Waiting => reply' = "none")
    BY <1>3 DEF EngineStep
  <2> QED
    BY <2>1 DEF Noted, Waiting
<1>4. CASE Crash
  <2>1. ~writer'.failed
    BY <1>4 DEF Crash, RestartMem, Idle
  <2> QED
    BY <1>4, <2>1, CrashTo DEF Noted, Waiting
<1> QED
  BY <1>1, <1>2, <1>3, <1>4, WriterSteps

(* A store that is not capped collects nothing.                             *)
LEMMA NoGcStands ==
  ASSUME Stands, NoGc, ~Evicting,
         \/ WriterStep
         \/ \E jobs \in Seq(Job) : EngineStep(jobs)
         \/ Crash
  PROVE  NoGc'
<1> USE DEF Stands, Typed, NoGc, At
<1>1. CASE Take
  <2>1. queue[1].op # "gc"
    <3>1. 1 \in DOMAIN queue
      BY <1>1, Taken DEF QueueTyped
    <3> QED
      BY <3>1
  <2> QED
    BY <1>1, <2>1, Taken
<1>2. CASE GoesOn
  BY <1>2, Goes
<1>3. CASE End
  BY <1>3, Ended
<1>4. ASSUME NEW jobs \in Seq(Job), EngineStep(jobs) PROVE NoGc'
  <2>1. \A i \in DOMAIN jobs : jobs[i].op # "gc"
    BY <1>4 DEF EngineStep
  <2>2. writer' = writer
    BY <1>4, Appended
  <2>3. \A i \in DOMAIN queue' : queue'[i].op # "gc"
    BY <1>4, <2>1, Appended
  <2> QED
    BY <2>2, <2>3
<1>5. CASE Crash
  BY <1>5, CrashTo
<1> QED
  BY <1>1, <1>2, <1>3, <1>4, <1>5, WriterSteps

-----------------------------------------------------------------------------
(* What was handed over is not touched by the writer's other jobs.          *)
LEMMA KnownByWriter ==
  ASSUME Stands, Noted, NoGc, Known, WriterStep, UNCHANGED <<eng, adopted, sent>>,
         ~pendingError', NEW c \in Conv, sent[c] # {}, ~BeingRemoved(c)
  PROVE  KnownOf(c)'
<1> USE DEF Stands, Typed, At
<1>1. ~pendingError
  BY WriterSteps, Failures, TakenNoting, EndedNoting
<1>2. KnownOf(c)
  BY <1>1 DEF Known
<1>3. CASE Take
  <2>1. /\ Len(queue) \in Nat /\ Len(queue) > 0 /\ Len(queue') = Len(queue) - 1
        /\ DOMAIN queue = 1 .. Len(queue) /\ DOMAIN queue' = 1 .. Len(queue')
        /\ \A i \in DOMAIN queue' : queue'[i] = queue[i + 1]
        /\ writer'.job = queue[1] /\ manifest' = manifest /\ ~InHand(c)
    BY <1>3, Taken DEF QueueTyped, InHand
  <2>2. ASSUME NEW i \in DOMAIN queue', LastToCome(c, i)' PROVE queue'[i].names = sent'[c]
    <3>1. LastToCome(c, i + 1) /\ i + 1 \in DOMAIN queue
      <4>1. ASSUME NEW k \in DOMAIN queue, k > i + 1
            PROVE  ~(queue[k].op = "commit" /\ queue[k].conv = c)
        <5>1. k - 1 \in DOMAIN queue' /\ k - 1 > i /\ queue'[k - 1] = queue[k]
          BY <2>1, <4>1
        <5> QED
          BY <2>2, <5>1 DEF LastToCome
      <4> QED
        BY <2>1, <2>2, <4>1 DEF LastToCome
    <3> QED
      BY <1>2, <2>1, <3>1 DEF KnownOf
  <2>3. ASSUME NoneToCome(c)'
        PROVE  IF InHand(c)' THEN writer'.job.names = sent'[c] ELSE manifest'[c] = sent'[c]
    <3>1. \A k \in DOMAIN queue : k > 1 => ~(queue[k].op = "commit" /\ queue[k].conv = c)
      <4>1. ASSUME NEW k \in DOMAIN queue, k > 1
            PROVE  k - 1 \in DOMAIN queue' /\ queue'[k - 1] = queue[k]
        BY <2>1, <4>1
      <4> QED
        BY <2>3, <4>1 DEF NoneToCome
    <3>2. 1 \in DOMAIN queue
      BY <2>1
    <3>3. CASE queue[1].op = "commit" /\ queue[1].conv = c
      <4>1. InHand(c)'
        BY <1>3, <2>1, <3>3, Taken DEF InHand, FirstStage
      <4>2. LastToCome(c, 1)
        BY <3>1, <3>3 DEF LastToCome
      <4> QED
        BY <1>2, <2>1, <3>2, <4>1, <4>2 DEF KnownOf
    <3>4. CASE ~(queue[1].op = "commit" /\ queue[1].conv = c)
      <4>1. ~InHand(c)'
        BY <2>1, <3>4 DEF InHand
      <4>2. NoneToCome(c)
        <5>1. \A k \in DOMAIN queue : k = 1 \/ k > 1
          BY <2>1
        <5> QED
          BY <3>1, <3>4, <5>1 DEF NoneToCome
      <4> QED
        BY <1>2, <2>1, <4>1, <4>2 DEF KnownOf
    <3> QED
      BY <3>3, <3>4
  <2> QED
    BY <2>2, <2>3 DEF KnownOf
<1>4. CASE End
  BY <1>2, <1>4, Ended DEF KnownOf, LastToCome, NoneToCome, InHand
<1>5. CASE GoesOn
  <2>1. /\ UNCHANGED queue /\ writer'.job = writer.job /\ ~writer'.failed /\ ~At("idle")
    BY <1>5, Goes, Failures DEF Noted
  <2>2. SUFFICES ASSUME NoneToCome(c)
                 PROVE  IF InHand(c)' THEN writer'.job.names = sent[c] ELSE manifest'[c] = sent[c]
    BY <1>2, <2>1 DEF KnownOf, LastToCome, NoneToCome
  <2>3. writer.job.op # "gc"
    BY <2>1 DEF NoGc
  <2>4. CASE At("write")
    <3>1. writer'.at \in {"write", "manifest"} \/ writer.job.op = "unit"
      BY <1>5, <2>3, <2>4, Stages
    <3>2. manifest' = manifest /\ (InHand(c)' <=> InHand(c))
      BY <1>5, <2>1, <2>3, <2>4, <3>1, Stages DEF InHand
    <3> QED
      BY <1>2, <2>1, <2>2, <3>2 DEF KnownOf
  <2>5. CASE At("manifest")
    <3>1. /\ ~InHand(c)' /\ writer.job.op = "commit"
          /\ manifest' = [manifest EXCEPT ![writer.job.conv] = writer.job.names]
      BY <1>5, <2>1, <2>3, <2>5, Stages DEF InHand, Staged
    <3> QED
      BY <1>2, <2>2, <2>5, <3>1 DEF KnownOf, InHand, QueueTyped
  <2>6. CASE writer.at \notin {"write", "manifest"}
    <3>1. ~InHand(c) /\ ~InHand(c)'
      BY <1>5, <2>1, <2>3, <2>6, Stages DEF InHand
    <3>2. manifest'[c] = manifest[c]
      <4>1. CASE At("supersede")
        <5>1. ASSUME writer.job.over # NoConv PROVE writer.job.over # c
          <6>1. writer.job.op = "commit" /\ writer.job.ack
            BY <4>1, <5>1 DEF Staged, WellFormed
          <6>2. /\ Asked(writer.job, eng, adopted)
                /\ eng.at \in Waiting
            BY <2>1, <6>1 DEF InLine, Unanswered
          <6> QED
            BY <6>1, <6>2 DEF Asked, BeingRemoved, Waiting
        <5> QED
          BY <1>5, <2>3, <4>1, <5>1, Stages DEF QueueTyped
      <4>2. CASE At("erase")
        <5>1. writer.job.conv # c
          <6>1. writer.job.op = "erase" /\ writer.job.ack
            BY <4>2 DEF Staged, WellFormed
          <6>2. Asked(writer.job, eng, adopted) /\ eng.at \in Waiting
            BY <2>1, <6>1 DEF InLine, Unanswered
          <6> QED
            BY <6>1, <6>2 DEF Asked, BeingRemoved, Waiting
        <5> QED
          BY <1>5, <2>3, <4>2, <5>1, Stages DEF QueueTyped
      <4>3. CASE writer.at \notin {"supersede", "erase"}
        BY <1>5, <2>3, <2>6, <4>3, Stages
      <4> QED
        BY <4>1, <4>2, <4>3
    <3> QED
      BY <1>2, <2>2, <3>1, <3>2 DEF KnownOf
  <2> QED
    BY <2>4, <2>5, <2>6
<1> QED
  BY <1>3, <1>4, <1>5, WriterSteps

(* The holder of the lock hands over what it notes as sent.                 *)
LEMMA KnownByEngine ==
  ASSUME Stands, Noted, Known, NEW jobs \in Seq(Job), EngineStep(jobs),
         ~pendingError', NEW c \in Conv, sent'[c] # {}, ~BeingRemoved(c)'
  PROVE  KnownOf(c)'
<1> USE DEF Stands, Typed
<1>1. ~pendingError /\ UNCHANGED <<writer, manifest>>
  BY DEF EngineStep
<1>2. ~BeingRemoved(c)
  <2>1. SUFFICES ASSUME BeingRemoved(c) PROVE FALSE
    OBVIOUS
  <2>2. reply \in {"ok", "err"} /\ eng.at \in Waiting
    BY <2>1 DEF BeingRemoved, EngineStep, Unanswered, Waiting, QueueTyped
  <2>3. reply = "ok"
    BY <1>1, <2>2 DEF Noted
  <2> QED
    BY <2>1, <2>3 DEF EngineStep
<1>3. Len(queue) \in Nat /\ queue \in Seq(Job) /\ queue' = queue \o jobs
  BY DEF QueueTyped, EngineStep
<1>4. /\ DOMAIN queue' = 1 .. Len(queue) + Len(jobs)
      /\ \A i \in DOMAIN queue : i \in DOMAIN queue' /\ queue'[i] = queue[i]
      /\ \A i \in DOMAIN jobs : /\ i + Len(queue) \in DOMAIN queue'
                                /\ queue'[i + Len(queue)] = jobs[i]
                                /\ \A k \in DOMAIN queue : i + Len(queue) > k
  BY <1>3
<1>5. CASE \E i \in DOMAIN jobs : jobs[i].op = "commit" /\ jobs[i].conv = c
  <2>1. PICK i \in DOMAIN jobs : jobs[i].op = "commit" /\ jobs[i].conv = c
    BY <1>5
  <2>2. ~NoneToCome(c)'
    BY <1>4, <2>1 DEF NoneToCome
  <2>3. ASSUME NEW k \in DOMAIN queue', LastToCome(c, k)' PROVE queue'[k].names = sent'[c]
    <3>1. CASE k \in DOMAIN queue
      BY <1>4, <2>1, <2>3, <3>1 DEF LastToCome
    <3>2. CASE k - Len(queue) \in DOMAIN jobs /\ queue'[k] = jobs[k - Len(queue)]
      BY <2>3, <3>2 DEF LastToCome, EngineStep
    <3> QED
      BY <3>1, <3>2, Appended
  <2> QED
    BY <2>2, <2>3 DEF KnownOf
<1>6. CASE ~\E i \in DOMAIN jobs : jobs[i].op = "commit" /\ jobs[i].conv = c
  <2>1. sent'[c] = sent[c]
    BY <1>2, <1>6 DEF EngineStep
  <2>2. KnownOf(c)
    BY <1>1, <1>2, <2>1 DEF Known
  <2>3. ASSUME NEW k \in DOMAIN queue', LastToCome(c, k)' PROVE queue'[k].names = sent'[c]
    <3>1. k \in DOMAIN queue /\ queue'[k] = queue[k]
      BY <1>6, <2>3, Appended DEF LastToCome
    <3>2. LastToCome(c, k)
      BY <1>4, <2>3, <3>1 DEF LastToCome
    <3> QED
      BY <2>1, <2>2, <3>1, <3>2 DEF KnownOf
  <2>4. NoneToCome(c)' => NoneToCome(c)
    BY <1>4 DEF NoneToCome
  <2>5. InHand(c)' <=> InHand(c)
    BY <1>1 DEF InHand
  <2> QED
    BY <1>1, <2>1, <2>2, <2>3, <2>4, <2>5 DEF KnownOf
<1> QED
  BY <1>5, <1>6

(* After a crash what is on disk is what is known.                          *)
LEMMA KnownAfterCrash ==
  ASSUME Crash
  PROVE  Known'
<1>1. /\ queue' = <<>> /\ writer'.at = "idle" /\ sent' = manifest'
  BY CrashTo
<1> QED
  BY <1>1 DEF Known, KnownOf, LastToCome, NoneToCome, InHand

-----------------------------------------------------------------------------
Told == Stands /\ Noted /\ NoGc /\ Known

(* The invariant of the barrier at the start.                               *)
LEMMA ToldInitially == Init => Told
<1> SUFFICES ASSUME Init PROVE Told
  OBVIOUS
<1>1. /\ queue = <<>> /\ writer.at = "idle" /\ ~writer.failed /\ reply = "none"
      /\ eng.at = "free" /\ \A c \in Conv : sent[c] = {}
  BY DEF Init, InitStore, InitMem, Idle, Free
<1>2. Noted /\ NoGc /\ Known
  BY <1>1 DEF Noted, NoGc, Known, Waiting, At
<1> QED
  BY <1>2, StandsInitially DEF Told

(* The invariant of the barrier after a step.                               *)
LEMMA ToldInductively ==
  ASSUME ~Evicting
  PROVE  Told /\ [Next]_vars => Told'
<1> SUFFICES ASSUME Told, [Next]_vars PROVE Told'
  OBVIOUS
<1> USE DEF Told
<1>1. Stands'
  BY StandsInductively
<1>2. CASE Writer
  <2>1. WriterStep /\ UNCHANGED <<eng, adopted, sent>>
    BY <1>2 DEF Writer, poolVars
  <2>2. \A c : BeingRemoved(c)' <=> BeingRemoved(c)
    BY <2>1 DEF BeingRemoved
  <2>3. Known'
    BY <2>1, <2>2, KnownByWriter DEF Known
  <2> QED
    BY <1>1, <2>1, <2>3, NotedStands, NoGcStands
<1>3. CASE Request \/ Maintenance
  <2>1. PICK jobs \in Seq(Job) : EngineStep(jobs)
    BY <1>3, EngineSteps DEF Stands
  <2>2. Known'
    BY <2>1, KnownByEngine DEF Known
  <2> QED
    BY <1>1, <2>1, <2>2, NotedStands, NoGcStands
<1>4. CASE Crash
  BY <1>1, <1>4, NotedStands, NoGcStands, KnownAfterCrash
<1>5. CASE UNCHANGED vars
  BY <1>1, <1>5 DEF vars, poolVars, diskVars, storeVars, memVars, Noted, NoGc, Known, KnownOf,
    LastToCome, NoneToCome, InHand, BeingRemoved, At
<1> QED
  BY <1>2, <1>3, <1>4, <1>5 DEF Next, Quiescent

(* A barrier that answers ok: everything handed over before it is on disk   *)
(* under the manifest last sent.  The holder of the lock waits for the      *)
(* barrier, so nothing is behind it; a failure since the queue was opened   *)
(* makes it answer otherwise; and only the removal asked for and waited for *)
(* takes a manifest away.                                                   *)
THEOREM BarrierTellsTheTruth ==
  ASSUME ~Evicting
  PROVE  Spec => []BarrierMeansDurable
<1>1. Init => Told
  BY ToldInitially
<1>2. Told /\ [Next]_vars => Told'
  BY ToldInductively
<1>3. Told => BarrierMeansDurable
  <2>1. SUFFICES ASSUME Told, Engine("drain"), reply = "ok", NEW c \in Conv, sent[c] # {}
                 PROVE  manifest[c] = sent[c]
    BY DEF BarrierMeansDurable
  <2>2. ~pendingError /\ ~BeingRemoved(c)
    BY <2>1 DEF Told, Noted, Engine, BeingRemoved
  <2>3. queue = <<>> /\ At("idle")
    BY <2>1 DEF Told, Stands, InLine, Engine, Waiting
  <2>4. NoneToCome(c) /\ ~InHand(c)
    BY <2>3 DEF NoneToCome, InHand, At
  <2> QED
    BY <2>1, <2>2, <2>4 DEF Told, Known, KnownOf
<1> QED
  BY <1>1, <1>2, <1>3, PTL DEF Spec

-----------------------------------------------------------------------------
(* The books.  The commits of a queue that name an extent's unit.          *)
CommitsOf(q, e) == {i \in DOMAIN q : q[i].op = "commit" /\ Unit(e) \in q[i].names}

(* Two queues that go on alike are alike.                                  *)
LEMMA SameEnd ==
  ASSUME NEW q \in Seq(Job), NEW r \in Seq(Job), NEW s \in Seq(Job), q \o r = q \o s
  PROVE  r = s
<1>1. Len(r) = Len(s)
  <2>1. Len(q \o r) = Len(q) + Len(r) /\ Len(q \o s) = Len(q) + Len(s)
    OBVIOUS
  <2> QED
    BY <2>1
<1>2. ASSUME NEW i \in 1 .. Len(r) PROVE r[i] = s[i]
  <2>1. (q \o r)[Len(q) + i] = r[i] /\ (q \o s)[Len(q) + i] = s[i]
    BY <1>1
  <2> QED
    BY <2>1
<1> QED
  BY <1>1, <1>2

(* A set of numbers moved up by n has as many.                             *)
LEMMA Moved ==
  ASSUME NEW n \in Nat, NEW m \in Nat, NEW S \in SUBSET (1 .. m)
  PROVE  LET T == {i + n : i \in S}
         IN  /\ IsFiniteSet(S) /\ IsFiniteSet(T) /\ Cardinality(T) = Cardinality(S)
             /\ Cardinality(S) \in Nat
<1> DEFINE T == {i + n : i \in S}
           f == [i \in S |-> i + n]
<1>1. IsFiniteSet(S) /\ Cardinality(S) \in Nat
  <2>1. IsFiniteSet(1 .. m)
    BY FS_Interval
  <2>2. IsFiniteSet(S)
    BY <2>1, FS_Subset
  <2> QED
    BY <2>2, FS_CardinalityType
<1>2. f \in Bijection(S, T)
  BY DEF Bijection, Injection, Surjection, IsInjective
<1>3. ExistsBijection(S, T)
  BY <1>2 DEF ExistsBijection
<1> HIDE DEF f
<1>4. IsFiniteSet(T) /\ Cardinality(T) = Cardinality(S)
  <2> HIDE DEF T
  <2> QED
    BY <1>1, <1>3, FS_Bijection
<1> QED
  BY <1>1, <1>4

(* The commits of a queue are finitely many.                               *)
LEMMA CommitsCount ==
  ASSUME NEW q \in Seq(Job), NEW e
  PROVE  IsFiniteSet(CommitsOf(q, e)) /\ Cardinality(CommitsOf(q, e)) \in Nat
<1>1. CommitsOf(q, e) \in SUBSET (1 .. Len(q)) /\ Len(q) \in Nat
  BY DEF CommitsOf
<1>2. IsFiniteSet(1 .. Len(q))
  BY <1>1, FS_Interval
<1>3. IsFiniteSet(CommitsOf(q, e))
  BY <1>1, <1>2, FS_Subset
<1> QED
  BY <1>3, FS_CardinalityType

(* What is sent adds its own.                                              *)
LEMMA CommitsJoin ==
  ASSUME NEW q \in Seq(Job), NEW r \in Seq(Job), NEW e
  PROVE  Cardinality(CommitsOf(q \o r, e))
           = Cardinality(CommitsOf(q, e)) + Cardinality(CommitsOf(r, e))
<1> DEFINE T == {i + Len(q) : i \in CommitsOf(r, e)}
<1>1. /\ Len(q) \in Nat /\ Len(r) \in Nat /\ CommitsOf(r, e) \in SUBSET (1 .. Len(r))
      /\ CommitsOf(q, e) \in SUBSET (1 .. Len(q))
  BY DEF CommitsOf
<1>2. /\ IsFiniteSet(T) /\ Cardinality(T) = Cardinality(CommitsOf(r, e))
      /\ Cardinality(CommitsOf(r, e)) \in Nat
  BY <1>1, Moved
<1>3. IsFiniteSet(CommitsOf(q, e)) /\ Cardinality(CommitsOf(q, e)) \in Nat
  BY CommitsCount
<1>4. CommitsOf(q \o r, e) = CommitsOf(q, e) \cup T
  <2>1. /\ DOMAIN (q \o r) = 1 .. (Len(q) + Len(r))
        /\ \A i \in 1 .. Len(q) : (q \o r)[i] = q[i]
        /\ \A i \in 1 .. Len(r) : (q \o r)[Len(q) + i] = r[i]
    OBVIOUS
  <2>2. ASSUME NEW i \in CommitsOf(q \o r, e) PROVE i \in CommitsOf(q, e) \cup T
    <3>1. CASE i \in 1 .. Len(q)
      BY <2>1, <2>2, <3>1 DEF CommitsOf
    <3>2. CASE i \notin 1 .. Len(q)
      <4>1. i \in 1 .. (Len(q) + Len(r)) /\ i - Len(q) \in 1 .. Len(r)
        BY <1>1, <2>1, <2>2, <3>2 DEF CommitsOf
      <4>2. i = Len(q) + (i - Len(q)) /\ i = (i - Len(q)) + Len(q)
        BY <1>1, <4>1
      <4>3. i - Len(q) \in CommitsOf(r, e)
        BY <2>1, <2>2, <4>1, <4>2 DEF CommitsOf
      <4> QED
        BY <4>2, <4>3
    <3> QED
      BY <3>1, <3>2
  <2>3. CommitsOf(q, e) \subseteq CommitsOf(q \o r, e)
    BY <1>1, <2>1 DEF CommitsOf
  <2>4. ASSUME NEW i \in CommitsOf(r, e) PROVE i + Len(q) \in CommitsOf(q \o r, e)
    <3>1. i \in 1 .. Len(r) /\ i + Len(q) = Len(q) + i
      BY <1>1
    <3>2. (q \o r)[i + Len(q)] = r[i] /\ i + Len(q) \in DOMAIN (q \o r)
      BY <1>1, <2>1, <3>1
    <3> QED
      BY <3>2 DEF CommitsOf
  <2> QED
    BY <2>2, <2>3, <2>4
<1>5. CommitsOf(q, e) \cap T = {}
  BY <1>1
<1>6. Cardinality(CommitsOf(q, e) \cap T) = 0
  BY <1>5, FS_EmptySet
<1> HIDE DEF T
<1> DEFINE A == CommitsOf(q, e)
<1>7. IsFiniteSet(A) /\ IsFiniteSet(T) /\ Cardinality(A) \in Nat /\ Cardinality(T) \in Nat
  BY <1>2, <1>3
<1>8. Cardinality(A \cup T) = Cardinality(A) + Cardinality(T) - Cardinality(A \cap T)
  <2> HIDE DEF A
  <2> QED
    BY ONLY <1>7, FS_Union
<1> QED
  BY <1>2, <1>3, <1>4, <1>6, <1>7, <1>8

(* A queue of nothing, and of one.                                         *)
LEMMA CommitsFew ==
  /\ \A e : Cardinality(CommitsOf(<<>>, e)) = 0
  /\ \A j \in Job, e \in Extent : Cardinality(CommitsOf(<<j>>, e))
                       = IF j.op = "commit" /\ Unit(e) \in j.names THEN 1 ELSE 0
<1>1. ASSUME NEW e PROVE Cardinality(CommitsOf(<<>>, e)) = 0
  <2>1. CommitsOf(<<>>, e) = {}
    BY DEF CommitsOf
  <2> QED
    BY <2>1, FS_EmptySet
<1>2. ASSUME NEW j \in Job, NEW e \in Extent
      PROVE  Cardinality(CommitsOf(<<j>>, e))
               = IF j.op = "commit" /\ Unit(e) \in j.names THEN 1 ELSE 0
  <2>1. CommitsOf(<<j>>, e) = IF j.op = "commit" /\ Unit(e) \in j.names THEN {1} ELSE {}
    BY DEF CommitsOf
  <2> QED
    BY <2>1, FS_EmptySet, FS_Singleton
<1> QED
  BY <1>1, <1>2

(* Taking the first job.                                                   *)
LEMMA CommitsTake ==
  ASSUME NEW q \in Seq(Job), q # <<>>, NEW e \in Extent
  PROVE  Cardinality(CommitsOf(q, e))
           = (IF Head(q).op = "commit" /\ Unit(e) \in Head(q).names THEN 1 ELSE 0)
               + Cardinality(CommitsOf(Tail(q), e))
<1>1. Head(q) \in Job /\ Tail(q) \in Seq(Job) /\ <<Head(q)>> \in Seq(Job)
  OBVIOUS
<1>2. q = <<Head(q)>> \o Tail(q)
  OBVIOUS
<1>3. Cardinality(CommitsOf(<<Head(q)>> \o Tail(q), e))
        = Cardinality(CommitsOf(<<Head(q)>>, e)) + Cardinality(CommitsOf(Tail(q), e))
  BY <1>1, CommitsJoin
<1> QED
  BY <1>1, <1>2, <1>3, CommitsFew

-----------------------------------------------------------------------------
(* What the holder of the lock hands over.  Only the unit of a spill may be *)
(* on its way already.                                                      *)
Sole(j) == j.op = "unit" /\ j.ack

(* Only units and commits carry blobs.                                      *)
Carries(j) == j.blobs # {} => j.op \in {"unit", "commit"}

(* A turn looks at every boundary of its stream again.                      *)
Covered == \A c \in Conv : Len(Stream[c]) <= Window

(* What a manifest that covers its stream up to a cut names.                *)
Whole(c, n) == {Unit(e) : e \in Through(c, n)} \cup {Ckpt(e) : e \in Through(c, n)}

WholeOf(c, names) == \E n \in 1 .. Len(Stream[c]) : names = Whole(c, n)

BlobsOf(q, i) == UNION {q[k].blobs : k \in 1 .. i}

Hands(jobs) ==
  /\ Send(jobs)
  /\ UNCHANGED <<storeVars, writer, written, lastTotal, pendingError>>
  /\ \A i \in DOMAIN jobs : ~Sole(jobs[i]) => \A b \in jobs[i].blobs : ~Holds(b)
  /\ \A i, k \in DOMAIN jobs : i # k => jobs[i].blobs \cap jobs[k].blobs = {}
  /\ Covered => \A i \in DOMAIN jobs : jobs[i].op = "commit" =>
       /\ jobs[i].names \subseteq disk \cup marked \cup BlobsOf(jobs, i)
       /\ WholeOf(jobs[i].conv, jobs[i].names)
  /\ \A i \in DOMAIN jobs : Carries(jobs[i])

BooksTyped ==
  /\ disk \subseteq Blob /\ IsFiniteSet(disk) /\ touched \in Seq(Conv)
  /\ marked \subseteq Blob /\ writing \in [Extent -> Nat]
  /\ written \in Nat /\ lastTotal \in Nat /\ pendingError \in BOOLEAN
  /\ resident \subseteq Conv

(* Steps that send nothing.                                                 *)
LEMMA HandsNothing ==
  ASSUME BooksTyped, Typed,
         UNCHANGED <<storeVars, queue, writer, marked, writing, written, lastTotal, pendingError>>
  PROVE  \E jobs \in Seq(Job) : Hands(jobs)
<1> DEFINE jobs == <<>>
<1>1. jobs \in Seq(Job) /\ DOMAIN jobs = {} /\ queue' = queue \o jobs
  BY DEF Typed, QueueTyped
<1>2. marked' = marked \cup UNION {jobs[i].blobs : i \in DOMAIN jobs}
  BY <1>1
<1>3. ASSUME NEW e \in Extent
      PROVE  writing[e] + Cardinality({i \in DOMAIN jobs :
                             jobs[i].op = "commit" /\ Unit(e) \in jobs[i].names}) = writing[e]
  <2>1. Cardinality({i \in DOMAIN jobs :
                       jobs[i].op = "commit" /\ Unit(e) \in jobs[i].names}) = 0
    BY <1>1, FS_EmptySet
  <2> QED
    BY <2>1 DEF BooksTyped
<1>4. writing' = [e \in Extent |->
         writing[e] + Cardinality({i \in DOMAIN jobs :
                             jobs[i].op = "commit" /\ Unit(e) \in jobs[i].names})]
  <2>1. writing = [e \in Extent |-> writing[e]]
    BY DEF BooksTyped
  <2> QED
    BY <1>3, <2>1
<1>5. Send(jobs)
  BY <1>1, <1>2, <1>4 DEF Send
<1>6. Hands(jobs)
  BY <1>1, <1>5 DEF Hands
<1> QED
  BY <1>1, <1>6

(* Steps that send one job and wait for it.                                 *)
LEMMA HandsOne ==
  ASSUME NEW j \in Job, j.blobs = {} \/ Sole(j), j.op # "commit", Send(<<j>>),
         UNCHANGED <<storeVars, writer, written, lastTotal, pendingError>>
  PROVE  \E jobs \in Seq(Job) : Hands(jobs)
<1>1. /\ <<j>> \in Seq(Job) /\ DOMAIN <<j>> = {1} /\ <<j>>[1] = j
  OBVIOUS
<1> DEFINE jobs == <<j>>
<1>2. jobs \in Seq(Job) /\ Send(jobs) /\ \A i \in DOMAIN jobs : i = 1 /\ jobs[i] = j
  BY <1>1
<1> HIDE DEF jobs
<1>3. Carries(j)
  BY DEF Carries, Sole
<1>4. Hands(jobs)
  BY <1>2, <1>3 DEF Hands
<1> QED
  BY <1>2, <1>4

(* The blobs of a stream are as many as its extents.                        *)
LEMMA UnitApart ==
  ASSUME NEW c \in Conv, NEW i \in 1 .. Len(Stream[c]), NEW k \in 1 .. Len(Stream[c]),
         Unit(Stream[c][i]) = Unit(Stream[c][k])
  PROVE  i = k
<1>1. Stream[c] \in Seq(Extent)
  BY StreamAssumption
<1>2. i \in DOMAIN Stream[c] /\ k \in DOMAIN Stream[c]
  BY <1>1
<1>3. Stream[c][i] = Stream[c][k]
  BY DEF Unit
<1> QED
  BY <1>2, <1>3, ChainAssumption

(* The unit jobs of a turn: every unit not held, each once.                 *)
LEMMA UnitsOfTurn ==
  ASSUME NEW c \in Conv, NEW n \in Nat, n <= Len(Stream[c]), NEW units \in FreshUnits(c, n)
  PROVE  /\ units \in Seq(Job)
         /\ \A k \in DOMAIN units : units[k].op = "unit" /\ ~units[k].ack
         /\ \A k \in DOMAIN units : \E i \in 1 .. n :
              units[k].blobs = {Unit(Stream[c][i])} /\ ~Holds(Unit(Stream[c][i]))
         /\ \A k, l \in DOMAIN units : k # l => units[k].blobs \cap units[l].blobs = {}
         /\ \A i \in 1 .. n : ~Holds(Unit(Stream[c][i])) =>
              \E k \in DOMAIN units : units[k].blobs = {Unit(Stream[c][i])}
<1> DEFINE absent == {i \in 1 .. n : ~Holds(Unit(Stream[c][i]))}
           m == Cardinality(absent)
<1>0. absent \subseteq 1 .. n /\ \A i \in absent : ~Holds(Unit(Stream[c][i]))
  OBVIOUS
<1>1. IsFiniteSet(absent) /\ m \in Nat
  <2>1. IsFiniteSet(1 .. n)
    BY FS_Interval
  <2>2. IsFiniteSet(absent)
    BY <2>1, FS_Subset
  <2> QED
    BY <2>2, FS_CardinalityType
<1>2. PICK f \in [1 .. m -> absent] :
        /\ \A i, j \in DOMAIN f : i < j => f[i] < f[j]
        /\ units = [i \in DOMAIN f |-> UnitJob(Stream[c][f[i]])]
  BY DEF FreshUnits
<1>3. \A i, j \in 1 .. m : f[i] = f[j] => i = j
  <2> SUFFICES ASSUME NEW i \in 1 .. m, NEW j \in 1 .. m, f[i] = f[j], i # j PROVE FALSE
    OBVIOUS
  <2>1. i < j \/ j < i
    BY <1>1
  <2>2. f[i] \in Nat /\ f[j] \in Nat
    BY <1>0, <1>2
  <2> QED
    BY <1>2, <2>1, <2>2
<1>4. \A i \in absent : \E k \in 1 .. m : f[k] = i
  <2>1. f \in Injection(1 .. m, absent)
    BY <1>2, <1>3 DEF Injection, IsInjective
  <2>2. Cardinality(1 .. m) = m
    BY <1>1, FS_Interval
  <2>3. f \in Surjection(1 .. m, absent)
    <3> HIDE DEF absent
    <3> QED
      BY <1>1, <2>1, <2>2, FS_Injection
  <2> QED
    BY <2>3 DEF Surjection
<1>5. \A k \in DOMAIN units : /\ k \in 1 .. m /\ f[k] \in absent
                              /\ units[k] = UnitJob(Stream[c][f[k]])
  BY <1>2
<1> HIDE DEF m, absent
<1>6. \A k \in DOMAIN units : units[k].blobs = {Unit(Stream[c][f[k]])}
  BY <1>5 DEF UnitJob, Plain
<1>7. \A k, l \in DOMAIN units : k # l => units[k].blobs \cap units[l].blobs = {}
  <2> SUFFICES ASSUME NEW k \in DOMAIN units, NEW l \in DOMAIN units, k # l
               PROVE  Unit(Stream[c][f[k]]) # Unit(Stream[c][f[l]])
    BY <1>6
  <2>1. f[k] # f[l] /\ f[k] \in 1 .. n /\ f[l] \in 1 .. n
    BY <1>0, <1>3, <1>5
  <2>2. f[k] \in 1 .. Len(Stream[c]) /\ f[l] \in 1 .. Len(Stream[c])
    BY <2>1, StreamAssumption
  <2> QED
    BY <2>1, <2>2, UnitApart
<1>8. \A i \in 1 .. n : ~Holds(Unit(Stream[c][i])) => i \in absent
  BY DEF absent
<1>9. DOMAIN units = 1 .. m
  BY <1>2
<1>10. \A k \in DOMAIN units : \E i \in 1 .. n :
         units[k].blobs = {Unit(Stream[c][i])} /\ ~Holds(Unit(Stream[c][i]))
  BY <1>0, <1>5, <1>6
<1>11. \A i \in 1 .. n : ~Holds(Unit(Stream[c][i])) =>
         \E k \in DOMAIN units : units[k].blobs = {Unit(Stream[c][i])}
  <2> SUFFICES ASSUME NEW i \in 1 .. n, ~Holds(Unit(Stream[c][i]))
               PROVE  \E k \in DOMAIN units : units[k].blobs = {Unit(Stream[c][i])}
    OBVIOUS
  <2>1. PICK k \in 1 .. m : f[k] = i
    BY <1>4, <1>8
  <2>2. k \in DOMAIN units /\ units[k].blobs = {Unit(Stream[c][f[k]])}
    BY <1>6, <1>9
  <2> QED
    BY <2>1, <2>2
<1> QED
  BY <1>7, <1>10, <1>11, FreshTyped

(* The names of a turn, when it looks at every boundary again.              *)
LEMMA NamesWhole ==
  ASSUME Covered, NEW c \in Conv, NEW n \in Nat, n <= Len(Stream[c])
  PROVE  Names(c, n) = Whole(c, n) /\ Chain(c, n) = Through(c, n)
<1>1. ~(n > Window)
  BY StreamAssumption, WindowAssumption DEF Covered
<1>2. Chain(c, n) = Through(c, n)
  BY <1>1 DEF Chain, Through
<1>3. Boundaries(c, n) = Through(c, n)
  BY <1>2 DEF Boundaries
<1> QED
  BY <1>2, <1>3 DEF Names, Whole

(* The end of a turn.                                                       *)
LEMMA EndTurnHands ==
  ASSUME BooksTyped, Typed, NEW c \in Conv, EndTurn(c)
  PROVE  \E jobs \in Seq(Job) : Hands(jobs)
<1> DEFINE n == open[c]
           job == CommitJob(c, Names(c, n), FreshCkpts(c, n), adopted[c])
<1>1. n \in Nat /\ n > 0 /\ n <= Len(Stream[c]) /\ adopted[c] \in Conv \cup {NoConv}
  BY DEF Typed, PoolTyped, EndTurn
<1>2. Names(c, n) \in SUBSET Blob /\ FreshCkpts(c, n) \in SUBSET Blob
  BY <1>1, NamesTyped
<1>3. /\ job \in Job /\ job.op = "commit" /\ job.conv = c /\ job.names = Names(c, n)
      /\ job.blobs = FreshCkpts(c, n)
  BY <1>1, <1>2, CommitTyped
<1>4. /\ UNCHANGED <<storeVars, writer, written, lastTotal, pendingError>>
      /\ \E units \in FreshUnits(c, n) :
           Send(units \o <<job>> \o Collect) \/ Send(units \o <<job>>)
  BY DEF EndTurn
<1>5. PICK units \in FreshUnits(c, n) :
        Send(units \o <<job>> \o Collect) \/ Send(units \o <<job>>)
  BY <1>4
<1> HIDE DEF job
<1>6. /\ units \in Seq(Job) /\ \A k \in DOMAIN units : units[k].op = "unit" /\ ~units[k].ack
      /\ \A k \in DOMAIN units : \E i \in 1 .. n :
              units[k].blobs = {Unit(Stream[c][i])} /\ ~Holds(Unit(Stream[c][i]))
      /\ \A k, l \in DOMAIN units : k # l => units[k].blobs \cap units[l].blobs = {}
      /\ \A i \in 1 .. n : ~Holds(Unit(Stream[c][i])) =>
           \E k \in DOMAIN units : units[k].blobs = {Unit(Stream[c][i])}
  BY <1>1, UnitsOfTurn
<1>7. \A b \in job.blobs : ~Holds(b) /\ b[1] = "ckpt"
  <2> SUFFICES ASSUME NEW b \in FreshCkpts(c, n) PROVE ~Holds(b) /\ b[1] = "ckpt"
    BY <1>3
  <2>1. PICK e : ~Holds(Ckpt(e)) /\ b = Ckpt(e)
    BY DEF FreshCkpts
  <2>2. Ckpt(e)[1] = "ckpt"
    BY DEF Ckpt
  <2> QED
    BY <2>1, <2>2
<1>8. \A k \in DOMAIN units : \A b \in units[k].blobs : ~Holds(b) /\ b[1] = "unit"
  <2>1. \A e : Unit(e)[1] = "unit"
    BY DEF Unit
  <2> QED
    BY <1>6, <2>1
<1>9. Covered => /\ \E k \in 1 .. Len(Stream[c]) : job.names = Whole(c, k)
                 /\ job.names \subseteq disk \cup marked \cup job.blobs
                                     \cup UNION {units[k].blobs : k \in DOMAIN units}
  <2> SUFFICES ASSUME Covered
               PROVE  /\ \E k \in 1 .. Len(Stream[c]) : job.names = Whole(c, k)
                      /\ job.names \subseteq disk \cup marked \cup job.blobs
                                     \cup UNION {units[k].blobs : k \in DOMAIN units}
    OBVIOUS
  <2>1. job.names = Whole(c, n) /\ Chain(c, n) = Through(c, n)
    BY <1>1, <1>3, NamesWhole
  <2>2. n \in 1 .. Len(Stream[c])
    BY <1>1, StreamAssumption
  <2>3. ASSUME NEW e \in Through(c, n), ~Holds(Unit(e))
        PROVE  Unit(e) \in UNION {units[k].blobs : k \in DOMAIN units}
    <3>1. PICK i \in 1 .. n : e = Stream[c][i]
      BY DEF Through, Between
    <3>2. PICK k \in DOMAIN units : units[k].blobs = {Unit(Stream[c][i])}
      BY <1>6, <2>3, <3>1
    <3> QED
      BY <3>1, <3>2
  <2>4. ASSUME NEW e \in Through(c, n), ~Holds(Ckpt(e)) PROVE Ckpt(e) \in job.blobs
    BY <1>3, <2>1, <2>4 DEF FreshCkpts
  <2>5. \A b \in job.names : ~Holds(b) =>
          b \in job.blobs \cup UNION {units[k].blobs : k \in DOMAIN units}
    BY <2>1, <2>3, <2>4 DEF Whole
  <2>6. \A b : Holds(b) => b \in disk \cup marked
    BY DEF Holds
  <2> QED
    BY <2>1, <2>2, <2>5, <2>6
<1>10. /\ Collect \in Seq(Job)
       /\ \A i \in DOMAIN Collect : Collect[i].op = "gc" /\ Collect[i].blobs = {}
       /\ \A i, k \in DOMAIN Collect : i = k
  BY JobTyped DEF Collect, GcJob, Plain
<1>11. ASSUME NEW rest \in Seq(Job), Send(units \o <<job>> \o rest),
              \A i \in DOMAIN rest : rest[i].op = "gc" /\ rest[i].blobs = {}
       PROVE  \E jobs \in Seq(Job) : Hands(jobs)
  <2> DEFINE jobs == units \o <<job>> \o rest
             l == Len(units)
  <2>0. l \in Nat /\ DOMAIN units = 1 .. l
    BY <1>6
  <2>1. jobs \in Seq(Job)
    BY <1>3, <1>6
  <2>2. /\ \A i \in 1 .. l : i \in DOMAIN jobs /\ jobs[i] = units[i]
        /\ l + 1 \in DOMAIN jobs /\ jobs[l + 1] = job
        /\ \A i \in DOMAIN jobs : i > l + 1 => \E k \in DOMAIN rest : jobs[i] = rest[k]
        /\ DOMAIN jobs \subseteq Nat \ {0}
    BY <1>3, <1>6
  <2>3. \A i \in DOMAIN jobs : i \in 1 .. l \/ i = l + 1 \/ i > l + 1
    BY <2>0, <2>2
  <2> HIDE DEF jobs
  <2>4. \A i \in DOMAIN jobs :
          \/ i \in 1 .. l /\ jobs[i] = units[i]
          \/ i = l + 1 /\ jobs[i] = job
          \/ jobs[i].op = "gc" /\ jobs[i].blobs = {}
    BY <1>11, <2>2, <2>3
  <2> HIDE DEF l
  <2>5. \A i \in DOMAIN jobs : \A b \in jobs[i].blobs : ~Holds(b)
    BY <1>7, <1>8, <2>0, <2>4
  <2>6. ASSUME NEW i \in DOMAIN jobs, NEW k \in DOMAIN jobs, i # k
        PROVE  jobs[i].blobs \cap jobs[k].blobs = {}
    <3>1. CASE i \in 1 .. l /\ jobs[i] = units[i] /\ k \in 1 .. l /\ jobs[k] = units[k]
      BY <1>6, <2>0, <2>6, <3>1
    <3>2. CASE i \in 1 .. l /\ jobs[i] = units[i] /\ k = l + 1 /\ jobs[k] = job
      <4>1. \A b \in jobs[i].blobs : b[1] = "unit"
        BY <1>8, <2>0, <3>2
      <4>2. \A b \in jobs[k].blobs : b[1] = "ckpt"
        BY <1>7, <3>2
      <4> QED
        BY <4>1, <4>2
    <3>3. CASE k \in 1 .. l /\ jobs[k] = units[k] /\ i = l + 1 /\ jobs[i] = job
      <4>1. \A b \in jobs[k].blobs : b[1] = "unit"
        BY <1>8, <2>0, <3>3
      <4>2. \A b \in jobs[i].blobs : b[1] = "ckpt"
        BY <1>7, <3>3
      <4> QED
        BY <4>1, <4>2
    <3>4. CASE jobs[i].blobs = {} \/ jobs[k].blobs = {}
      BY <3>4
    <3> QED
      BY <2>4, <2>6, <3>1, <3>2, <3>3, <3>4
  <2>7. ASSUME Covered, NEW i \in DOMAIN jobs, jobs[i].op = "commit"
        PROVE  /\ jobs[i].names \subseteq disk \cup marked \cup BlobsOf(jobs, i)
               /\ \E k \in 1 .. Len(Stream[jobs[i].conv]) : jobs[i].names = Whole(jobs[i].conv, k)
    <3>1. i = l + 1 /\ jobs[i] = job
      <4>1. \A k \in 1 .. l : units[k].op = "unit"
        BY <1>6, <2>0
      <4> QED
        BY <2>4, <2>7, <4>1
    <3> DEFINE U == UNION {units[k].blobs : k \in DOMAIN units}
               B == BlobsOf(jobs, i)
    <3>2. U \subseteq B /\ job.blobs \subseteq B
      <4>1. i \in 1 .. i /\ \A k \in 1 .. l : k \in 1 .. i
        BY <2>0, <3>1
      <4>2. job.blobs \subseteq B
        BY <3>1, <4>1 DEF BlobsOf
      <4>3. ASSUME NEW k \in DOMAIN units PROVE units[k].blobs \subseteq B
        <5>1. k \in 1 .. i /\ jobs[k] = units[k]
          BY <2>0, <2>2, <4>1 DEF l
        <5> QED
          BY <5>1 DEF BlobsOf
      <4>4. U \subseteq B
        <5> HIDE DEF B
        <5> QED
          BY ONLY <4>3
      <4> QED
        BY <4>2, <4>4
    <3>3. /\ \E k \in 1 .. Len(Stream[c]) : job.names = Whole(c, k)
          /\ job.names \subseteq disk \cup marked \cup job.blobs \cup U
      BY <1>9, <2>7
    <3>4. jobs[i].names \subseteq disk \cup marked \cup B
      <4>1. jobs[i].names = job.names
        BY <3>1
      <4> HIDE DEF U, B
      <4> QED
        BY ONLY <3>2, <3>3, <4>1
    <3>5. jobs[i].conv = c
      BY <1>3, <3>1
    <3> QED
      BY <3>1, <3>3, <3>4, <3>5
  <2>8. Send(jobs)
    BY <1>11 DEF jobs
  <2>9. \A i \in DOMAIN jobs : Carries(jobs[i])
    <3>1. \A i \in 1 .. l : units[i].op = "unit"
      BY <1>6, <2>0
    <3> QED
      BY <1>3, <2>4, <3>1 DEF Carries
  <2> QED
    BY <1>4, <2>1, <2>5, <2>6, <2>7, <2>8, <2>9 DEF Hands, WholeOf
<1>12. CASE Send(units \o <<job>>)
  <2>1. units \o <<job>> = units \o <<job>> \o <<>> /\ <<>> \in Seq(Job) /\ DOMAIN <<>> = {}
    BY <1>3, <1>6
  <2> QED
    BY <1>11, <1>12, <2>1
<1> QED
  BY <1>5, <1>10, <1>11, <1>12

(* Hence every step of the holder of the lock.                              *)
LEMMA HandsSteps ==
  ASSUME BooksTyped, Typed, Request \/ Maintenance
  PROVE  \E jobs \in Seq(Job) : Hands(jobs)
<1>0. ASSUME UNCHANGED diskVars PROVE \E jobs \in Seq(Job) : Hands(jobs)
  BY <1>0, HandsNothing DEF diskVars, memVars
<1>1. ASSUME NEW c \in Conv, NEW p, NEW h, Begin(c, p, h)
      PROVE  \E jobs \in Seq(Job) : Hands(jobs)
  BY <1>0, <1>1 DEF Begin
<1>2. CASE LookUpNothing \/ LookUp \/ ReadExtents \/ ReadMissing
  BY <1>0, <1>2 DEF LookUpNothing, LookUp, ReadExtents, ReadMissing
<1>3. CASE Superseded
  <2>1. CASE reply = "ok"
    <3>1. Send(Collect) /\ UNCHANGED <<storeVars, writer, written, lastTotal, pendingError>>
      BY <1>3, <2>1 DEF Superseded
    <3>2. CASE Evicting
      <4>1. GcJob \in Job /\ GcJob.blobs = {} /\ GcJob.op # "commit"
        BY JobTyped DEF GcJob, Plain
      <4>2. Send(<<GcJob>>)
        BY <3>1, <3>2 DEF Collect
      <4> QED
        BY <3>1, <4>1, <4>2, HandsOne
    <3>3. CASE ~Evicting
      <4>1. <<>> \in Seq(Job) /\ Send(<<>>) /\ DOMAIN <<>> = {}
        BY <3>1, <3>3 DEF Collect
      <4>2. Hands(<<>>)
        BY <3>1, <4>1 DEF Hands
      <4> QED
        BY <4>1, <4>2
    <3> QED
      BY <3>2, <3>3
  <2>2. CASE reply # "ok"
    BY <1>3, <2>2, HandsNothing DEF Superseded
  <2> QED
    BY <2>1, <2>2
<1>4. ASSUME NEW at, NEW c, NEW j \in Job, Ask(at, c, j), j.blobs = {}, j.op # "commit"
      PROVE  \E jobs \in Seq(Job) : Hands(jobs)
  BY <1>4, HandsOne DEF Ask
<1>5. ASSUME NEW c \in Conv, EraseConversation(c) PROVE \E jobs \in Seq(Job) : Hands(jobs)
  <2>1. EraseJob(c) \in Job /\ EraseJob(c).blobs = {} /\ EraseJob(c).op # "commit"
    BY JobTyped DEF EraseJob, Plain
  <2> QED
    BY <1>4, <1>5, <2>1 DEF EraseConversation
<1>6. CASE Drain
  <2>1. BarrierJob \in Job /\ BarrierJob.blobs = {} /\ BarrierJob.op # "commit"
    BY JobTyped DEF BarrierJob, Plain
  <2> QED
    BY <1>4, <1>6, <2>1 DEF Drain
<1>7. CASE Erased \/ Drained \/ Durable \/ Spilled
  BY <1>0, <1>7 DEF Erased, Drained, Durable, Spilled
<1>8. ASSUME NEW c \in Conv, Spill(c) \/ Release(c) PROVE \E jobs \in Seq(Job) : Hands(jobs)
  BY <1>0, <1>8 DEF Spill, Release
<1>9. CASE SpillUnit
  <2> DEFINE e == Stream[eng.conv][eng.upto]
  <2>1. e \in Extent
    <3>1. /\ eng.at = "spill" /\ eng.conv \in Conv /\ eng.upto \in Nat
          /\ 1 <= eng.upto /\ eng.upto <= history[eng.conv]
      BY <1>9 DEF SpillUnit, Engine, Typed, EngineTyped
    <3> QED
      BY <3>1, StreamAssumption DEF Typed, PoolTyped
  <2>2. CASE Unit(e) \in disk
    BY <1>0, <1>9, <2>2 DEF SpillUnit
  <2>3. CASE Unit(e) \notin disk
    <3>1. UnitDurableJob(e) \in Job /\ Sole(UnitDurableJob(e)) /\ UnitDurableJob(e).op # "commit"
      BY <2>1, JobTyped DEF Sole
    <3>2. /\ Send(<<UnitDurableJob(e)>>)
          /\ UNCHANGED <<storeVars, writer, written, lastTotal, pendingError>>
      BY <1>9, <2>3 DEF SpillUnit
    <3> HIDE DEF e
    <3> QED
      BY <3>1, <3>2, HandsOne
  <2> QED
    BY <2>2, <2>3
<1> QED
  BY <1>1, <1>2, <1>3, <1>5, <1>6, <1>7, <1>8, <1>9, EndTurnHands DEF Request, Maintenance

-----------------------------------------------------------------------------
(* What the holder of the lock does and what it hands over, in one.         *)
LEMMA BothSteps ==
  ASSUME BooksTyped, Typed, InLine, Request \/ Maintenance
  PROVE  \E jobs \in Seq(Job) : EngineStep(jobs) /\ Hands(jobs)
<1>1. PICK jobs \in Seq(Job) : EngineStep(jobs)
  BY EngineSteps
<1>2. PICK hands \in Seq(Job) : Hands(hands)
  BY HandsSteps
<1>3. queue' = queue \o jobs /\ queue' = queue \o hands /\ queue \in Seq(Job)
  BY <1>1, <1>2 DEF EngineStep, Hands, Send, Typed, QueueTyped
<1>4. jobs = hands
  BY <1>3, SameEnd
<1> QED
  BY <1>1, <1>2, <1>4

(* What goes with a blob that is on its way.                                *)
OnWay(b) == \/ \E i \in DOMAIN queue : b \in queue[i].blobs
            \/ ~At("idle") /\ b \in writer.job.blobs

(* The blobs of the jobs not finished are marked, and no two of these jobs  *)
(* have one in common: only the unit of a spill may be there twice.         *)
Marks ==
  /\ \A i \in DOMAIN queue : ~Sole(queue[i]) =>
       /\ queue[i].blobs \subseteq marked
       /\ ~At("idle") /\ ~Sole(writer.job) => queue[i].blobs \cap writer.job.blobs = {}
  /\ \A i, k \in DOMAIN queue : i # k /\ ~Sole(queue[i]) /\ ~Sole(queue[k]) =>
       queue[i].blobs \cap queue[k].blobs = {}
  /\ ~At("idle") /\ ~Sole(writer.job) => writer.job.blobs \subseteq marked
  /\ \A b \in marked : OnWay(b)

Carried ==
  /\ \A i \in DOMAIN queue : Carries(queue[i])
  /\ Carries(writer.job)

(* Taking a conversation out of the order leaves an order.                  *)
LEMMA WithoutTyped ==
  ASSUME NEW s \in Seq(Conv), NEW c
  PROVE  Without(s, c) \in Seq(Conv)
<1>1. CASE \E i \in DOMAIN s : s[i] = c
  <2> DEFINE i == CHOOSE i \in DOMAIN s : s[i] = c
  <2>1. i \in DOMAIN s
    BY <1>1
  <2> HIDE DEF i
  <2>2. SubSeq(s, 1, i - 1) \in Seq(Conv) /\ SubSeq(s, i + 1, Len(s)) \in Seq(Conv)
    BY <2>1
  <2>3. SubSeq(s, 1, i - 1) \o SubSeq(s, i + 1, Len(s)) \in Seq(Conv)
    BY <2>2
  <2>4. Without(s, c) = SubSeq(s, 1, i - 1) \o SubSeq(s, i + 1, Len(s))
    BY <1>1 DEF Without, i
  <2> QED
    BY <2>3, <2>4
<1>2. CASE ~\E i \in DOMAIN s : s[i] = c
  BY <1>2 DEF Without
<1> QED
  BY <1>1, <1>2

(* Fewer files are finitely many still.                                     *)
LEMMA Fewer ==
  ASSUME BooksTyped, disk' \subseteq disk
  PROVE  /\ IsFiniteSet(disk') /\ disk' \subseteq Blob
         /\ Cardinality(disk') \in Nat /\ Cardinality(disk) \in Nat
         /\ Cardinality(disk') <= Cardinality(disk)
<1>1. IsFiniteSet(disk) /\ disk' \in SUBSET disk
  BY DEF BooksTyped
<1>2. IsFiniteSet(disk') /\ Cardinality(disk') <= Cardinality(disk)
  BY <1>1, FS_Subset
<1> QED
  BY <1>1, <1>2, FS_CardinalityType DEF BooksTyped

(* What the writer's steps do to the files and the counters.                *)
LEMMA Moves ==
  ASSUME QueueTyped, BooksTyped, GoesOn
  PROVE  /\ marked' = marked
         /\ \/ /\ \E b \in Blob : disk' = disk \cup {b} \/ disk' = disk
               /\ written' = written + 1 /\ lastTotal' = lastTotal
               /\ At("write") /\ UNCHANGED touched
            \/ disk' \subseteq disk /\ UNCHANGED <<written, lastTotal>>
            \/ /\ disk' = disk /\ written' = 0 /\ lastTotal' = Cardinality(disk)
               /\ At("evict") /\ UNCHANGED touched
               /\ Cardinality(disk) <= Cap \/ touched = <<>>
         /\ touched' \in Seq(Conv) \/ (At("manifest") /\ writer.job.conv \notin Conv)
         /\ pendingError' \in BOOLEAN
<1> USE DEF QueueTyped, BooksTyped, At, GoTo, Fail, storeVars
<1>0. /\ \A c : Without(touched, c) \in Seq(Conv)
      /\ \A c \in Conv : Append(Without(touched, c), c) \in Seq(Conv)
  BY WithoutTyped
<1>1. ASSUME NEW b \in Blob, WriteBlob(b)
      PROVE  /\ marked' = marked /\ At("write")
             /\ disk' = disk \cup {b} \/ disk' = disk
             /\ written' = written + 1 /\ UNCHANGED <<lastTotal, touched>>
             /\ pendingError' \in BOOLEAN
  BY <1>1 DEF WriteBlob
<1> DEFINE Calm == /\ UNCHANGED <<marked, written, lastTotal>> /\ disk' \subseteq disk
                   /\ touched' \in Seq(Conv) \/ (At("manifest") /\ writer.job.conv \notin Conv)
                   /\ pendingError' \in BOOLEAN
<1>2. ASSUME NEW c, RemoveThenSweep(c) PROVE disk' = disk /\ touched' \in Seq(Conv)
                                               /\ pendingError' \in BOOLEAN
  <2>1. disk' = disk /\ touched' \in Seq(Conv)
    BY <1>0, <1>2 DEF RemoveThenSweep
  <2>2. pendingError' = pendingError \/ pendingError' = TRUE
    BY <1>2 DEF RemoveThenSweep
  <2>3. pendingError' \in BOOLEAN
    BY <2>2
  <2> QED
    BY <2>1, <2>3
<1>3. CASE WroteBlobs
  <2>1. Calm
    BY <1>3 DEF WroteBlobs
  <2> QED
    BY <2>1
<1>4. CASE Commit
  <2>1. Calm
    BY <1>0, <1>4 DEF Commit
  <2> QED
    BY <2>1
<1>5. CASE Count
  <2>1. Calm
    BY <1>5 DEF Count
  <2> QED
    BY <2>1
<1>6. CASE Supersede
  <2>1. Calm
    BY <1>2, <1>6 DEF Supersede
  <2> QED
    BY <2>1
<1>7. CASE Erase
  <2>1. Calm
    BY <1>2, <1>7 DEF Erase
  <2> QED
    BY <2>1
<1>8. CASE Sweep
  <2>1. Calm
    BY <1>8 DEF Sweep, Swept
  <2> QED
    BY <2>1
<1>9. CASE GcSkip \/ GcWalk
  <2>1. Calm
    BY <1>9 DEF GcSkip, GcWalk
  <2> QED
    BY <2>1
<1>10. CASE GcEvict
  <2>1. Tail(touched) \in Seq(Conv)
    BY <1>10 DEF GcEvict
  <2>2. Calm
    BY <1>10, <2>1 DEF GcEvict, Swept
  <2> QED
    BY <2>2
<1>11. CASE GcMeasured
  BY <1>11 DEF GcMeasured
<1> QED
  BY <1>1, <1>3, <1>4, <1>5, <1>6, <1>7, <1>8, <1>9, <1>10, <1>11 DEF GoesOn

-----------------------------------------------------------------------------
(* The counts of the commits on their way.                                  *)
One(e) == IF UncountedYet /\ Unit(e) \in writer.job.names THEN 1 ELSE 0

Counts == \A e \in Extent : writing[e] = Cardinality(CommitsOf(queue, e)) + One(e)

LEMMA CountsAre == (WritingCounts <=> Counts) /\ (WritingCounts' <=> Counts')
BY DEF WritingCounts, Counts, CommitsOf, One

(* What going on does to the counts.                                        *)
LEMMA Counting ==
  ASSUME QueueTyped, BooksTyped, GoesOn
  PROVE  IF At("count")
         THEN writing' = [e \in Extent |->
                IF Unit(e) \in writer.job.names THEN writing[e] - 1 ELSE writing[e]]
         ELSE writing' = writing
<1> USE DEF At
<1>1. ASSUME NEW b \in Blob, WriteBlob(b) PROVE ~At("count") /\ writing' = writing
  BY <1>1 DEF WriteBlob
<1>2. CASE WroteBlobs \/ Commit
  BY <1>2 DEF WroteBlobs, Commit
<1>3. CASE Count
  BY <1>3 DEF Count
<1>4. CASE Supersede \/ Erase \/ Sweep
  BY <1>4 DEF Supersede, Erase, Sweep
<1>5. CASE GcSkip \/ GcWalk \/ GcEvict \/ GcMeasured
  BY <1>5 DEF GcSkip, GcWalk, GcEvict, GcMeasured
<1> QED
  BY <1>1, <1>2, <1>3, <1>4, <1>5 DEF GoesOn

(* The writer counts a commit off once, when its manifest is down.          *)
LEMMA CountsByWriter ==
  ASSUME QueueTyped, Staged, BooksTyped, Counts, WriterStep
  PROVE  Counts' /\ writing' \in [Extent -> Nat]
<1> USE DEF At
<1>0. \A e : One(e) \in {0, 1} /\ Cardinality(CommitsOf(queue, e)) \in Nat
  BY CommitsCount DEF One, QueueTyped
<1>1. CASE Take
  <2>1. /\ queue \in Seq(Job) /\ queue # <<>> /\ queue' = Tail(queue)
        /\ Head(queue) = queue[1] /\ writing' = writing /\ writer.at = "idle"
        /\ writer'.job = queue[1] /\ writer'.at = FirstStage(queue[1].op)
    BY <1>1, Taken DEF Take, QueueTyped
  <2>2. ~UncountedYet /\ (UncountedYet' <=> queue[1].op = "commit")
    BY <2>1 DEF UncountedYet, FirstStage
  <2>3. ASSUME NEW e \in Extent PROVE writing'[e] = Cardinality(CommitsOf(queue', e)) + One(e)'
    <3>1. Cardinality(CommitsOf(queue, e))
           = (IF queue[1].op = "commit" /\ Unit(e) \in queue[1].names THEN 1 ELSE 0)
               + Cardinality(CommitsOf(queue', e))
      BY <2>1, CommitsTake
    <3>2. queue' \in Seq(Job)
      BY <2>1
    <3>3. Cardinality(CommitsOf(queue', e)) \in Nat
      BY <3>2, CommitsCount
    <3>4. One(e) = 0
      BY <2>2 DEF One
    <3>5. One(e)' = IF queue[1].op = "commit" /\ Unit(e) \in queue[1].names THEN 1 ELSE 0
      BY <2>1, <2>2 DEF One
    <3> QED
      BY <1>0, <2>1, <3>1, <3>3, <3>4, <3>5 DEF Counts
  <2> QED
    BY <2>1, <2>3 DEF Counts, BooksTyped
<1>2. CASE End
  <2>1. UNCHANGED <<queue, writing>> /\ ~UncountedYet /\ ~UncountedYet'
    BY <1>2, Ended DEF UncountedYet, End
  <2> QED
    BY <2>1 DEF Counts, BooksTyped, One
<1>3. CASE GoesOn
  <2>1. queue' = queue /\ writer'.job = writer.job
    BY <1>3, Goes
  <2>2. CASE At("count")
    <3>1. writer'.at = "supersede" /\ writer.job.op = "commit"
      BY <1>3, <2>2, Stages DEF Staged
    <3>2. UncountedYet /\ ~UncountedYet'
      BY <2>2, <3>1 DEF UncountedYet
    <3>3. ASSUME NEW e \in Extent
          PROVE  /\ writing'[e] = writing[e] - One(e)
                 /\ writing'[e] = Cardinality(CommitsOf(queue, e)) /\ writing'[e] \in Nat
      <4>1. writing'[e] = IF Unit(e) \in writer.job.names THEN writing[e] - 1 ELSE writing[e]
        BY <1>3, <2>2, Counting
      <4>2. writing[e] \in Nat /\ writing[e] = Cardinality(CommitsOf(queue, e)) + One(e)
        BY DEF Counts, BooksTyped
      <4>3. One(e) = IF Unit(e) \in writer.job.names THEN 1 ELSE 0
        BY <3>2 DEF One
      <4> QED
        BY <1>0, <4>1, <4>2, <4>3
    <3>4. \A e : One(e)' = 0
      BY <3>2 DEF One
    <3>5. ASSUME NEW e \in Extent
          PROVE  writing'[e] = Cardinality(CommitsOf(queue', e)) + One(e)'
      BY <1>0, <2>1, <3>3, <3>4
    <3>6. \E r \in [Extent -> Int] : writing' = r
      <4>1. writing' = [e \in Extent |->
                IF Unit(e) \in writer.job.names THEN writing[e] - 1 ELSE writing[e]]
        BY <1>3, <2>2, Counting
      <4> QED
        BY <4>1 DEF BooksTyped
    <3>7. writing' \in [Extent -> Nat]
      BY <3>3, <3>6
    <3> QED
      BY <3>5, <3>7 DEF Counts
  <2>3. CASE ~At("count")
    <3>1. writing' = writing
      BY <1>3, <2>3, Counting
    <3>2. UncountedYet' <=> UncountedYet
      BY <1>3, <2>1, <2>3, Stages DEF UncountedYet
    <3> QED
      BY <2>1, <3>1, <3>2 DEF Counts, BooksTyped, One
  <2> QED
    BY <2>2, <2>3
<1> QED
  BY <1>1, <1>2, <1>3, WriterSteps

(* What is handed over is counted with it.                                  *)
LEMMA CountsByEngine ==
  ASSUME QueueTyped, BooksTyped, Counts, NEW jobs \in Seq(Job), Hands(jobs)
  PROVE  Counts' /\ writing' \in [Extent -> Nat]
<1>1. /\ queue \in Seq(Job) /\ queue' = queue \o jobs /\ writer' = writer
      /\ writing' = [e \in Extent |-> writing[e] + Cardinality(CommitsOf(jobs, e))]
  BY DEF Hands, Send, CommitsOf, QueueTyped
<1>2. ASSUME NEW e \in Extent
      PROVE  /\ writing[e] + Cardinality(CommitsOf(jobs, e)) \in Nat
             /\ writing'[e] = Cardinality(CommitsOf(queue', e)) + One(e)'
  <2>1. /\ Cardinality(CommitsOf(queue', e))
             = Cardinality(CommitsOf(queue, e)) + Cardinality(CommitsOf(jobs, e))
        /\ Cardinality(CommitsOf(queue, e)) \in Nat /\ Cardinality(CommitsOf(jobs, e)) \in Nat
    BY <1>1, CommitsJoin, CommitsCount
  <2>2. One(e)' = One(e) /\ One(e) \in {0, 1}
    BY <1>1 DEF One, UncountedYet
  <2>3. writing'[e] = writing[e] + Cardinality(CommitsOf(jobs, e))
    BY <1>1
  <2>4. writing[e] \in Nat /\ writing[e] = Cardinality(CommitsOf(queue, e)) + One(e)
    BY DEF BooksTyped, Counts
  <2> QED
    BY <2>1, <2>2, <2>3, <2>4
<1> QED
  BY <1>1, <1>2 DEF Counts

-----------------------------------------------------------------------------
(* The writer takes the marks of a job when it ends it.                     *)
LEMMA MarksByWriter ==
  ASSUME QueueTyped, Staged, InLine, BooksTyped, Marks, WriterStep
  PROVE  Marks'
<1> USE DEF At
<1>1. CASE Take
  <2>1. /\ Len(queue) \in Nat /\ Len(queue) > 0 /\ DOMAIN queue = 1 .. Len(queue)
        /\ DOMAIN queue' = 1 .. Len(queue) - 1
        /\ \A i \in DOMAIN queue' : i + 1 \in DOMAIN queue /\ queue'[i] = queue[i + 1]
        /\ writer'.job = queue[1] /\ writer.at = "idle" /\ writer'.at # "idle"
        /\ marked' = marked
    BY <1>1, Taken DEF QueueTyped, Take
  <2>2. 1 \in DOMAIN queue /\ \A i \in DOMAIN queue' : i + 1 # 1
    BY <2>1
  <2>3. ASSUME NEW i \in DOMAIN queue', ~Sole(queue'[i])
        PROVE  /\ queue'[i].blobs \subseteq marked'
               /\ ~Sole(writer'.job) => queue'[i].blobs \cap writer'.job.blobs = {}
    BY <2>1, <2>2, <2>3 DEF Marks
  <2>4. ASSUME NEW i \in DOMAIN queue', NEW k \in DOMAIN queue', i # k, ~Sole(queue'[i]),
               ~Sole(queue'[k])
        PROVE  queue'[i].blobs \cap queue'[k].blobs = {}
    <3>1. i + 1 # k + 1
      BY <2>1, <2>4
    <3> QED
      BY <2>1, <2>4, <3>1 DEF Marks
  <2>5. ~Sole(writer'.job) => writer'.job.blobs \subseteq marked'
    BY <2>1, <2>2 DEF Marks
  <2>6. ASSUME NEW b \in marked' PROVE OnWay(b)'
    <3>1. PICK i \in DOMAIN queue : b \in queue[i].blobs
      BY <2>1, <2>6 DEF Marks, OnWay
    <3>2. CASE i = 1
      BY <2>1, <3>1, <3>2 DEF OnWay
    <3>3. CASE i # 1
      <4>1. i - 1 \in DOMAIN queue' /\ i = (i - 1) + 1
        BY <2>1, <3>3
      <4> QED
        BY <2>1, <3>1, <4>1 DEF OnWay
    <3> QED
      BY <3>2, <3>3
  <2> QED
    BY <2>3, <2>4, <2>5, <2>6 DEF Marks
<1>2. CASE End
  <2>1. /\ queue' = queue /\ writer'.at = "idle" /\ writer.at = "end"
        /\ marked' = marked \ writer.job.blobs
    BY <1>2, Ended DEF End
  <2>2. Sole(writer.job) => DOMAIN queue = {}
    BY <2>1 DEF InLine, Sole
  <2>3. ASSUME NEW i \in DOMAIN queue', ~Sole(queue'[i]) PROVE queue'[i].blobs \subseteq marked'
    BY <2>1, <2>2, <2>3 DEF Marks
  <2>4. ASSUME NEW b \in marked' PROVE OnWay(b)'
    BY <2>1, <2>4 DEF Marks, OnWay
  <2> QED
    BY <2>1, <2>3, <2>4 DEF Marks
<1>3. CASE GoesOn
  <2>1. /\ queue' = queue /\ writer'.job = writer.job /\ marked' = marked
        /\ writer.at # "idle" /\ writer'.at # "idle"
    BY <1>3, Goes, Moves
  <2> QED
    BY <2>1 DEF Marks, OnWay
<1> QED
  BY <1>1, <1>2, <1>3, WriterSteps

(* What is handed over is marked with it.                                   *)
LEMMA MarksByEngine ==
  ASSUME Typed, BooksTyped, Marks, Carried, NEW jobs \in Seq(Job),
         EngineStep(jobs), Hands(jobs)
  PROVE  Marks' /\ Carried'
<1>1. /\ marked' = marked \cup UNION {jobs[i].blobs : i \in DOMAIN jobs} /\ writer' = writer
      /\ queue \in Seq(Job) /\ queue' = queue \o jobs
  BY DEF Hands, Send, Typed, QueueTyped
<1>2. /\ \A i \in DOMAIN queue : i \in DOMAIN queue' /\ queue'[i] = queue[i]
      /\ \A i \in DOMAIN jobs : Len(queue) + i \in DOMAIN queue' /\ queue'[Len(queue) + i] = jobs[i]
  BY <1>1
<1>3. \A i \in DOMAIN queue' : \/ i \in DOMAIN queue /\ queue'[i] = queue[i]
                               \/ i - Len(queue) \in DOMAIN jobs
                                    /\ queue'[i] = jobs[i - Len(queue)]
  BY Appended
<1>4. ASSUME NEW k \in DOMAIN jobs
      PROVE  jobs[k].blobs \subseteq marked' /\ (~Sole(jobs[k]) => jobs[k].blobs \cap marked = {})
  BY <1>1 DEF Hands, Holds
<1>5. marked \subseteq marked'
  BY <1>1
<1>6. ASSUME NEW i \in DOMAIN queue', ~Sole(queue'[i])
      PROVE  /\ queue'[i].blobs \subseteq marked'
             /\ ~At("idle") /\ ~Sole(writer.job) => queue'[i].blobs \cap writer.job.blobs = {}
  <2>1. CASE i \in DOMAIN queue /\ queue'[i] = queue[i]
    BY <1>5, <1>6, <2>1 DEF Marks
  <2>2. CASE i - Len(queue) \in DOMAIN jobs /\ queue'[i] = jobs[i - Len(queue)]
    <3>1. queue'[i].blobs \subseteq marked' /\ queue'[i].blobs \cap marked = {}
      BY <1>4, <1>6, <2>2
    <3> QED
      BY <3>1 DEF Marks
  <2> QED
    BY <1>3, <2>1, <2>2
<1>7. ASSUME NEW i \in DOMAIN queue', NEW k \in DOMAIN queue', i # k, ~Sole(queue'[i]),
             ~Sole(queue'[k])
      PROVE  queue'[i].blobs \cap queue'[k].blobs = {}
  <2>1. ASSUME NEW m \in DOMAIN queue', m \in DOMAIN queue /\ queue'[m] = queue[m],
               ~Sole(queue'[m])
        PROVE  queue'[m].blobs \subseteq marked
    BY <2>1 DEF Marks
  <2>2. ASSUME NEW m \in DOMAIN queue', ~Sole(queue'[m]),
               m - Len(queue) \in DOMAIN jobs /\ queue'[m] = jobs[m - Len(queue)]
        PROVE  queue'[m].blobs \cap marked = {}
    BY <1>4, <2>2
  <2>3. CASE /\ i \in DOMAIN queue /\ queue'[i] = queue[i]
             /\ k \in DOMAIN queue /\ queue'[k] = queue[k]
    BY <1>7, <2>3 DEF Marks
  <2>4. CASE /\ i - Len(queue) \in DOMAIN jobs /\ queue'[i] = jobs[i - Len(queue)]
             /\ k - Len(queue) \in DOMAIN jobs /\ queue'[k] = jobs[k - Len(queue)]
    <3>1. i - Len(queue) # k - Len(queue)
      BY <1>1, <1>7
    <3> QED
      BY <2>4, <3>1 DEF Hands
  <2>5. CASE /\ i \in DOMAIN queue /\ queue'[i] = queue[i]
             /\ k - Len(queue) \in DOMAIN jobs /\ queue'[k] = jobs[k - Len(queue)]
    <3>1. queue'[i].blobs \subseteq marked /\ queue'[k].blobs \cap marked = {}
      BY <1>7, <2>1, <2>2, <2>5
    <3> QED
      BY <3>1
  <2>6. CASE /\ k \in DOMAIN queue /\ queue'[k] = queue[k]
             /\ i - Len(queue) \in DOMAIN jobs /\ queue'[i] = jobs[i - Len(queue)]
    <3>1. queue'[k].blobs \subseteq marked /\ queue'[i].blobs \cap marked = {}
      BY <1>7, <2>1, <2>2, <2>6
    <3> QED
      BY <3>1
  <2> QED
    BY <1>3, <2>3, <2>4, <2>5, <2>6
<1>8. ~At("idle") /\ ~Sole(writer.job) => writer.job.blobs \subseteq marked'
  BY <1>5 DEF Marks
<1>9. ASSUME NEW b \in marked' PROVE OnWay(b)'
  <2>1. CASE b \in marked
    BY <1>1, <1>2, <2>1 DEF Marks, OnWay, At
  <2>2. CASE b \in UNION {jobs[i].blobs : i \in DOMAIN jobs}
    <3>1. PICK i \in DOMAIN jobs : b \in jobs[i].blobs
      BY <2>2
    <3> QED
      BY <1>2, <3>1 DEF OnWay
  <2> QED
    BY <1>1, <1>9, <2>1, <2>2
<1>10. Marks'
  BY <1>1, <1>6, <1>7, <1>8, <1>9 DEF Marks, At
<1>11. Carried'
  BY <1>1, <1>3 DEF Carried, Hands
<1> QED
  BY <1>10, <1>11

(* The files and the counters keep their types.                             *)
LEMMA BooksByWriter ==
  ASSUME QueueTyped, Staged, BooksTyped, Counts, WriterStep, UNCHANGED resident
  PROVE  BooksTyped'
<1>1. writing' \in [Extent -> Nat]
  BY CountsByWriter
<1>2. CASE Take
  BY <1>1, <1>2 DEF Take, BooksTyped, storeVars
<1>3. CASE End
  BY <1>1, <1>3 DEF End, BooksTyped, storeVars
<1>4. CASE GoesOn
  <2>1. disk' \subseteq Blob /\ IsFiniteSet(disk')
    <3>1. (\E b \in Blob : disk' = disk \cup {b}) \/ disk' \subseteq disk
      BY <1>4, Moves
    <3>2. CASE \E b \in Blob : disk' = disk \cup {b}
      BY <3>2, FS_AddElement DEF BooksTyped
    <3>3. CASE disk' \subseteq disk
      BY <3>3, Fewer
    <3> QED
      BY <3>1, <3>2, <3>3
  <2>2. Cardinality(disk) \in Nat
    BY FS_CardinalityType DEF BooksTyped
  <2>3. written' \in Nat /\ lastTotal' \in Nat /\ marked' \subseteq Blob
    <3>1. \/ written' = written + 1 /\ lastTotal' = lastTotal
          \/ UNCHANGED <<written, lastTotal>>
          \/ written' = 0 /\ lastTotal' = Cardinality(disk)
      BY <1>4, Moves
    <3>2. marked' = marked
      BY <1>4, Moves
    <3> QED
      BY <2>2, <3>1, <3>2 DEF BooksTyped
  <2>4. ~(At("manifest") /\ writer.job.conv \notin Conv)
    BY DEF Staged, WellFormed, At
  <2>5. touched' \in Seq(Conv) /\ pendingError' \in BOOLEAN
    BY <1>4, <2>4, Moves
  <2> QED
    BY <1>1, <2>1, <2>3, <2>5 DEF BooksTyped
<1> QED
  BY <1>2, <1>3, <1>4, WriterSteps

LEMMA BooksByEngine ==
  ASSUME Typed, BooksTyped, Counts, NEW jobs \in Seq(Job), Hands(jobs), resident' \subseteq Conv
  PROVE  BooksTyped'
<1>1. writing' \in [Extent -> Nat]
  BY CountsByEngine DEF Typed
<1>2. \A i \in DOMAIN jobs : jobs[i].blobs \subseteq Blob
  <2>1. \A i \in DOMAIN jobs : jobs[i] \in Job
    OBVIOUS
  <2> QED
    BY <2>1 DEF Job
<1>3. marked' \subseteq Blob
  BY <1>2 DEF Hands, Send, BooksTyped
<1> QED
  BY <1>1, <1>3 DEF Hands, BooksTyped, storeVars

(* A conversation becomes resident when its turn starts.                    *)
LEMMA ResidentTyped ==
  ASSUME Typed, resident \subseteq Conv, Request \/ Maintenance
  PROVE  resident' \subseteq Conv
<1> USE DEF poolVars
<1>1. ASSUME NEW c \in Conv, NEW p, NEW h, Begin(c, p, h) PROVE resident' \subseteq Conv
  BY <1>1 DEF Begin
<1>2. CASE LookUpNothing \/ ReadExtents
  <2>1. eng.conv \in Conv
    BY <1>2 DEF LookUpNothing, ReadExtents, Engine, Typed, EngineTyped
  <2> QED
    BY <1>2, <2>1 DEF LookUpNothing, ReadExtents, Enter
<1>3. CASE LookUp \/ ReadMissing
  BY <1>3 DEF LookUp, ReadMissing
<1>4. ASSUME NEW c \in Conv, EndTurn(c) PROVE resident' \subseteq Conv
  BY <1>4 DEF EndTurn
<1>5. CASE Superseded \/ Erased \/ Drain \/ Drained \/ Durable
  BY <1>5 DEF Superseded, Erased, Drain, Drained, Durable
<1>6. ASSUME NEW c \in Conv, EraseConversation(c) \/ Spill(c) \/ Release(c)
      PROVE  resident' \subseteq Conv
  BY <1>6 DEF EraseConversation, Spill, Release, Drop
<1>7. CASE SpillUnit \/ Spilled
  BY <1>7 DEF SpillUnit, Spilled, Drop
<1> QED
  BY <1>1, <1>2, <1>3, <1>4, <1>5, <1>6, <1>7 DEF Request, Maintenance

-----------------------------------------------------------------------------
(* The invariant of the books.                                              *)
Booked == BooksTyped /\ Counts /\ Marks /\ Carried

(* The books of an empty queue.                                             *)
LEMMA Empty ==
  /\ Plain("none").blobs = {} /\ Plain("none").op = "none"
  /\ Idle.job = Plain("none") /\ Idle.at = "idle"
BY DEF Plain, Idle

(* The books hold at the start.                                             *)
LEMMA BookedInitially == Init => Booked
<1> SUFFICES ASSUME Init PROVE Booked
  OBVIOUS
<1>1. /\ queue = <<>> /\ writer = Idle /\ marked = {} /\ disk = {} /\ touched = <<>>
      /\ writing = [e \in Extent |-> 0] /\ written = 0 /\ lastTotal = 0
      /\ pendingError = FALSE /\ resident = {}
  BY DEF Init, InitStore, InitMem
<1>2. BooksTyped
  <2>1. IsFiniteSet(disk) /\ touched \in Seq(Conv) /\ pendingError \in BOOLEAN
    <3>1. pendingError \in BOOLEAN
      BY <1>1
    <3> QED
      BY <1>1, <3>1, FS_EmptySet
  <2>2. writing \in [Extent -> Nat] /\ written \in Nat /\ lastTotal \in Nat
    BY <1>1
  <2> QED
    BY <1>1, <2>1, <2>2 DEF BooksTyped
<1>3. Counts
  BY <1>1, CommitsFew, Empty DEF Counts, One, UncountedYet
<1>4. Marks /\ Carried
  BY <1>1, Empty DEF Marks, Carried, Carries, At
<1> QED
  BY <1>2, <1>3, <1>4 DEF Booked

(* The books hold after a step.                                             *)
LEMMA BookedInductively == Stands /\ Booked /\ [Next]_vars => Booked'
<1> SUFFICES ASSUME Stands, Booked, [Next]_vars PROVE Booked'
  OBVIOUS
<1> USE DEF Stands, Booked, Typed
<1>1. CASE Writer
  <2>1. WriterStep /\ UNCHANGED resident
    BY <1>1 DEF Writer, poolVars
  <2>2. Counts' /\ Marks' /\ BooksTyped'
    BY <2>1, CountsByWriter, MarksByWriter, BooksByWriter
  <2>3. Carried'
    <3>1. CASE Take
      <4>1. /\ queue \in Seq(Job) /\ queue # <<>> /\ writer'.job = queue[1]
            /\ \A i \in DOMAIN queue' : i + 1 \in DOMAIN queue /\ queue'[i] = queue[i + 1]
        BY <3>1, Taken DEF QueueTyped
      <4> QED
        BY <4>1 DEF Carried
    <3>2. CASE End
      BY <3>2, Ended, Empty DEF Carried, Carries
    <3>3. CASE GoesOn
      BY <3>3, Goes DEF Carried
    <3> QED
      BY <2>1, <3>1, <3>2, <3>3, WriterSteps
  <2> QED
    BY <2>2, <2>3
<1>2. CASE Request \/ Maintenance
  <2>1. PICK jobs \in Seq(Job) : EngineStep(jobs) /\ Hands(jobs)
    BY <1>2, BothSteps
  <2>2. resident' \subseteq Conv
    BY <1>2, ResidentTyped DEF BooksTyped
  <2>3. Counts' /\ BooksTyped'
    BY <2>1, <2>2, CountsByEngine, BooksByEngine
  <2>4. Marks' /\ Carried'
    BY <2>1, MarksByEngine
  <2> QED
    BY <2>3, <2>4
<1>3. CASE Crash
  <2>1. /\ queue' = <<>> /\ writer' = Idle /\ marked' = {} /\ UNCHANGED <<disk, touched>>
        /\ writing' = [e \in Extent |-> 0] /\ written' = 0 /\ lastTotal' = 0
        /\ pendingError' = FALSE /\ resident' = {}
    BY <1>3 DEF Crash, RestartMem, storeVars
  <2>2. BooksTyped'
    BY <2>1 DEF BooksTyped
  <2>3. Counts'
    BY <2>1, CommitsFew, Empty DEF Counts, One, UncountedYet
  <2>4. Marks' /\ Carried'
    BY <2>1, Empty DEF Marks, Carried, Carries, At
  <2> QED
    BY <2>2, <2>3, <2>4
<1>4. CASE UNCHANGED vars
  <2>1. UNCHANGED <<disk, touched, queue, writer, marked, writing, written, lastTotal,
                    pendingError, resident>>
    BY <1>4 DEF vars, poolVars, diskVars, storeVars, memVars
  <2>2. BooksTyped' /\ Counts'
    BY <2>1 DEF BooksTyped, Counts, One, UncountedYet
  <2>3. Marks' /\ Carried'
    BY <2>1 DEF Marks, Carried, OnWay, At
  <2> QED
    BY <2>2, <2>3
<1> QED
  BY <1>1, <1>2, <1>3, <1>4 DEF Next, Quiescent

LEMMA BookedAlways == Spec => [](Stands /\ Booked)
<1>1. Init => Stands /\ Booked
  BY StandsInitially, BookedInitially
<1>2. Stands /\ Booked /\ [Next]_vars => Stands' /\ Booked'
  BY StandsInductively, BookedInductively
<1> QED
  BY <1>1, <1>2, PTL DEF Spec

(* Every variable has its type, for any streams that chain.                 *)
THEOREM TypeCorrect == Spec => []TypeOK
<1>1. Stands /\ Booked => TypeOK
  <2> SUFFICES ASSUME Stands, Booked PROVE TypeOK
    OBVIOUS
  <2> USE DEF Stands, Booked, Typed
  <2>1. /\ disk \subseteq Blob /\ touched \in Seq(Conv) /\ marked \subseteq Blob
        /\ writing \in [Extent -> Nat] /\ written \in Nat /\ lastTotal \in Nat
        /\ pendingError \in BOOLEAN /\ resident \subseteq Conv
    BY DEF BooksTyped
  <2>2. /\ manifest \in [Conv -> SUBSET Blob] /\ queue \in Seq(Job) /\ writer.job \in Job
        /\ writer.left \subseteq Blob /\ writer.failed \in BOOLEAN
        /\ reply \in {"none", "ok", "err"}
    BY DEF QueueTyped
  <2>3. /\ kept \in [Conv -> SUBSET Extent] /\ adopted \in [Conv -> Conv \cup {NoConv}]
        /\ sent \in [Conv -> SUBSET Blob]
    BY DEF PoolTyped
  <2>4. \A c \in Conv : history[c] \in 0..Len(Stream[c]) /\ open[c] \in 0..Len(Stream[c])
    BY StreamAssumption DEF PoolTyped
  <2> QED
    BY <2>1, <2>2, <2>3, <2>4 DEF TypeOK
<1> QED
  BY <1>1, BookedAlways, PTL

(* The books a turn goes by are exact: a commit is counted from before it   *)
(* is queued until its manifest is down, and a mark stands for a blob that  *)
(* is on its way, whatever failed, and however spills, barriers and erases  *)
(* came in between.                                                         *)
THEOREM BooksStayExact == Spec => []BooksExact
<1>1. Stands /\ Booked => BooksExact
  <2> SUFFICES ASSUME Stands, Booked PROVE BooksExact
    OBVIOUS
  <2> USE DEF Stands, Booked
  <2>1. ASSUME eng = Free, NEW j \in Pending PROVE j.blobs \subseteq marked \cup disk
    <3>1. ~Unanswered
      BY <2>1 DEF Unanswered, Free, Waiting
    <3>2. ~Sole(j)
      BY <3>1 DEF Pending, InLine, Sole
    <3> QED
      BY <3>2 DEF Pending, Marks
  <2>2. ASSUME NEW b \in marked PROVE b \in UNION {j.blobs : j \in Pending}
    <3>1. \E j \in Pending : b \in j.blobs
      BY DEF Marks, OnWay, Pending
    <3> QED
      BY <3>1
  <2>3. WritingCounts
    BY CountsAre
  <2> QED
    BY <2>1, <2>2, <2>3 DEF BooksExact, MarksArePending
<1> QED
  BY <1>1, BookedAlways, PTL

-----------------------------------------------------------------------------
(* What the cap rests on, until a restart forgets what was measured.        *)
Capped == crashes \in Nat /\ (crashes = 0 => CapKept)

(* The writer measures before it is content.                                *)
LEMMA CapByWriter ==
  ASSUME QueueTyped, Staged, BooksTyped, CapKept, WriterStep
  PROVE  CapKept'
<1> USE DEF At, GoTo, Fail, storeVars
<1>0. /\ Cardinality(disk) \in Nat /\ Cardinality(disk) <= lastTotal + written
      /\ written \in Nat /\ lastTotal \in Nat /\ IsFiniteSet(disk)
  BY FS_CardinalityType DEF BooksTyped, CapKept, GrowthBounded
<1>1. CASE Take
  <2>1. UNCHANGED <<disk, lastTotal, written, touched>>
    BY <1>1 DEF Take
  <2>2. ~(writer'.at = "end" /\ writer'.job.op = "gc")
    BY <1>1, Taken DEF FirstStage
  <2> QED
    BY <1>0, <2>1, <2>2 DEF CapKept, GrowthBounded, CapRespected
<1>2. CASE End
  <2>1. UNCHANGED <<disk, lastTotal, written>> /\ writer'.at = "idle"
    BY <1>2, Ended DEF End
  <2> QED
    BY <1>0, <2>1 DEF CapKept, GrowthBounded, CapRespected
<1>3. CASE GoesOn
  <2>1. GrowthBounded'
    <3>1. CASE /\ \E b \in Blob : disk' = disk \cup {b} \/ disk' = disk
               /\ written' = written + 1 /\ lastTotal' = lastTotal
      <4>1. PICK b \in Blob : disk' = disk \cup {b} \/ disk' = disk
        BY <3>1
      <4>2. Cardinality(disk') <= Cardinality(disk) + 1 /\ Cardinality(disk') \in Nat
        BY <1>0, <4>1, FS_AddElement
      <4> QED
        BY <1>0, <3>1, <4>2 DEF GrowthBounded
    <3>2. CASE disk' \subseteq disk /\ UNCHANGED <<written, lastTotal>>
      BY <1>0, <3>2, Fewer DEF GrowthBounded
    <3>3. CASE disk' = disk /\ written' = 0 /\ lastTotal' = Cardinality(disk)
      BY <1>0, <3>3 DEF GrowthBounded
    <3> QED
      BY <1>3, <3>1, <3>2, <3>3, Moves
  <2>2. CapRespected'
    <3>1. SUFFICES ASSUME writer'.at = "end", writer'.job.op = "gc", ~writer'.failed
                   PROVE  Cardinality(disk') <= Cap \/ touched' = <<>>
      BY DEF CapRespected
    <3>2. writer.job.op = "gc"
      BY <1>3, <3>1, Goes
    <3>3. CASE GcSkip
      <4>1. written < Headroom /\ disk' = disk
        BY <3>3 DEF GcSkip
      <4>2. Cap > lastTotal /\ written < Cap - lastTotal
        BY <1>0, <4>1, CapAssumption DEF Headroom
      <4> QED
        BY <1>0, <4>1, <4>2, CapAssumption
    <3>4. CASE GcMeasured
      BY <3>4 DEF GcMeasured
    <3>5. CASE GcWalk
      BY <3>1, <3>5 DEF GcWalk, QueueTyped
    <3>6. CASE GcEvict
      BY <3>1, <3>6 DEF GcEvict, QueueTyped
    <3>7. CASE \E b \in Blob : WriteBlob(b)
      BY <3>2, <3>7 DEF WriteBlob, Staged
    <3>8. CASE WroteBlobs \/ Commit \/ Count \/ Supersede \/ Erase \/ Sweep
      BY <3>2, <3>8 DEF WroteBlobs, Commit, Count, Supersede, Erase, Sweep, Staged
    <3> QED
      BY <1>3, <3>3, <3>4, <3>5, <3>6, <3>7, <3>8 DEF GoesOn
  <2> QED
    BY <2>1, <2>2 DEF CapKept
<1> QED
  BY <1>1, <1>2, <1>3, WriterSteps

(* The cap is kept until a crash: a GC job that skips the walk could have   *)
(* found nothing, and one that walks goes on until the store is within its  *)
(* cap or no conversation is left, whatever was written, erased or failed.  *)
THEOREM CapIsKept == Spec => [](crashes = 0 => CapKept)
<1>1. Init => Capped
  <2> SUFFICES ASSUME Init PROVE Capped
    OBVIOUS
  <2>1. crashes = 0 /\ disk = {} /\ lastTotal = 0 /\ written = 0 /\ writer.at = "idle"
    BY DEF Init, InitStore, InitMem, Idle
  <2>2. Cardinality(disk) = 0
    BY <2>1, FS_EmptySet
  <2> QED
    BY <2>1, <2>2 DEF Capped, CapKept, GrowthBounded, CapRespected, At
<1>2. Stands /\ Booked /\ Capped /\ [Next]_vars => Capped'
  <2> SUFFICES ASSUME Stands, Booked, Capped, [Next]_vars PROVE Capped'
    OBVIOUS
  <2> USE DEF Stands, Booked, Typed, Capped
  <2>1. CASE Writer
    BY <2>1, CapByWriter DEF Writer
  <2>2. CASE Request \/ Maintenance
    <3>1. UNCHANGED <<disk, touched, lastTotal, written, writer>>
      BY <2>2, HandsSteps DEF Hands, storeVars
    <3>2. UNCHANGED crashes
      BY <2>2 DEF Request, Maintenance, Begin, LookUpNothing, LookUp, ReadExtents, ReadMissing,
        EndTurn, Superseded, EraseConversation, Erased, Drain, Drained, Spill, SpillUnit,
        Durable, Spilled, Release, Operate, Continue
    <3> QED
      BY <3>1, <3>2 DEF CapKept, GrowthBounded, CapRespected, At
  <2>3. CASE Crash
    BY <2>3 DEF Crash
  <2>4. CASE UNCHANGED vars
    BY <2>4 DEF vars, diskVars, storeVars, memVars, CapKept, GrowthBounded, CapRespected, At
  <2> QED
    BY <2>1, <2>2, <2>3, <2>4 DEF Next, Quiescent
<1>3. Capped => (crashes = 0 => CapKept)
  BY DEF Capped
<1> QED
  BY <1>1, <1>2, <1>3, BookedAlways, PTL DEF Spec

-----------------------------------------------------------------------------
(* What the manifests name is there.  The blobs still to write of the job   *)
(* in hand.                                                                 *)
Left == IF At("write") THEN writer.left ELSE {}

(* What a commit names is on disk, in hand, or in the queue no later than   *)
(* it; a blob once written is there until a sweep, and who sweeps is waited *)
(* for.                                                                     *)
Backed ==
  /\ ManifestComplete
  /\ \A i \in DOMAIN queue : queue[i].op = "commit" =>
       queue[i].names \subseteq disk \cup Left \cup BlobsOf(queue, i)
  /\ writer.at \in {"write", "manifest"} /\ writer.job.op = "commit" =>
       writer.job.names \subseteq disk \cup Left
  /\ ~At("idle") /\ ~writer.job.ack => writer.job.blobs \subseteq disk \cup Left
  /\ writer.at \in {"count", "supersede"} /\ ~writer.failed =>
       manifest[writer.job.conv] = writer.job.names
  /\ At("sweep") => writer.job.ack

(* No file operation of a blob fails.                                       *)
BlobsLand == MayFail \subseteq {"manifest", "sweep"}

(* Only a sweep takes files away.                                           *)
LEMMA FilesStay ==
  ASSUME QueueTyped, Staged, GoesOn, BlobsLand, writer.job.op # "gc"
  PROVE  /\ ~At("sweep") => disk' \cup Left' = disk \cup Left /\ disk \subseteq disk'
         /\ At("sweep") => Swept(disk, manifest) \subseteq disk'
         /\ At("count") => writer'.failed = writer.failed
<1> USE DEF QueueTyped, At, GoTo, Fail, storeVars, Left
<1>1. ASSUME NEW b \in Blob, WriteBlob(b)
      PROVE  At("write") /\ disk' \cup Left' = disk \cup Left /\ disk \subseteq disk'
  <2>1. b[1] \in {"unit", "ckpt"}
    BY DEF Blob
  <2>2. disk' = disk \cup {b} /\ writer' = [writer EXCEPT !.left = @ \ {b}] /\ At("write")
          /\ b \in writer.left
    BY <1>1, <2>1 DEF WriteBlob, BlobsLand
  <2>3. writer'.left = writer.left \ {b} /\ writer'.at = "write"
    BY <2>2
  <2> QED
    BY <2>2, <2>3
<1>2. CASE WroteBlobs
  <2>1. /\ writer.left = {} /\ writer'.left = {} /\ disk' = disk /\ writer'.at # "write"
        /\ At("write")
    BY <1>2 DEF WroteBlobs
  <2> QED
    BY <2>1
<1> DEFINE Calm == writer.at \notin {"write", "sweep"} /\ writer'.at # "write" /\ disk' = disk
<1>3. CASE Commit
  <2>1. Calm /\ ~At("count")
    BY <1>3 DEF Commit
  <2> QED
    BY <2>1
<1>4. CASE Count
  <2>1. Calm /\ writer'.failed = writer.failed
    BY <1>4 DEF Count
  <2> QED
    BY <2>1
<1>5. ASSUME NEW c, RemoveThenSweep(c) PROVE disk' = disk /\ writer'.at # "write"
  BY <1>5 DEF RemoveThenSweep
<1>6. CASE Supersede
  <2>1. Calm /\ ~At("count")
    BY <1>5, <1>6 DEF Supersede
  <2> QED
    BY <2>1
<1>7. CASE Erase
  <2>1. Calm /\ ~At("count")
    BY <1>5, <1>7 DEF Erase
  <2> QED
    BY <2>1
<1>8. CASE Sweep
  <2>1. At("sweep") /\ Swept(disk, manifest) \subseteq disk'
    BY <1>8 DEF Sweep, Swept
  <2> QED
    BY <2>1
<1>9. CASE GcSkip \/ GcWalk \/ GcEvict \/ GcMeasured
  BY <1>9 DEF GcSkip, GcWalk, GcEvict, GcMeasured, Staged
<1> QED
  BY <1>1, <1>2, <1>3, <1>4, <1>6, <1>7, <1>8, <1>9 DEF GoesOn

(* The writer writes the blobs of a commit before its manifest, and sweeps  *)
(* only when nothing is behind it.                                          *)
LEMMA BackedByWriter ==
  ASSUME Stands, NoGc, Carried, Backed, BlobsLand, WriterStep
  PROVE  Backed'
<1> USE DEF Stands, Typed, At
<1>1. CASE Take
  <2>1. /\ Len(queue) \in Nat /\ Len(queue) > 0 /\ DOMAIN queue = 1 .. Len(queue)
        /\ DOMAIN queue' = 1 .. Len(queue) - 1
        /\ \A i \in DOMAIN queue' : i + 1 \in DOMAIN queue /\ queue'[i] = queue[i + 1]
        /\ writer'.job = queue[1] /\ writer.at = "idle" /\ manifest' = manifest
        /\ writer'.at = FirstStage(queue[1].op) /\ writer'.left = queue[1].blobs
        /\ disk' = disk /\ Left = {} /\ 1 \in DOMAIN queue
    BY <1>1, Taken DEF QueueTyped, Take, storeVars, Left
  <2>2. Left' = queue[1].blobs
    BY <2>1 DEF Carried, Carries, Left, FirstStage
  <2>3. BlobsOf(queue, 1) = queue[1].blobs
    BY DEF BlobsOf
  <2>4. ASSUME NEW i \in DOMAIN queue', queue'[i].op = "commit"
        PROVE  queue'[i].names \subseteq disk' \cup Left' \cup BlobsOf(queue', i)
    <3>1. /\ i + 1 \in DOMAIN queue /\ queue[i + 1] = queue'[i] /\ i \in Nat
          /\ queue[i + 1].names \subseteq disk \cup BlobsOf(queue, i + 1)
      BY <2>1, <2>4 DEF Backed
    <3>2. BlobsOf(queue, i + 1) \subseteq queue[1].blobs \cup BlobsOf(queue', i)
      <4>1. SUFFICES ASSUME NEW k \in 1 .. i + 1
                     PROVE  queue[k].blobs \subseteq queue[1].blobs \cup BlobsOf(queue', i)
        BY DEF BlobsOf
      <4>2. CASE k = 1
        BY <4>2
      <4>3. CASE k # 1
        <5>1. k - 1 \in 1 .. i /\ k - 1 \in DOMAIN queue' /\ k = (k - 1) + 1
          BY <2>1, <3>1, <4>3
        <5>2. queue'[k - 1] = queue[k]
          BY <2>1, <5>1
        <5>3. queue'[k - 1].blobs \subseteq BlobsOf(queue', i)
          BY <5>1 DEF BlobsOf
        <5> QED
          BY <5>2, <5>3
      <4> QED
        BY <4>2, <4>3
    <3> QED
      BY <2>1, <2>2, <3>1, <3>2
  <2>5. writer'.job.op = "commit" => writer'.job.names \subseteq disk' \cup Left'
    BY <2>1, <2>2, <2>3 DEF Backed
  <2>6. writer'.at \notin {"count", "supersede", "sweep"}
    BY <2>1 DEF FirstStage
  <2> QED
    BY <2>1, <2>2, <2>4, <2>5, <2>6 DEF Backed, ManifestComplete
<1>2. CASE End
  <2>1. /\ UNCHANGED <<disk, manifest, queue>> /\ writer'.at = "idle" /\ writer.at = "end"
    BY <1>2, Ended DEF End, storeVars
  <2> QED
    BY <2>1 DEF Backed, ManifestComplete, Left
<1>3. CASE GoesOn
  <2>1. /\ queue' = queue /\ writer'.job = writer.job /\ writer.at # "idle" /\ writer'.at # "idle"
        /\ writer.job.op # "gc"
    BY <1>3, Goes DEF NoGc
  <2>2. /\ ~At("sweep") => disk' \cup Left' = disk \cup Left /\ disk \subseteq disk'
        /\ At("sweep") => Swept(disk, manifest) \subseteq disk'
        /\ At("count") => writer'.failed = writer.failed
    BY <1>3, <2>1, FilesStay
  <2>3. CASE At("sweep")
    <3>1. writer.job.ack /\ DOMAIN queue = {} /\ writer'.at = "end" /\ manifest' = manifest
      BY <1>3, <2>1, <2>3, Stages DEF Backed, InLine
    <3>2. ManifestComplete'
      BY <2>2, <2>3, <3>1 DEF Backed, ManifestComplete, Swept
    <3> QED
      BY <2>1, <3>1, <3>2 DEF Backed
  <2>4. CASE ~At("sweep")
    <3>1. ManifestComplete'
      <4>1. CASE \A c \in Conv : manifest'[c] \in {manifest[c], {}}
        BY <2>2, <2>4, <4>1 DEF Backed, ManifestComplete
      <4>2. CASE /\ At("manifest")
                 /\ manifest' = [manifest EXCEPT ![writer.job.conv] = writer.job.names]
        <5>1. writer.job.names \subseteq disk
          BY <4>2 DEF Backed, Staged, Left
        <5> QED
          BY <2>2, <2>4, <4>2, <5>1 DEF Backed, ManifestComplete, QueueTyped
      <4>3. \/ \A c \in Conv : manifest'[c] \in {manifest[c], {}}
            \/ /\ At("manifest")
               /\ manifest' = [manifest EXCEPT ![writer.job.conv] = writer.job.names]
        BY <1>3, Stages DEF QueueTyped
      <4> QED
        BY <4>1, <4>2, <4>3
    <3>2. ASSUME NEW i \in DOMAIN queue', queue'[i].op = "commit"
          PROVE  queue'[i].names \subseteq disk' \cup Left' \cup BlobsOf(queue', i)
      BY <2>1, <2>2, <2>4, <3>2 DEF Backed
    <3>3. ASSUME writer'.at \in {"write", "manifest"}, writer'.job.op = "commit"
          PROVE  writer'.job.names \subseteq disk' \cup Left'
      <4>1. At("write")
        BY <1>3, <2>1, <3>3, Stages
      <4> QED
        BY <2>1, <2>2, <2>4, <3>3, <4>1 DEF Backed
    <3>4. ~writer'.job.ack => writer'.job.blobs \subseteq disk' \cup Left'
      BY <2>1, <2>2, <2>4 DEF Backed
    <3>5. ASSUME writer'.at \in {"count", "supersede"}, ~writer'.failed
          PROVE  manifest'[writer'.job.conv] = writer'.job.names
      <4>1. CASE At("manifest")
        <5>1. manifest' = [manifest EXCEPT ![writer.job.conv] = writer.job.names]
          BY <1>3, <2>1, <3>5, <4>1, Stages
        <5>2. writer.job.conv \in Conv
          BY <4>1 DEF Staged, WellFormed
        <5> QED
          BY <2>1, <5>1, <5>2 DEF QueueTyped
      <4>2. CASE At("count")
        <5>1. manifest' = manifest /\ ~writer.failed
          BY <1>3, <2>1, <2>2, <3>5, <4>2, Stages
        <5> QED
          BY <2>1, <4>2, <5>1 DEF Backed
      <4> QED
        BY <1>3, <2>1, <3>5, <4>1, <4>2, Stages
    <3>6. At("sweep")' => writer'.job.ack
      <4>1. SUFFICES ASSUME writer'.at = "sweep" PROVE writer.job.ack
        BY <2>1
      <4>2. \/ At("supersede") /\ writer.job.over # NoConv
            \/ At("erase")
        BY <1>3, <2>1, <4>1, Stages
      <4> QED
        BY <4>2 DEF Staged, WellFormed
    <3> QED
      BY <2>1, <3>1, <3>2, <3>3, <3>4, <3>5, <3>6 DEF Backed
  <2> QED
    BY <2>3, <2>4
<1> QED
  BY <1>1, <1>2, <1>3, WriterSteps

(* Two queues joined: what stood before a job still does.                   *)
LEMMA BlobsJoin ==
  ASSUME NEW q \in Seq(Job), NEW r \in Seq(Job)
  PROVE  /\ \A i \in DOMAIN q : BlobsOf(q \o r, i) = BlobsOf(q, i)
         /\ \A k \in DOMAIN r : /\ BlobsOf(r, k) \subseteq BlobsOf(q \o r, Len(q) + k)
                                /\ \A i \in DOMAIN q : q[i].blobs \subseteq BlobsOf(q \o r, Len(q) + k)
<1>1. /\ Len(q) \in Nat /\ DOMAIN q = 1 .. Len(q) /\ DOMAIN r = 1 .. Len(r)
      /\ \A i \in DOMAIN q : (q \o r)[i] = q[i]
      /\ \A k \in DOMAIN r : (q \o r)[Len(q) + k] = r[k]
  OBVIOUS
<1>2. ASSUME NEW i \in DOMAIN q PROVE BlobsOf(q \o r, i) = BlobsOf(q, i)
  <2>1. \A k \in 1 .. i : (q \o r)[k] = q[k]
    BY <1>1
  <2> QED
    BY <2>1 DEF BlobsOf
<1>3. ASSUME NEW k \in DOMAIN r PROVE BlobsOf(r, k) \subseteq BlobsOf(q \o r, Len(q) + k)
  <2>1. SUFFICES ASSUME NEW i \in 1 .. k PROVE r[i].blobs \subseteq BlobsOf(q \o r, Len(q) + k)
    BY DEF BlobsOf
  <2>2. i \in DOMAIN r /\ Len(q) + i \in 1 .. Len(q) + k
    BY <1>1
  <2>3. (q \o r)[Len(q) + i] = r[i]
    BY <1>1, <2>2
  <2>4. (q \o r)[Len(q) + i].blobs \subseteq BlobsOf(q \o r, Len(q) + k)
    BY <2>2 DEF BlobsOf
  <2> QED
    BY <2>3, <2>4
<1>4. ASSUME NEW k \in DOMAIN r, NEW i \in DOMAIN q
      PROVE  q[i].blobs \subseteq BlobsOf(q \o r, Len(q) + k)
  <2>1. i \in 1 .. Len(q) + k /\ (q \o r)[i] = q[i]
    BY <1>1
  <2>2. (q \o r)[i].blobs \subseteq BlobsOf(q \o r, Len(q) + k)
    BY <2>1 DEF BlobsOf
  <2> QED
    BY <2>1, <2>2
<1> QED
  BY <1>2, <1>3, <1>4

(* A turn counts on what is on disk, what is marked and what it sends, and  *)
(* what is marked is on its way before what it sends.                       *)
LEMMA BackedByEngine ==
  ASSUME Typed, InLine, Marks, Backed, Covered, NEW jobs \in Seq(Job),
         EngineStep(jobs), Hands(jobs)
  PROVE  Backed'
<1> DEFINE q == queue
<1>1. /\ queue \in Seq(Job) /\ queue' = queue \o jobs
      /\ UNCHANGED <<disk, manifest, writer>> /\ ~Unanswered
  BY DEF Typed, QueueTyped, EngineStep, Hands, storeVars
<1>2. Left' = Left /\ ManifestComplete'
  BY <1>1 DEF Left, At, Backed, ManifestComplete
<1>3. ASSUME NEW k \in DOMAIN jobs
      PROVE  marked \subseteq disk \cup Left \cup BlobsOf(queue', Len(queue) + k)
  <2>1. SUFFICES ASSUME NEW b \in marked
                 PROVE  b \in disk \cup Left \cup BlobsOf(queue', Len(queue) + k)
    OBVIOUS
  <2>2. CASE \E i \in DOMAIN queue : b \in queue[i].blobs
    BY <1>1, <2>2, BlobsJoin
  <2>3. CASE ~At("idle") /\ b \in writer.job.blobs
    <3>1. ~writer.job.ack
      BY <1>1, <2>3 DEF InLine
    <3> QED
      BY <2>3, <3>1 DEF Backed
  <2> QED
    BY <2>1, <2>2, <2>3 DEF Marks, OnWay
<1>4. ASSUME NEW i \in DOMAIN queue', queue'[i].op = "commit"
      PROVE  queue'[i].names \subseteq disk' \cup Left' \cup BlobsOf(queue', i)
  <2>1. CASE i \in DOMAIN queue /\ queue'[i] = queue[i]
    <3>1. BlobsOf(queue', i) = BlobsOf(queue, i)
      BY <1>1, <2>1, BlobsJoin
    <3>2. queue[i].names \subseteq disk \cup Left \cup BlobsOf(queue, i)
      BY <1>4, <2>1 DEF Backed
    <3> QED
      BY <1>1, <1>2, <2>1, <3>1, <3>2
  <2>2. CASE i - Len(queue) \in DOMAIN jobs /\ queue'[i] = jobs[i - Len(queue)]
    <3> DEFINE k == i - Len(queue)
    <3>1. k \in DOMAIN jobs /\ i = Len(queue) + k /\ jobs[k] = queue'[i]
      BY <1>1, <2>2
    <3> HIDE DEF k
    <3>2. jobs[k].names \subseteq disk \cup marked \cup BlobsOf(jobs, k)
      BY <1>4, <3>1 DEF Hands
    <3>3. BlobsOf(jobs, k) \subseteq BlobsOf(queue', i)
      BY <1>1, <3>1, BlobsJoin
    <3>4. marked \subseteq disk \cup Left \cup BlobsOf(queue', i)
      BY <1>3, <3>1
    <3>5. jobs[k].names \subseteq disk \cup Left \cup BlobsOf(queue', i)
      BY ONLY <3>2, <3>3, <3>4
    <3> QED
      BY <1>1, <1>2, <3>1, <3>5
  <2> QED
    BY <2>1, <2>2, Appended
<1> QED
  BY <1>1, <1>2, <1>4 DEF Backed, At

-----------------------------------------------------------------------------
(* Every manifest, and every commit that will write one, covers its stream  *)
(* up to a cut.                                                             *)
Rounded ==
  /\ \A i \in DOMAIN queue : queue[i].op = "commit" => WholeOf(queue[i].conv, queue[i].names)
  /\ writer.job.op = "commit" => WholeOf(writer.job.conv, writer.job.names)
  /\ \A c \in Conv : manifest[c] # {} => WholeOf(c, manifest[c])
  /\ \A c \in Conv : sent[c] # {} => WholeOf(c, sent[c])

LEMMA RoundedByWriter ==
  ASSUME Typed, Staged, Rounded, WriterStep, UNCHANGED sent
  PROVE  Rounded'
<1> USE DEF Typed, At
<1>1. CASE Take
  <2>1. /\ queue \in Seq(Job) /\ queue # <<>> /\ writer'.job = queue[1] /\ manifest' = manifest
        /\ \A i \in DOMAIN queue' : i + 1 \in DOMAIN queue /\ queue'[i] = queue[i + 1]
    BY <1>1, Taken DEF QueueTyped
  <2>2. 1 \in DOMAIN queue
    BY <2>1
  <2> QED
    BY <2>1, <2>2 DEF Rounded
<1>2. CASE End
  BY <1>2, Ended DEF Rounded
<1>3. CASE GoesOn
  <2>1. queue' = queue /\ writer'.job = writer.job
    BY <1>3, Goes
  <2>2. ASSUME NEW c \in Conv, manifest'[c] # {} PROVE WholeOf(c, manifest'[c])
    <3>1. CASE At("manifest") /\ manifest' = [manifest EXCEPT ![writer.job.conv] = writer.job.names]
      <4>1. writer.job.op = "commit"
        BY <3>1 DEF Staged
      <4>2. c = writer.job.conv => manifest'[c] = writer.job.names
        BY <3>1 DEF QueueTyped
      <4>3. c # writer.job.conv => manifest'[c] = manifest[c]
        BY <3>1 DEF QueueTyped
      <4> QED
        BY <2>2, <4>1, <4>2, <4>3 DEF Rounded
    <3>2. CASE manifest'[c] \in {manifest[c], {}}
      BY <2>2, <3>2 DEF Rounded
    <3> QED
      BY <1>3, <3>1, <3>2, Stages DEF QueueTyped
  <2> QED
    BY <2>1, <2>2 DEF Rounded
<1> QED
  BY <1>1, <1>2, <1>3, WriterSteps

LEMMA RoundedByEngine ==
  ASSUME Typed, Rounded, Covered, NEW jobs \in Seq(Job), EngineStep(jobs), Hands(jobs)
  PROVE  Rounded'
<1>1. \A i \in DOMAIN jobs : jobs[i].op = "commit" => WholeOf(jobs[i].conv, jobs[i].names)
  BY DEF Hands
<1>2. UNCHANGED <<writer, manifest>>
  BY Appended
<1>3. ASSUME NEW i \in DOMAIN queue', queue'[i].op = "commit"
      PROVE  WholeOf(queue'[i].conv, queue'[i].names)
  BY <1>1, <1>3, Appended DEF Rounded
<1>4. ASSUME NEW c \in Conv, sent'[c] # {} PROVE WholeOf(c, sent'[c])
  <2>1. CASE sent'[c] = sent[c]
    BY <1>4, <2>1 DEF Rounded
  <2>2. CASE \E i \in DOMAIN jobs : jobs[i].op = "commit" /\ jobs[i].conv = c
    <3>1. PICK i \in DOMAIN jobs : jobs[i].op = "commit" /\ jobs[i].conv = c
      BY <2>2
    <3>2. sent'[c] = jobs[i].names
      BY <3>1 DEF EngineStep
    <3> QED
      BY <1>1, <3>1, <3>2
  <2> QED
    BY <1>4, <2>1, <2>2 DEF EngineStep
<1> QED
  BY <1>2, <1>3, <1>4 DEF Rounded

-----------------------------------------------------------------------------
(* The invariant of a store that is not capped and whose blobs land.        *)
Durably == Told /\ Booked /\ Backed /\ Rounded

LEMMA DurablyInitially == Init => Durably
<1> SUFFICES ASSUME Init PROVE Durably
  OBVIOUS
<1>1. /\ queue = <<>> /\ writer = Idle /\ \A c \in Conv : manifest[c] = {} /\ sent[c] = {}
  BY DEF Init, InitStore, InitMem
<1>2. Backed
  BY <1>1, Empty DEF Backed, ManifestComplete, At
<1>3. Rounded
  BY <1>1, Empty DEF Rounded
<1> QED
  BY <1>2, <1>3, ToldInitially, BookedInitially DEF Durably

LEMMA DurablyInductively ==
  ASSUME ~Evicting, Covered, BlobsLand
  PROVE  Durably /\ [Next]_vars => Durably'
<1> SUFFICES ASSUME Durably, [Next]_vars PROVE Durably'
  OBVIOUS
<1> USE DEF Durably, Told
<1>1. Told' /\ Booked'
  BY ToldInductively, BookedInductively
<1>2. CASE Writer
  <2>1. WriterStep /\ UNCHANGED sent
    BY <1>2 DEF Writer
  <2> QED
    BY <1>1, <2>1, BackedByWriter, RoundedByWriter DEF Stands, Booked
<1>3. CASE Request \/ Maintenance
  <2>1. PICK jobs \in Seq(Job) : EngineStep(jobs) /\ Hands(jobs)
    BY <1>3, BothSteps DEF Stands, Booked
  <2> QED
    BY <1>1, <2>1, BackedByEngine, RoundedByEngine DEF Stands, Booked
<1>4. CASE Crash
  <2>1. /\ queue' = <<>> /\ writer' = Idle /\ UNCHANGED <<disk, manifest>> /\ sent' = manifest
    BY <1>4 DEF Crash, RestartMem, storeVars
  <2>2. Backed'
    BY <2>1, Empty DEF Backed, ManifestComplete, At
  <2>3. Rounded'
    BY <2>1, Empty DEF Rounded
  <2> QED
    BY <1>1, <2>2, <2>3
<1>5. CASE UNCHANGED vars
  <2>1. UNCHANGED <<disk, manifest, queue, writer, sent>>
    BY <1>5 DEF vars, diskVars, storeVars, memVars
  <2> QED
    BY <1>1, <2>1 DEF Backed, ManifestComplete, Left, Rounded, At
<1> QED
  BY <1>2, <1>3, <1>4, <1>5 DEF Next, Quiescent

LEMMA DurablyAlways ==
  ASSUME ~Evicting, Covered, BlobsLand
  PROVE  Spec => []Durably
<1>1. Init => Durably
  BY DurablyInitially
<1>2. Durably /\ [Next]_vars => Durably'
  BY DurablyInductively
<1> QED
  BY <1>1, <1>2, PTL DEF Spec

(* Every manifest names only files that are there, between any two file     *)
(* operations and after any crash, for a store that is not capped, when no  *)
(* write of a blob fails and the window reaches back to the start.          *)
THEOREM ManifestsStayComplete ==
  ASSUME ~Evicting, Covered, BlobsLand
  PROVE  Spec => []ManifestComplete
<1>1. Durably => ManifestComplete
  BY DEF Durably, Backed
<1> QED
  BY <1>1, DurablyAlways, PTL

(* A manifest is superseded only by a commit whose own manifest is down     *)
(* with everything it names, whatever manifest writes and sweeps fail.      *)
THEOREM ReplacedOnlyByWhole ==
  ASSUME ~Evicting, Covered, BlobsLand
  PROVE  Spec => ReplacementFirst
<1> DEFINE Replaced ==
      \A c \in Conv :
        (At("supersede") /\ manifest[c] # {} /\ manifest'[c] = {}) =>
          manifest[writer.job.conv] = writer.job.names /\ writer.job.names \subseteq disk
<1>1. Durably /\ [Next]_vars => [Replaced]_vars
  <2> SUFFICES ASSUME Durably, Next PROVE Replaced
    OBVIOUS
  <2> USE DEF Durably, Told, Stands, Typed
  <2>1. SUFFICES ASSUME NEW c \in Conv, At("supersede"), manifest[c] # {}, manifest'[c] = {}
                 PROVE  manifest[writer.job.conv] = writer.job.names /\ writer.job.names \subseteq disk
    OBVIOUS
  <2>2. WriterStep
    <3>1. CASE Request \/ Maintenance
      <4>1. UNCHANGED manifest
        BY <3>1, HandsSteps DEF Booked, Hands, storeVars
      <4> QED
        BY <2>1, <4>1
    <3>2. CASE Crash
      BY <2>1, <3>2, CrashTo
    <3>3. CASE Quiescent
      BY <2>1, <3>3 DEF Quiescent, vars, diskVars, storeVars
    <3> QED
      BY <3>1, <3>2, <3>3 DEF Next, Writer
  <2>3. GoesOn
    BY <2>1, <2>2, WriterSteps, Taken, Ended DEF At
  <2>4. Supersede
    BY <2>1, <2>3 DEF GoesOn, WriteBlob, WroteBlobs, Commit, Count, Erase, Sweep, GcSkip, GcWalk,
      GcEvict, GcMeasured, At
  <2>5. ~writer.failed
    BY <2>1, <2>4 DEF Supersede, storeVars
  <2>6. manifest[writer.job.conv] = writer.job.names
    BY <2>1, <2>5 DEF Backed, At
  <2>7. writer.job.conv \in Conv
    BY <2>1 DEF Staged, WellFormed, At
  <2> QED
    BY <2>6, <2>7 DEF Backed, ManifestComplete
<1>2. [][Replaced]_vars => ReplacementFirst
  BY PTL DEF ReplacementFirst
<1> QED
  BY <1>1, <1>2, DurablyAlways, PTL DEF Spec

-----------------------------------------------------------------------------
(* A set of places in a queue has a last one.                               *)
LEMMA LastOf ==
  ASSUME NEW n \in Nat, NEW S \in SUBSET (1 .. n), S # {}
  PROVE  \E i \in S : \A k \in S : k <= i
<1> DEFINE D == {d \in Nat : \E i \in S : d = n - i}
           R == OpToRel(<, Nat)
<1>1. D \subseteq Nat /\ D # {}
  <2>1. PICK i \in S : TRUE
    OBVIOUS
  <2>2. n - i \in D
    BY <2>1
  <2> QED
    BY <2>2
<1>2. IsWellFoundedOn(R, Nat)
  BY NatLessThanWellFounded
<1>3. \A x, y \in Nat : x < y => <<x, y>> \in R
  BY DEF OpToRel
<1> HIDE DEF D, R
<1>4. \E d \in D : \A e \in D : ~(<<e, d>> \in R)
  BY ONLY <1>1, <1>2, WFMin
<1>5. PICK d \in D : \A e \in D : ~(e < d)
  BY <1>1, <1>3, <1>4
<1> USE DEF D
<1>6. PICK i \in S : d = n - i
  BY <1>5
<1>7. ASSUME NEW k \in S PROVE k <= i
  <2>1. n - k \in D
    BY <1>7
  <2>2. ~(n - k < n - i)
    BY <1>5, <1>6, <2>1
  <2> QED
    BY <2>2
<1> QED
  BY <1>7

(* A commit handed over and not yet under its manifest is counted.          *)
LEMMA CountedUntilKnown ==
  ASSUME Durably, ~pendingError, NEW c \in Conv, sent[c] # {}, ~BeingRemoved(c),
         NEW e \in Extent, Unit(e) \in sent[c], ~(writing[e] > 0)
  PROVE  manifest[c] = sent[c]
<1> USE DEF Durably, Told, Stands, Typed, Booked
<1>1. /\ KnownOf(c) /\ queue \in Seq(Job)
      /\ writing[e] = Cardinality(CommitsOf(queue, e)) + One(e)
      /\ Cardinality(CommitsOf(queue, e)) \in Nat /\ IsFiniteSet(CommitsOf(queue, e))
      /\ One(e) \in {0, 1}
  BY CommitsCount DEF Known, Counts, QueueTyped, One
<1>2. Cardinality(CommitsOf(queue, e)) = 0 /\ One(e) = 0
  BY <1>1
<1>3. CommitsOf(queue, e) = {}
  BY <1>1, <1>2, FS_EmptySet
<1>4. NoneToCome(c)
  <2>1. SUFFICES ASSUME ~NoneToCome(c) PROVE FALSE
    OBVIOUS
  <2> DEFINE S == {i \in DOMAIN queue : queue[i].op = "commit" /\ queue[i].conv = c}
  <2>2. S # {} /\ S \in SUBSET (1 .. Len(queue)) /\ Len(queue) \in Nat
    BY <1>1, <2>1 DEF NoneToCome
  <2>3. PICK i \in S : \A k \in S : k <= i
    <3> HIDE DEF S
    <3> QED
      BY <2>2, LastOf
  <2>4. LastToCome(c, i)
    BY <2>2, <2>3 DEF LastToCome
  <2>5. queue[i].names = sent[c] /\ queue[i].op = "commit"
    BY <1>1, <2>3, <2>4 DEF KnownOf
  <2>6. i \in CommitsOf(queue, e)
    BY <2>3, <2>5 DEF CommitsOf
  <2> QED
    BY <1>3, <2>6
<1>5. ~InHand(c)
  <2>1. SUFFICES ASSUME InHand(c) PROVE FALSE
    OBVIOUS
  <2>2. writer.job.names = sent[c] /\ UncountedYet
    BY <1>1, <1>4, <2>1 DEF KnownOf, InHand, UncountedYet
  <2> QED
    BY <1>2, <2>2 DEF One
<1> QED
  BY <1>1, <1>4, <1>5 DEF KnownOf

(* A return visit finds what was committed of its prefix: once the commits  *)
(* of it that are on their way have been waited for, the lookup stands at   *)
(* least as deep as the deepest boundary that any conversation handed over, *)
(* for streams that share prefixes in any way.  The store is not capped, no *)
(* job failed since the queue was opened, and the window reaches back.      *)
THEOREM ReturnsFindTheirCommits ==
  ASSUME ~Evicting, Covered, BlobsLand
  PROVE  Spec => []ReturnFindsItsCommit
<1>1. Durably => ReturnFindsItsCommit
  <2> SUFFICES ASSUME Durably, Engine("lookup"), WaitForCommits, ~pendingError,
                      NEW n \in (eng.held + 1)..eng.upto, NEW c \in Conv,
                      {Ckpt(Stream[eng.conv][n]), Unit(Stream[eng.conv][n])} \subseteq sent[c]
               PROVE  n \in Candidates
    BY DEF ReturnFindsItsCommit
  <2> DEFINE d == eng.conv
             e == Stream[d][n]
  <2>1. /\ d \in Conv /\ eng.held \in Nat /\ eng.upto \in Nat /\ eng.upto < Len(Stream[d])
        /\ Stream[d] \in Seq(Extent) /\ Stream[c] \in Seq(Extent)
        /\ ~BeingRemoved(c)
    BY StreamAssumption DEF Durably, Told, Stands, Typed, EngineTyped, Engine, BeingRemoved
  <2>2. n \in 1 .. Len(Stream[d]) /\ n \in Nat /\ e \in Extent
    BY <2>1
  <2>3. e \in Between(d, eng.held, eng.upto)
    BY DEF Between
  <2>4. ~(writing[e] > 0)
    BY <2>3 DEF WaitForCommits, InFlight
  <2>5. sent[c] # {} /\ Unit(e) \in sent[c]
    OBVIOUS
  <2> HIDE DEF e
  <2>6. manifest[c] = sent[c]
    BY <2>1, <2>2, <2>4, <2>5, CountedUntilKnown
  <2>7. PICK m \in 1 .. Len(Stream[c]) : sent[c] = Whole(c, m)
    BY <2>5 DEF Durably, Rounded, WholeOf
  <2>8. e \in Through(c, m)
    <3>1. Unit(e) \in Whole(c, m)
      BY <2>5, <2>7
    <3>2. \A x, y : Unit(x) = Unit(y) => x = y
      BY DEF Unit
    <3>3. \A x, y : Unit(x) # Ckpt(y)
      BY DEF Unit, Ckpt
    <3> QED
      BY <3>1, <3>2, <3>3 DEF Whole
  <2>9. PICK i \in 1 .. m : e = Stream[c][i]
    BY <2>8 DEF Through, Between
  <2>10. n = i /\ SubSeq(Stream[d], 1, n) = SubSeq(Stream[c], 1, i)
    <3>1. n \in DOMAIN Stream[d] /\ i \in DOMAIN Stream[c] /\ Stream[d][n] = Stream[c][i]
      BY <2>1, <2>2, <2>9 DEF e
    <3>2. \A x \in DOMAIN Stream[d], y \in DOMAIN Stream[c] : Stream[d][x] = Stream[c][y] =>
            x = y /\ SubSeq(Stream[d], 1, x) = SubSeq(Stream[c], 1, x)
      <4> HIDE DEF d
      <4> QED
        BY <2>1, ChainAssumption
    <3> HIDE DEF d
    <3> QED
      BY ONLY <3>1, <3>2
  <2>11. \A k \in 1 .. n : Stream[d][k] = Stream[c][k]
    <3>1. n <= Len(Stream[d]) /\ n <= Len(Stream[c]) /\ SubSeq(Stream[d], 1, n) = SubSeq(Stream[c], 1, n)
      BY <2>2, <2>7, <2>9, <2>10
    <3>2. \A k \in 1 .. n : /\ SubSeq(Stream[d], 1, n)[k] = Stream[d][k]
                            /\ SubSeq(Stream[c], 1, n)[k] = Stream[c][k]
      BY <2>1, <2>2, <3>1
    <3> QED
      BY <3>1, <3>2
  <2>12. Through(d, n) = Through(c, n) /\ Through(c, n) \subseteq Through(c, m)
    <3>1. \A k \in 1 .. n : k \in 1 .. m
      BY <2>2, <2>9, <2>10
    <3>2. \A k : k \in (0 + 1) .. n <=> k \in 1 .. n
      BY <2>2
    <3> QED
      BY <2>2, <2>11, <3>1, <3>2 DEF Through, Between
  <2>13. e \in Through(d, n)
    BY <2>2 DEF Through, Between, e
  <2>14. {Unit(x) : x \in Through(d, n)} \cup {Ckpt(e)} \subseteq manifest[c]
    BY <2>6, <2>7, <2>12, <2>13 DEF Whole
  <2>15. manifest[c] \subseteq disk
    BY DEF Durably, Backed, ManifestComplete
  <2>16. Restorable(c, d, n)
    BY <2>14, <2>15 DEF Restorable, e
  <2> QED
    BY <2>16 DEF Candidates
<1> QED
  BY <1>1, DurablyAlways, PTL
=============================================================================
