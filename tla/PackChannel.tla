---------------------------- MODULE PackChannel ----------------------------
(***************************************************************************)
(* imparo-program-pack/src/install.rs: packs are published into a store of *)
(* objects and admissions, and a release channel points at two of them     *)
(* through the files current.json and known-good.json, moved together by a *)
(* journal (transaction.json).                                             *)
(*                                                                         *)
(* A rename is seen at once and is sure only after its directory has been  *)
(* synced: may[f] are the contents a power loss can leave in f.  Any file  *)
(* operation may fail and any process may be killed; the locks are flock's *)
(* and go with their process.  Contents are written and synced under       *)
(* another name first, so a file is whole or absent.                       *)
(*                                                                         *)
(* The first call on a channel makes its directory channels/<channel>, and *)
(* channels/ is synced by no call: until the directory has outlived a power*)
(* loss, one may take it with all its files.  The store itself, v1 and the *)
(* directories in it, is presumed durable: prepare_cache syncs v1 but not  *)
(* the cache root v1 is made in.                                           *)
(***************************************************************************)
EXTENDS Integers, FiniteSets

CONSTANTS Pack,       \* install digests
          Content,
          ContentOf,  \* what each admits
          None, Proc,
          MaxGen      \* u64::MAX

ASSUME PackAssumption == None \notin Pack \cup Proc /\ ContentOf \in [Pack -> Content]
ASSUME GenAssumption == MaxGen \in Nat

VARIABLES
  directory,                \* of the channel: "absent", "new", or "kept" once it outlived a power loss
  now, may,                 \* the files in it: as seen, as a power loss may leave them
  objects, sureObjects,     \* objects/ seen, and durable
  admissions, sureAdmissions,
  at, op, arg,              \* where each process is, in which call, for which pack
  plan,                     \* the transaction it carries out
  channelLock, installLock,
  told,                     \* history: the pair last answered, none once the directory was lost
  installed                 \* history: installs answered

fileVars == <<now, may>>
storeVars == <<objects, sureObjects, admissions, sureAdmissions>>
callVars == <<op, arg>>
lockVars == <<channelLock, installLock>>
vars == <<directory, fileVars, storeVars, at, callVars, plan, lockVars, told, installed>>

File == {"transaction", "known", "current"}

(* A pointer has the generation and the install digest.                     *)
Pointer == [generation : 1..MaxGen, install : Pack]
Pointers == [current : Pointer \cup {None}, known : Pointer \cup {None}]
Unset == [current |-> None, known |-> None]
Transaction == [committed : BOOLEAN, before : Pointers, after : Pointers]

ASSUME NoFileAssumption == None \notin Pointer \cup Transaction

Init ==
  /\ directory = "absent"
  /\ now = [f \in File |-> None] /\ may = [f \in File |-> {None}]
  /\ objects = {} /\ sureObjects = {} /\ admissions = {} /\ sureAdmissions = {}
  /\ at = [p \in Proc |-> "idle"] /\ op = [p \in Proc |-> "none"]
  /\ arg = [p \in Proc |-> None] /\ plan = [p \in Proc |-> None]
  /\ channelLock = None /\ installLock = None
  /\ told = Unset /\ installed = {}

-----------------------------------------------------------------------------
(* load_admission: the admission and its object are there and verify.       *)
Loadable(i) == i \in admissions /\ ContentOf[i] \in objects

(* A call that starts waits for its lock first; what it loads before it     *)
(* takes the lock is never removed.                                         *)
StartInstall(p, i) ==
  /\ at[p] = "idle" /\ installLock = None
  /\ installLock' = p
  /\ at' = [at EXCEPT ![p] = "publishObject"]
  /\ op' = [op EXCEPT ![p] = "install"] /\ arg' = [arg EXCEPT ![p] = i]
  /\ UNCHANGED <<directory, fileVars, storeVars, plan, channelLock, told, installed>>

(* The channel's lock is a file in its directory, made when it is not there.*)
StartOnChannel(p, call, i) ==
  /\ at[p] = "idle" /\ channelLock = None
  /\ directory' = IF directory = "absent" THEN "new" ELSE directory
  /\ channelLock' = p
  /\ at' = [at EXCEPT ![p] = "recover"]
  /\ op' = [op EXCEPT ![p] = call] /\ arg' = [arg EXCEPT ![p] = i]
  /\ UNCHANGED <<fileVars, storeVars, plan, installLock, told, installed>>

StartAdvance(p, i) == Loadable(i) /\ StartOnChannel(p, "advance", i)
StartRollback(p) == StartOnChannel(p, "rollback", None)
StartState(p) == directory # "absent" /\ StartOnChannel(p, "state", None)

(* channel_state takes no lock when there is no directory.                  *)
TellAbsent(p) ==
  /\ at[p] = "idle" /\ directory = "absent"
  /\ told' = Unset
  /\ UNCHANGED <<directory, fileVars, storeVars, at, callVars, plan, lockVars, installed>>

(* The end of a call, answered or not.                                      *)
Idle(p) ==
  /\ at' = [at EXCEPT ![p] = "idle"] /\ op' = [op EXCEPT ![p] = "none"]
  /\ arg' = [arg EXCEPT ![p] = None] /\ plan' = [plan EXCEPT ![p] = None]
  /\ channelLock' = IF channelLock = p THEN None ELSE channelLock
  /\ installLock' = IF installLock = p THEN None ELSE installLock

(* A file operation fails, or the process is killed, at any point.          *)
Stop(p) ==
  /\ at[p] # "idle"
  /\ Idle(p)
  /\ UNCHANGED <<directory, fileVars, storeVars, told, installed>>

(* Each entry is left at one of the contents it may have.                   *)
DirectoryStays ==
  /\ directory' = IF directory = "new" THEN "kept" ELSE directory
  /\ now' \in {n \in [File -> UNION {may[f] : f \in File}] : \A f \in File : n[f] \in may[f]}
  /\ may' = [f \in File |-> {now'[f]}]
  /\ UNCHANGED told

DirectoryLost ==
  /\ directory = "new" /\ directory' = "absent"
  /\ now' = [f \in File |-> None] /\ may' = [f \in File |-> {None}]
  /\ told' = Unset

PowerLoss ==
  /\ DirectoryStays \/ DirectoryLost
  /\ \E O \in SUBSET (objects \ sureObjects), A \in SUBSET (admissions \ sureAdmissions) :
       /\ objects' = sureObjects \cup O /\ sureObjects' = sureObjects \cup O
       /\ admissions' = sureAdmissions \cup A /\ sureAdmissions' = sureAdmissions \cup A
  /\ at' = [p \in Proc |-> "idle"] /\ op' = [p \in Proc |-> "none"]
  /\ arg' = [p \in Proc |-> None] /\ plan' = [p \in Proc |-> None]
  /\ channelLock' = None /\ installLock' = None
  /\ UNCHANGED installed

-----------------------------------------------------------------------------
(* stage_and_publish: a directory already there is verified and kept.       *)
Publishing(p, from, to) ==
  /\ at[p] = from /\ at' = [at EXCEPT ![p] = to]
  /\ UNCHANGED <<directory, fileVars, callVars, plan, lockVars, told, installed>>

PublishObject(p) ==
  /\ Publishing(p, "publishObject",
       IF ContentOf[arg[p]] \in objects THEN "publishAdmission" ELSE "objectSync")
  /\ objects' = objects \cup {ContentOf[arg[p]]}
  /\ UNCHANGED <<sureObjects, admissions, sureAdmissions>>

SyncObjects(p, from, to) ==
  /\ Publishing(p, from, to)
  /\ sureObjects' = objects
  /\ UNCHANGED <<objects, admissions, sureAdmissions>>

PublishAdmission(p) ==
  /\ Publishing(p, "publishAdmission",
       IF arg[p] \in admissions THEN "objectsSync" ELSE "admissionSync")
  /\ admissions' = admissions \cup {arg[p]}
  /\ UNCHANGED <<objects, sureObjects, sureAdmissions>>

SyncAdmissions(p) ==
  /\ Publishing(p, "admissionSync", "objectsSync")
  /\ sureAdmissions' = admissions
  /\ UNCHANGED <<objects, sureObjects, admissions>>

(* The last sync, and the answer.                                           *)
InstalledAtOnce(p) ==
  /\ at[p] = "admissionsSync"
  /\ installed' = installed \cup {arg[p]}
  /\ Idle(p)
  /\ UNCHANGED <<directory, fileVars, storeVars, told>>

Installed(p) ==
  /\ at[p] = "admissionsSync"
  /\ sureAdmissions' = admissions
  /\ installed' = installed \cup {arg[p]}
  /\ Idle(p)
  /\ UNCHANGED <<directory, fileVars, objects, sureObjects, admissions, told>>

Install(p) ==
  \/ PublishObject(p) \/ PublishAdmission(p)
  \/ SyncObjects(p, "objectSync", "publishAdmission")
  \/ SyncObjects(p, "objectsSync", "admissionsSync")
  \/ SyncAdmissions(p) \/ Installed(p)

-----------------------------------------------------------------------------
(* atomic_replace_file and remove_if_exists: a replacement syncs its        *)
(* directory, a removal does not.                                           *)
Replace(f, v) ==
  /\ now' = [now EXCEPT ![f] = v]
  /\ may' = [may EXCEPT ![f] = @ \cup {v}]

SyncDirectory ==
  /\ may' = [f \in File |-> {now[f]}]
  /\ UNCHANGED now

Step(p, from, to) ==
  /\ at[p] = from /\ at' = [at EXCEPT ![p] = to]
  /\ UNCHANGED <<directory, storeVars, callVars, lockVars, told, installed>>

WritePointer(p, from, f, v, synced, to) ==
  /\ Step(p, from, IF v = None THEN to ELSE synced)
  /\ Replace(f, v)
  /\ UNCHANGED plan

Sync(p, from, to) ==
  /\ Step(p, from, to)
  /\ SyncDirectory
  /\ UNCHANGED plan

(* recover_channel_transaction                                              *)
Final(tx) == IF tx.committed THEN tx.after ELSE tx.before

NothingToRecover(p) ==
  /\ now["transaction"] = None
  /\ Step(p, "recover", "read")
  /\ UNCHANGED <<fileVars, plan>>

Recover(p) ==
  \/ /\ now["transaction"] # None
     /\ WritePointer(p, "recover", "known", Final(now["transaction"]).known,
                     "recoverKnownSync", "recoverCurrent")
  \/ Sync(p, "recoverKnownSync", "recoverCurrent")
  \/ WritePointer(p, "recoverCurrent", "current", Final(now["transaction"]).current,
                  "recoverCurrentSync", "recoverSync")
  \/ Sync(p, "recoverCurrentSync", "recoverSync")
  \/ Sync(p, "recoverSync", "recoverRemove")
  \/ WritePointer(p, "recoverRemove", "transaction", None, "none", "recoverEnd")
  \/ Sync(p, "recoverEnd", "read")

-----------------------------------------------------------------------------
Found == [current |-> now["current"], known |-> now["known"]]

(* ensure_matching_generations, and both admissions still load.             *)
Matching(ps) ==
  /\ ps.current = None => ps.known = None
  /\ ps.current # None /\ ps.known # None => ps.current.generation = ps.known.generation

Admitted(ps) == \A q \in {ps.current, ps.known} \ {None} : Loadable(q.install)

Sound(p) == at[p] = "read" /\ Matching(Found) /\ Admitted(Found)

GenerationOf(ps) == IF ps.current = None THEN 0 ELSE ps.current.generation
At(g, i) == [generation |-> g, install |-> i]

AdvanceKeepingKnown(ps, i) ==
  [current |-> At(GenerationOf(ps) + 1, i),
   known |-> IF ps.known = None THEN None ELSE At(GenerationOf(ps) + 1, ps.known.install)]

AdvanceOf(ps, i) ==
  [current |-> At(GenerationOf(ps) + 1, i),
   known |-> IF ps.current = None THEN None ELSE At(GenerationOf(ps) + 1, ps.current.install)]

RollbackOf(ps) ==
  [current |-> At(GenerationOf(ps) + 1, ps.known.install),
   known |-> At(GenerationOf(ps) + 1, ps.current.install)]

Planned(p, after) ==
  /\ Step(p, "read", "journal")
  /\ plan' = [plan EXCEPT ![p] = [committed |-> FALSE, before |-> Found, after |-> after]]
  /\ UNCHANGED fileVars

(* advance_channel leaves the last generation unused, rollback_channel does *)
(* not.                                                                     *)
PlanAdvanceUnbounded(p) ==
  /\ op[p] = "advance" /\ Sound(p)
  /\ Planned(p, AdvanceOf(Found, arg[p]))

PlanAdvance(p) ==
  /\ op[p] = "advance" /\ Sound(p)
  /\ GenerationOf(Found) + 1 < MaxGen
  /\ Planned(p, AdvanceOf(Found, arg[p]))

PlanRollback(p) ==
  /\ op[p] = "rollback" /\ Sound(p)
  /\ Found.current # None /\ Found.known # None
  /\ GenerationOf(Found) < MaxGen
  /\ Planned(p, RollbackOf(Found))

(* channel_state answers what it read.                                      *)
TellState(p) ==
  /\ op[p] = "state" /\ Sound(p)
  /\ told' = Found
  /\ Idle(p)
  /\ UNCHANGED <<directory, fileVars, storeVars, installed>>

(* The journal, the pointers, the journal again, and its removal.           *)
WriteTransaction(p, from, committed, to) ==
  /\ Step(p, from, to)
  /\ plan' = [plan EXCEPT ![p].committed = committed]
  /\ Replace("transaction", plan'[p])

JournalUnsynced(p) ==
  \/ WriteTransaction(p, "journal", FALSE, "known")
  \/ WritePointer(p, "known", "known", plan[p].after.known, "knownSync", "current")
  \/ Sync(p, "knownSync", "current")
  \/ WritePointer(p, "current", "current", plan[p].after.current, "currentSync", "none")
  \/ Sync(p, "currentSync", "pointersSync")
  \/ Sync(p, "pointersSync", "commit")
  \/ WriteTransaction(p, "commit", TRUE, "commitSync")
  \/ Sync(p, "commitSync", "remove")
  \/ WritePointer(p, "remove", "transaction", None, "none", "removeSync")

Journal(p) ==
  \/ WriteTransaction(p, "journal", FALSE, "journalSync")
  \/ Sync(p, "journalSync", "known")
  \/ WritePointer(p, "known", "known", plan[p].after.known, "knownSync", "current")
  \/ Sync(p, "knownSync", "current")
  \/ WritePointer(p, "current", "current", plan[p].after.current, "currentSync", "none")
  \/ Sync(p, "currentSync", "pointersSync")
  \/ Sync(p, "pointersSync", "commit")
  \/ WriteTransaction(p, "commit", TRUE, "commitSync")
  \/ Sync(p, "commitSync", "remove")
  \/ WritePointer(p, "remove", "transaction", None, "none", "removeSync")

Moved(p) ==
  /\ at[p] = "removeSync"
  /\ SyncDirectory
  /\ told' = plan[p].after
  /\ Idle(p)
  /\ UNCHANGED <<directory, storeVars, installed>>

-----------------------------------------------------------------------------
Call(p) ==
  \/ Install(p)
  \/ NothingToRecover(p) \/ Recover(p)
  \/ PlanAdvance(p) \/ PlanRollback(p) \/ TellState(p)
  \/ Journal(p) \/ Moved(p)

Next ==
  \/ \E p \in Proc : Call(p) \/ Stop(p) \/ StartRollback(p) \/ StartState(p) \/ TellAbsent(p)
  \/ \E p \in Proc, i \in Pack : StartInstall(p, i) \/ StartAdvance(p, i)
  \/ PowerLoss

Spec == Init /\ [][Next]_vars

-----------------------------------------------------------------------------
TypeOK ==
  /\ directory \in {"absent", "new", "kept"}
  /\ now["transaction"] \in Transaction \cup {None}
  /\ {now["known"], now["current"]} \subseteq Pointer \cup {None}
  /\ \A f \in File : now[f] \in may[f]
  /\ sureObjects \subseteq objects /\ objects \subseteq Content
  /\ sureAdmissions \subseteq admissions /\ admissions \subseteq Pack
  /\ plan \in [Proc -> Transaction \cup {None}]
  /\ told \in Pointers /\ installed \subseteq Pack
  /\ channelLock \in Proc \cup {None} /\ installLock \in Proc \cup {None}

(* What the next call finds, after its recovery, if the power went now and  *)
(* the directory stays: a pair of the channel as AtomicPair has it, when its*)
(* generations agree.                                                       *)
Outcomes == [f : may["transaction"], k : may["known"], c : may["current"]]

FoundAfter(o) ==
  IF o.f # None THEN Final(o.f) ELSE [current |-> o.c, known |-> o.k]

InstallOf(q) == IF q = None THEN None ELSE q.install

AsPair(ps) ==
  [generation |-> GenerationOf(ps), current |-> InstallOf(ps.current),
   known |-> InstallOf(ps.known)]

Channel == INSTANCE AtomicPair WITH
  possible <- {AsPair(FoundAfter(o)) : o \in Outcomes}, told <- AsPair(told),
  kept <- directory = "kept"

(* A crash at any point, and failures before it, leave the old pair or the  *)
(* new one, never pointers of two generations.                              *)
PairWhole == \A o \in Outcomes : Matching(FoundAfter(o))

(* The channel is one pair that moves as a whole.  No answer is given while *)
(* a power loss that leaves the directory could still take it back, and none*)
(* can take the directory once it has outlived one.                         *)
MovesAsOne == Channel!Spec

(* Whenever the power goes, no answer is taken back.  This is not so: the   *)
(* first advance of a channel is answered with the directory unsynced.      *)
AnswersForward ==
  [][GenerationOf(told') >= GenerationOf(told)]_vars

(* A pack whose install was answered survives a power loss, though another  *)
(* call that did not live to sync it may have been the one to publish it.   *)
InstalledStays ==
  \A i \in installed : i \in sureAdmissions /\ ContentOf[i] \in sureObjects

(* What a channel was answered to point at can be loaded after a power loss.*)
ToldIsDurable ==
  \A q \in {told.current, told.known} \ {None} :
    q.install \in sureAdmissions /\ ContentOf[q.install] \in sureObjects
=============================================================================
