------------------------- MODULE PackChannelProofs -------------------------
(* PackChannel for every set of packs and processes and every greatest      *)
(* generation.                                                              *)
EXTENDS PackChannel, TLAPS

InstallSteps ==
  {"publishObject", "objectSync", "publishAdmission", "admissionSync", "objectsSync",
   "admissionsSync"}
RecoverSteps ==
  {"recover", "recoverKnownSync", "recoverCurrent", "recoverCurrentSync", "recoverSync",
   "recoverRemove", "recoverEnd"}
JournalSteps ==
  {"journal", "journalSync", "known", "knownSync", "current", "currentSync", "pointersSync",
   "commit", "commitSync", "remove", "removeSync"}
(* "none" is where a step that cannot be reached would lead.                *)
Place == {"idle", "none", "read"} \cup InstallSteps \cup RecoverSteps \cup JournalSteps
Operation == {"none", "install", "advance", "rollback", "state"}

-----------------------------------------------------------------------------
(* Every call has the arguments its steps read.                             *)
Shape ==
  /\ at \in [Proc -> Place] /\ op \in [Proc -> Operation]
  /\ arg \in [Proc -> Pack \cup {None}]
  /\ \A p \in Proc : at[p] \in InstallSteps \/ op[p] = "advance" => arg[p] \in Pack

LEMMA ShapeInitially == Init => Shape
BY DEF Init, Shape, InstallSteps, Place, Operation

LEMMA ShapeStands == Shape /\ [Next]_vars => Shape'
<1> SUFFICES ASSUME Shape, [Next]_vars PROVE Shape'
  OBVIOUS
<1> USE DEF Shape, InstallSteps, Place, Operation
<1>1. ASSUME NEW p \in Proc, Install(p) PROVE Shape'
  <2>1. CASE Installed(p)
    BY <2>1 DEF Installed, Idle, InstallSteps
  <2> QED
    BY <1>1, <2>1 DEF Install, PublishObject, PublishAdmission, SyncObjects, SyncAdmissions,
      Publishing, callVars
<1>2. ASSUME NEW p \in Proc, NEW from, NEW to \in Place \ InstallSteps, Step(p, from, to)
      PROVE  Shape'
  BY <1>2 DEF Step, callVars
<1>3. ASSUME NEW p \in Proc, NothingToRecover(p) \/ Recover(p) \/ Journal(p) PROVE Shape'
  BY <1>2, <1>3 DEF NothingToRecover, Recover, Journal, WritePointer, WriteTransaction, Sync,
    RecoverSteps, JournalSteps
<1>4. ASSUME NEW p \in Proc, PlanAdvance(p) \/ PlanRollback(p) PROVE Shape'
  BY <1>2, <1>4 DEF PlanAdvance, PlanRollback, Planned, JournalSteps
<1>5. ASSUME NEW p \in Proc, Idle(p) PROVE Shape'
  BY <1>5 DEF Idle
<1>6. ASSUME NEW p \in Proc, NEW i \in Pack, StartInstall(p, i) PROVE Shape'
  BY <1>6 DEF StartInstall
<1>7. ASSUME NEW p \in Proc, NEW i \in Pack, StartAdvance(p, i) PROVE Shape'
  BY <1>7 DEF StartAdvance, StartOnChannel, RecoverSteps
<1>8. ASSUME NEW p \in Proc, StartRollback(p) \/ StartState(p) \/ TellAbsent(p) PROVE Shape'
  BY <1>8 DEF StartRollback, StartState, StartOnChannel, TellAbsent, callVars, RecoverSteps
<1>9. CASE PowerLoss
  BY <1>9 DEF PowerLoss
<1>10. CASE UNCHANGED vars
  BY <1>10 DEF vars, callVars
<1> QED
  BY <1>1, <1>3, <1>4, <1>5, <1>6, <1>7, <1>8, <1>9, <1>10
  DEF Next, Call, Stop, TellState, Moved

-----------------------------------------------------------------------------
(* What an install has seen to be there and made durable by each step.      *)
Published ==
  \A p \in Proc :
    /\ at[p] \in InstallSteps \ {"publishObject"} => ContentOf[arg[p]] \in objects
    /\ at[p] \in {"admissionSync", "objectsSync", "admissionsSync"} => arg[p] \in admissions
    /\ at[p] = "admissionsSync" => ContentOf[arg[p]] \in sureObjects

Stored ==
  /\ sureObjects \subseteq objects /\ objects \subseteq Content
  /\ sureAdmissions \subseteq admissions /\ admissions \subseteq Pack
  /\ installed \subseteq Pack
  /\ Published /\ InstalledStays

LEMMA StoredInitially == Init => Stored
BY DEF Init, Stored, Published, InstalledStays, InstallSteps

LEMMA StoredStands == Shape /\ Stored /\ [Next]_vars => Stored'
<1> SUFFICES ASSUME Shape, Stored, [Next]_vars PROVE Stored'
  OBVIOUS
<1> USE DEF Stored, Published, InstalledStays
<1>1. ASSUME NEW p \in Proc, Install(p) PROVE Stored'
  <2>1. arg[p] \in Pack /\ ContentOf[arg[p]] \in Content
    BY <1>1, PackAssumption DEF Install, PublishObject, PublishAdmission, SyncObjects,
      SyncAdmissions, Publishing, Installed, Shape, InstallSteps
  <2>2. CASE PublishObject(p)
    BY <2>1, <2>2 DEF PublishObject, Publishing, callVars, Shape, InstallSteps
  <2>3. CASE PublishAdmission(p)
    BY <2>1, <2>3 DEF PublishAdmission, Publishing, callVars, Shape, InstallSteps
  <2>4. CASE SyncObjects(p, "objectSync", "publishAdmission")
    BY <2>4 DEF SyncObjects, Publishing, callVars, Shape, InstallSteps
  <2>5. CASE SyncObjects(p, "objectsSync", "admissionsSync")
    BY <2>5 DEF SyncObjects, Publishing, callVars, Shape, InstallSteps
  <2>6. CASE SyncAdmissions(p)
    BY <2>6 DEF SyncAdmissions, Publishing, callVars, Shape, InstallSteps
  <2>7. CASE Installed(p)
    BY <2>1, <2>7 DEF Installed, Idle, Shape, InstallSteps
  <2> QED
    BY <1>1, <2>2, <2>3, <2>4, <2>5, <2>6, <2>7 DEF Install
<1>2. ASSUME NEW p \in Proc, NEW from, NEW to \in Place \ InstallSteps, Step(p, from, to)
      PROVE  Stored'
  BY <1>2 DEF Step, storeVars, callVars, Shape, InstallSteps
<1>3. ASSUME NEW p \in Proc, NothingToRecover(p) \/ Recover(p) \/ Journal(p) PROVE Stored'
  BY <1>2, <1>3 DEF NothingToRecover, Recover, Journal, WritePointer, WriteTransaction, Sync,
    InstallSteps, RecoverSteps, JournalSteps, Place
<1>4. ASSUME NEW p \in Proc, PlanAdvance(p) \/ PlanRollback(p) PROVE Stored'
  BY <1>2, <1>4 DEF PlanAdvance, PlanRollback, Planned, InstallSteps, JournalSteps, Place
<1>5. ASSUME NEW p \in Proc, Idle(p), UNCHANGED <<storeVars, installed>> PROVE Stored'
  BY <1>5 DEF Idle, storeVars, Shape, InstallSteps
<1>6. ASSUME NEW p \in Proc, NEW i \in Pack, StartInstall(p, i) PROVE Stored'
  BY <1>6 DEF StartInstall, storeVars, Shape, InstallSteps
<1>7. ASSUME NEW p \in Proc, NEW call, NEW i, StartOnChannel(p, call, i) PROVE Stored'
  BY <1>7 DEF StartOnChannel, storeVars, Shape, InstallSteps
<1>8. CASE PowerLoss
  <2>1. PICK O \in SUBSET (objects \ sureObjects), A \in SUBSET (admissions \ sureAdmissions) :
          /\ objects' = sureObjects \cup O /\ sureObjects' = sureObjects \cup O
          /\ admissions' = sureAdmissions \cup A /\ sureAdmissions' = sureAdmissions \cup A
    BY <1>8 DEF PowerLoss
  <2> QED
    BY <1>8, <2>1 DEF PowerLoss, InstallSteps
<1>9. ASSUME UNCHANGED <<storeVars, at, callVars, installed>> PROVE Stored'
  BY <1>9 DEF storeVars, callVars
<1> QED
  BY <1>1, <1>3, <1>4, <1>5, <1>6, <1>7, <1>8, <1>9
  DEF Next, Call, Stop, TellState, Moved, StartAdvance, StartRollback, StartState, TellAbsent,
    vars

(* A pack whose install was answered is durable, object and admission, even *)
(* when another call published them and was killed before its own sync: each*)
(* install syncs both directories last.                                     *)
THEOREM InstallsAreDurable == Spec => []InstalledStays
<1>1. Init => Shape /\ Stored
  BY ShapeInitially, StoredInitially
<1>2. Shape /\ Stored /\ [Next]_vars => (Shape /\ Stored)'
  BY ShapeStands, StoredStands
<1>3. Stored => InstalledStays
  BY DEF Stored
<1> QED
  BY <1>1, <1>2, <1>3, PTL DEF Spec

-----------------------------------------------------------------------------
(* The channel's files: a crash at any point, and failures before it, leave *)
(* one pair.                                                                *)

ChannelSteps == {"read"} \cup RecoverSteps \cup JournalSteps

(* The channel's lock is held over every step of a call on the channel.     *)
Held == \A p \in Proc : at[p] \in ChannelSteps => channelLock = p

Entry == Transaction \cup Pointer \cup {None}

FilesTyped ==
  /\ now \in [File -> Entry] /\ may \in [File -> SUBSET Entry]
  /\ may["transaction"] \subseteq Transaction \cup {None}
  /\ may["known"] \subseteq Pointer \cup {None}
  /\ may["current"] \subseteq Pointer \cup {None}
  /\ \A f \in File : now[f] \in may[f]

CallsTyped ==
  /\ plan \in [Proc -> Transaction \cup {None}] /\ told \in Pointers
  /\ channelLock \in Proc \cup {None} /\ installLock \in Proc \cup {None}

PointersSettled == may["known"] = {now["known"]} /\ may["current"] = {now["current"]}

(* The pair can be found without a journal only when the pointers are       *)
(* durable, match, and are what every journal that may be left leads to.    *)
Whole ==
  /\ \A tx \in may["transaction"] \ {None} : Matching(tx.before) /\ Matching(tx.after)
  /\ None \in may["transaction"] =>
       /\ PointersSettled /\ Matching(Found)
       /\ \A tx \in may["transaction"] \ {None} : Final(tx) = Found

(* The pair a plan moves to is the next one after the pair it starts from.  *)
Follows(tx) ==
  /\ GenerationOf(tx.after) = GenerationOf(tx.before) + 1
  /\ InstallOf(tx.after.current) \in Pack
  /\ InstallOf(tx.after.known) = InstallOf(tx.before.current)

(* What a call on the channel knows of the files at each of its steps.      *)
KnownRecovered ==
  {"recoverKnownSync", "recoverCurrent", "recoverCurrentSync", "recoverSync", "recoverRemove"}
CurrentRecovered == {"recoverCurrentSync", "recoverSync", "recoverRemove"}

KnownMoved ==
  {"knownSync", "current", "currentSync", "pointersSync", "commit", "commitSync", "remove",
   "removeSync"}
CurrentMoved == KnownMoved \ {"knownSync", "current"}
Committed == {"commitSync", "remove", "removeSync"}

Recovering(p) ==
  /\ at[p] \in KnownRecovered =>
       now["transaction"] # None /\ now["known"] = Final(now["transaction"]).known
  /\ at[p] \in CurrentRecovered => now["current"] = Final(now["transaction"]).current
  /\ at[p] = "recoverRemove" => PointersSettled /\ may["transaction"] = {now["transaction"]}
  /\ at[p] \in {"recoverEnd", "read", "journal", "removeSync"} => now["transaction"] = None

Moving(p) ==
  /\ at[p] \in JournalSteps =>
       /\ plan[p] # None /\ Matching(plan[p].before) /\ Matching(plan[p].after)
       /\ Follows(plan[p])
       /\ plan[p].committed <=> at[p] \in Committed
  /\ at[p] = "journal" => plan[p].before = Found
  /\ at[p] \in JournalSteps \ {"journal", "removeSync"} => now["transaction"] = plan[p]
  /\ at[p] \in JournalSteps \ {"journal", "journalSync", "commitSync", "removeSync"} =>
       may["transaction"] = {plan[p]}
  /\ at[p] = "commitSync" => None \notin may["transaction"]
  /\ at[p] \in KnownMoved => now["known"] = plan[p].after.known
  /\ at[p] \in CurrentMoved => now["current"] = plan[p].after.current
  /\ at[p] \in {"commit"} \cup Committed => PointersSettled

Phases == \A p \in Proc : Recovering(p) /\ Moving(p)

(* No call is under way on a channel that has no directory, and it has no   *)
(* files.                                                                   *)
Made ==
  /\ directory \in {"absent", "new", "kept"}
  /\ directory = "absent" => channelLock = None /\ may = [f \in File |-> {None}]

Good == Shape /\ Held /\ FilesTyped /\ CallsTyped /\ Whole /\ Phases /\ Made

LEMMA GoodInitially == Init => Held /\ FilesTyped /\ CallsTyped /\ Whole /\ Phases /\ Made
<1> SUFFICES ASSUME Init PROVE Held /\ FilesTyped /\ CallsTyped /\ Whole /\ Phases /\ Made
  OBVIOUS
<1>1. Held /\ Phases
  BY DEF Init, Held, Phases, Recovering, Moving, ChannelSteps, RecoverSteps, JournalSteps,
    KnownRecovered, CurrentRecovered, KnownMoved, CurrentMoved, Committed
<1>2. FilesTyped
  BY DEF Init, FilesTyped, Entry, File
<1>3. CallsTyped
  BY DEF Init, CallsTyped, Unset, Pointers
<1>4. Whole
  BY DEF Init, Whole, PointersSettled, File, Found, Matching
<1>5. Made
  BY DEF Init, Made
<1> QED
  BY <1>1, <1>2, <1>3, <1>4, <1>5

-----------------------------------------------------------------------------
(* The three things that happen to the files.                               *)
LEMMA SyncKeeps ==
  ASSUME FilesTyped, Whole, SyncDirectory
  PROVE  FilesTyped' /\ Whole' /\ PointersSettled' /\ may'["transaction"] = {now'["transaction"]}
<1>1. now' = now /\ may' = [f \in File |-> {now[f]}]
  BY DEF SyncDirectory
<1>2. FilesTyped' /\ PointersSettled' /\ may'["transaction"] = {now'["transaction"]}
  BY <1>1 DEF FilesTyped, Entry, PointersSettled, File
<1>3. Found' = Found /\ now["transaction"] \in may["transaction"]
  BY <1>1 DEF Found, FilesTyped, File
<1>4. Whole'
  BY <1>1, <1>2, <1>3 DEF Whole, Matching, Final
<1> QED
  BY <1>2, <1>4

LEMMA PointerKeeps ==
  ASSUME FilesTyped, Whole, NEW f \in {"known", "current"}, NEW v \in Pointer \cup {None},
         Replace(f, v), None \in may["transaction"] => v = now[f]
  PROVE  FilesTyped' /\ Whole' /\ now'[f] = v
<1>1. FilesTyped' /\ now'[f] = v
  BY DEF Replace, FilesTyped, Entry, File
<1>2. now'["transaction"] = now["transaction"] /\ may'["transaction"] = may["transaction"]
  BY DEF Replace, FilesTyped, File
<1>3. ASSUME None \in may["transaction"] PROVE now' = now /\ may' = may
  BY <1>3 DEF Replace, FilesTyped, File, Whole, PointersSettled
<1>4. Whole'
  BY <1>2, <1>3 DEF Whole, PointersSettled, Found, Matching, Final
<1> QED
  BY <1>1, <1>4

LEMMA JournalKeeps ==
  ASSUME FilesTyped, Whole, NEW tx \in Transaction, Replace("transaction", tx),
         Matching(tx.before), Matching(tx.after), None \in may["transaction"] => Final(tx) = Found
  PROVE  FilesTyped' /\ Whole' /\ now'["transaction"] = tx
<1>1. FilesTyped' /\ now'["transaction"] = tx
  BY DEF Replace, FilesTyped, Entry, File
<1>2. /\ may'["transaction"] = may["transaction"] \cup {tx}
      /\ Found' = Found /\ PointersSettled' = PointersSettled
  BY DEF Replace, FilesTyped, File, Found, PointersSettled
<1>3. Whole'
  BY <1>2, NoFileAssumption DEF Whole, Matching, Final
<1> QED
  BY <1>1, <1>3

LEMMA RemovalKeeps ==
  ASSUME FilesTyped, Whole, NEW tx \in Transaction, Replace("transaction", None),
         PointersSettled, may["transaction"] = {tx}, Final(tx) = Found
  PROVE  FilesTyped' /\ Whole' /\ PointersSettled' /\ now'["transaction"] = None
<1>1. FilesTyped' /\ now'["transaction"] = None
  BY DEF Replace, FilesTyped, Entry, File
<1>2. /\ may'["transaction"] = {tx, None}
      /\ Found' = Found /\ PointersSettled' = PointersSettled
  BY DEF Replace, FilesTyped, File, Found, PointersSettled
<1>3. Matching(Found)
  BY NoFileAssumption DEF Whole, Final
<1>4. Whole'
  BY <1>2, <1>3 DEF Whole, Matching, Final
<1> QED
  BY <1>1, <1>2, <1>4

-----------------------------------------------------------------------------
(* Who steps and who stands still.                                          *)
LEMMA OnlyHolder ==
  ASSUME Shape, Held, NEW p \in Proc, at[p] \in ChannelSteps, NEW to \in Place, Step(p, at[p], to),
         CallsTyped, FilesTyped', plan' \in [Proc -> Transaction \cup {None}],
         \A q \in Proc \ {p} : plan'[q] = plan[q],
         Whole', Recovering(p)', Moving(p)'
  PROVE  Held' /\ FilesTyped' /\ CallsTyped' /\ Whole' /\ Phases'
<1>1. at' = [at EXCEPT ![p] = to] /\ channelLock' = channelLock /\ installLock' = installLock
      /\ told' = told
  BY DEF Step, lockVars
<1>2. channelLock = p
  BY DEF Held
<1>3. \A q \in Proc \ {p} : at'[q] = at[q] /\ at[q] \notin ChannelSteps
  BY <1>1, <1>2 DEF Held, Shape
<1>4. Held'
  BY <1>1, <1>2, <1>3 DEF Held
<1>5. \A q \in Proc \ {p} : Recovering(q)' /\ Moving(q)'
  BY <1>3 DEF Recovering, Moving, ChannelSteps, RecoverSteps, JournalSteps, KnownRecovered,
    CurrentRecovered, KnownMoved, CurrentMoved, Committed
<1>6. CallsTyped'
  BY <1>1 DEF CallsTyped
<1> QED
  BY <1>4, <1>5, <1>6 DEF Phases

LEMMA FilesStand ==
  ASSUME FilesTyped, Whole, Phases, UNCHANGED fileVars,
         \A q \in Proc : \/ at'[q] = at[q] /\ plan'[q] = plan[q]
                         \/ at'[q] \notin ChannelSteps \ {"recover"}
  PROVE  FilesTyped' /\ Whole' /\ Phases'
<1>1. now' = now /\ may' = may
  BY DEF fileVars
<1>2. FilesTyped'
  BY <1>1 DEF FilesTyped
<1>3. Whole'
  BY <1>1 DEF Whole, PointersSettled, Found, Matching, Final
<1>4. ASSUME NEW q \in Proc PROVE Recovering(q)' /\ Moving(q)'
  <2>1. CASE at'[q] = at[q] /\ plan'[q] = plan[q]
    BY <1>1, <2>1 DEF Phases, Recovering, Moving, PointersSettled, Found, Matching, Final,
      Follows, GenerationOf, InstallOf
  <2>2. CASE at'[q] \notin ChannelSteps \ {"recover"}
    BY <2>2 DEF Recovering, Moving, ChannelSteps, RecoverSteps, JournalSteps, KnownRecovered,
      CurrentRecovered, KnownMoved, CurrentMoved, Committed
  <2> QED
    BY <2>1, <2>2
<1> QED
  BY <1>2, <1>3, <1>4 DEF Phases

-----------------------------------------------------------------------------
(* recover_channel_transaction, step by step.                               *)
LEMMA RecoverKeeps ==
  ASSUME Good, NEW p \in Proc, Recover(p) \/ NothingToRecover(p)
  PROVE  Held' /\ FilesTyped' /\ CallsTyped' /\ Whole' /\ Phases'
<1> DEFINE tx == now["transaction"]
           Goal == Held' /\ FilesTyped' /\ CallsTyped' /\ Whole' /\ Phases'
<1> USE DEF ChannelSteps, RecoverSteps, JournalSteps, KnownRecovered, CurrentRecovered,
      KnownMoved, CurrentMoved, Committed
<1>1. Shape /\ Held /\ FilesTyped /\ CallsTyped /\ Whole /\ Recovering(p)
      /\ at \in [Proc -> Place] /\ plan \in [Proc -> Transaction \cup {None}]
  BY DEF Good, Phases, Shape, CallsTyped
<1>2. tx \in may["transaction"] /\ tx \in Transaction \cup {None}
  BY <1>1 DEF FilesTyped, File
<1>3. tx # None => Final(tx).known \in Pointer \cup {None} /\ Final(tx).current \in Pointer \cup {None}
  BY <1>2 DEF Final, Transaction, Pointers
<1>4. ASSUME tx # None, None \in may["transaction"]
      PROVE  Final(tx).known = now["known"] /\ Final(tx).current = now["current"]
  BY <1>1, <1>2, <1>4 DEF Whole, Found
<1>5. ASSUME NEW from \in RecoverSteps, NEW to \in RecoverSteps \cup {"read"}, Step(p, from, to),
             UNCHANGED plan, FilesTyped', Whole', Recovering(p)'
      PROVE  Goal
  <2>1. at[p] = from /\ at'[p] = to
    BY <1>1, <1>5 DEF Step, Place
  <2>2. Moving(p)'
    BY <2>1 DEF Moving
  <2> QED
    BY <1>1, <1>5, <2>1, <2>2, OnlyHolder DEF Place
<1>6. ASSUME NEW from, NEW to \in Place, Step(p, from, to) PROVE at[p] = from /\ at'[p] = to
  BY <1>1, <1>6 DEF Step
<1>7. CASE NothingToRecover(p)
  <2>1. Step(p, "recover", "read") /\ UNCHANGED <<now, may>> /\ plan' = plan /\ tx = None
    BY <1>7 DEF NothingToRecover, fileVars
  <2>2. FilesTyped' /\ Whole'
    BY <1>1, <2>1 DEF FilesTyped, Whole, PointersSettled, Found, Matching, Final
  <2>3. Recovering(p)'
    BY <1>6, <2>1 DEF Recovering, Place
  <2> QED
    BY <1>5, <2>1, <2>2, <2>3
<1>8. CASE tx # None /\ WritePointer(p, "recover", "known", Final(tx).known,
                                     "recoverKnownSync", "recoverCurrent")
  <2>1. PICK to \in {"recoverKnownSync", "recoverCurrent"} :
          Step(p, "recover", to) /\ Replace("known", Final(tx).known) /\ plan' = plan
    BY <1>8 DEF WritePointer
  <2>2. FilesTyped' /\ Whole' /\ now'["known"] = Final(tx).known
    BY <1>1, <1>3, <1>4, <1>8, <2>1, PointerKeeps
  <2>3. now'["transaction"] = tx
    BY <1>1, <2>1 DEF Replace, FilesTyped, File
  <2>4. Recovering(p)'
    BY <1>6, <1>8, <2>1, <2>2, <2>3 DEF Recovering, Place, Final
  <2> QED
    BY <1>5, <2>1, <2>2, <2>4
<1>9. CASE Sync(p, "recoverKnownSync", "recoverCurrent")
  <2>1. Step(p, "recoverKnownSync", "recoverCurrent") /\ SyncDirectory /\ plan' = plan /\ now' = now
    BY <1>9 DEF Sync, SyncDirectory
  <2>2. Recovering(p)'
    BY <1>1, <1>6, <2>1 DEF Recovering, Place, Final
  <2> QED
    BY <1>1, <1>5, <2>1, <2>2, SyncKeeps
<1>10. CASE WritePointer(p, "recoverCurrent", "current", Final(tx).current,
                         "recoverCurrentSync", "recoverSync")
  <2>1. PICK to \in {"recoverCurrentSync", "recoverSync"} :
          Step(p, "recoverCurrent", to) /\ Replace("current", Final(tx).current) /\ plan' = plan
    BY <1>10 DEF WritePointer
  <2>2. tx # None /\ now["known"] = Final(tx).known
    BY <1>1, <1>6, <2>1 DEF Recovering, Place
  <2>3. FilesTyped' /\ Whole' /\ now'["current"] = Final(tx).current
    BY <1>1, <1>3, <1>4, <2>1, <2>2, PointerKeeps
  <2>4. now'["transaction"] = tx /\ now'["known"] = now["known"]
    BY <1>1, <2>1 DEF Replace, FilesTyped, File
  <2>5. Recovering(p)'
    BY <1>6, <2>1, <2>2, <2>3, <2>4 DEF Recovering, Place, Final
  <2> QED
    BY <1>5, <2>1, <2>3, <2>5
<1>11. CASE Sync(p, "recoverCurrentSync", "recoverSync")
  <2>1. Step(p, "recoverCurrentSync", "recoverSync") /\ SyncDirectory /\ plan' = plan /\ now' = now
    BY <1>11 DEF Sync, SyncDirectory
  <2>2. Recovering(p)'
    BY <1>1, <1>6, <2>1 DEF Recovering, Place, Final
  <2> QED
    BY <1>1, <1>5, <2>1, <2>2, SyncKeeps
<1>12. CASE Sync(p, "recoverSync", "recoverRemove")
  <2>1. Step(p, "recoverSync", "recoverRemove") /\ SyncDirectory /\ plan' = plan /\ now' = now
    BY <1>12 DEF Sync, SyncDirectory
  <2>2. /\ FilesTyped' /\ Whole' /\ PointersSettled'
        /\ may'["transaction"] = {now'["transaction"]}
    BY <1>1, <2>1, SyncKeeps
  <2>3. Recovering(p)'
    BY <1>1, <1>6, <2>1, <2>2 DEF Recovering, Place, Final
  <2> QED
    BY <1>5, <2>1, <2>2, <2>3
<1>13. CASE WritePointer(p, "recoverRemove", "transaction", None, "none", "recoverEnd")
  <2>1. Step(p, "recoverRemove", "recoverEnd") /\ Replace("transaction", None) /\ plan' = plan
    BY <1>13 DEF WritePointer
  <2>2. /\ tx # None /\ PointersSettled /\ may["transaction"] = {tx}
        /\ now["known"] = Final(tx).known /\ now["current"] = Final(tx).current
    BY <1>1, <1>6, <2>1 DEF Recovering, Place
  <2>3. Final(tx) = Found
    BY <1>2, <2>2 DEF Final, Found, Transaction, Pointers
  <2>4. FilesTyped' /\ Whole' /\ now'["transaction"] = None
    BY <1>1, <1>2, <2>1, <2>2, <2>3, RemovalKeeps
  <2>5. Recovering(p)'
    BY <1>6, <2>1, <2>4 DEF Recovering, Place
  <2> QED
    BY <1>5, <2>1, <2>4, <2>5
<1>14. CASE Sync(p, "recoverEnd", "read")
  <2>1. Step(p, "recoverEnd", "read") /\ SyncDirectory /\ plan' = plan /\ now' = now
    BY <1>14 DEF Sync, SyncDirectory
  <2>2. Recovering(p)'
    BY <1>1, <1>6, <2>1 DEF Recovering, Place
  <2> QED
    BY <1>1, <1>5, <2>1, <2>2, SyncKeeps
<1> QED
  BY <1>7, <1>8, <1>9, <1>10, <1>11, <1>12, <1>13, <1>14 DEF Recover

-----------------------------------------------------------------------------
(* advance_channel and rollback_channel: the plan, whose two pointers have  *)
(* the next generation.                                                     *)
LEMMA NextPair ==
  ASSUME FilesTyped, Matching(Found), NEW after \in Pointers,
         \/ \E i \in Pack : GenerationOf(Found) + 1 < MaxGen /\ after = AdvanceOf(Found, i)
         \/ /\ Found.current # None /\ Found.known # None
            /\ GenerationOf(Found) < MaxGen /\ after = RollbackOf(Found)
  PROVE  Matching(after) /\ Follows([committed |-> FALSE, before |-> Found, after |-> after])
<1>1. Found \in Pointers /\ None \notin Pointer
  BY NoFileAssumption DEF FilesTyped, Found, Pointers, File
<1>2. \A g \in 1..MaxGen, i \in Pack : At(g, i) \in Pointer
  BY DEF At, Pointer
<1>3. CASE \E i \in Pack : GenerationOf(Found) + 1 < MaxGen /\ after = AdvanceOf(Found, i)
  BY <1>1, <1>3, GenAssumption, PackAssumption
  DEF AdvanceOf, Matching, Follows, At, GenerationOf, InstallOf, Pointers, Pointer
<1>4. CASE /\ Found.current # None /\ Found.known # None
           /\ GenerationOf(Found) < MaxGen /\ after = RollbackOf(Found)
  BY <1>1, <1>4, GenAssumption, PackAssumption
  DEF RollbackOf, Matching, Follows, At, GenerationOf, InstallOf, Pointers, Pointer
<1> QED
  BY <1>3, <1>4

LEMMA NextPairTyped ==
  ASSUME FilesTyped
  PROVE  /\ \A i \in Pack : GenerationOf(Found) + 1 < MaxGen => AdvanceOf(Found, i) \in Pointers
         /\ (/\ Found.current # None /\ Found.known # None
             /\ GenerationOf(Found) < MaxGen) => RollbackOf(Found) \in Pointers
<1>1. Found \in Pointers
  BY DEF FilesTyped, Found, Pointers, File
<1>2. \A g \in 1..MaxGen, i \in Pack : At(g, i) \in Pointer
  BY DEF At, Pointer
<1>3. GenerationOf(Found) \in 0..MaxGen
  BY <1>1, GenAssumption DEF GenerationOf, Pointers, Pointer
<1>4. \A i \in Pack : GenerationOf(Found) + 1 < MaxGen => AdvanceOf(Found, i) \in Pointers
  BY <1>1, <1>2, <1>3, GenAssumption DEF AdvanceOf, Pointers, Pointer
<1>5. (/\ Found.current # None /\ Found.known # None
       /\ GenerationOf(Found) < MaxGen) => RollbackOf(Found) \in Pointers
  BY <1>1, <1>2, <1>3, GenAssumption DEF RollbackOf, Pointers, Pointer
<1> QED
  BY <1>4, <1>5

LEMMA PlanKeeps ==
  ASSUME Good, NEW p \in Proc, PlanAdvance(p) \/ PlanRollback(p)
  PROVE  Held' /\ FilesTyped' /\ CallsTyped' /\ Whole' /\ Phases'
<1>1. Shape /\ Held /\ FilesTyped /\ CallsTyped /\ Whole /\ Recovering(p)
      /\ at \in [Proc -> Place] /\ plan \in [Proc -> Transaction \cup {None}]
  BY DEF Good, Phases, Shape, CallsTyped
<1>2. PICK after \in Pointers :
        /\ Planned(p, after) /\ Matching(Found)
        /\ \/ \E i \in Pack : GenerationOf(Found) + 1 < MaxGen /\ after = AdvanceOf(Found, i)
           \/ /\ Found.current # None /\ Found.known # None
              /\ GenerationOf(Found) < MaxGen /\ after = RollbackOf(Found)
  <2>1. CASE PlanAdvance(p)
    <3>1. arg[p] \in Pack
      BY <1>1, <2>1 DEF PlanAdvance, Shape
    <3> QED
      BY <1>1, <2>1, <3>1, NextPairTyped DEF PlanAdvance, Sound
  <2>2. CASE PlanRollback(p)
    BY <1>1, <2>2, NextPairTyped DEF PlanRollback, Sound
  <2> QED
    BY <2>1, <2>2
<1> DEFINE tx == [committed |-> FALSE, before |-> Found, after |-> after]
<1>3. /\ Step(p, "read", "journal") /\ plan' = [plan EXCEPT ![p] = tx]
      /\ now' = now /\ may' = may
  BY <1>2 DEF Planned, fileVars
<1>4. tx \in Transaction /\ None \notin Transaction
  BY <1>1, <1>2, NoFileAssumption DEF FilesTyped, Found, Transaction, Pointers, File
<1>5. Matching(tx.before) /\ Matching(tx.after) /\ Follows(tx)
  BY <1>1, <1>2, NextPair
<1>6. at[p] = "read" /\ at'[p] = "journal" /\ plan'[p] = tx
  BY <1>1, <1>3, <1>4 DEF Step, Place, JournalSteps
<1>7. FilesTyped' /\ Whole' /\ Found' = Found
  BY <1>1, <1>3 DEF FilesTyped, Whole, PointersSettled, Found, Matching, Final
<1>8. Recovering(p)'
  BY <1>1, <1>3, <1>6 DEF Recovering, KnownRecovered, CurrentRecovered
<1>9. Moving(p)'
  <2>1. plan'[p].before = Found' /\ plan'[p] # None /\ plan'[p].committed = FALSE
    <3>1. tx.before = Found /\ tx.committed = FALSE /\ tx # None
      BY <1>4
    <3> QED
      BY <1>6, <1>7, <3>1
  <2>2. (Matching(plan[p].before) /\ Matching(plan[p].after) /\ Follows(plan[p]))'
    BY <1>5, <1>6 DEF Matching, Follows, GenerationOf, InstallOf
  <2> QED
    BY <1>6, <2>1, <2>2 DEF Moving, JournalSteps, KnownMoved, CurrentMoved, Committed
<1> QED
  <2>1. /\ plan' \in [Proc -> Transaction \cup {None}]
        /\ \A q \in Proc \ {p} : plan'[q] = plan[q]
    BY <1>1, <1>3, <1>4
  <2> QED
    BY <1>1, <1>3, <1>6, <1>7, <1>8, <1>9, <2>1, OnlyHolder
    DEF ChannelSteps, Place, JournalSteps

-----------------------------------------------------------------------------
(* The journal, the pointers, the journal again, and its removal.           *)
LEMMA MoveKeeps ==
  ASSUME Good, NEW p \in Proc, Journal(p)
  PROVE  Held' /\ FilesTyped' /\ CallsTyped' /\ Whole' /\ Phases'
<1> DEFINE Goal == Held' /\ FilesTyped' /\ CallsTyped' /\ Whole' /\ Phases'
           tx == plan[p]
           Standing(from, to) ==
             /\ Step(p, from, to) /\ plan' = plan
             /\ FilesTyped' /\ Whole'
           AtTransaction(to) ==
             /\ to # "removeSync" => now'["transaction"] = plan'[p]
             /\ to = "removeSync" => now'["transaction"] = None
             /\ to \notin {"journalSync", "commitSync", "removeSync"} =>
                  may'["transaction"] = {plan'[p]}
             /\ to = "commitSync" => None \notin may'["transaction"]
           AtPointers(to) ==
             /\ to \in KnownMoved => now'["known"] = tx.after.known
             /\ to \in CurrentMoved => now'["current"] = tx.after.current
             /\ to \in {"commit"} \cup Committed => PointersSettled'
<1> USE DEF JournalSteps, KnownMoved, CurrentMoved, Committed
<1>1. Shape /\ Held /\ FilesTyped /\ CallsTyped /\ Whole /\ Recovering(p) /\ Moving(p)
      /\ at \in [Proc -> Place] /\ plan \in [Proc -> Transaction \cup {None}]
  BY DEF Good, Phases, Shape, CallsTyped
<1>2. at[p] \in JournalSteps
  BY DEF Journal, WriteTransaction, WritePointer, Sync, Step
<1>3. /\ tx \in Transaction /\ Matching(tx.before) /\ Matching(tx.after) /\ Follows(tx)
      /\ tx.committed <=> at[p] \in Committed
  BY <1>1, <1>2 DEF Moving
<1>4. ASSUME NEW from, NEW to \in JournalSteps, Step(p, from, to) PROVE at[p] = from /\ at'[p] = to
  BY <1>1, <1>4 DEF Step
<1>5. ASSUME NEW from \in JournalSteps, NEW to \in JournalSteps \ {"journal"}, Step(p, from, to),
             FilesTyped', Whole', AtTransaction(to), AtPointers(to),
             NEW new \in Transaction, plan' = [plan EXCEPT ![p] = new],
             new.before = tx.before, new.after = tx.after, new.committed <=> to \in Committed
      PROVE  Goal
  <2>1. at[p] = from /\ at'[p] = to
    BY <1>4, <1>5
  <2>2. plan'[p] = new /\ plan' \in [Proc -> Transaction \cup {None}]
        /\ \A q \in Proc \ {p} : plan'[q] = plan[q]
    BY <1>1, <1>5
  <2>3. Recovering(p)'
    BY <1>5, <2>1 DEF Recovering, KnownRecovered, CurrentRecovered
  <2>4. (Matching(plan[p].before) /\ Matching(plan[p].after) /\ Follows(plan[p]))'
    BY <1>3, <1>5, <2>2 DEF Matching, Follows, GenerationOf, InstallOf
  <2>5. Moving(p)'
    BY <1>5, <2>1, <2>2, <2>4, NoFileAssumption DEF Moving
  <2> QED
    BY <1>1, <1>5, <2>1, <2>2, <2>3, <2>5, OnlyHolder DEF ChannelSteps, Place
<1>6. ASSUME NEW from \in JournalSteps, NEW to \in JournalSteps \ {"journal"}, Standing(from, to),
             AtTransaction(to), AtPointers(to), from \in Committed <=> to \in Committed
      PROVE  Goal
  <2>1. plan' = [plan EXCEPT ![p] = tx] /\ (tx.committed <=> to \in Committed)
    BY <1>1, <1>3, <1>4, <1>6
  <2> QED
    BY <1>3, <1>5, <1>6, <2>1
<1>7. ASSUME NEW from \in JournalSteps, NEW to \in JournalSteps \ {"journal", "removeSync"},
             Sync(p, from, to), from \notin {"journal", "removeSync"},
             to \in CurrentMoved => from \in CurrentMoved,
             to \in KnownMoved => from \in KnownMoved,
             from \in Committed <=> to \in Committed
      PROVE  Goal
  <2>1. Step(p, from, to) /\ SyncDirectory /\ plan' = plan /\ now' = now
    BY <1>7 DEF Sync, SyncDirectory
  <2>2. /\ FilesTyped' /\ Whole' /\ PointersSettled'
        /\ may'["transaction"] = {now'["transaction"]}
    BY <1>1, <2>1, SyncKeeps
  <2>3. at[p] = from
    BY <1>4, <1>7, <2>1
  <2>4. now["transaction"] = tx
    BY <1>1, <1>7, <2>3 DEF Moving
  <2>5. AtTransaction(to)
    BY <1>3, <1>7, <2>1, <2>2, <2>4, NoFileAssumption
  <2>6. AtPointers(to)
    BY <1>1, <1>7, <2>1, <2>2, <2>3 DEF Moving
  <2> QED
    BY <1>6, <1>7, <2>1, <2>2, <2>5, <2>6
<1>8. ASSUME NEW f \in {"known", "current"}, NEW from \in {f}, NEW to \in JournalSteps,
             \/ f = "known" /\ to \in {"knownSync", "current"}
             \/ f = "current" /\ to = "currentSync",
             Step(p, from, to), plan' = plan, Replace(f, tx.after[f])
      PROVE  Goal
  <2>1. at[p] = f
    BY <1>4, <1>8
  <2>2. tx.after[f] \in Pointer \cup {None}
    BY <1>3 DEF Transaction, Pointers
  <2>3. may["transaction"] = {tx}
    BY <1>1, <1>8, <2>1 DEF Moving
  <2>4. FilesTyped' /\ Whole' /\ now'[f] = tx.after[f]
    BY <1>1, <1>3, <1>8, <2>2, <2>3, NoFileAssumption, PointerKeeps
  <2>5. /\ now'["transaction"] = now["transaction"] /\ may'["transaction"] = may["transaction"]
        /\ f = "current" => now'["known"] = now["known"]
    BY <1>1, <1>8 DEF Replace, FilesTyped, File
  <2>6. now["transaction"] = tx /\ (f = "current" => now["known"] = tx.after.known)
    BY <1>1, <1>8, <2>1 DEF Moving
  <2>7. AtTransaction(to) /\ AtPointers(to)
    BY <1>8, <2>3, <2>4, <2>5, <2>6
  <2> QED
    BY <1>6, <1>8, <2>4, <2>7
<1>9. CASE WriteTransaction(p, "journal", FALSE, "journalSync")
  <2>1. /\ Step(p, "journal", "journalSync") /\ at[p] = "journal"
        /\ plan' = [plan EXCEPT ![p] = [tx EXCEPT !.committed = FALSE]]
        /\ Replace("transaction", plan'[p])
    BY <1>4, <1>9 DEF WriteTransaction
  <2>2. tx.committed = FALSE /\ [tx EXCEPT !.committed = FALSE] = tx
    BY <1>3, <2>1 DEF Transaction
  <2>3. plan' = plan /\ plan'[p] = tx
    BY <1>1, <2>1, <2>2
  <2>4. Final(tx) = Found
    BY <1>1, <2>1, <2>2 DEF Moving, Final
  <2>5. FilesTyped' /\ Whole' /\ now'["transaction"] = tx
    BY <1>1, <1>3, <2>1, <2>3, <2>4, JournalKeeps
  <2> QED
    BY <1>6, <2>1, <2>3, <2>5
<1>10. CASE WriteTransaction(p, "commit", TRUE, "commitSync")
  <2> DEFINE new == [tx EXCEPT !.committed = TRUE]
  <2>1. /\ Step(p, "commit", "commitSync") /\ at[p] = "commit"
        /\ plan' = [plan EXCEPT ![p] = new] /\ Replace("transaction", plan'[p])
    BY <1>4, <1>10 DEF WriteTransaction
  <2>2. /\ new \in Transaction /\ new.before = tx.before /\ new.after = tx.after
        /\ new.committed = TRUE
    BY <1>3 DEF Transaction
  <2>3. plan'[p] = new
    BY <1>1, <2>1
  <2>4. may["transaction"] = {tx} /\ tx # None /\ new # None
    BY <1>1, <1>3, <2>1, <2>2, NoFileAssumption DEF Moving
  <2>5. FilesTyped' /\ Whole' /\ now'["transaction"] = new
    BY <1>1, <1>3, <2>1, <2>2, <2>3, <2>4, JournalKeeps
  <2>6. /\ may'["transaction"] = {tx, new} /\ PointersSettled' = PointersSettled
        /\ now'["known"] = now["known"] /\ now'["current"] = now["current"]
    BY <1>1, <2>1, <2>3, <2>4 DEF Replace, FilesTyped, File, PointersSettled
  <2>7. AtTransaction("commitSync")
    BY <2>3, <2>4, <2>5, <2>6
  <2>8. AtPointers("commitSync")
    BY <1>1, <2>1, <2>6 DEF Moving
  <2> QED
    BY <1>5, <2>1, <2>2, <2>5, <2>7, <2>8
<1>11. CASE WritePointer(p, "remove", "transaction", None, "none", "removeSync")
  <2>1. /\ Step(p, "remove", "removeSync") /\ at[p] = "remove" /\ plan' = plan
        /\ Replace("transaction", None)
    BY <1>4, <1>11 DEF WritePointer
  <2>2. /\ PointersSettled /\ may["transaction"] = {tx}
        /\ now["known"] = tx.after.known /\ now["current"] = tx.after.current
    BY <1>1, <2>1 DEF Moving
  <2>3. Final(tx) = Found
    BY <1>3, <2>1, <2>2 DEF Final, Found, Transaction, Pointers
  <2>4. FilesTyped' /\ Whole' /\ PointersSettled' /\ now'["transaction"] = None
    BY <1>1, <1>3, <2>1, <2>2, <2>3, RemovalKeeps
  <2>5. now'["known"] = now["known"] /\ now'["current"] = now["current"]
    BY <1>1, <2>1 DEF Replace, FilesTyped, File
  <2> QED
    BY <1>6, <2>1, <2>2, <2>4, <2>5
<1>12. CASE WritePointer(p, "known", "known", tx.after.known, "knownSync", "current")
  <2>1. PICK to \in {"knownSync", "current"} :
          Step(p, "known", to) /\ Replace("known", tx.after.known) /\ plan' = plan
    BY <1>12 DEF WritePointer
  <2> QED
    BY <1>8, <2>1
<1>13. CASE WritePointer(p, "current", "current", tx.after.current, "currentSync", "none")
  <2>1. tx.after.current # None
    BY <1>3, PackAssumption DEF Follows, InstallOf
  <2>2. Step(p, "current", "currentSync") /\ Replace("current", tx.after.current) /\ plan' = plan
    BY <1>13, <2>1 DEF WritePointer
  <2> QED
    BY <1>8, <2>2
<1> QED
  BY <1>7, <1>9, <1>10, <1>11, <1>12, <1>13 DEF Journal

-----------------------------------------------------------------------------
(* A call ends, answered or not, and the lock is free.                      *)
LEMMA IdleKeeps ==
  ASSUME Good, NEW p \in Proc, Idle(p), FilesTyped', Whole', told' \in Pointers,
         \/ UNCHANGED fileVars
         \/ at[p] \in ChannelSteps
  PROVE  Held' /\ FilesTyped' /\ CallsTyped' /\ Whole' /\ Phases'
<1>1. Shape /\ Held /\ FilesTyped /\ CallsTyped /\ Whole /\ Phases
  BY DEF Good
<1>2. at'[p] = "idle" /\ \A q \in Proc \ {p} : at'[q] = at[q] /\ plan'[q] = plan[q]
  BY <1>1 DEF Idle, Shape, CallsTyped
<1>3. CallsTyped'
  BY <1>1 DEF CallsTyped, Idle
<1>4. "idle" \notin ChannelSteps
  BY DEF ChannelSteps, RecoverSteps, JournalSteps
<1>5. Held'
  <2> SUFFICES ASSUME NEW q \in Proc, at'[q] \in ChannelSteps PROVE channelLock' = q
    BY DEF Held
  <2>1. q # p /\ channelLock = q
    BY <1>1, <1>2, <1>4 DEF Held
  <2> QED
    BY <2>1 DEF Idle
<1>6. Phases'
  <2>1. CASE UNCHANGED fileVars
    BY <1>1, <1>2, <1>4, <2>1, FilesStand
  <2>2. CASE at[p] \in ChannelSteps
    <3>1. \A q \in Proc : at'[q] \notin ChannelSteps
      BY <1>1, <1>2, <1>4, <2>2 DEF Held
    <3> QED
      BY <3>1 DEF Phases, Recovering, Moving, ChannelSteps, RecoverSteps, JournalSteps,
        KnownRecovered, CurrentRecovered, KnownMoved, CurrentMoved, Committed
  <2> QED
    BY <2>1, <2>2
<1> QED
  BY <1>3, <1>5, <1>6

LEMMA FoundTyped == FilesTyped => Found \in Pointers
BY DEF FilesTyped, Found, Pointers, File

(* A power loss takes the directory, or leaves each file at one of the      *)
(* contents it may have.                                                    *)
LEMMA PowerLossFiles ==
  ASSUME FilesTyped, PowerLoss
  PROVE  /\ now' \in [File -> Entry] /\ may' = [f \in File |-> {now'[f]}]
         /\ \/ DirectoryLost /\ Found' = Unset /\ now'["transaction"] = None
            \/ DirectoryStays /\ \A f \in File : now'[f] \in may[f]
<1>1. CASE DirectoryLost
  BY <1>1 DEF DirectoryLost, Found, Unset, Entry, File
<1>2. CASE DirectoryStays
  <2>1. may' = [f \in File |-> {now'[f]}]
    BY <1>2 DEF DirectoryStays
  <2>2. PICK n \in [File -> UNION {may[f] : f \in File}] : now' = n /\ \A f \in File : n[f] \in may[f]
    BY <1>2 DEF DirectoryStays
  <2>3. \A f \in File : n[f] \in Entry
    BY <2>2 DEF FilesTyped
  <2>4. now' \in [File -> Entry]
    BY <2>2, <2>3
  <2> QED
    BY <1>2, <2>1, <2>2, <2>4
<1> QED
  BY <1>1, <1>2 DEF PowerLoss

LEMMA PowerLossKeeps ==
  ASSUME Good, PowerLoss
  PROVE  Held' /\ FilesTyped' /\ CallsTyped' /\ Whole' /\ Phases'
<1>1. FilesTyped /\ Whole /\ CallsTyped
  BY DEF Good
<1>2. \A p \in Proc : at'[p] = "idle"
  BY DEF PowerLoss
<1>3. Held' /\ Phases'
  BY <1>2 DEF Held, Phases, Recovering, Moving, ChannelSteps, RecoverSteps, JournalSteps,
    KnownRecovered, CurrentRecovered, KnownMoved, CurrentMoved, Committed
<1>4. CallsTyped'
  BY <1>1 DEF CallsTyped, PowerLoss, DirectoryStays, DirectoryLost, Unset, Pointers
<1>5. PointersSettled' /\ may'["transaction"] = {now'["transaction"]}
  BY <1>1, PowerLossFiles DEF PointersSettled, File
<1>6. CASE DirectoryLost /\ Found' = Unset /\ now'["transaction"] = None
  <2>1. FilesTyped'
    BY <1>1, <1>5, <1>6, PowerLossFiles DEF FilesTyped, Found, Unset, PointersSettled, File, Entry
  <2>2. Whole'
    BY <1>5, <1>6 DEF Whole, Matching, Unset
  <2> QED
    BY <1>3, <1>4, <2>1, <2>2
<1>7. CASE DirectoryStays /\ \A f \in File : now'[f] \in may[f]
  <2>1. FilesTyped'
    BY <1>1, <1>5, <1>7, PowerLossFiles DEF FilesTyped, PointersSettled, File, Entry
  <2>2. None \in may["transaction"] => Found' = Found
    BY <1>1, <1>7 DEF Whole, PointersSettled, Found, File
  <2>3. Whole'
    BY <1>1, <1>5, <1>7, <2>2 DEF Whole, Matching, Final, File
  <2> QED
    BY <1>3, <1>4, <2>1, <2>3
<1> QED
  BY <1>1, <1>6, <1>7, PowerLossFiles

(* A process at a step on the channel holds its lock, so the directory is   *)
(* there; only a start makes it and only a power loss takes it.             *)
LEMMA MadeStands == Good /\ [Next]_vars => Made'
<1> SUFFICES ASSUME Good, [Next]_vars PROVE Made'
  OBVIOUS
<1>1. Held /\ Made /\ FilesTyped
  BY DEF Good
<1>2. ASSUME UNCHANGED <<directory, may>>, channelLock' = None \/ channelLock' = channelLock
      PROVE  Made'
  BY <1>1, <1>2 DEF Made
<1>3. ASSUME NEW p \in Proc, at[p] \in ChannelSteps, directory' = directory PROVE Made'
  BY <1>1, <1>3, PackAssumption DEF Held, Made
<1>4. ASSUME NEW p \in Proc, Install(p) \/ Stop(p) PROVE Made'
  BY <1>2, <1>4 DEF Install, PublishObject, PublishAdmission, SyncObjects, SyncAdmissions,
    Publishing, Installed, Stop, Idle, fileVars, lockVars
<1>5. ASSUME NEW p \in Proc,
             NothingToRecover(p) \/ Recover(p) \/ PlanAdvance(p) \/ PlanRollback(p) \/ Journal(p)
      PROVE  Made'
  BY <1>3, <1>5 DEF NothingToRecover, Recover, PlanAdvance, PlanRollback, Planned, Journal,
    WritePointer, WriteTransaction, Sync, Step, ChannelSteps, RecoverSteps, JournalSteps
<1>6. ASSUME NEW p \in Proc, TellState(p) \/ Moved(p) PROVE Made'
  BY <1>3, <1>6 DEF TellState, Sound, Moved, ChannelSteps, JournalSteps
<1>7. ASSUME NEW p \in Proc, NEW i \in Pack, StartInstall(p, i) PROVE Made'
  BY <1>2, <1>7 DEF StartInstall, fileVars
<1>8. ASSUME NEW p \in Proc, NEW call, NEW i, StartOnChannel(p, call, i) PROVE Made'
  BY <1>1, <1>8 DEF StartOnChannel, Made
<1>9. ASSUME NEW p \in Proc, TellAbsent(p) PROVE Made'
  BY <1>2, <1>9 DEF TellAbsent, fileVars, lockVars
<1>10. CASE PowerLoss
  <2>1. CASE DirectoryLost
    BY <1>10, <2>1 DEF PowerLoss, DirectoryLost, Made
  <2>2. CASE DirectoryStays
    <3>1. directory' \in {"absent", "new", "kept"} /\ (directory' = "absent" => directory = "absent")
      BY <1>1, <2>2 DEF DirectoryStays, Made
    <3>2. ASSUME directory = "absent" PROVE may' = [f \in File |-> {None}]
      BY <1>1, <2>2, <3>2 DEF DirectoryStays, Made
    <3> QED
      BY <1>10, <3>1, <3>2 DEF PowerLoss, Made
  <2> QED
    BY <1>10, <2>1, <2>2 DEF PowerLoss
<1>11. CASE UNCHANGED vars
  BY <1>2, <1>11 DEF vars, fileVars, lockVars
<1> QED
  BY <1>4, <1>5, <1>6, <1>7, <1>8, <1>9, <1>10, <1>11
  DEF Next, Call, StartAdvance, StartRollback, StartState

LEMMA GoodStands == Good /\ [Next]_vars => Good'
<1> SUFFICES ASSUME Good, [Next]_vars
             PROVE  Held' /\ FilesTyped' /\ CallsTyped' /\ Whole' /\ Phases'
  BY ShapeStands, MadeStands DEF Good
<1> DEFINE Goal == Held' /\ FilesTyped' /\ CallsTyped' /\ Whole' /\ Phases'
<1>1. Shape /\ Held /\ FilesTyped /\ CallsTyped /\ Whole /\ Phases
  BY DEF Good
<1>2. UNCHANGED fileVars => FilesTyped' /\ Whole'
  BY <1>1 DEF fileVars, FilesTyped, Whole, PointersSettled, Found, Matching, Final
<1>3. ASSUME NEW p \in Proc, Install(p) PROVE Goal
  <2>1. CASE Installed(p)
    BY <1>1, <1>2, <2>1, IdleKeeps DEF Installed, CallsTyped
  <2>2. ASSUME NEW from, NEW to \in InstallSteps, Publishing(p, from, to) PROVE Goal
    <3>1. /\ UNCHANGED fileVars /\ plan' = plan /\ told' = told
          /\ channelLock' = channelLock /\ installLock' = installLock
      BY <2>2 DEF Publishing, lockVars
    <3>2. \A q \in Proc : at'[q] = at[q] \/ at'[q] \notin ChannelSteps
      BY <1>1, <2>2 DEF Publishing, Shape, InstallSteps, ChannelSteps, RecoverSteps, JournalSteps
    <3>3. Held' /\ CallsTyped'
      BY <1>1, <3>1, <3>2 DEF Held, CallsTyped
    <3> QED
      BY <1>1, <3>1, <3>2, <3>3, FilesStand
  <2> QED
    BY <1>3, <2>1, <2>2
    DEF Install, PublishObject, PublishAdmission, SyncObjects, SyncAdmissions, InstallSteps
<1>4. ASSUME NEW p \in Proc, NothingToRecover(p) \/ Recover(p) PROVE Goal
  BY <1>4, RecoverKeeps
<1>5. ASSUME NEW p \in Proc, PlanAdvance(p) \/ PlanRollback(p) PROVE Goal
  BY <1>5, PlanKeeps
<1>6. ASSUME NEW p \in Proc, Journal(p) PROVE Goal
  BY <1>6, MoveKeeps
<1>7. ASSUME NEW p \in Proc, TellState(p) PROVE Goal
  BY <1>1, <1>2, <1>7, IdleKeeps, FoundTyped DEF TellState
<1>8. ASSUME NEW p \in Proc, Moved(p) PROVE Goal
  <2>1. at[p] \in JournalSteps
    BY <1>8 DEF Moved, JournalSteps
  <2>2. plan[p] \in Transaction
    BY <1>1, <2>1 DEF CallsTyped, Phases, Moving
  <2>3. told' \in Pointers /\ SyncDirectory /\ Idle(p)
    BY <1>8, <2>2 DEF Moved, Transaction
  <2> QED
    BY <1>1, <2>1, <2>3, SyncKeeps, IdleKeeps DEF ChannelSteps
<1>9. ASSUME NEW p \in Proc, Stop(p) PROVE Goal
  BY <1>1, <1>2, <1>9, IdleKeeps DEF Stop, CallsTyped
<1>10. ASSUME NEW p \in Proc, NEW i \in Pack, StartInstall(p, i) PROVE Goal
  <2>1. /\ UNCHANGED fileVars /\ plan' = plan /\ told' = told
        /\ channelLock' = channelLock /\ installLock' = p
    BY <1>10 DEF StartInstall
  <2>2. \A q \in Proc : at'[q] = at[q] \/ at'[q] \notin ChannelSteps
    BY <1>1, <1>10 DEF StartInstall, Shape, ChannelSteps, RecoverSteps, JournalSteps
  <2>3. Held' /\ CallsTyped'
    BY <1>1, <2>1, <2>2 DEF Held, CallsTyped
  <2> QED
    BY <1>1, <2>1, <2>2, <2>3, FilesStand
<1>11. ASSUME NEW p \in Proc, NEW call, NEW i, StartOnChannel(p, call, i) PROVE Goal
  <2>1. /\ UNCHANGED fileVars /\ plan' = plan /\ told' = told /\ channelLock = None
        /\ channelLock' = p /\ installLock' = installLock
    BY <1>11 DEF StartOnChannel
  <2>2. \A q \in Proc : at[q] \notin ChannelSteps
    BY <1>1, <2>1, PackAssumption DEF Held
  <2>3. /\ at'[p] = "recover"
        /\ \A q \in Proc \ {p} : at'[q] = at[q]
    BY <1>1, <1>11 DEF StartOnChannel, Shape
  <2>4. Held' /\ CallsTyped'
    BY <1>1, <2>1, <2>2, <2>3 DEF Held, CallsTyped
  <2> QED
    BY <1>1, <2>1, <2>2, <2>3, <2>4, FilesStand
<1>12. CASE PowerLoss
  BY <1>12, PowerLossKeeps
<1>13. ASSUME UNCHANGED <<fileVars, at, plan, lockVars>>, told' \in Pointers PROVE Goal
  <2>1. Held' /\ CallsTyped'
    BY <1>1, <1>13 DEF lockVars, Held, CallsTyped
  <2> QED
    BY <1>1, <1>13, <2>1, FilesStand
<1>14. CASE \E p \in Proc : TellAbsent(p)
  BY <1>13, <1>14 DEF TellAbsent, Unset, Pointers
<1>15. CASE UNCHANGED vars
  BY <1>1, <1>13, <1>15 DEF vars, CallsTyped
<1> QED
  BY <1>3, <1>4, <1>5, <1>6, <1>7, <1>8, <1>9, <1>10, <1>11, <1>12, <1>14, <1>15
  DEF Next, Call, StartAdvance, StartRollback, StartState

LEMMA GoodAlways == Spec => []Good
<1>1. Init => Good
  BY ShapeInitially, GoodInitially DEF Good
<1> QED
  BY <1>1, GoodStands, PTL DEF Spec

-----------------------------------------------------------------------------
(* Every file, plan and answer is what its reader takes it for, whatever    *)
(* crashed before.                                                          *)
THEOREM TypeCorrect == Spec => []TypeOK
<1>1. Init => Shape /\ Stored
  BY ShapeInitially, StoredInitially
<1>2. Shape /\ Stored /\ [Next]_vars => (Shape /\ Stored)'
  BY ShapeStands, StoredStands
<1>3. Good /\ Stored => TypeOK
  BY DEF Good, Stored, TypeOK, FilesTyped, CallsTyped, Made, File
<1> QED
  BY <1>1, <1>2, <1>3, GoodAlways, PTL DEF Spec

(* Whatever a power loss leaves of the three files, the next call finds, by *)
(* its recovery, two pointers of one generation.                            *)
THEOREM PairIsWhole == Spec => []PairWhole
<1>1. Good => PairWhole
  <2> SUFFICES ASSUME Good, NEW o \in Outcomes PROVE Matching(FoundAfter(o))
    BY DEF PairWhole
  <2>1. FilesTyped /\ Whole
    BY DEF Good
  <2>2. o.f \in may["transaction"] /\ o.k \in may["known"] /\ o.c \in may["current"]
    BY DEF Outcomes
  <2>3. CASE o.f # None
    BY <2>1, <2>2, <2>3 DEF Whole, FoundAfter, Final
  <2>4. CASE o.f = None
    BY <2>1, <2>2, <2>4 DEF Whole, PointersSettled, Found, FoundAfter
  <2> QED
    BY <2>3, <2>4
<1> QED
  BY <1>1, GoodAlways, PTL

-----------------------------------------------------------------------------
(* PackChannel implements AtomicPair.  What may be found is decided by the  *)
(* journals that may be left.                                               *)
PairOf(tx) == AsPair(IF tx = None THEN Found ELSE Final(tx))
Possible == {PairOf(tx) : tx \in may["transaction"]}

Refined == {AsPair(FoundAfter(o)) : o \in Outcomes}

LEMMA FoundByJournal == Good => Refined = Possible
<1> SUFFICES ASSUME Good PROVE Refined = Possible
  OBVIOUS
<1>1. FilesTyped /\ Whole
  BY DEF Good
<1>2. ASSUME NEW o \in Outcomes PROVE AsPair(FoundAfter(o)) \in Possible
  <2>1. o.f \in may["transaction"] /\ o.k \in may["known"] /\ o.c \in may["current"]
    BY DEF Outcomes
  <2>2. FoundAfter(o) = IF o.f = None THEN Found ELSE Final(o.f)
    BY <1>1, <2>1 DEF FoundAfter, Found, Whole, PointersSettled
  <2> QED
    BY <2>1, <2>2 DEF Possible, PairOf
<1>3. ASSUME NEW tx \in may["transaction"] PROVE PairOf(tx) \in Refined
  <2> DEFINE o == [f |-> tx, k |-> now["known"], c |-> now["current"]]
  <2>1. o \in Outcomes
    BY <1>1 DEF Outcomes, FilesTyped, File
  <2>2. FoundAfter(o) = IF tx = None THEN Found ELSE Final(tx)
    BY DEF FoundAfter, Found
  <2> QED
    BY <2>1, <2>2 DEF PairOf, Refined
<1> QED
  BY <1>2, <1>3 DEF Possible, Refined

(* Found without a journal: one pair only.                                  *)
LEMMA FoundAlone ==
  ASSUME Good, None \in may["transaction"]
  PROVE  Possible = {AsPair(Found)}
BY DEF Good, Whole, Possible, PairOf

LEMMA PairsStand ==
  ASSUME Found' = Found PROVE \A tx : PairOf(tx)' = PairOf(tx)
BY DEF PairOf, AsPair, Final, GenerationOf, InstallOf

(* A synced directory leaves one of the pairs there were.                   *)
LEMMA SyncSettles ==
  ASSUME Good, SyncDirectory
  PROVE  \E q \in Possible : Possible' = {q} /\ q = PairOf(now["transaction"])
<1>1. now' = now /\ may' = [f \in File |-> {now[f]}]
  BY DEF SyncDirectory
<1>2. now["transaction"] \in may["transaction"] /\ may'["transaction"] = {now["transaction"]}
  BY <1>1 DEF Good, FilesTyped, File
<1>3. Possible' = {PairOf(now["transaction"])}
  <2>1. Possible' = {PairOf(tx)' : tx \in {now["transaction"]}}
    BY <1>2 DEF Possible
  <2>2. Found' = Found
    BY <1>1 DEF Found
  <2> QED
    BY <2>1, <2>2, PairsStand
<1> QED
  BY <1>2, <1>3 DEF Possible

(* The write of the committed journal is the move.                          *)
LEMMA CommitMoves ==
  ASSUME Good, NEW p \in Proc, WriteTransaction(p, "commit", TRUE, "commitSync")
  PROVE  \E a \in Possible : \E b \in Channel!Successors(a) :
           Possible = {a} /\ b.generation <= MaxGen /\ Possible' = {a, b}
<1> DEFINE tx == plan[p]
           new == [tx EXCEPT !.committed = TRUE]
           a == AsPair(tx.before)
           b == AsPair(tx.after)
<1>1. FilesTyped /\ CallsTyped /\ Moving(p) /\ at[p] = "commit"
  BY DEF Good, Phases, WriteTransaction, Step
<1>2. tx \in Transaction /\ tx.committed = FALSE /\ may["transaction"] = {tx} /\ Follows(tx)
  BY <1>1 DEF Moving, CallsTyped, JournalSteps, Committed, Transaction
<1>3. /\ new \in Transaction /\ new.committed = TRUE /\ new.after = tx.after
      /\ tx # None /\ new # None
  BY <1>2, NoFileAssumption DEF Transaction
<1>4. may'["transaction"] = {tx, new}
  BY <1>1, <1>2 DEF WriteTransaction, Replace, FilesTyped, CallsTyped, File
<1>5. Possible = {a}
  BY <1>2, <1>3 DEF Possible, PairOf, Final
<1>6. Possible' = {a, b}
  <2>1. \A t : t # None => PairOf(t)' = AsPair(Final(t))
    BY DEF PairOf, AsPair, Final, GenerationOf, InstallOf
  <2>2. Final(tx) = tx.before /\ Final(new) = tx.after
    BY <1>2, <1>3 DEF Final
  <2>3. Possible' = {AsPair(Final(t)) : t \in {tx, new}}
    BY <2>1, <1>3, <1>4 DEF Possible
  <2> QED
    BY <2>2, <2>3
<1>7. b \in Channel!Successors(a)
  <2>1. /\ a.generation = GenerationOf(tx.before) /\ a.current = InstallOf(tx.before.current)
        /\ b = [generation |-> GenerationOf(tx.after), current |-> InstallOf(tx.after.current),
                known |-> InstallOf(tx.after.known)]
    BY DEF AsPair
  <2>2. b = Channel!Advanced(a, InstallOf(tx.after.current))
    BY <1>2, <2>1 DEF Follows, Channel!Advanced
  <2> QED
    BY <1>2, <2>2 DEF Follows, Channel!Successors
<1>8. b.generation <= MaxGen
  BY <1>2, GenAssumption DEF AsPair, GenerationOf, Transaction, Pointers, Pointer
<1> QED
  BY <1>5, <1>6, <1>7, <1>8

(* Everything else that is written leaves the same pairs.                   *)
LEMMA PairsUnmoved ==
  ASSUME may'["transaction"] = may["transaction"],
         Found' = Found \/ None \notin may["transaction"]
  PROVE  Possible' = Possible
<1>1. Possible' = {PairOf(tx)' : tx \in may["transaction"]}
  BY DEF Possible
<1>2. \A tx \in may["transaction"] : PairOf(tx)' = PairOf(tx)
  BY PairsStand DEF PairOf, AsPair, Final, GenerationOf, InstallOf
<1> QED
  BY <1>1, <1>2 DEF Possible

LEMMA PointerStutters ==
  ASSUME Good, NEW f \in {"known", "current"}, NEW v, Replace(f, v),
         None \in may["transaction"] => v = now[f]
  PROVE  Possible' = Possible
<1>1. /\ may'["transaction"] = may["transaction"]
      /\ None \in may["transaction"] => now' = now
  BY DEF Good, FilesTyped, Replace, File
<1> QED
  BY <1>1, PairsUnmoved DEF Found

LEMMA JournalStutters ==
  ASSUME Good, NEW v \in Transaction \cup {None}, Replace("transaction", v),
         \/ v # None /\ Final(v) = Found /\ None \in may["transaction"]
         \/ v = None /\ \E tx \in may["transaction"] \ {None} : Final(tx) = Found
                                                        /\ may["transaction"] = {tx}
  PROVE  Possible' = Possible
<1>1. may'["transaction"] = may["transaction"] \cup {v} /\ Found' = Found
  BY DEF Good, FilesTyped, Replace, File, Found
<1>2. PairOf(v) = AsPair(Found) /\ AsPair(Found) \in Possible
  BY DEF PairOf, Possible
<1>3. Possible' = {PairOf(tx)' : tx \in may["transaction"] \cup {v}}
  BY <1>1 DEF Possible
<1> QED
  BY <1>1, <1>2, <1>3, PairsStand DEF Possible

LEMMA RecoverStutters ==
  ASSUME Good, NEW p \in Proc, Recover(p)
  PROVE  \/ Possible' = Possible
         \/ SyncDirectory
<1> DEFINE tx == now["transaction"]
<1>1. FilesTyped /\ Whole /\ Recovering(p) /\ tx \in may["transaction"]
      /\ tx \in Transaction \cup {None}
  BY DEF Good, Phases, FilesTyped, File
<1>2. tx # None => (None \in may["transaction"] => Final(tx).known = now["known"]
                                                  /\ Final(tx).current = now["current"])
  BY <1>1 DEF Whole, Found
<1>3. CASE tx # None /\ WritePointer(p, "recover", "known", Final(tx).known,
                                     "recoverKnownSync", "recoverCurrent")
  BY <1>2, <1>3, PointerStutters DEF WritePointer
<1>4. CASE WritePointer(p, "recoverCurrent", "current", Final(tx).current,
                         "recoverCurrentSync", "recoverSync")
  BY <1>1, <1>2, <1>4, PointerStutters DEF WritePointer, Step, Recovering, KnownRecovered
<1>5. CASE WritePointer(p, "recoverRemove", "transaction", None, "none", "recoverEnd")
  <2>1. /\ tx # None /\ may["transaction"] = {tx} /\ Replace("transaction", None)
        /\ now["known"] = Final(tx).known /\ now["current"] = Final(tx).current
    BY <1>1, <1>5 DEF WritePointer, Step, Recovering, KnownRecovered, CurrentRecovered
  <2>2. Final(tx) = Found
    BY <1>1, <2>1 DEF Final, Found, Transaction, Pointers
  <2> QED
    BY <2>1, <2>2, JournalStutters
<1> QED
  BY <1>3, <1>4, <1>5 DEF Recover, Sync

LEMMA MoveMaps ==
  ASSUME Good, NEW p \in Proc, Journal(p)
  PROVE  \/ Possible' = Possible
         \/ SyncDirectory
         \/ WriteTransaction(p, "commit", TRUE, "commitSync")
<1> DEFINE tx == plan[p]
<1> USE DEF JournalSteps, KnownMoved, CurrentMoved, Committed
<1>1. FilesTyped /\ Whole /\ CallsTyped /\ Recovering(p) /\ Moving(p)
  BY DEF Good, Phases
<1>2. /\ at[p] \in JournalSteps /\ tx \in Transaction /\ tx # None
      /\ tx.committed <=> at[p] \in Committed
  BY <1>1, NoFileAssumption
  DEF Journal, WriteTransaction, WritePointer, Sync, Step, Moving, CallsTyped
<1>3. CASE WriteTransaction(p, "journal", FALSE, "journalSync")
  <2>1. at[p] = "journal" /\ plan'[p] = [tx EXCEPT !.committed = FALSE]
        /\ Replace("transaction", plan'[p])
    BY <1>1, <1>3 DEF WriteTransaction, Step, CallsTyped
  <2>2. [tx EXCEPT !.committed = FALSE] = tx /\ Final(tx) = Found
    BY <1>1, <1>2, <2>1 DEF Transaction, Moving, Final
  <2>3. None \in may["transaction"]
    BY <1>1, <2>1 DEF Recovering, FilesTyped, File
  <2> QED
    BY <1>2, <2>1, <2>2, <2>3, JournalStutters
<1>4. ASSUME at[p] \in {"known", "current"} PROVE None \notin may["transaction"]
  BY <1>1, <1>2, <1>4 DEF Moving
<1>5. CASE WritePointer(p, "known", "known", tx.after.known, "knownSync", "current")
  BY <1>4, <1>5, PointerStutters DEF WritePointer, Step
<1>6. CASE WritePointer(p, "current", "current", tx.after.current, "currentSync", "none")
  BY <1>4, <1>6, PointerStutters DEF WritePointer, Step
<1>7. CASE WritePointer(p, "remove", "transaction", None, "none", "removeSync")
  <2>1. /\ may["transaction"] = {tx} /\ tx.committed /\ Replace("transaction", None)
        /\ now["known"] = tx.after.known /\ now["current"] = tx.after.current
    BY <1>1, <1>2, <1>7 DEF WritePointer, Step, Moving
  <2>2. Final(tx) = Found
    BY <1>2, <2>1 DEF Final, Found, Transaction, Pointers
  <2> QED
    BY <1>2, <2>1, <2>2, JournalStutters
<1> QED
  BY <1>3, <1>5, <1>6, <1>7 DEF Journal, Sync

(* TellState and the last sync of a move answer the one pair there is.      *)
LEMMA AnswersMap ==
  ASSUME Good, NEW p \in Proc, TellState(p) \/ Moved(p)
  PROVE  \E a \in Possible : Possible' = {a} /\ AsPair(told') = a
<1>1. FilesTyped /\ Whole /\ CallsTyped /\ Recovering(p) /\ Moving(p)
  BY DEF Good, Phases
<1>2. at[p] \in {"read", "removeSync"}
  BY DEF TellState, Sound, Moved
<1>3. now["transaction"] = None /\ None \in may["transaction"]
  BY <1>1, <1>2 DEF Recovering, FilesTyped, File
<1>4. Possible = {AsPair(Found)}
  BY <1>3, FoundAlone
<1>5. CASE TellState(p)
  <2>1. told' = Found /\ may' = may /\ now' = now
    BY <1>5 DEF TellState, fileVars
  <2> QED
    BY <1>4, <2>1, PairsUnmoved DEF Found
<1>6. CASE Moved(p)
  <2>1. SyncDirectory /\ told' = plan[p].after /\ at[p] = "removeSync"
    BY <1>6 DEF Moved
  <2>2. plan[p].after = Found
    <3>1. plan[p] \in Transaction
      BY <1>1, <2>1 DEF Moving, CallsTyped, JournalSteps
    <3> QED
      BY <1>1, <2>1, <3>1
      DEF Moving, KnownMoved, CurrentMoved, Found, Transaction, Pointers
  <2> QED
    BY <1>4, <2>1, <2>2, SyncSettles
<1> QED
  BY <1>5, <1>6

(* A channel that was never made, or was lost, is answered as the empty one.*)
LEMMA AbsentMaps ==
  ASSUME Good, NEW p \in Proc, TellAbsent(p)
  PROVE  \E a \in Possible : Possible' = {a} /\ AsPair(told') = a
<1>1. FilesTyped /\ directory = "absent" /\ may = [f \in File |-> {None}]
  BY DEF Good, Made, TellAbsent
<1>2. None \in may["transaction"] /\ Found = Unset
  BY <1>1 DEF FilesTyped, Found, Unset, File
<1>3. told' = Unset /\ may' = may /\ now' = now
  BY DEF TellAbsent, fileVars
<1> QED
  BY <1>2, <1>3, FoundAlone, PairsUnmoved DEF Found

EmptyPair == Channel!Empty

LEMMA UnsetIsEmpty == AsPair(Unset) = EmptyPair
BY DEF AsPair, Unset, GenerationOf, InstallOf, EmptyPair, Channel!Empty

LEMMA PowerLossMaps ==
  ASSUME Good, PowerLoss
  PROVE  \/ DirectoryStays /\ \E a \in Possible : Possible' = {a}
         \/ DirectoryLost /\ Possible' = {EmptyPair} /\ AsPair(told') = EmptyPair
<1>1. FilesTyped /\ Whole
  BY DEF Good
<1>2. may'["transaction"] = {now'["transaction"]}
  BY <1>1, PowerLossFiles DEF File
<1>3. Possible' = {PairOf(tx)' : tx \in {now'["transaction"]}}
  BY <1>2 DEF Possible
<1>4. CASE DirectoryLost /\ Found' = Unset /\ now'["transaction"] = None
  <2>1. PairOf(None)' = AsPair(Found')
    BY DEF PairOf, AsPair, GenerationOf, InstallOf
  <2>2. told' = Unset
    BY <1>4 DEF DirectoryLost
  <2> QED
    BY <1>3, <1>4, <2>1, <2>2, UnsetIsEmpty
<1>5. CASE DirectoryStays /\ \A f \in File : now'[f] \in may[f]
  <2>1. Found' = Found \/ None \notin may["transaction"]
    BY <1>1, <1>5 DEF Whole, PointersSettled, Found, File
  <2>2. now'["transaction"] \in may["transaction"]
    BY <1>5 DEF File
  <2>3. \A tx \in may["transaction"] : PairOf(tx)' = PairOf(tx)
    BY <2>1, PairsStand DEF PairOf, AsPair, Final, GenerationOf, InstallOf
  <2> QED
    BY <1>3, <1>5, <2>2, <2>3 DEF Possible
<1> QED
  BY <1>1, <1>4, <1>5, PowerLossFiles

(* The step of AtomicPair a step is.                                        *)
Kept == directory = "kept"

Settles == told' = told /\ (Kept => Kept') /\ \E a \in Possible : Possible' = {a}
Loses == ~Kept /\ ~Kept' /\ Possible' = {EmptyPair} /\ AsPair(told') = EmptyPair
Answers == Kept' = Kept /\ \E a \in Possible : Possible' = {a} /\ AsPair(told') = a
Moves ==
  /\ told' = told /\ Kept' = Kept
  /\ \E a \in Possible : \E b \in Channel!Successors(a) :
       Possible = {a} /\ b.generation <= MaxGen /\ Possible' = {a, b}
Stutters == told' = told /\ Kept' = Kept /\ Possible' = Possible

LEMMA StepMaps ==
  ASSUME Good, [Next]_vars
  PROVE  Settles \/ Loses \/ Answers \/ Moves \/ Stutters
<1>1. ASSUME UNCHANGED fileVars PROVE Possible' = Possible
  BY <1>1, PairsUnmoved DEF fileVars, Found
<1>2. ASSUME NEW p \in Proc, Recover(p) PROVE Settles \/ Stutters
  <2>1. told' = told /\ Kept' = Kept
    BY <1>2 DEF Recover, WritePointer, Sync, Step, Kept
  <2> QED
    BY <1>2, <2>1, RecoverStutters, SyncSettles DEF Settles, Stutters
<1>3. ASSUME NEW p \in Proc, Journal(p) PROVE Settles \/ Moves \/ Stutters
  <2>1. told' = told /\ Kept' = Kept
    BY <1>3 DEF Journal, WriteTransaction, WritePointer, Sync, Step, Kept
  <2> QED
    BY <1>3, <2>1, MoveMaps, SyncSettles, CommitMoves DEF Settles, Moves, Stutters
<1>4. ASSUME NEW p \in Proc, TellState(p) \/ Moved(p) \/ TellAbsent(p) PROVE Answers
  <2>1. Kept' = Kept
    BY <1>4 DEF TellState, Moved, TellAbsent, Kept
  <2> QED
    BY <1>4, <2>1, AnswersMap, AbsentMaps DEF Answers
<1>5. CASE PowerLoss
  <2>1. CASE DirectoryStays /\ \E a \in Possible : Possible' = {a}
    BY <2>1 DEF DirectoryStays, Settles, Kept
  <2>2. CASE DirectoryLost /\ Possible' = {EmptyPair} /\ AsPair(told') = EmptyPair
    BY <2>2 DEF DirectoryLost, Loses, Kept
  <2> QED
    BY <1>5, <2>1, <2>2, PowerLossMaps
<1>6. ASSUME NEW p \in Proc,
             Install(p) \/ NothingToRecover(p) \/ PlanAdvance(p) \/ PlanRollback(p) \/ Stop(p)
      PROVE  Stutters
  <2>1. UNCHANGED fileVars /\ told' = told /\ Kept' = Kept
    BY <1>6 DEF Install, PublishObject, PublishAdmission, SyncObjects, SyncAdmissions, Publishing,
      Installed, NothingToRecover, Step, PlanAdvance, PlanRollback, Planned, Stop, Kept
  <2> QED
    BY <1>1, <2>1 DEF Stutters
<1>7. ASSUME NEW p \in Proc, NEW i \in Pack,
             StartInstall(p, i) \/ StartAdvance(p, i)
      PROVE  Stutters
  <2>1. UNCHANGED fileVars /\ told' = told /\ Kept' = Kept
    BY <1>7 DEF StartInstall, StartAdvance, StartOnChannel, Kept
  <2> QED
    BY <1>1, <2>1 DEF Stutters
<1>8. ASSUME NEW p \in Proc, StartRollback(p) \/ StartState(p) PROVE Stutters
  <2>1. UNCHANGED fileVars /\ told' = told /\ Kept' = Kept
    BY <1>8 DEF StartRollback, StartState, StartOnChannel, Kept
  <2> QED
    BY <1>1, <2>1 DEF Stutters
<1>9. CASE UNCHANGED vars
  BY <1>1, <1>9 DEF vars, Stutters, Kept
<1> QED
  BY <1>2, <1>3, <1>4, <1>5, <1>6, <1>7, <1>8, <1>9 DEF Next, Call

(* PackChannel implements AtomicPair: through failures, kills and power     *)
(* losses at any step, what a release channel can be found at is one pair   *)
(* that moves as a whole; nothing is answered while a power loss that leaves*)
(* the directory could take it back, and none takes a directory that has    *)
(* outlived one.                                                            *)
THEOREM ImplementsAtomicPair == Spec => MovesAsOne
<1> DEFINE BarTold == AsPair(told)
<1>1. Init => Channel!Init
  <2> SUFFICES ASSUME Init PROVE Channel!Init
    OBVIOUS
  <2>1. Good
    BY ShapeInitially, GoodInitially DEF Good
  <2>2. Found = Unset /\ may["transaction"] = {None} /\ told = Unset /\ ~Kept
    BY DEF Init, Found, Unset, File, Kept
  <2>3. AsPair(Unset) = Channel!Empty
    BY UnsetIsEmpty DEF EmptyPair
  <2>4. Refined = {Channel!Empty}
    BY <2>1, <2>2, <2>3, FoundByJournal, FoundAlone
  <2> QED
    BY <2>2, <2>3, <2>4 DEF Channel!Init, Refined, Kept
<1>2. (Good => Refined = Possible)'
  BY FoundByJournal, PTL
<1>3. Good /\ Good' /\ [Next]_vars => [Channel!Next]_<<Refined, BarTold, Kept>>
  <2> SUFFICES ASSUME Good, Good', [Next]_vars PROVE [Channel!Next]_<<Refined, BarTold, Kept>>
    OBVIOUS
  <2>1. Refined = Possible
    BY FoundByJournal
  <2>2. Refined' = Possible'
    BY <1>2
  <2>3. BarTold' = AsPair(told')
    BY DEF AsPair, GenerationOf, InstallOf
  <2>4. CASE Settles
    <3>1. /\ Refined' \in SUBSET Refined /\ Refined' # {} /\ BarTold' = BarTold
          /\ Kept' \in {Kept, TRUE}
      BY <2>1, <2>2, <2>3, <2>4 DEF Settles, Kept
    <3> QED
      BY <3>1 DEF Refined, Kept, Channel!Next, Channel!Settle
  <2>5. CASE Loses
    <3>1. ~Kept /\ Refined' = {Channel!Empty} /\ BarTold' = Channel!Empty /\ Kept' = Kept
      BY <2>2, <2>3, <2>5 DEF Loses, EmptyPair, Kept
    <3> QED
      BY <3>1 DEF Refined, Kept, Channel!Next, Channel!Lose
  <2>6. CASE Answers
    <3>1. Kept' = Kept /\ \E a \in Refined : Refined' = {a} /\ BarTold' = a
      BY <2>1, <2>2, <2>3, <2>6 DEF Answers
    <3> QED
      BY <3>1 DEF Refined, Kept, Channel!Next, Channel!Answer
  <2>7. CASE Moves
    <3>1. /\ BarTold' = BarTold /\ Kept' = Kept
          /\ \E a \in Refined : \E b \in Channel!Successors(a) :
               Refined = {a} /\ b.generation <= MaxGen /\ Refined' = {a, b}
      BY <2>1, <2>2, <2>3, <2>7 DEF Moves
    <3> QED
      BY <3>1 DEF Refined, Kept, Channel!Next, Channel!Move
  <2>8. CASE Stutters
    BY <2>1, <2>2, <2>3, <2>8 DEF Stutters
  <2> QED
    BY <2>4, <2>5, <2>6, <2>7, <2>8, StepMaps
<1> QED
  BY <1>1, <1>3, GoodAlways, PTL DEF Spec, Refined, Kept, MovesAsOne, Channel!Spec, Channel!vars

-----------------------------------------------------------------------------
(* What an answer is worth.  The strengthening: generations are numbers, so *)
(* that a later pair is told from the one answered.                         *)
Stand ==
  /\ AsPair(told).generation \in Int
  /\ \A p \in Possible :
       /\ p.generation \in Int
       /\ p = AsPair(told) \/ p.generation > AsPair(told).generation

LEMMA StandInitially == Init => Stand
<1> SUFFICES ASSUME Init PROVE Stand
  OBVIOUS
<1>1. Good
  BY ShapeInitially, GoodInitially DEF Good
<1>2. Found = Unset /\ may["transaction"] = {None} /\ told = Unset
  BY DEF Init, Found, Unset, File
<1>3. Possible = {AsPair(Unset)}
  BY <1>1, <1>2, FoundAlone DEF Possible
<1>4. AsPair(Unset).generation = 0
  BY DEF AsPair, Unset, GenerationOf
<1> QED
  BY <1>2, <1>3, <1>4 DEF Stand

(* A move goes to the next generation, whichever pack it is to.             *)
LEMMA StandStands == Stand /\ Good /\ [Next]_vars => Stand'
<1> SUFFICES ASSUME Stand, Good, [Next]_vars PROVE Stand'
  OBVIOUS
<1>1. AsPair(told)' = AsPair(told')
  BY DEF AsPair, GenerationOf, InstallOf
<1>2. CASE Settles
  BY <1>1, <1>2 DEF Settles, Stand
<1>3. CASE Answers
  BY <1>1, <1>3 DEF Answers, Stand
<1>4. CASE Moves
  <2>1. PICK a \in Possible : \E b \in Channel!Successors(a) : Possible = {a} /\ Possible' = {a, b}
    BY <1>4 DEF Moves
  <2>2. PICK b \in Channel!Successors(a) : Possible = {a} /\ Possible' = {a, b}
    BY <2>1
  <2>3. b.generation = a.generation + 1
    BY DEF Channel!Successors, Channel!Advanced
  <2>4. told' = told
    BY <1>4 DEF Moves
  <2> QED
    BY <1>1, <2>2, <2>3, <2>4 DEF Stand
<1>5. CASE Stutters
  BY <1>1, <1>5 DEF Stutters, Stand
<1>6. CASE Loses
  <2>1. EmptyPair.generation = 0
    BY DEF EmptyPair, Channel!Empty
  <2> QED
    BY <1>1, <1>6, <2>1 DEF Loses, Stand
<1> QED
  BY <1>2, <1>3, <1>4, <1>5, <1>6, StepMaps

(* What was answered of a channel stands while its directory does: what a   *)
(* power loss may leave in it recovers to that pair or to a later one.  Once*)
(* the directory has outlived a power loss it stays, and no answer after    *)
(* that is of an older pair than one before.                                *)
THEOREM AnswersStand == Spec => []Channel!NeverTakenBack /\ Channel!KeptForGood
<1> DEFINE BarTold == AsPair(told)
<1>1. Good /\ Stand => Channel!NeverTakenBack
  <2> SUFFICES ASSUME Good, Stand PROVE Channel!NeverTakenBack
    OBVIOUS
  <2>1. Refined = Possible
    BY FoundByJournal
  <2> QED
    BY <2>1 DEF Refined, Stand, Channel!NeverTakenBack
<1>2. Good /\ Stand /\ [Next]_vars =>
        [Kept => Kept' /\ (BarTold' = BarTold \/ BarTold'.generation > BarTold.generation)]_
          <<Refined, BarTold, Kept>>
  <2> SUFFICES ASSUME Good, Stand, [Next]_vars, Kept
               PROVE  Kept' /\ (BarTold' = BarTold \/ BarTold'.generation > BarTold.generation)
    OBVIOUS
  <2>1. BarTold' = AsPair(told')
    BY DEF AsPair, GenerationOf, InstallOf
  <2>2. CASE Answers
    BY <2>1, <2>2 DEF Answers, Stand
  <2>3. CASE Settles \/ Moves \/ Stutters
    BY <2>1, <2>3 DEF Settles, Moves, Stutters
  <2> QED
    BY <2>2, <2>3, StepMaps DEF Loses
<1> QED
  BY <1>1, <1>2, StandInitially, StandStands, GoodAlways, PTL
  DEF Spec, Refined, Kept, Channel!KeptForGood, Channel!vars
=============================================================================
