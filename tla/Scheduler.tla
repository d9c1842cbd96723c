----------------------------- MODULE Scheduler -----------------------------
(***************************************************************************)
(* imparo-server/src/sched.rs: the engine loop that serves every chat      *)
(* request, with the part of main.rs that starts, ends and abandons one,   *)
(* and the other threads that want the engine (erase, trim).               *)
(*                                                                         *)
(* One iteration of `run` is the phases of `pc`: take, resume, admit, step,*)
(* deal, prefill, yield.  The loop holds the engine from its take to its   *)
(* yield, so what it decides in a phase nobody else disturbs; clients send *)
(* jobs at any moment.  A stream is counted in pages: a decode step of the *)
(* model fills one.                                                        *)
(***************************************************************************)
EXTENDS SlotPool, Sequences

CONSTANTS Job,         \* requests
          NoJob,
          ConvOf,      \* the conversation a request is for (its label)
          Prompt,      \* pages of its prompt
          Reply,       \* and, at most, of its reply (max_tokens)
          Fallible,    \* what may fail: "begin", "headers", "chunk", "step", "park", "resume"
          Outsider,    \* other threads that take the engine: "erase", "trim"
          MaxOutside   \* bound: how often they do

ASSUME JobAssumption == NoJob \notin Job /\ IsFiniteSet(Job)
ASSUME ConvOfAssumption == ConvOf \in [Job -> Conv]
ASSUME PromptAssumption == Prompt \in [Job -> Nat \ {0}] /\ Reply \in [Job -> Nat]
ASSUME FallibleAssumption ==
  /\ Fallible \subseteq {"begin", "headers", "chunk", "step", "park", "resume"}
  /\ Outsider \subseteq {"erase", "trim"} /\ MaxOutside \in Nat

VARIABLES
  channel,     \* jobs submitted and not taken, in order
  line,        \* waiting
  blocked,     \* jobs whose conversation runs
  rows,        \* requests decoding in the co-batch
  parked,      \* rows the pool had no page for, oldest first
  prefilling,  \* the request prefilled beside the rows
  hand,        \* the request being admitted, or running alone inside its admission
  ending,      \* rows whose reply ends with this step's token
  stalled,     \* the head of the line did not fit; LEFT has moved since, or not
  pc,          \* the phase of the iteration
  inflight,    \* IN_FLIGHT
  slot, pos, room,  \* of each row
  pool,
  resumable,   \* conversations whose parked state memory or disk has
  wanted,      \* threads waiting for the engine (ENGINE_WANTED)
  outside,     \* how often they have wanted it
  answered,    \* history: requests whose response has ended
  starved,     \* history: of them, those that failed for want of a page
  cold         \* history: a request was served though its begin had failed

lineVars == <<channel, line, blocked, stalled>>
rowVars == <<rows, parked, prefilling, hand, ending>>
standVars == <<slot, pos, room>>
otherVars == <<wanted, outside, cold>>
vars == <<lineVars, rowVars, standVars, otherVars, pc, inflight, pool, resumable, answered,
          starved>>

Init ==
  /\ channel = <<>> /\ line = <<>> /\ blocked = <<>> /\ stalled = "no"
  /\ rows = <<>> /\ parked = <<>> /\ prefilling = NoJob /\ hand = NoJob /\ ending = {}
  /\ pc = "take" /\ inflight = 0
  /\ slot = [j \in Job |-> 0] /\ pos = [j \in Job |-> 0] /\ room = [j \in Job |-> 0]
  /\ pool = EmptyPool /\ resumable = {}
  /\ wanted = {} /\ outside = 0
  /\ answered = {} /\ starved = {} /\ cold = FALSE

-----------------------------------------------------------------------------
Elems(s) == {s[i] : i \in DOMAIN s}
Without(s, S) ==
  LET kept[n \in 0..Len(s)] ==
        IF n = 0 THEN <<>>
        ELSE IF s[n] \in S THEN kept[n - 1] ELSE Append(kept[n - 1], s[n])
  IN  kept[Len(s)]

Limit(j) == Prompt[j] + Reply[j]
Beside == IF prefilling = NoJob THEN 0 ELSE 1

(* LEFT moves when a request ends and when a row parks.                     *)
LeftUnmoved == stalled

Left == IF stalled = "held" THEN "moved" ELSE stalled

(* ended, once the response of j is out.                                    *)
Ended(j) ==
  /\ answered' = answered \cup {j}
  /\ inflight' = inflight - 1
  /\ stalled' = Left

(* fail: unpin, abandon and forget, in the slot of j.                       *)
Failed(j, s) ==
  /\ pool' = Abandon(Select(pool, s), ConvOf[j])
  /\ resumable' = resumable \ {ConvOf[j]}
  /\ Ended(j)

-----------------------------------------------------------------------------
(* A client's thread sends its request.                                     *)
Places == <<channel, line, blocked, rows, parked>>
Everywhere == (UNION {Elems(Places[i]) : i \in DOMAIN Places}) \cup {prefilling, hand}

Submit(j) ==
  /\ j \notin Everywhere \cup answered
  /\ channel' = Append(channel, j)
  /\ UNCHANGED <<line, blocked, stalled, rowVars, standVars, otherVars, pc, inflight, pool,
                 resumable, answered, starved>>

(* Other threads: lock_engine counts them in, and the loop lets them pass.  *)
Want(o) ==
  /\ o \notin wanted /\ outside < MaxOutside
  /\ wanted' = wanted \cup {o}
  /\ outside' = outside + 1
  /\ UNCHANGED <<cold, lineVars, rowVars, standVars, pc, inflight, pool, resumable, answered,
                 starved>>

Unlocked == pc \in {"take", "yield"}

Served(o) ==
  /\ Unlocked /\ o \in wanted
  /\ wanted' = wanted \ {o}
  /\ UNCHANGED <<lineVars, rowVars, standVars, pc, inflight, outside, cold, answered,
                 starved>>

(* erase_conversations: refused when a request is in flight.                *)
Erase ==
  /\ Served("erase")
  /\ \E c \in Conv :
       IF IsRunning(pool, c) THEN UNCHANGED <<pool, resumable>>
       ELSE /\ pool' = Forget(pool, {c})
            /\ resumable' = resumable \ {c}

(* kv_trimmer, under memory pressure.                                       *)
TrimIdle ==
  /\ Served("trim")
  /\ pool' = Trim(pool)
  /\ UNCHANGED resumable

-----------------------------------------------------------------------------
(* The head of an iteration: new jobs join the line, and blocked ones whose *)
(* conversation no longer runs go to its head.                              *)
Busy(j) == IsRunning(pool, ConvOf[j])
NobodyRuns == rows = <<>> /\ parked = <<>> /\ prefilling = NoJob

Ready == {j \in Elems(blocked) : NobodyRuns \/ ~Busy(j)}

Take ==
  /\ pc = "take"
  /\ channel # <<>> \/ line # <<>> \/ blocked # <<>> \/ ~NobodyRuns
  /\ line' = Without(blocked, Elems(blocked) \ Ready) \o line \o channel
  /\ blocked' = Without(blocked, Ready)
  /\ channel' = <<>>
  /\ pc' = "resume"
  /\ UNCHANGED <<stalled, rowVars, standVars, otherVars, inflight, pool, resumable,
                 answered, starved>>

(* Parked rows first, oldest first, while there is a slot and they fit.     *)
Fits(n, running) == Obtainable(pool) >= n + running

MayResume ==
  LET running == Len(rows) + Beside
  IN  /\ parked # <<>> /\ running < Slots
      /\ running > 0 => Fits(pos[Head(parked)] + 1, running)

(* Or there is no slot, or no room for its state: it stays parked.          *)
NoSlot ==
  \A s \in ChosenSlot(pool, ConvOf[Head(parked)]) : Charge(pool, s, ConvOf[Head(parked)]) = {}

NoneResumes ==
  /\ pc = "resume" /\ (MayResume => NoSlot)
  /\ pool' = IF MayResume /\ ChosenSlot(pool, ConvOf[Head(parked)]) # {}
              THEN Uncharged(pool, ConvOf[Head(parked)]) ELSE pool
  /\ pc' = "admit"
  /\ stalled' = IF stalled = "moved" THEN "no" ELSE stalled
  /\ UNCHANGED <<channel, line, blocked, rowVars, standVars, otherVars, inflight, resumable,
                 answered, starved>>

(* resume, in the slot s the pool q has charged: where it parked, or not at *)
(* all.                                                                     *)
Resume ==
  /\ pc = "resume" /\ MayResume
  /\ LET j == Head(parked)
         c == ConvOf[j]
     IN  \E s \in ChosenSlot(pool, c) : \E q \in Charge(pool, s, c) :
           /\ c \in resumable
           /\ \E p \in Enter(Select(q, s), c, pos[j] + 1, pos[j]) : pool' = Pin(p, c)
           /\ slot' = [slot EXCEPT ![j] = s]
           /\ room' = [room EXCEPT ![j] = pos[j] + 1]
           /\ rows' = Append(rows, j)
           /\ parked' = Tail(parked)
           /\ resumable' = resumable \ {c}
  /\ UNCHANGED <<lineVars, prefilling, hand, ending, pos, otherVars, pc, inflight,
                 answered, starved>>

ResumeFails ==
  /\ pc = "resume" /\ MayResume
  /\ LET j == Head(parked)
         c == ConvOf[j]
     IN  \E s \in ChosenSlot(pool, c) : \E q \in Charge(pool, s, c) :
           LET roomy == Enter(Select(q, s), c, pos[j] + 1, pos[j])
           IN  /\ c \notin resumable \/ roomy = {} \/ "resume" \in Fallible
               /\ pool' = Abandon(Select(q, s), c)
               /\ resumable' = resumable \ {c}
               /\ Ended(j)
               /\ starved' = IF c \in resumable /\ roomy = {} THEN starved \cup {j} ELSE starved
               /\ parked' = Tail(parked)
  /\ UNCHANGED <<channel, line, blocked, rows, prefilling, hand, ending, standVars,
                 otherVars, pc>>

-----------------------------------------------------------------------------
(* One new request: the first of the line whose conversation no row has;    *)
(* those before it are blocked.                                             *)
Passed(k) == rows # <<>> /\ Busy(line[k])
MayAdmit == parked = <<>> /\ stalled = "no" /\ prefilling = NoJob /\ Len(rows) < Slots

NoneAdmitted ==
  /\ pc = "admit"
  /\ \/ ~MayAdmit /\ UNCHANGED <<line, blocked>>
     \/ /\ MayAdmit /\ \A k \in DOMAIN line : Passed(k)
        /\ blocked' = blocked \o line
        /\ line' = <<>>
  /\ pc' = "step"
  /\ UNCHANGED <<channel, stalled, rowVars, standVars, otherVars, inflight, pool,
                 resumable, answered, starved>>

Admit ==
  /\ pc = "admit" /\ MayAdmit
  /\ \E k \in DOMAIN line :
       /\ ~Passed(k) /\ \A i \in 1..(k - 1) : Passed(i)
       /\ hand' = line[k]
       /\ blocked' = blocked \o SubSeq(line, 1, k - 1)
       /\ line' = SubSeq(line, k + 1, Len(line))
  /\ inflight' = inflight + 1
  /\ pc' = "charge"
  /\ UNCHANGED <<channel, stalled, rows, parked, prefilling, ending, standVars, otherVars,
                 pool, resumable, answered, starved>>

HandConv == ConvOf[hand]

Charged ==
  /\ pc = "charge"
  /\ \E s \in ChosenSlot(pool, HandConv) : \E q \in Charge(pool, s, HandConv) :
       /\ pool' = Select(q, s)
       /\ slot' = [slot EXCEPT ![hand] = s]
  /\ pc' = "begin"
  /\ UNCHANGED <<lineVars, rowVars, pos, room, otherVars, inflight, resumable, answered,
                 starved>>

(* Back to the head of the line until something has left.                   *)
Wait ==
  /\ line' = <<hand>> \o line
  /\ hand' = NoJob
  /\ stalled' = "held"
  /\ inflight' = inflight - 1
  /\ pc' = "step"
  /\ UNCHANGED <<channel, blocked, rows, parked, prefilling, ending, standVars, otherVars,
                 resumable, answered, starved>>

(* The request in hand is answered, whatever of it has run.                 *)
Dismissed ==
  /\ Ended(hand)
  /\ hand' = NoJob
  /\ pc' = "step"
  /\ UNCHANGED <<channel, line, blocked, rows, parked, prefilling, ending, standVars,
                 otherVars>>

(* No room for the slot's state: beside rows it waits.  Alone, or when every*)
(* slot runs a request, it is refused (503).                                *)
NotCharged == \A s \in ChosenSlot(pool, HandConv) : Charge(pool, s, HandConv) = {}
Seatless == ChosenSlot(pool, HandConv) = {}

WaitForSlot ==
  /\ pc = "charge" /\ NotCharged
  /\ pool' = IF Seatless THEN pool ELSE Uncharged(pool, HandConv)
  /\ IF ~Seatless /\ rows # <<>> THEN Wait
     ELSE Dismissed /\ starved' = starved \cup {hand} /\ UNCHANGED resumable

(* ADMISSION BY FIT: beside rows, its pages and one more for each of them.  *)
Fitting == rows # <<>> => Obtainable(pool) >= Prompt[hand] + 1 + Len(rows)

WaitForPages ==
  /\ pc = "begin" /\ ~Fitting
  /\ pool' = pool
  /\ Wait

Entered(n) == Enter(pool, HandConv, Prompt[hand] + 1, n)

Stands(n) ==
  /\ pos' = [pos EXCEPT ![hand] = n]
  /\ room' = [room EXCEPT ![hand] = Prompt[hand] + 1]
  /\ resumable' = resumable \ {HandConv}

(* Beside rows it is pinned and prefilled a chunk per iteration, from where *)
(* the pool's state lets it start.                                          *)
BeginBeside ==
  /\ pc = "begin" /\ Fitting /\ rows # <<>>
  /\ \E n \in 0..(Prompt[hand] - 1) :
       /\ pool' \in {Pin(q, HandConv) : q \in Entered(n)}
       /\ Stands(n)
  /\ prefilling' = hand
  /\ hand' = NoJob
  /\ pc' = "step"
  /\ UNCHANGED <<lineVars, rows, parked, ending, slot, otherVars, inflight, answered,
                 starved>>

(* Alone it is prefilled at once, and decodes until it ends or hands over.  *)
BeginAlone ==
  /\ pc = "begin" /\ rows = <<>>
  /\ pool' \in Entered(Prompt[hand])
  /\ Stands(Prompt[hand])
  /\ pc' = "lone"
  /\ UNCHANGED <<lineVars, rowVars, slot, otherVars, inflight, answered, starved>>

(* Alone and without room, for another slot's occupant has it: it is served *)
(* cold, its first growth finds no conversation, and it is abandoned.       *)
NoRoomAlone ==
  /\ pc = "begin" /\ rows = <<>> /\ Entered(Prompt[hand]) = {}
  /\ pool' = Abandon(pool, HandConv)
  /\ resumable' = resumable \ {HandConv}
  /\ Dismissed
  /\ starved' = starved \cup {hand}

(* The client is gone when the headers are sent: the request ends without a *)
(* pin, and its conversation still occupies the slot.                       *)
GoneAtHeaders ==
  /\ pc = "begin" /\ Fitting /\ "headers" \in Fallible
  /\ pool' \in Entered(0)
  /\ resumable' = resumable \ {HandConv}
  /\ Dismissed
  /\ UNCHANGED starved

(* begin fails and the request is served all the same ("cold path"): from 0 *)
(* in a slot that is not its own.                                           *)
BeginFails ==
  /\ pc = "begin" /\ Fitting /\ rows # <<>> /\ "begin" \in Fallible
  /\ pool' = Pin(pool, HandConv)
  /\ pos' = [pos EXCEPT ![hand] = 0]
  /\ room' = [room EXCEPT ![hand] = pool.pages[HandConv]]
  /\ prefilling' = hand
  /\ cold' = TRUE
  /\ hand' = NoJob
  /\ pc' = "step"
  /\ UNCHANGED <<lineVars, rows, parked, ending, slot, wanted, outside, inflight, resumable,
                 answered, starved>>

-----------------------------------------------------------------------------
(* The request that runs alone.                                             *)
Others == Slots > 1 /\ (line # <<>> \/ channel # <<>>)

LoneGrow ==
  /\ pc = "lone" /\ pos[hand] >= room[hand]
  /\ pool' \in Grow(pool, HandConv, pos[hand] + 1)
  /\ room' = [room EXCEPT ![hand] = pos[hand] + 1]
  /\ UNCHANGED <<lineVars, rowVars, slot, pos, otherVars, pc, inflight, resumable,
                 answered, starved>>

LoneFails ==
  /\ pc = "lone" /\ pos[hand] >= room[hand]
  /\ Grow(pool, HandConv, pos[hand] + 1) = {}
  /\ pool' = Abandon(pool, HandConv)
  /\ Dismissed
  /\ starved' = starved \cup {hand}
  /\ UNCHANGED resumable

LoneStep ==
  /\ pc = "lone" /\ pos[hand] < room[hand] /\ pos[hand] < Limit(hand)
  /\ pos' = [pos EXCEPT ![hand] = @ + 1]
  /\ pool' = [pool EXCEPT !.filled[slot[hand]] = @ + 1]
  /\ UNCHANGED <<lineVars, rowVars, slot, room, otherVars, pc, inflight, resumable,
                 answered, starved>>

(* finish: it stays in its slot for its client's next turn.                 *)
LoneEnd ==
  /\ pc = "lone"
  /\ pool' = End(pool, HandConv, pos[hand])
  /\ Dismissed
  /\ UNCHANGED <<resumable, starved>>

(* Row::join: it hands over to the co-batch.                                *)
HandOver ==
  /\ pc = "lone" /\ Others /\ pos[hand] < Limit(hand)
  /\ pool' = Pin(pool, HandConv)
  /\ rows' = <<hand>>
  /\ hand' = NoJob
  /\ pc' = "step"
  /\ UNCHANGED <<lineVars, parked, prefilling, ending, standVars, otherVars, inflight,
                 resumable, answered, starved>>

-----------------------------------------------------------------------------
(* step: room for the position each row writes, in the order of the rows.   *)
Short(i) == pos[rows[i]] >= room[rows[i]] /\ \A k \in 1..(i - 1) : pos[rows[k]] < room[rows[k]]
OthersThan(j) == Len(rows) > 1 \/ prefilling # NoJob

RowGrows ==
  /\ pc = "step"
  /\ \E i \in DOMAIN rows :
       LET j == rows[i]
           p == Select(pool, slot[j])
       IN  /\ Short(i)
           /\ ~(OthersThan(j) /\ Obtainable(p) = 0)
           /\ pool' \in Grow(p, ConvOf[j], pos[j] + 1)
           /\ room' = [room EXCEPT ![j] = pos[j] + 1]
  /\ UNCHANGED <<lineVars, rowVars, slot, pos, otherVars, pc, inflight, resumable,
                 answered, starved>>

(* Nothing to be had while others run: it parks where it is.                *)
CanPark(p, j) == p.filled[slot[j]] = pos[j] /\ p.occupant[slot[j]] = ConvOf[j]

RowParks ==
  /\ pc = "step"
  /\ \E i \in DOMAIN rows :
       LET j == rows[i]
           p == Select(pool, slot[j])
       IN  /\ Short(i) /\ OthersThan(j) /\ Obtainable(p) = 0
           /\ CanPark(p, j)
           /\ pool' = Park(p, ConvOf[j], pos[j])
           /\ rows' = Without(rows, {j})
           /\ parked' = Append(parked, j)
           /\ resumable' = resumable \cup {ConvOf[j]}
  /\ stalled' = Left
  /\ UNCHANGED <<channel, line, blocked, prefilling, hand, ending, standVars, otherVars,
                 pc, inflight, answered, starved>>

RowFails(j) ==
  /\ rows' = Without(rows, {j})
  /\ Failed(j, slot[j])
  /\ UNCHANGED <<channel, line, blocked, parked, prefilling, hand, ending, standVars,
                 otherVars, pc>>

(* Nothing to be had, and nobody to wait for; or the parking fails.         *)
RowStarves ==
  /\ pc = "step"
  /\ \E i \in DOMAIN rows :
       LET p == Select(pool, slot[rows[i]]) IN
       /\ Short(i)
       /\ ~(OthersThan(rows[i]) /\ Obtainable(p) = 0)
       /\ Grow(p, ConvOf[rows[i]], pos[rows[i]] + 1) = {}
       /\ RowFails(rows[i])
       /\ starved' = starved \cup {rows[i]}

ParkFails ==
  /\ pc = "step"
  /\ \E i \in DOMAIN rows :
       LET p == Select(pool, slot[rows[i]]) IN
       /\ Short(i) /\ OthersThan(rows[i]) /\ Obtainable(p) = 0
       /\ "park" \in Fallible \/ ~CanPark(p, rows[i])
       /\ RowFails(rows[i])
       /\ UNCHANGED starved

Roomy == \A i \in DOMAIN rows : pos[rows[i]] < room[rows[i]]

(* One decode step for every row; ends: those whose reply ends with it.     *)
Decode ==
  /\ pc = "step" /\ Roomy
  /\ LET all == Elems(rows)
     IN  /\ pos' = [j \in Job |-> IF j \in all THEN pos[j] + 1 ELSE pos[j]]
         /\ pool' = [pool EXCEPT !.filled =
              [s \in Slot |-> @[s] + Cardinality({j \in all : slot[j] = s})]]
         /\ ending' \in {E \in SUBSET all : \A j \in all : pos'[j] >= Limit(j) => j \in E}
  /\ pc' = "deal"
  /\ UNCHANGED <<lineVars, rows, parked, prefilling, hand, slot, room, otherVars, inflight,
                 resumable, answered, starved>>

(* fail_all: the step failed as a whole, and its rows one after the other.  *)
StepFails ==
  /\ pc = "step" /\ Roomy /\ rows # <<>> /\ "step" \in Fallible
  /\ pc' = "fail"
  /\ UNCHANGED <<lineVars, rowVars, standVars, otherVars, inflight, pool, resumable,
                 answered, starved>>

FailAll ==
  /\ pc = "fail"
  /\ IF rows # <<>> THEN RowFails(Head(rows)) /\ UNCHANGED starved
     ELSE /\ pc' = "prefill"
          /\ UNCHANGED <<lineVars, rowVars, standVars, otherVars, inflight, pool,
                         resumable, answered, starved>>

(* end_row: beside others its conversation leaves the slot; the last stays. *)
RowEnded(j, others) ==
  LET q == Unpin(End(Select(pool, slot[j]), ConvOf[j], pos[j]), ConvOf[j])
  IN  pool' = IF others THEN LeaveSlot(q) ELSE q

EndRow ==
  /\ pc = "deal" /\ ending # {}
  /\ \E i \in DOMAIN rows :
       /\ rows[i] \in ending /\ \A k \in 1..(i - 1) : rows[k] \notin ending
       /\ rows' = Without(rows, {rows[i]})
       /\ ending' = ending \ {rows[i]}
       /\ RowEnded(rows[i], OthersThan(rows[i]))
       /\ Ended(rows[i])
  /\ UNCHANGED <<channel, line, blocked, parked, prefilling, hand, standVars, otherVars,
                 pc, resumable, starved>>

Dealt ==
  /\ pc = "deal" /\ ending = {}
  /\ pc' = "prefill"
  /\ UNCHANGED <<lineVars, rowVars, standVars, otherVars, inflight, pool, resumable,
                 answered, starved>>

-----------------------------------------------------------------------------
(* One chunk of the prompt being prefilled; after the last it takes its     *)
(* first token and joins the rows, or ends with it.                         *)
PrefillChunk ==
  /\ pc = "prefill"
  /\ IF prefilling = NoJob THEN UNCHANGED <<pos, pool>>
     ELSE /\ pos[prefilling] + 1 < Prompt[prefilling]
          /\ pos' = [pos EXCEPT ![prefilling] = @ + 1]
          /\ pool' = [Select(pool, slot[prefilling]) EXCEPT !.filled[slot[prefilling]] = @ + 1]
  /\ pc' = "yield"
  /\ UNCHANGED <<lineVars, rowVars, slot, room, otherVars, inflight, resumable, answered,
                 starved>>

LastChunk ==
  /\ pc = "prefill" /\ prefilling # NoJob /\ pos[prefilling] + 1 = Prompt[prefilling]
  /\ pos' = [pos EXCEPT ![prefilling] = @ + 1]
  /\ prefilling' = NoJob
  /\ pc' = "yield"
  /\ UNCHANGED <<channel, line, blocked, parked, hand, ending, slot, room, otherVars,
                 resumable, starved>>

JoinPrefilled ==
  /\ LastChunk
  /\ rows' = Append(rows, prefilling)
  /\ pool' = [Select(pool, slot[prefilling]) EXCEPT !.filled[slot[prefilling]] = @ + 1]
  /\ UNCHANGED <<stalled, inflight, answered>>

PrefilledEnds ==
  /\ LastChunk
  /\ LET s == slot[prefilling]
         c == ConvOf[prefilling]
         q == Unpin(End([Select(pool, s) EXCEPT !.filled[s] = @ + 1], c, Prompt[prefilling]), c)
     IN  pool' = IF rows # <<>> THEN LeaveSlot(q) ELSE q
  /\ Ended(prefilling)
  /\ UNCHANGED rows

ChunkFails ==
  /\ pc = "prefill" /\ prefilling # NoJob /\ "chunk" \in Fallible
  /\ Failed(prefilling, slot[prefilling])
  /\ prefilling' = NoJob
  /\ pc' = "yield"
  /\ UNCHANGED <<channel, line, blocked, rows, parked, hand, ending, standVars, otherVars,
                 starved>>

(* The engine is let go; whoever waits for it gets it first.                *)
Yield ==
  /\ pc = "yield" /\ wanted = {}
  /\ pc' = "take"
  /\ UNCHANGED <<lineVars, rowVars, standVars, otherVars, inflight, pool, resumable,
                 answered, starved>>

-----------------------------------------------------------------------------
Loop ==
  \/ Take \/ NoneResumes \/ Resume \/ ResumeFails
  \/ NoneAdmitted \/ Admit \/ Charged \/ WaitForSlot \/ WaitForPages
  \/ BeginBeside \/ BeginAlone \/ NoRoomAlone \/ GoneAtHeaders \/ BeginFails
  \/ LoneGrow \/ LoneFails \/ LoneStep \/ LoneEnd \/ HandOver
  \/ RowGrows \/ RowParks \/ RowStarves \/ ParkFails \/ Decode \/ StepFails \/ FailAll
  \/ EndRow \/ Dealt
  \/ PrefillChunk \/ JoinPrefilled \/ PrefilledEnds \/ ChunkFails
  \/ Yield

Next ==
  \/ Loop
  \/ Erase \/ TrimIdle
  \/ \E j \in Job : Submit(j)
  \/ \E o \in Outsider : Want(o)

(* The engine thread goes on, and a thread that can have the engine takes   *)
(* it.  No fairness of clients.                                             *)
Spec == Init /\ [][Next]_vars
FairSpec == Spec /\ WF_vars(Loop) /\ WF_vars(Erase) /\ WF_vars(TrimIdle)

-----------------------------------------------------------------------------
TypeOK ==
  /\ \A i \in DOMAIN Places : Elems(Places[i]) \subseteq Job
  /\ {prefilling, hand} \subseteq Job \cup {NoJob} /\ ending \subseteq Elems(rows)
  /\ stalled \in {"no", "held", "moved"} /\ inflight \in 0..Cardinality(Job)
  /\ slot \in [Job -> Slot] /\ pos \in [Job -> Nat] /\ room \in [Job -> Nat]
  /\ pool \in Pool /\ Unused(pool) >= 0
  /\ resumable \subseteq Conv /\ wanted \subseteq Outsider /\ outside \in 0..MaxOutside
  /\ answered \subseteq Job /\ starved \subseteq answered

(* A request is in one place from its submission to its answer and in none  *)
(* after, whichever of the ways through admit, seat, park, resume, fail and *)
(* end it takes; IN_FLIGHT, which the idle release trusts, counts those     *)
(* admitted and not answered.                                               *)
InFlight == Elems(rows) \cup Elems(parked) \cup ({prefilling, hand} \ {NoJob})

OnePlace ==
  /\ Len(channel) + Len(line) + Len(blocked) + Len(rows) + Len(parked)
       + Cardinality({prefilling, hand} \ {NoJob}) = Cardinality(Everywhere \ {NoJob})
  /\ Everywhere \cap answered = {}
  /\ inflight = Cardinality(InFlight)

(* Every request that runs beside others has a slot of its own, in which    *)
(* its conversation sits, pinned, with the state at its position and pages  *)
(* for all of its room: whatever was admitted, parked, resumed, trimmed or  *)
(* erased between two of its steps (sched.rs: "From its admission its       *)
(* conversation is pinned and its slot taken").  It holds until a request    *)
(* is served though its begin failed (BeginFails).                          *)
Seated == Elems(rows) \cup ({prefilling} \ {NoJob})

RowsStand ==
  ~cold => \A j \in Seated :
    LET s == slot[j]
        c == ConvOf[j]
    IN  /\ pool.occupant[s] = c /\ c \in pool.pinned
        /\ \A t \in Slot \ {s} : pool.occupant[t] # c
        /\ \A k \in Seated \ {j} : slot[k] # s
        /\ pool.filled[s] = pos[j] /\ room[j] = pool.pages[c]
        /\ pc # "step" => pos[j] <= room[j]

(* No request is lost, served twice or moved out of a seat it believes in.  *)
SeatedOnce == OnePlace /\ RowsStand

(* Nobody is failed or refused for want of a page or a slot that could have *)
(* it: slot choice, admission by fit, growth and parking leave enough for   *)
(* whoever was let in.  But an idle conversation may be stranded in a slot  *)
(* that is not selected, and a row may resume into a slot that is charged   *)
(* only after its pages were counted.                                       *)
Reached(j) == IF pc \in {"charge", "begin"} THEN Prompt[j] ELSE pos[j]
TooLarge(j) == Reached(j) + 1 + Withheld(pool) > Capacity
Stranded == \E s \in Slot \ {pool'.cur} : pool.occupant[s] \notin pool.pinned \cup {NoConv}
ChargedLate == pc = "resume" /\ pool'.charged # pool.charged

NeverShortOfRoom ==
  [][\A j \in starved' \ starved : cold \/ TooLarge(j) \/ Stranded \/ ChargedLate]_vars

(* pool.rs, of is_running: "A request is in flight for `label`: running     *)
(* (pinned) or parked", which is what an erase and a second turn ask.       *)
InFlightIsRunning ==
  \A j \in Elems(rows) \cup Elems(parked) : IsRunning(pool, ConvOf[j])

(* Every request sent is answered: no stall, no line that is never tried    *)
(* again, no resume that is refused for ever.                               *)
EveryoneAnswered == \A j \in Job : (j \in Elems(channel)) ~> (j \in answered)
=============================================================================
