------------------------------- MODULE Decode -------------------------------
(***************************************************************************)
(* How the server decodes one greedy request after another on one target:  *)
(* with a drafter whose proposals the target verifies, alone one step at a *)
(* time, alone with steps queued ahead, or handed over to the co-batch;    *)
(* and what the next request finds: the recorded stream, the recurrent     *)
(* note and the drafter's history.                                         *)
(*                                                                         *)
(* `config` is how the process was started:                                *)
(*   pool    a pool restores a prompt's prefix; without it only the one    *)
(*           resident stream is continued                                  *)
(*   paired  a drafter is admitted;  remember  its history outlives a turn *)
(*   pipe    a lone step is queued before the one ahead of it is read      *)
(*   company other requests may come and go                                *)
(***************************************************************************)
EXTENDS Target

CONSTANTS None,
          Token, Stops,       \* the vocabulary and its stop tokens
          Prompts,            \* the first prompts
          Answers, Limits,    \* greedy continuations and token budgets
          Block,              \* tokens of a draft block with its anchor
          MinRemaining,       \* the budget worth a verification
          Shapes,             \* parents of the draft trees
          Configs,            \* how the process may be started
          StopsInCompany,     \* may a drafted answer stop while others wait
          MaxTurns            \* bound: requests

ASSUME DecodeAssumption ==
  /\ Stops \subseteq Token
  /\ Block \in Nat /\ Block >= 2 /\ MinRemaining \in 1 .. Block
  /\ StopsInCompany \in BOOLEAN /\ MaxTurns \in Nat

VARIABLES config, turn, phase, target, cursor, drafter, cached,
          sent, next, untaken, steps, resident, why, turns

vars == <<config, turn, phase, target, cursor, drafter, cached,
          sent, next, untaken, steps, resident, why, turns>>

NoTurn == [prompt |-> <<>>, answer |-> <<>>, limit |-> 0, at |-> 0, drafts |-> FALSE,
           beside |-> FALSE]
NoCursor == [pos |-> 0, pending |-> <<>>, generated |-> 0,
             speculative |-> FALSE, capturing |-> FALSE, terminal |-> TRUE]
NoDrafter == [rows |-> [i \in 0 .. Capacity - 1 |-> Wrong], history |-> 0,
              tokens |-> None, floor |-> 0]

Truth == turn.prompt \o turn.answer
Size == Len(turn.prompt)

Init == /\ config \in Configs
        /\ turn = NoTurn /\ phase = "idle" /\ target = Blank
        /\ cursor = NoCursor /\ drafter = NoDrafter /\ cached = None
        /\ sent = <<>> /\ next = Odd /\ untaken = FALSE /\ steps = 0
        /\ resident = <<>> /\ why = "none" /\ turns = 0

(* Sched::others, as the environment has it at each look.                  *)
Others == IF config.company THEN BOOLEAN ELSE {FALSE}

-----------------------------------------------------------------------------
(* A request arrives.                                                      *)

(* resume_point: a grid point that leaves the forward two tokens.          *)
ResumePoint(have, len) == Floor(Min({have, IF len > 2 THEN len - 2 ELSE 0}))

Agreement(s, t) ==
  Max({0} \cup {n \in 1 .. Min({Len(s), Len(t)}) : Prefix(s, n) = Prefix(t, n)})

(* Where the prompt's prefill starts and the target it starts on.  A pool
   restores any grid point of a stream it holds; without one the resident
   stream goes on from the live state or from the recurrent note.          *)
Resumes(prompt) ==
  LET point  == ResumePoint(Len(resident), Len(prompt))
      usable == resident # <<>> /\ IsPrefix(resident, prompt)
      Cleared(s) == [target EXCEPT !.rows =
                       [i \in DOMAIN @ |-> IF i < s THEN @[i] ELSE Wrong]]
  IN  IF config.pool
      THEN { [start |-> s, target |-> Restored(target, prompt, s)] :
             s \in {g \in 0 .. Agreement(resident, prompt) :
                      g = ResumePoint(g, Len(prompt))} }
      ELSE IF ~usable \/ point = 0 THEN {[start |-> 0, target |-> Cleared(0)]}
      ELSE IF target.filled = point THEN {[start |-> point, target |-> Cleared(point)]}
      ELSE IF target.note # Wrong /\ target.noteAt = point /\ point <= target.filled
      THEN {[start |-> point,
             target |-> [Cleared(point) EXCEPT !.planes[0] = target.note, !.plane = 0,
                                               !.following = 0, !.filled = point]]}
      ELSE {[start |-> 0, target |-> Cleared(0)]}

(* can_bridge_cell: single steps reach the next cell with a block to spare. *)
Bridges(pos, remaining) ==
  LET distance == Cell - (pos % Cell)
  IN  /\ Cell >= Block /\ distance < Block
      /\ distance + Block <= remaining /\ pos + distance + Block <= Capacity

(* start_admits                                                            *)
StartAdmits(len, limit) ==
  /\ len > 1 /\ limit - 1 >= Block /\ len + Block <= Capacity
  /\ Block <= Cell - (len % Cell) \/ Bridges(len, limit - 1)

(* CachedHistory::matches and history_for: the history left by the last
   turn that drafted, when the prompt agrees with it below the start and
   its rows reach down to it; otherwise one rebuilt from the start.        *)
Matches(held, prompt, start) ==
  /\ held # None /\ start > 0 /\ held.floor <= start
  /\ start <= Len(held.tokens) /\ Prefix(held.tokens, start) = Prefix(prompt, start)

HistoryFor(held, prompt, start) ==
  IF Matches(held, prompt, start)
  THEN [tokens |-> Prefix(held.tokens, start), floor |-> held.floor]
  ELSE [tokens |-> Prefix(prompt, start), floor |-> start]

(* run_cached and run: the recorded history is taken for the turn.         *)
Attached(prompt, start) ==
  LET h == IF config.remember THEN HistoryFor(cached, prompt, start)
           ELSE [tokens |-> None, floor |-> 0]
  IN  [rows |-> [i \in DOMAIN drafter.rows |-> IF i < start THEN drafter.rows[i] ELSE Wrong],
       history |-> start, tokens |-> h.tokens, floor |-> h.floor]

(* The prompts that may follow: a first one, or the conversation so far
   with one more token.                                                    *)
NextPrompts ==
  Prompts \cup {Append(turn.prompt \o sent, x) :
                  x \in IF resident = <<>> THEN {} ELSE Token \ Stops}

(* chat_completions up to its prefill: the start, and whether it drafts.   *)
StartTurn ==
  /\ phase = "idle" /\ turns < MaxTurns
  /\ \E prompt \in NextPrompts, answer \in Answers, limit \in Limits,
        others \in Others, beside \in Others, asked \in BOOLEAN :
       \E r \in Resumes(prompt) :
       LET drafts == /\ config.paired /\ asked /\ ~others /\ ~beside
                     /\ r.start = 0 \/ config.remember
                     /\ StartAdmits(Len(prompt), limit)
       IN  /\ Len(prompt) + limit <= Capacity
           /\ drafts /\ config.company /\ ~StopsInCompany =>
                Last(answer) \notin Stops
           /\ turn' = [prompt |-> prompt, answer |-> answer, limit |-> limit,
                       at |-> r.start, drafts |-> drafts, beside |-> beside]
           /\ target' = r.target
           /\ IF drafts
              THEN drafter' = Attached(prompt, r.start) /\ cached' = None
              ELSE UNCHANGED <<drafter, cached>>
  /\ phase' = "prefill" /\ cursor' = NoCursor
  /\ sent' = <<>> /\ next' = Odd /\ untaken' = FALSE /\ steps' = 0
  /\ resident' = <<>> /\ why' = "none" /\ turns' = turns + 1
  /\ UNCHANGED config

-----------------------------------------------------------------------------
(* The ways a turn ends.                                                   *)

(* abandon: the conversation is forgotten and the answer fails.            *)
Abandoned(t) ==
  /\ phase' = "idle" /\ why' = "failed"
  /\ target' = [DiscardStep(t) EXCEPT !.filled = 0]
  /\ resident' = <<>>
  /\ UNCHANGED <<config, turn, cursor, cached, sent, next, untaken, steps, turns>>

(* A step of the generation that fails: the client is gone, a page cannot
   be had, or the forward failed for good.                                 *)
Fail ==
  /\ phase \in {"prefill", "cursor", "plain", "pipe", "row"}
  /\ Abandoned(target) /\ UNCHANGED drafter

(* Reply::take of a token, the text ending the reply or not: the reply
   after it, and what ended it.                                            *)
Taken(token) ==
  IF token \in Stops THEN {[sent |-> sent, why |-> "stop"]}
  ELSE {[sent |-> Append(sent, token), why |-> "text"],
        [sent |-> Append(sent, token),
         why |-> IF Len(sent) + 1 >= turn.limit THEN "limit" ELSE "none"]}

(* finish: the stream with rows is recorded, unless accepted drafts are
   ahead of the reply, and a step left queued is discarded.                *)
Finish ==
  /\ phase = "ending"
  /\ phase' = "idle"
  /\ IF steps > Len(sent)
     THEN resident' = <<>> /\ target' = [DiscardStep(target) EXCEPT !.filled = 0]
     ELSE /\ resident' = turn.prompt \o Prefix(sent, steps)
          /\ target' = DiscardStep(target)
  /\ UNCHANGED <<config, turn, cursor, drafter, cached, sent, next, untaken, steps,
                 why, turns>>

(* committed_history: what the drafting turn leaves for the next one.      *)
Recorded == IF drafter.tokens # None /\ Len(drafter.tokens) = drafter.history
            THEN [tokens |-> drafter.tokens, floor |-> drafter.floor] ELSE None

-----------------------------------------------------------------------------
(* The drafter's side of a turn.                                           *)

(* can_draft and keeps_rows                                                *)
CanDraft(pos) == pos + Block <= Capacity /\ Block <= Cell - (pos % Cell)
KeepsRows(start, n) == /\ drafter.tokens # None /\ start = drafter.history
                       /\ n <= Cell /\ start + n <= Capacity

(* commit: the features of the accepted inputs go into the history.        *)
Learned(start, inputs, made) ==
  [drafter EXCEPT !.rows = [i \in DOMAIN @ |-> IF i \in start .. start + Len(inputs) - 1
                                              THEN made[i - start + 1] ELSE @[i]],
                  !.history = start + Len(inputs),
                  !.tokens = IF @ = None THEN None ELSE @ \o inputs]

(* A commit that does not follow the history is refused and fails the turn. *)
Follows(start) == start = drafter.history

(* FeatureTaps::compact, then the first rows are the path's.               *)
Compacted(made, path) ==
  FoldLeft(LAMBDA held, d : [held EXCEPT ![d] = held[path[d]]], made,
           [d \in 1 .. Len(path) |-> d])

-----------------------------------------------------------------------------
(* The prefill, a chunk at a time, cut on the cell grid.                   *)

Anchor == ResumePoint(Size, Size)

(* The first token and the loop it starts: the cursor, queued steps, single
   steps, or a row that joins the others.                                  *)
Begin(t, others) ==
  LET first == Pick(Reads(t, t.plane, Size), Truth)
  IN  /\ next' = first
      /\ IF turn.beside
         THEN phase' = "row" /\ untaken' = TRUE /\ target' = t /\ cursor' = NoCursor
         ELSE IF turn.drafts
         THEN /\ phase' = "cursor" /\ target' = t /\ UNCHANGED untaken
              /\ cursor' = IF first \in Stops
                           THEN [NoCursor EXCEPT !.pos = Size, !.speculative = TRUE]
                           ELSE [pos |-> Size, pending |-> <<first>>, generated |-> 1,
                                 speculative |-> TRUE, capturing |-> TRUE,
                                 terminal |-> turn.limit = 1]
         ELSE IF config.pipe /\ turn.limit > 1 /\ ~others
         THEN /\ phase' = "pipe" /\ UNCHANGED <<untaken, cursor>>
              /\ \E r \in QueueStep(t, first, Size, Truth) : r.ok /\ target' = r.t
         ELSE phase' = "plain" /\ target' = t /\ UNCHANGED <<untaken, cursor>>

Prefill ==
  /\ phase = "prefill"
  /\ LET n     == Min({Cell - (turn.at % Cell), Size - turn.at})
         chunk == SubSeq(turn.prompt, turn.at + 1, turn.at + n)
         ran   == Prefilled(target, chunk, turn.at, Anchor)
         over  == turn.at + n = Size
     IN  /\ turn' = [turn EXCEPT !.at = @ + n]
         /\ IF turn.drafts
            THEN /\ Follows(turn.at)
                 /\ drafter' = Learned(turn.at, chunk,
                                       [i \in 1 .. n |-> ran.rows[turn.at + i - 1]])
            ELSE UNCHANGED drafter
         /\ IF over THEN \E others \in Others : Begin([ran EXCEPT !.filled = Size], others)
            ELSE target' = ran /\ UNCHANGED <<phase, next, untaken, cursor>>
  /\ UNCHANGED <<config, cached, sent, steps, resident, why, turns>>

-----------------------------------------------------------------------------
(* The cursor: a round is drafted and verified, its tokens handed out.     *)

(* ... not counting the token the verification itself picks.               *)
RemainingPastPick == turn.limit - cursor.generated + 1

Remaining == turn.limit - cursor.generated
CanRun == cursor.speculative /\ Remaining >= MinRemaining /\ CanDraft(cursor.pos)

(* After a forward that took the cursor's anchor: the tokens it accepted
   past the anchor, the pick after them.                                   *)
Advanced(taken, pick) ==
  LET made == cursor.generated + Len(taken)
      stop == pick \in Stops
  IN  [cursor EXCEPT !.pos = @ + Len(taken) + 1,
         !.pending = IF stop THEN taken ELSE Append(taken, pick),
         !.generated = IF stop THEN made ELSE made + 1,
         !.terminal = stop \/ made + 1 = turn.limit]

(* ... as if a block had to fit where the cursor stands.                   *)
DraftsHere(c) ==
  LET left == turn.limit - c.generated
  IN  ~c.terminal /\ left >= MinRemaining /\ CanDraft(c.pos)

(* drafts_again                                                            *)
DraftsAgain(c) ==
  LET left == turn.limit - c.generated
  IN  /\ ~c.terminal /\ left >= MinRemaining
      /\ CanDraft(c.pos) \/ Bridges(c.pos, left)

(* The anchor is the last token handed out.                                *)
NeedsRound == phase = "cursor" /\ cursor.pending = <<>> /\ ~cursor.terminal

(* A drafted round: a chain cut before its first stop token, or a tree that
   fits; the history takes it when a later round drafts from it or when it
   outlives the turn.                                                      *)
Rounds(chain, tree) ==
  LET cut    == Min({Len(chain) + 1} \cup {i \in 1 .. Len(chain) : chain[i] \in Stops})
      tokens == <<next>> \o Prefix(chain, cut - 1)
      pos    == cursor.pos
      fits   == tree # None /\ Len(tree.parents) <= Cell - (pos % Cell)
                /\ pos + Len(tree.parents) <= Capacity
      most(n) == Min({Remaining, Max({n, Block})})
  IN  IF fits
      THEN {VerifyTree(target, <<next>> \o tree.tokens, tree.parents, pos,
                       most(Len(tree.parents)), Stops, Truth)}
      ELSE IF cut = 1 THEN {}
      ELSE {VerifyBlock(target, tokens, pos, Min({Remaining, Len(tokens)}), Truth),
            VerifyTree(target, tokens, [i \in 1 .. Len(tokens) |-> i - 1], pos,
                       Min({Remaining, Len(tokens)}), Stops, Truth)}

Trees == UNION { { [parents |-> shape, tokens |-> named] :
                   named \in {f \in [1 .. Len(shape) - 1 -> Token \ Stops] :
                     \A i, j \in 1 .. Len(shape) - 1 :
                       i # j /\ shape[i + 1] = shape[j + 1] => f[i] # f[j]} }
                 : shape \in Shapes }

Round ==
  /\ NeedsRound /\ CanRun
  /\ Follows(cursor.pos)
  /\ \E chain \in [1 .. Block - 1 -> Token], tree \in Trees \cup {None} :
     \E v \in Rounds(chain, tree) :
       LET made  == Compacted(v.made, v.path)
           c     == Advanced(Tail(v.taken), v.pick)
       IN  /\ target' = v.t /\ cursor' = c
           /\ IF DraftsAgain(c) \/ KeepsRows(cursor.pos, Len(v.taken))
              THEN drafter' = Learned(cursor.pos, v.taken, made) ELSE UNCHANGED drafter
  /\ UNCHANGED <<config, turn, phase, cached, sent, next, untaken, steps, resident, why, turns>>

(* A single step of the cursor: between two cells, past the budget, when
   the drafter abstains or its chain starts with a stop token.             *)
Single ==
  /\ NeedsRound
  /\ LET ends == /\ cursor.speculative /\ ~CanRun
                 /\ Remaining < MinRemaining \/ ~Bridges(cursor.pos, Remaining)
         c0   == IF ends THEN [cursor EXCEPT !.speculative = FALSE,
                                 !.capturing = @ /\ KeepsRows(cursor.pos, 1)]
                 ELSE cursor
         pos  == cursor.pos
     IN  \E r \in ForwardNext(target, next, pos, Truth) :
           /\ r.ok /\ target' = r.t
           /\ LET c    == [Advanced(<<>>, r.t.last) EXCEPT !.speculative = c0.speculative,
                                                          !.capturing = c0.capturing]
                  keep == \/ c0.speculative /\ DraftsAgain(c)
                          \/ KeepsRows(pos, 1)
              IN  IF ~c0.capturing THEN cursor' = c /\ UNCHANGED drafter
                  ELSE IF keep
                  THEN /\ Follows(pos) /\ cursor' = c
                       /\ drafter' = Learned(pos, <<next>>, <<r.t.rows[pos]>>)
                  ELSE /\ UNCHANGED drafter
                       /\ cursor' = [c EXCEPT !.capturing = c0.speculative]
  /\ UNCHANGED <<config, turn, phase, cached, sent, next, untaken, steps, resident, why, turns>>

(* The cursor's next token goes to the reply; with others waiting and the
   round handed out, the request leaves for the co-batch.                  *)
Deliver ==
  /\ phase = "cursor" /\ ~NeedsRound
  /\ steps' = cursor.pos - Size
  /\ IF cursor.pending = <<>>
     THEN /\ phase' = "ending" /\ why' = "stop" /\ cached' = Recorded
          /\ UNCHANGED <<cursor, sent, next>>
     ELSE /\ next' = Head(cursor.pending)
          /\ cursor' = [cursor EXCEPT !.pending = Tail(@)]
          /\ \E reply \in Taken(next'), others \in Others :
               /\ sent' = reply.sent /\ why' = reply.why
               /\ phase' = IF reply.why # "none" THEN "ending"
                           ELSE IF Tail(cursor.pending) = <<>> /\ others THEN "row"
                           ELSE "cursor"
               /\ cached' = IF phase' = "cursor" THEN cached ELSE Recorded
  /\ UNCHANGED <<config, turn, target, drafter, untaken, resident, turns>>

-----------------------------------------------------------------------------
(* Decoding without a drafter.                                             *)

(* One pass of the loop with single steps.                                 *)
PlainStep ==
  /\ phase = "plain"
  /\ \E reply \in Taken(next), hand \in Others :
       /\ sent' = reply.sent
       /\ IF reply.why # "none"
          THEN phase' = "ending" /\ why' = reply.why /\ UNCHANGED <<target, next, steps>>
          ELSE IF hand
          THEN phase' = "row" /\ UNCHANGED <<target, next, steps, why>>
          ELSE \E r \in ForwardNext(target, next, Size + steps, Truth) :
                 /\ target' = r.t
                 /\ IF r.ok THEN /\ next' = r.t.last /\ steps' = steps + 1
                                 /\ UNCHANGED <<phase, why>>
                    ELSE /\ phase' = "ending" /\ why' = "failed"
                         /\ UNCHANGED <<next, steps>>
  /\ UNCHANGED <<config, turn, cursor, drafter, cached, untaken, resident, turns>>

(* ... and with the step at `next` already queued: the one after it is
   queued before its pick is read.                                         *)
PipeStep ==
  /\ phase = "pipe"
  /\ \E reply \in Taken(next), hand \in Others :
       /\ sent' = reply.sent
       /\ IF reply.why # "none"
          THEN phase' = "ending" /\ why' = reply.why /\ UNCHANGED <<target, next, steps, untaken>>
          ELSE LET more   == ~hand /\ steps + 2 < turn.limit
                   queued == IF more THEN QueueStep(target, OnDevice, Size + steps + 1, Truth)
                             ELSE {[ok |-> TRUE, t |-> target]}
               IN  \E q \in queued :
                   \E r \in IF q.ok THEN WaitStep(q.t, Truth) ELSE {q} :
                     /\ target' = r.t
                     /\ IF ~r.ok
                        THEN /\ phase' = "ending" /\ why' = "failed"
                             /\ UNCHANGED <<next, steps, untaken>>
                        ELSE /\ next' = r.t.last /\ steps' = steps + 1
                             /\ phase' = IF hand THEN "row" ELSE "pipe"
                             /\ untaken' = hand /\ UNCHANGED why
  /\ UNCHANGED <<config, turn, cursor, drafter, cached, resident, turns>>

(* A row of the co-batch takes a token it has not handed on, or a step.    *)
RowStep ==
  /\ phase = "row"
  /\ IF untaken THEN UNCHANGED <<target, next, steps>>
     ELSE \E r \in RowForward(target, next, target.filled, Truth)
                   \cup ForwardNext(target, next, target.filled, Truth) :
            /\ r.ok /\ target' = r.t
            /\ next' = r.t.last /\ steps' = steps + 1
  /\ untaken' = FALSE
  /\ \E reply \in Taken(next') :
       /\ sent' = reply.sent /\ why' = reply.why
       /\ phase' = IF reply.why # "none" THEN "ending" ELSE "row"
  /\ UNCHANGED <<config, turn, cursor, drafter, cached, resident, turns>>

Next == \/ StartTurn \/ Prefill \/ Round \/ Single \/ Deliver
        \/ PlainStep \/ PipeStep \/ RowStep \/ Finish \/ Fail

Spec == Init /\ [][Next]_vars

-----------------------------------------------------------------------------
(* Properties.                                                             *)

(* The state has its types: the cursor, the drafter and the recorded
   history stay within the cache, and at most two steps are queued.        *)
TypeOK ==
  /\ config \in Configs /\ turns \in 0 .. MaxTurns
  /\ phase \in {"idle", "prefill", "cursor", "plain", "pipe", "row", "ending"}
  /\ why \in {"none", "stop", "limit", "text", "failed"}
  /\ target.plane \in 0 .. Planes - 1 /\ target.following \in 0 .. Planes - 1
  /\ target.filled \in 0 .. Capacity /\ Len(target.queue) \in 0 .. 2
  /\ DOMAIN target.rows = 0 .. Capacity - 1 /\ DOMAIN target.planes = 0 .. Planes - 1
  /\ drafter.floor \in 0 .. drafter.history /\ drafter.history \in 0 .. Capacity
  /\ next \in Token \cup {Odd} /\ untaken \in BOOLEAN /\ Len(sent) <= turn.limit
  /\ cursor.generated \in 0 .. turn.limit

(* Whatever route decodes it -- verified chains and trees, single steps,
   queued steps that fail and run again, a hand-over to the co-batch -- the
   reply is the target's greedy continuation, and it ends at the first stop
   token, at its budget or where its text ends.                            *)
Promise == INSTANCE GreedyDecode WITH
             answer <- turn.answer, limit <- turn.limit,
             open <- phase # "idle", why <- IF phase = "idle" THEN why ELSE "none"
DecodesGreedily == Promise!Spec

(* Rows [0, n) hold the stream's first n tokens.                           *)
Covers(rows, from, n, stream) ==
  \A i \in from .. n - 1 : rows[i] = Prefix(stream, i + 1)

(* Between two turns nothing is in flight, and a recorded stream is one the
   target's state stands behind: its rows, the plane the next step reads
   and the note a pool's checkpoint or a later turn starts from.           *)
StateIsTheStreams ==
  phase = "idle" /\ resident # <<>> =>
    /\ target.queue = <<>> /\ target.following = target.plane
    /\ Covers(target.rows, 0, Len(resident), resident)
    /\ target.planes[target.plane] # Wrong
    /\ Len(target.planes[target.plane]) = target.filled
    /\ target.filled >= Len(resident)
    /\ target.noteAt \in 1 .. Len(resident) /\ target.note # Wrong =>
         target.note = Prefix(resident, target.noteAt)

(* The drafter's history is the target's stream.  A round that will draft,
   now or once single steps have reached the next cell, finds a row for
   every position up to its anchor; and the history kept between turns is
   the one its rows were computed over.                                    *)
HistoryFollows ==
  /\ NeedsRound /\ cursor.speculative
       /\ (CanRun \/ Bridges(cursor.pos, Remaining)) =>
       /\ drafter.history = cursor.pos
       /\ Covers(drafter.rows, drafter.floor, cursor.pos, Truth)
  /\ phase = "prefill" /\ turn.drafts => drafter.history = turn.at
  /\ cached # None =>
       Covers(drafter.rows, cached.floor, Len(cached.tokens), cached.tokens)

(* What the doc of between_rounds promises a row that takes over: the last
   token handed out is the one token the cache does not hold.              *)
RowFeedsTheAnchor ==
  phase = "row" => target.filled = Size + Len(sent) - (IF untaken THEN 0 ELSE 1)
=============================================================================
