------------------------------- MODULE Target -------------------------------
(***************************************************************************)
(* The target model's decode state and the steps that advance it, as       *)
(* operators on one record.                                                *)
(*                                                                         *)
(* A cache row, a recurrent plane and a checkpoint note each hold the      *)
(* tokens they were computed over, a prefix of some stream; Wrong is a     *)
(* value computed over anything else.  A step reads the rows below its     *)
(* position and one plane: it is right when they agree on one prefix.      *)
(***************************************************************************)
EXTENDS Integers, FiniteSetsExt, SequencesExt

CONSTANTS Wrong,     \* a value that describes no stream
          Odd,       \* the token a target computing over it picks
          Capacity,  \* positions of the cache
          Cell,      \* rows of a prefill cell
          Grid,      \* tokens between two checkpoint boundaries
          History,   \* inputs a convolution window keeps
          Interleaved, Mega \* the decode routes of the plan

ASSUME TargetAssumption ==
  /\ Capacity \in Nat \ {0} /\ Cell \in Nat \ {0} /\ Grid \in Nat \ {0}
  /\ History \in Nat \ {0}
  /\ Interleaved \in BOOLEAN /\ Mega \in BOOLEAN

(* ... without the one a step run again reads.                             *)
PlanesInFlight == IF Interleaved THEN 2 ELSE 1

(* ModelPlan::recur_planes: one plane per step in flight and one more for a
   step that is run again.                                                 *)
Planes == (IF Interleaved THEN 2 ELSE 1) + (IF Mega THEN 1 ELSE 0)

Blank == [rows |-> [i \in 0 .. Capacity - 1 |-> Wrong],
          planes |-> [p \in 0 .. Planes - 1 |-> <<>>],
          plane |-> 0, following |-> 0,
          filled |-> 0, noteAt |-> 0, note |-> Wrong,
          queue |-> <<>>, last |-> Odd]

Prefix(s, n) == SubSeq(s, 1, n)
Floor(n) == (n \div Grid) * Grid

(* What a forward at pos reads: the plane, if it and every row below pos
   describe the same stream.                                               *)
Reads(t, plane, pos) ==
  LET p == t.planes[plane]
  IN  IF /\ p # Wrong /\ Len(p) = pos
         /\ \A i \in 0 .. pos - 1 : t.rows[i] = Prefix(p, i + 1)
      THEN p ELSE Wrong

Fed(p, token) == IF p = Wrong THEN Wrong ELSE Append(p, token)

(* The greedy pick after p, when the truth is the stream the target would
   write.                                                                  *)
Pick(p, truth) ==
  IF p # Wrong /\ Len(p) < Len(truth) /\ IsPrefix(p, truth)
  THEN truth[Len(p) + 1] ELSE Odd

(* WorkflowState::recur_decode_planes, the plane a step writes.            *)
WritePlane(t) == (t.following + 1) % Planes

(* The note a step leaves that reaches the grid boundary at.               *)
Noted(t, at, p) == IF at % Grid = 0 THEN [t EXCEPT !.noteAt = at, !.note = p] ELSE t

(* device_step and recur_commit_step: one token at pos.                    *)
Stepped(t, token, pos, truth) ==
  LET p == Fed(Reads(t, t.following, pos), token)
  IN  Noted([t EXCEPT !.rows[pos] = p, !.planes[WritePlane(t)] = p,
                      !.plane = WritePlane(t), !.following = WritePlane(t),
                      !.filled = pos + 1, !.last = Pick(p, truth)], pos + 1, p)

(* A failed step: what it wrote is lost, and the encode cursor goes back to
   the plane it read.                                                      *)
Torn(t, pos) == [t EXCEPT !.rows[pos] = Wrong, !.planes[WritePlane(t)] = Wrong,
                          !.following = t.plane]

(* forward_next: a failed step is run once more when a plane still holds
   the state it read.                                                      *)
ForwardNext(t, token, pos, truth) ==
  IF pos + 1 > Capacity THEN {[ok |-> FALSE, t |-> t]}
  ELSE {[ok |-> TRUE, t |-> Stepped(t, token, pos, truth)],
        [ok |-> FALSE, t |-> Torn(t, pos)]}
       \cup (IF Planes > 1
             THEN {[ok |-> TRUE, t |-> Stepped(Torn(t, pos), token, pos, truth)]}
             ELSE {})

(* One row of decode_rows: as a step alone, and never run again.           *)
RowForward(t, token, pos, truth) ==
  {[ok |-> FALSE, t |-> t], [ok |-> TRUE, t |-> Stepped(t, token, pos, truth)]}

OnDevice == "on device"

(* queue_step: the step is encoded behind those queued; the device runs it
   before anything the host does next, and may fail it.  With the token on
   the device it reads the pick of the step before it.                     *)
QueueStep(t, token, pos, truth) ==
  IF pos + 1 > Capacity \/ Len(t.queue) >= 2 THEN {[ok |-> FALSE, t |-> t]}
  ELSE LET fed  == IF token # OnDevice THEN token
                   ELSE Pick(Last(t.queue).made, truth)
           out  == WritePlane(t)
           Ran(p, ran) == [t EXCEPT !.rows[pos] = p, !.planes[out] = p, !.following = out,
                             !.queue = Append(@, [pos |-> pos, token |-> token, out |-> out,
                                                  made |-> p, ran |-> ran])]
       IN  {[ok |-> FALSE, t |-> t],
            [ok |-> TRUE, t |-> Ran(Fed(Reads(t, t.following, pos), fed), TRUE)],
            [ok |-> TRUE, t |-> Ran(Wrong, FALSE)]}

(* recover_step: the steps behind the failed one are drained, the cursor
   goes back to the last retired plane, the step is run again, and the one
   behind it is queued with the pick that run made.                        *)
RecoverStep(t, q, truth) ==
  LET drained == [t EXCEPT !.queue = <<>>]
      back    == [drained EXCEPT !.following = t.plane]
      token   == IF q.token # OnDevice THEN q.token ELSE t.last
  IN  IF Planes <= 1 THEN {[ok |-> FALSE, t |-> drained]}
      ELSE UNION { IF ~r.ok \/ t.queue = <<>> THEN {r}
                   ELSE QueueStep(r.t, r.t.last, q.pos + 1, truth)
                   : r \in ForwardNext(back, token, q.pos, truth) }

(* wait_step: the oldest queued step retires, or is recovered.             *)
WaitStep(t, truth) ==
  IF t.queue = <<>> THEN {[ok |-> FALSE, t |-> t]}
  ELSE LET q    == Head(t.queue)
           rest == [t EXCEPT !.queue = Tail(t.queue)]
       IN  IF ~q.ran THEN RecoverStep(rest, q, truth)
           ELSE {[ok |-> TRUE,
                  t |-> Noted([rest EXCEPT !.filled = q.pos + 1, !.plane = q.out,
                                           !.last = Pick(q.made, truth)],
                              q.pos + 1, q.made)]}

(* discard_step: the one step left is dropped and the cursor goes back.    *)
DiscardStep(t) ==
  IF Len(t.queue) = 1 THEN [t EXCEPT !.queue = <<>>, !.following = t.plane] ELSE t

(* The recurrent state as a window of the last inputs, oldest first.       *)
Window(p) == [s \in 1 .. History |->
                LET n == Len(p) - History + s IN IF n > 0 THEN Prefix(p, n) ELSE <<>>]

(* window_sources and commit_conv_windows: the window after the first n
   nodes of a path, from the inputs kept for the nodes and the old window. *)
Rebuilt(old, made, n) ==
  LET depth == n - 1
      Slot(s) == LET back == History - 1 - s
                 IN  IF back <= depth THEN made[depth - back + 1]
                     ELSE Window(old)[History + depth - back + 1]
  IN  IF old # Wrong /\ [s \in 1 .. History |-> Slot(s - 1)] = Window(made[n])
      THEN made[n] ELSE Wrong

(* The greedy walk down a verified tree (tree_accepted_path): nodes are
   numbered from 1 and node i has parent parents[i], the root none.        *)
AcceptedPath(picks, tokens, parents, most, stops) ==
  LET Child(i) == {j \in i + 1 .. Len(tokens) : parents[j] = i /\ tokens[j] = picks[i]}
      walk[n \in 1 .. Len(tokens)] ==
        IF n = 1 THEN <<1>>
        ELSE LET path == walk[n - 1]
                 at   == Last(path)
             IN  IF \/ Len(path) < n - 1 \/ Len(path) >= most
                    \/ picks[at] \in stops \/ Child(at) = {}
                 THEN path
                 ELSE Append(path, Min(Child(at)))
  IN  walk[Len(tokens)]

(* ... the accepted path leaf first.                                       *)
MovedLeafFirst(rows, start, path) ==
  FoldRight(LAMBDA d, held : [held EXCEPT ![start + d - 1] = held[start + path[d] - 1]],
            [d \in 1 .. Len(path) |-> d], rows)

(* kv_move_rows over an accepted path: each node's row moves down to its
   depth, root first.                                                      *)
MovedRows(rows, start, path) ==
  FoldLeft(LAMBDA held, d : [held EXCEPT ![start + d - 1] = held[start + path[d] - 1]],
           rows, [d \in 1 .. Len(path) |-> d])

(* What every verify leaves: the accepted prefix filled, the live state on
   plane 0, and the note at a grid boundary the accepted tokens crossed.   *)
Settled(t, rows, start, made, state, after) ==
  LET end == start + Len(made)
      cut == Floor(end)
      s   == [t EXCEPT !.rows = rows, !.planes[0] = state, !.plane = 0, !.following = 0,
                       !.filled = end]
  IN  IF cut > start THEN [s EXCEPT !.noteAt = cut, !.note = after[cut - start]] ELSE s

(* verify_workflow_tree_rows: every node's row from its ancestors, the walk
   over the picks, the accepted rows moved down and the windows rebuilt.   *)
VerifyTree(t, tokens, parents, start, most, stops, truth) ==
  LET old  == Reads(t, t.plane, start)
      node[j \in 1 .. Len(tokens)] ==
        Fed(IF j = 1 THEN old ELSE node[parents[j]], tokens[j])
      written == [i \in DOMAIN t.rows |->
                    IF i \in start .. start + Len(tokens) - 1
                    THEN node[i - start + 1] ELSE t.rows[i]]
      picks == [j \in 1 .. Len(tokens) |-> Pick(node[j], truth)]
      path  == AcceptedPath(picks, tokens, parents, most, stops)
      made  == [i \in 1 .. Len(path) |-> node[path[i]]]
      after == [n \in 1 .. Len(path) |-> Rebuilt(old, made, n)]
  IN  [path |-> path, pick |-> picks[Last(path)],
       taken |-> [i \in 1 .. Len(path) |-> tokens[path[i]]],
       made |-> [j \in 1 .. Len(tokens) |-> node[j]],
       t |-> Settled(t, MovedRows(written, start, path), start, made,
                     after[Len(path)], after)]

(* verify_workflow_limited: a chain in one block, accepted as far as the
   picks agree, the live state put back from the snapshot kept per token.  *)
VerifyBlock(t, tokens, start, most, truth) ==
  LET old == Reads(t, t.plane, start)
      row[j \in 0 .. Len(tokens)] == IF j = 0 THEN old ELSE Fed(row[j - 1], tokens[j])
      Agrees(i) == i = most \/ Pick(row[i], truth) # tokens[i + 1]
      taken == CHOOSE i \in 1 .. most : Agrees(i) /\ \A k \in 1 .. i - 1 : ~Agrees(k)
  IN  [path |-> [i \in 1 .. taken |-> i], pick |-> Pick(row[taken], truth),
       taken |-> Prefix(tokens, taken),
       made |-> [j \in 1 .. Len(tokens) |-> row[j]],
       t |-> Settled(t, [i \in DOMAIN t.rows |->
                           IF i \in start .. start + Len(tokens) - 1
                           THEN row[i - start + 1] ELSE t.rows[i]],
                     start, [j \in 1 .. taken |-> row[j]], row[taken], row)]

(* One prefill chunk at pos: in place on the live plane, or as a decode
   step when it holds one token; the note when it passes the anchor, or
   stands on it.  A prefill from 0 clears the planes, and leaves a note
   kept on the host.                                                       *)
Prefilled(t, tokens, pos, anchor) ==
  LET n    == Len(tokens)
      zero == IF pos = 0 THEN [t EXCEPT !.planes = [p \in DOMAIN @ |-> <<>>],
                                        !.plane = 0, !.following = 0]
              ELSE t
      out  == IF n = 1 THEN WritePlane(zero) ELSE zero.plane
      row[j \in 0 .. n] == IF j = 0
                           THEN Reads(zero, IF n = 1 THEN zero.following ELSE zero.plane, pos)
                           ELSE Fed(row[j - 1], tokens[j])
      ran  == [zero EXCEPT !.rows = [i \in DOMAIN @ |-> IF i \in pos .. pos + n - 1
                                                       THEN row[i - pos + 1] ELSE @[i]],
                           !.planes = [p \in DOMAIN @ |-> IF p = out THEN row[n] ELSE @[p]],
                           !.plane = IF n = 1 THEN out ELSE @,
                           !.following = IF n = 1 THEN out ELSE @]
  IN  IF anchor = pos /\ pos > 0 /\ (t.noteAt # pos \/ t.note = Wrong)
      THEN [ran EXCEPT !.noteAt = pos, !.note = t.planes[t.plane]]
      ELSE IF anchor \in pos + 1 .. pos + n
      THEN [ran EXCEPT !.noteAt = anchor, !.note = row[anchor - pos]] ELSE ran

(* kv_resume of a stream's first `start` tokens: the note installed on
   plane 0, or forgotten when nothing is known of the stream.              *)
Restored(t, stream, start) ==
  [t EXCEPT !.rows = [i \in DOMAIN @ |-> IF i < start THEN Prefix(stream, i + 1) ELSE Wrong],
            !.planes[0] = IF start > 0 THEN Prefix(stream, start) ELSE @,
            !.plane = 0, !.following = 0, !.filled = start, !.noteAt = start,
            !.note = IF start > 0 THEN Prefix(stream, start) ELSE Wrong]
=============================================================================
