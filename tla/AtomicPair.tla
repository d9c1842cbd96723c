----------------------------- MODULE AtomicPair -----------------------------
(***************************************************************************)
(* What a release channel of the Program Pack store promises: one pair of  *)
(* admissions, the current one and the one before it (N-1), that moves from*)
(* generation to generation as a whole.                                    *)
(*                                                                         *)
(* While a move is being made durable either pair may be what is found     *)
(* afterwards; an answer is given only when one is left.  It stands once   *)
(* the channel is kept.  Before, a channel just made may be lost as a whole*)
(* with the power, answered or not.                                        *)
(***************************************************************************)
EXTENDS Integers

CONSTANTS Pack,   \* install digests
          None,   \* no pointer
          MaxGen  \* the greatest generation (u64::MAX)

VARIABLES possible,  \* the pairs the channel may be found at, if it is not lost
          told,      \* the pair last answered of the channel that is there
          kept       \* the channel can no longer be lost

vars == <<possible, told, kept>>

Empty == [generation |-> 0, current |-> None, known |-> None]

Pair == [generation : 0..MaxGen, current : Pack \cup {None}, known : Pack \cup {None}]

(* A rollback is the advance to the pack that was there before.             *)
Advanced(p, i) == [generation |-> p.generation + 1, current |-> i, known |-> p.current]
Successors(p) == {Advanced(p, i) : i \in Pack}

Init == possible = {Empty} /\ told = Empty /\ kept = FALSE

Move ==
  /\ \E p \in possible : \E q \in Successors(p) :
       possible = {p} /\ q.generation <= MaxGen /\ possible' = {p, q}
  /\ UNCHANGED <<told, kept>>

(* A file is made durable; or the power went, and the channel is still      *)
(* there, which keeps it.                                                   *)
Settle ==
  /\ possible' \in SUBSET possible /\ possible' # {}
  /\ kept' \in {kept, TRUE}
  /\ UNCHANGED told

(* The power went and took the channel, with what was answered of it.       *)
Lose ==
  /\ ~kept
  /\ possible' = {Empty} /\ told' = Empty
  /\ UNCHANGED kept

(* A step that makes the last file durable may also answer.                 *)
Answer ==
  /\ \E p \in possible : possible' = {p} /\ told' = p
  /\ UNCHANGED kept

Next == Move \/ Settle \/ Lose \/ Answer
Spec == Init /\ [][Next]_vars

(* What was answered stands while the channel does: every pair it may be    *)
(* found at is that one or a later one.                                     *)
NeverTakenBack ==
  \A p \in possible : p = told \/ p.generation > told.generation

(* A channel that is kept stays so, and its answers never go back.          *)
KeptForGood == [][kept => kept' /\ (told' = told \/ told'.generation > told.generation)]_vars
=============================================================================
