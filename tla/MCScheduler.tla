---------------------------- MODULE MCScheduler ----------------------------
(* Three requests, two of them turns of one conversation.                   *)
EXTENDS Scheduler, TLC

CONSTANTS a, b, j1, j2, j3

MCConv == {a, b}
MCJob == {j1, j2, j3}
MCConvOf == (j1 :> a) @@ (j2 :> b) @@ (j3 :> a)
MCPrompt == (j1 :> 1) @@ (j2 :> 2) @@ (j3 :> 3)
MCReply == (j1 :> 7) @@ (j2 :> 2) @@ (j3 :> 1)
=============================================================================
