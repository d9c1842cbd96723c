--------------------------- MODULE MCCheckpoints ---------------------------
(* One conversation and steps of two contents; and eight requests of two    *)
(* conversations, one after the other.                                      *)
EXTENDS Checkpoints

CONSTANTS step1, step2, conv1

MCStep == {step1, step2}
MCConv == {conv1}
Symmetric == Permutations(MCStep)

(* Of whom, a prompt of how many steps, the branch point that waits for the *)
(* end of the turn (0: none), and how many steps it ends with.              *)
Other == CHOOSE c \in Conv : c # conv1
Requests ==
  LET Asks(c, n, b, t) == [of |-> c, prompt |-> n, branch |-> b, end |-> t]
  IN  << Asks(conv1, 3, 0, 3), Asks(conv1, 5, 0, 5), Asks(Other, 3, 0, 4), Asks(conv1, 4, 4, 6),
         Asks(Other, 2, 0, 2), Asks(Other, 1, 0, 1), Asks(Other, 2, 0, 4), Asks(conv1, 4, 0, 6) >>

Steps(n) == [i \in 1..n |-> step1]

Request ==
  \/ /\ run = None /\ events < Len(Requests)
     /\ LET r == Requests[events + 1]
        IN  Continue(r.of, Steps(r.prompt)) \/ Switch(r.of, Steps(r.prompt))
  \/ /\ run # None
     /\ LET r == Requests[events] IN Finish(r.branch, Steps(r.end))

Scripted == Init /\ [][Request]_vars
=============================================================================
