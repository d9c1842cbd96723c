---------------------------- MODULE GreedyDecode ----------------------------
(***************************************************************************)
(* What a greedy request is promised, whichever route decodes it: its      *)
(* reply is the target's greedy continuation, token by token, up to the    *)
(* first stop token, the token budget or a stop found in the text.         *)
(***************************************************************************)
EXTENDS Naturals, Sequences

CONSTANTS Stops,   \* the stop tokens
          Answers, \* the continuations a prompt can have
          Limits   \* the token budgets a request can ask for

VARIABLES answer, \* the target's greedy continuation of the open request
          limit,  \* its token budget
          sent,   \* the tokens its reply holds
          open,   \* whether the request is being answered
          why     \* how the last reply ended

promise == <<answer, limit, sent, open, why>>

Init == answer = <<>> /\ limit = 0 /\ sent = <<>> /\ open = FALSE /\ why = "none"

Ask == /\ ~open
       /\ answer' \in Answers /\ limit' \in Limits
       /\ open' = TRUE /\ sent' = <<>> /\ why' = "none"

Upcoming == answer[Len(sent) + 1]

Send == /\ open
        /\ Len(sent) < limit /\ Len(sent) < Len(answer)
        /\ Upcoming \notin Stops
        /\ sent' = Append(sent, Upcoming)
        /\ UNCHANGED <<answer, limit, open, why>>

End == /\ open
       /\ open' = FALSE
       /\ \/ why' = "stop" /\ Len(sent) < Len(answer) /\ Upcoming \in Stops
          \/ why' = "limit" /\ Len(sent) = limit
          \/ why' = "text" /\ sent # <<>>
          \/ why' = "failed"
       /\ UNCHANGED <<answer, limit, sent>>

Next == Ask \/ Send \/ End
Spec == Init /\ [][Next]_promise
=============================================================================
