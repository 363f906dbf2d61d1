------------------------------ MODULE RpcProxy ------------------------------
(***************************************************************************)
(* What an agent may expect of its calls, whatever stands between it and   *)
(* the apps: a call is queued, then either answered by the proxy itself or *)
(* forwarded to a backend; a forwarded call ends with the backend's reply  *)
(* to it or with an error.  It is answered once, and until then it is      *)
(* never forgotten.                                                        *)
(***************************************************************************)
EXTENDS Sequences

CONSTANT Ids     \* ids of calls, each used once

VARIABLES
    stage,       \* id -> free, queued, forwarded or answered
    answers      \* id -> what the call was answered

vars == <<stage, answers>>

Failed == <<"error">>
Own == {Failed, <<"apps">>}       \* what the proxy answers by itself
ReplyTo(id) == <<"reply", id>>

Init ==
    /\ stage = [id \in Ids |-> "free"]
    /\ answers = [id \in Ids |-> <<>>]

Ask(id) ==
    /\ stage[id] = "free"
    /\ stage' = [stage EXCEPT ![id] = "queued"]
    /\ UNCHANGED answers

Forward(id) ==
    /\ stage[id] = "queued"
    /\ stage' = [stage EXCEPT ![id] = "forwarded"]
    /\ UNCHANGED answers

Settle(id, what) ==
    /\ stage' = [stage EXCEPT ![id] = "answered"]
    /\ answers' = [answers EXCEPT ![id] = Append(@, what)]

AnswerHere(id) == stage[id] = "queued" /\ \E what \in Own : Settle(id, what)

Relay(id) == stage[id] = "forwarded" /\ Settle(id, ReplyTo(id))

\* A backend is gone: the calls S that it had get an error.
Fail(S) ==
    /\ \A id \in S : stage[id] = "forwarded"
    /\ stage' = [id \in Ids |-> IF id \in S THEN "answered" ELSE stage[id]]
    /\ answers' = [id \in Ids |-> IF id \in S THEN Append(answers[id], Failed) ELSE answers[id]]

Next ==
    \/ \E id \in Ids : Ask(id) \/ Forward(id) \/ AnswerHere(id) \/ Relay(id)
    \/ \E S \in SUBSET Ids : Fail(S)

Spec == Init /\ [][Next]_vars

=============================================================================
