---------------------------- MODULE RequestReply ----------------------------
(***************************************************************************)
(* What a transport promises to the callers of send_message: every request *)
(* gets at most one outcome, and a response only if the peer answered that *)
(* very request.  MessageDispatcher implements it.                         *)
(***************************************************************************)
CONSTANTS Calls, RequestId

VARIABLES
    answered,  \* the requests, as <<call, id>>, the peer has answered
    outcome    \* what a call was told about the request it sent under an id

Init ==
    /\ answered = {}
    /\ outcome = [c \in Calls |-> [i \in RequestId |-> "none"]]

PeerAnswers(c, i) ==
    /\ answered' = answered \cup {<<c, i>>}
    /\ UNCHANGED outcome

\* A call gets the response to its own request.
Respond(c, i) ==
    /\ outcome[c][i] = "none"
    /\ <<c, i>> \in answered
    /\ outcome' = [outcome EXCEPT ![c][i] = "response"]
    /\ UNCHANGED answered

\* Some requests without an outcome fail together (a timeout, a failed write,
\* a dropped caller, a closed connection).
Fail ==
    /\ \A c \in Calls, i \in RequestId :
          outcome'[c][i] # outcome[c][i] =>
              outcome[c][i] = "none" /\ outcome'[c][i] = "error"
    /\ outcome' = [c \in Calls |-> [i \in RequestId |-> outcome'[c][i]]]
    /\ UNCHANGED answered

Next ==
    \/ \E c \in Calls, i \in RequestId : PeerAnswers(c, i) \/ Respond(c, i)
    \/ Fail

Spec == Init /\ [][Next]_<<answered, outcome>>

=============================================================================
