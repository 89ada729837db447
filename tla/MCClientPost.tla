---------------------------- MODULE MCClientPost ----------------------------
(***************************************************************************)
(* ClientPost and SseReconnect for TLC: a call over Streamable HTTP, or    *)
(* the channel for messages of the server, which the runtime opens after   *)
(* such a call.                                                            *)
(***************************************************************************)
EXTENDS ClientPost, SseReconnect

VARIABLE part    \* the one that runs

suiteVars == <<part, vars, reconnectVars>>

\* The call has been answered and its transport is gone.
CallOver ==
    /\ caller = "returned" /\ outcome = [r \in Requests |-> "answered"] /\ recv = "done"
    /\ queue = <<>> /\ task = "ended" /\ payload = "call" /\ primed = FALSE /\ retries = 0
    /\ chunk = <<>> /\ inbox = <<>> /\ passed = <<>>
    /\ runtime \in Sessions /\ session = runtime /\ named = runtime
    /\ fresh = FALSE /\ how = "json"

SuiteInit ==
    \/ part = "call" /\ Init /\ ReconnectInit /\ ~options
    \/ part = "channel" /\ CallOver /\ ReconnectInit

SuiteNext ==
    \/ part = "call" /\ Next /\ UNCHANGED <<part, reconnectVars>>
    \/ part = "channel" /\ ReconnectNext /\ UNCHANGED <<part, vars>>

SuiteSpec ==
    /\ SuiteInit /\ [][SuiteNext]_suiteVars
    /\ ClientFairness /\ ServerFairness /\ ReconnectFairness

=============================================================================
