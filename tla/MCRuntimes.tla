----------------------------- MODULE MCRuntimes -----------------------------
(* Small instances of Runtimes for TLC: see the README for the bounds.       *)
EXTENDS Runtimes

CONSTANTS c1, c2

\* Both sides have every store and the handlers of the requests below.
Base ==
    [client |-> 1, server |-> 1, serverCore |-> FALSE, clientCore |-> FALSE,
     serverCaps |-> {"tools"}, clientCaps |-> {"elicitation"},
     serverOwn |-> {"callTool", "listTools"}, clientOwn |-> {"elicit", "elicitTask", "getTask"},
     serverStore |-> TRUE, clientStore |-> TRUE, serverTracks |-> TRUE,
     calls |-> {"callTool"}, asks |-> {}, notes |-> FALSE,
     stops |-> FALSE, waits |-> FALSE, early |-> FALSE]

\* The versions with both kinds of server handler.
Handshakes ==
    {[Base EXCEPT !.client = v, !.server = w, !.serverCore = core, !.waits = TRUE,
                  !.early = TRUE] : v, w \in 1..2, core \in BOOLEAN}

\* Requests that one side or the other does not serve, and a client that stops.
Refusals ==
    {[Base EXCEPT !.serverCaps = {}, !.calls = {"callTool", "ping"}, !.stops = TRUE, !.early = TRUE],
     [Base EXCEPT !.serverOwn = {}, !.calls = {"callTool", "listTools"}],
     [Base EXCEPT !.calls = {"callToolTask"}, !.serverStore = FALSE],
     [Base EXCEPT !.clientCaps = {}, !.asks = {"elicit"}],
     [Base EXCEPT !.clientOwn = {}, !.asks = {"elicit"}],
     [Base EXCEPT !.clientCaps = {}, !.clientCore = TRUE, !.asks = {"listRoots"}]}

\* Tools that ask a client that may stop, and tools that notify it.
Nested ==
    {[Base EXCEPT !.asks = {"elicit"}, !.stops = TRUE],
     [Base EXCEPT !.notes = TRUE]}

\* Tools that start tasks on the client, which the server tracks and polls.
MCTaskConfs == {[Base EXCEPT !.asks = {"elicitTask"}, !.clientCaps = {"elicitation", "tasks"}]}

MCConfs == Handshakes \cup Refusals \cup Nested \cup MCTaskConfs
MCCalls == {c1, c2}
=============================================================================
