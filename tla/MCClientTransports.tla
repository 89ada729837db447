------------------------ MODULE MCClientTransports ------------------------
(* ClientTransports for TLC: a child process, streams that break while they *)
(* are read, and writes while the transport is shut down.                   *)
EXTENDS ClientTransports

Setup(k, sizes, writes, big, faults) ==
    [kind |-> k, sizes |-> sizes, writes |-> writes, big |-> big, faults |-> faults]

\* The second message is too long for a line.
Piped == Setup("stdio", <<2, 3, 1>>, 0, {}, 0)

SseRead == Setup("sse", <<1>>, 0, {}, 2)

StandaloneRead == Setup("standalone", <<1, 1>>, 0, {}, 1)

Refused == Setup("standalone", <<>>, 0, {}, 3)

Written == Setup("standalone", <<>>, 3, {2}, 0)

WrittenSse == Setup("sse", <<>>, 1, {}, 0)

AllSetups == {Piped, SseRead, StandaloneRead, Refused, Written, WrittenSse}

=============================================================================
