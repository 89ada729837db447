------------------------------ MODULE MCStores ------------------------------
(***************************************************************************)
(* The stores of a server for TLC, one at a time: SessionStore,            *)
(* EventStore, Resumability (the event store in use) and SnowflakeIds,     *)
(* which names what is stored.                                             *)
(***************************************************************************)
EXTENDS SessionStore, EventStore, Resumability, SnowflakeIds

VARIABLE part    \* the one that runs

\* Two threads share a generator, another has its own.
MCHome == [a |-> 0, b |-> 0, c |-> 1]

MCThreads == DOMAIN MCHome

MCStreams == {GetStream, PostStream}

\* A handler or a session is as good as another.
Symmetry == Permutations(Handlers) \cup Permutations(EventSessions)

StoresInit ==
    /\ part \in {"sessions", "events", "resume", "ids"}
    /\ Init /\ EventsInit /\ ResumeInit /\ IdsInit

StoresNext ==
    \/ part = "sessions" /\ Next /\ UNCHANGED <<part, eventVars, resumeVars, idVars>>
    \/ part = "events" /\ EventsNext /\ UNCHANGED <<part, vars, resumeVars, idVars>>
    \/ part = "resume" /\ ResumeNext /\ UNCHANGED <<part, vars, eventVars, idVars>>
    \/ part = "ids" /\ IdsNext /\ UNCHANGED <<part, vars, eventVars, resumeVars>>

StoresSpec == StoresInit /\ [][StoresNext]_<<part, vars, eventVars, resumeVars, idVars>>

=============================================================================
