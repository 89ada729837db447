---------------------------- MODULE SseReconnect ----------------------------
(***************************************************************************)
(* The channel for messages of the server in a client over Streamable      *)
(* HTTP: create_sse_stream, sse_reconnect_loop and try_reconnect, and      *)
(* shut_down and terminate_session of the runtime                          *)
(* (crates/rust-mcp-sdk/src/mcp_runtimes/client_runtime.rs).               *)
(*                                                                         *)
(* A transport of the loop holds a GET stream of the server open while     *)
(* something holds the transport: the loop, the runtime's transport_map,   *)
(* or shut_down.  Inside a transport the stream is re-opened as            *)
(* ClientTransports has it; here it is there until it is given up.  An id  *)
(* nobody holds is used again for a new transport.  shut_down holds the    *)
(* mutex of is_shut_down until it returns, so that whoever asks for the    *)
(* flag waits for it.                                                      *)
(***************************************************************************)
EXTENDS Naturals, FiniteSets

CONSTANTS
    Limits,       \* values of request_options.max_retries
    NoLimit       \* max_retries is None

ASSUME SseReconnectAssumption == Limits \subseteq Nat /\ NoLimit \notin Nat

VARIABLES
    limit,       \* max_retries
    options,     \* whether the runtime has transport_options
    stage,       \* where sse_reconnect_loop is
    attempt,     \* reconnect_attempt
    cur,         \* the transport the loop holds, 0 for none
    mapped,      \* the transport in transport_map, 0 for none
    streams,     \* the transports whose GET stream is open
    handle,      \* the loop's JoinHandle in runtime.handlers
    flag,        \* is_shut_down
    closing,     \* where shut_down is
    taken,       \* the transport it has taken, 0 for none
    again,       \* terminate_session will call shut_down once more
    raced        \* shut_down began while the loop was opening a connection

loopVars == <<stage, attempt, cur>>
shutVars == <<flag, closing, taken, again, raced>>
reconnectVars == <<limit, options, loopVars, mapped, streams, handle, shutVars>>

\* The loop, the map and shut_down hold at most three transports.
Transports == 1 .. 4

Over == {"returned", "aborted"}

ReconnectTypeOK ==
    /\ limit \in Limits \cup {NoLimit} /\ options \in BOOLEAN
    /\ stage \in {"unborn", "top", "opening", "storing", "check", "reading",
                  "ended", "sleeping"} \cup Over
    /\ attempt \in Nat
    /\ {cur, mapped, taken} \subseteq Transports \cup {0}
    /\ streams \subseteq {cur, mapped, taken} \ {0}
    /\ handle \in {"none", "pushed", "drained"}
    /\ flag \in BOOLEAN /\ again \in BOOLEAN /\ raced \in BOOLEAN
    /\ closing \in {"idle", "flagged", "stopping", "stopped", "done"}
    /\ cur # 0 => stage \notin {"unborn", "top"} \cup Over

ReconnectInit ==
    /\ options \in BOOLEAN
    /\ limit \in IF options THEN Limits \cup {NoLimit} ELSE {NoLimit}
    /\ stage = "unborn" /\ attempt = 0 /\ cur = 0
    /\ mapped = 0 /\ streams = {} /\ handle = "none"
    /\ flag = FALSE /\ closing = "idle" /\ taken = 0
    /\ again = FALSE /\ raced = FALSE

-----------------------------------------------------------------------------
(* The loop.                                                                 *)

\* The mutex of is_shut_down is free, and an abort has not stopped the loop.
FlagFree == closing \in {"idle", "done"} /\ handle # "drained"

\* What is left open when the loop, the map and shut_down hold these: with
\* its last reference a transport's cancellation source goes, and its tasks end.
Kept(loop, map, call) == streams \cap {loop, map, call}

\* The loop returns and drops its transport.
LoopReturns ==
    /\ stage' = "returned" /\ cur' = 0
    /\ streams' = Kept(0, mapped, taken)

\* create_sse_stream spawns the loop, and then keeps its handle.
CreateSseStream ==
    /\ stage = "unborn"
    /\ stage' = "top"
    /\ UNCHANGED <<limit, options, attempt, cur, mapped, streams, handle, shutVars>>

PushHandle ==
    /\ stage # "unborn" /\ handle = "none"
    /\ handle' = "pushed"
    /\ UNCHANGED <<limit, options, loopVars, mapped, streams, shutVars>>

\* The head of the loop: a transport with the current session id, which
\* cannot be made without transport_options.
NewTransport ==
    /\ stage = "top" /\ FlagFree
    /\ \/ flag /\ LoopReturns
       \/ ~flag /\ options /\ stage' = "opening" /\ UNCHANGED streams
          /\ cur' = CHOOSE t \in Transports : t \notin {mapped, taken}
       \/ ~flag /\ ~options /\ stage' = "ended" /\ UNCHANGED <<cur, streams>>
    /\ UNCHANGED <<limit, options, attempt, mapped, handle, shutVars>>

\* transport.start() has its answer: the server opens the stream or refuses.
Opened ==
    /\ stage = "opening" /\ handle # "drained"
    /\ stage' = "storing" /\ streams' = streams \cup {cur}
    /\ UNCHANGED <<limit, options, attempt, cur, mapped, handle, shutVars>>

Refused ==
    /\ stage = "opening" /\ handle # "drained"
    /\ stage' = "ended"
    /\ UNCHANGED <<limit, options, attempt, cur, mapped, streams, handle, shutVars>>

\* store_transport, in the same poll: an abort comes too late to stop it.
StoreTransport ==
    /\ stage = "storing"
    /\ mapped' = cur /\ streams' = Kept(cur, cur, taken)
    /\ stage' = "check"
    /\ UNCHANGED <<limit, options, attempt, cur, handle, shutVars>>

\* The head of the inner loop.
CheckFlag ==
    /\ stage = "check" /\ FlagFree
    /\ \/ flag /\ LoopReturns
       \/ ~flag /\ stage' = "reading" /\ UNCHANGED <<cur, streams>>
    /\ UNCHANGED <<limit, options, attempt, mapped, handle, shutVars>>

\* A message, or a batch, is handled and answered.
ReceiveMessage ==
    /\ stage = "reading" /\ cur \in streams /\ handle # "drained"
    /\ attempt' = 0 /\ stage' = "check"
    /\ UNCHANGED <<limit, options, cur, mapped, streams, handle, shutVars>>

\* handle_message or the answer fails, which ends the loop.  The map keeps the
\* transport, and the stream stays open with nobody to read it.
HandlerFails ==
    /\ stage = "reading" /\ cur \in streams /\ handle # "drained"
    /\ attempt' = 0 /\ LoopReturns
    /\ UNCHANGED <<limit, options, mapped, handle, shutVars>>

\* The transport gives its stream up, also one that nobody reads any more.
StreamLost(t) ==
    /\ t \in streams
    /\ streams' = streams \ {t}
    /\ UNCHANGED <<limit, options, loopVars, mapped, handle, shutVars>>

\* Faulty variant: the end of the stream ends the loop.
Mut_ChannelEnds ==
    /\ stage = "reading" /\ cur \notin streams /\ handle # "drained"
    /\ LoopReturns
    /\ UNCHANGED <<limit, options, attempt, mapped, handle, shutVars>>

\* The loop sees the end of its stream.
ChannelEnds ==
    /\ stage = "reading" /\ cur \notin streams /\ handle # "drained"
    /\ stage' = "ended"
    /\ UNCHANGED <<limit, options, attempt, cur, mapped, streams, handle, shutVars>>

\* try_reconnect: gives up after shut_down and after max_retries.  Without a
\* limit nobody reads the counter.
TryReconnect ==
    /\ stage = "ended" /\ FlagFree
    /\ \/ flag /\ LoopReturns /\ UNCHANGED attempt
       \/ ~flag /\ limit = NoLimit /\ stage' = "sleeping" /\ UNCHANGED <<attempt, cur, streams>>
       \/ /\ ~flag /\ limit # NoLimit
          /\ attempt' = attempt + 1
          /\ \/ attempt' > limit /\ LoopReturns
             \/ attempt' <= limit /\ stage' = "sleeping" /\ UNCHANGED <<cur, streams>>
    /\ UNCHANGED <<limit, options, mapped, handle, shutVars>>

\* The delay is over; the transport of the last round is dropped.
Wake ==
    /\ stage = "sleeping" /\ handle # "drained"
    /\ stage' = "top" /\ cur' = 0
    /\ streams' = Kept(0, mapped, taken)
    /\ UNCHANGED <<limit, options, attempt, mapped, handle, shutVars>>

\* An aborted loop is dropped at the await it has reached.
Aborted ==
    /\ handle = "drained" /\ stage \notin {"storing"} \cup Over
    /\ stage' = "aborted" /\ cur' = 0
    /\ streams' = Kept(0, mapped, taken)
    /\ UNCHANGED <<limit, options, attempt, mapped, handle, shutVars>>

-----------------------------------------------------------------------------
(* shut_down and terminate_session.                                          *)

\* shut_down has the mutex and sets the flag.
RaiseFlag ==
    /\ flag' = TRUE /\ closing' = "flagged" /\ taken' = 0
    /\ raced' = (stage \in {"opening", "storing"})

\* Called once.
ShutDown ==
    /\ closing = "idle"
    /\ RaiseFlag /\ UNCHANGED again
    /\ UNCHANGED <<limit, options, loopVars, mapped, streams, handle>>

\* terminate_session, after its DELETE, calls it twice over Streamable HTTP.
TerminateSession ==
    /\ closing = "idle"
    /\ RaiseFlag /\ again' = options
    /\ UNCHANGED <<limit, options, loopVars, mapped, streams, handle>>

ShutDownAgain ==
    /\ closing = "done" /\ again
    /\ RaiseFlag /\ again' = FALSE
    /\ UNCHANGED <<limit, options, loopVars, mapped, streams, handle>>

\* Faulty variant: the transport is dropped and not shut down.
Mut_TakeTransport ==
    /\ closing = "flagged"
    /\ taken' = 0 /\ mapped' = 0
    /\ streams' = Kept(cur, 0, 0)
    /\ closing' = "stopping"
    /\ UNCHANGED <<limit, options, loopVars, handle, flag, again, raced>>

\* transport_map.take(), and the transport's shut_down cancels its stream.
TakeTransport ==
    /\ closing = "flagged"
    /\ taken' = mapped /\ mapped' = 0
    /\ streams' = streams \ {mapped}
    /\ closing' = "stopping"
    /\ UNCHANGED <<limit, options, loopVars, handle, flag, again, raced>>

\* The transport's shut_down returns when its POST task has ended, or after
\* SHUTDOWN_TIMEOUT_SECONDS.
TransportStopped ==
    /\ closing = "stopping"
    /\ closing' = "stopped" /\ taken' = 0
    /\ streams' = Kept(cur, mapped, 0)
    /\ UNCHANGED <<limit, options, loopVars, mapped, handle, flag, again, raced>>

\* The handlers are drained and aborted.
DrainHandlers ==
    /\ closing = "stopped"
    /\ closing' = "done"
    /\ handle' = IF handle = "pushed" THEN "drained" ELSE handle
    /\ UNCHANGED <<limit, options, loopVars, mapped, streams, flag, taken, again, raced>>

-----------------------------------------------------------------------------

LoopStep ==
    \/ NewTransport \/ StoreTransport \/ CheckFlag \/ ChannelEnds
    \/ TryReconnect \/ Wake \/ Aborted

ShutDownStep == ShutDownAgain \/ TakeTransport \/ TransportStopped \/ DrainHandlers

ReconnectNext ==
    \/ CreateSseStream \/ PushHandle
    \/ NewTransport \/ Opened \/ Refused \/ StoreTransport
    \/ CheckFlag \/ ReceiveMessage \/ HandlerFails
    \/ \E t \in Transports : StreamLost(t)
    \/ ChannelEnds \/ TryReconnect \/ Wake \/ Aborted
    \/ ShutDown \/ TerminateSession
    \/ ShutDownAgain \/ TakeTransport \/ TransportStopped \/ DrainHandlers

\* Tasks that can run do, and a server that is asked again and again opens
\* the stream some time.
ReconnectFairness ==
    /\ WF_reconnectVars(PushHandle)
    /\ WF_reconnectVars(LoopStep)
    /\ WF_reconnectVars(Opened \/ Refused) /\ SF_reconnectVars(Opened)
    /\ WF_reconnectVars(ShutDownStep)

ReconnectSpec == ReconnectInit /\ [][ReconnectNext]_reconnectVars /\ ReconnectFairness

-----------------------------------------------------------------------------
(* Properties.                                                               *)

\* sse_reconnect_loop: a client has one stream for the messages of the server
\* open at a time; the one before has ended when the loop opens the next.
OneChannel == Cardinality(streams) <= 1

\* shut_down leaves no stream open behind, unless it began while the loop was
\* opening one; the second shut_down of terminate_session closes that one too.
ShutDownCloses == closing = "done" /\ ~again /\ ~raced => streams = {}

\* sse_reconnect_loop never gets stuck.  Without a limit a lost stream is opened
\* again, unless the client shuts down; with one, a server that opens streams
\* and sends nothing on them is given up (try_reconnect: only messages keep the
\* loop connecting for ever); and after shut_down the loop ends, also when its
\* handle was not yet among those shut_down aborts.
LoopProgress ==
    /\ (options /\ limit = NoLimit /\ stage = "reading" /\ cur \notin streams)
          ~> (cur \in streams \/ flag)
    /\ (limit # NoLimit /\ []<><<Opened>>_reconnectVars) => []<><<ReceiveMessage>>_reconnectVars
    /\ (flag /\ stage # "unborn") ~> stage \in Over

=============================================================================
