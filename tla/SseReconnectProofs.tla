------------------------- MODULE SseReconnectProofs -------------------------
(***************************************************************************)
(* Proofs about SseReconnect, for any retry limits: the client has one     *)
(* stream for the messages of the server at a time, and shut_down closes   *)
(* it.                                                                     *)
(***************************************************************************)
EXTENDS SseReconnect, FiniteSetTheorems, TLAPS

\* Where the open stream is: in the transport of the loop while it reads, in
\* the map after the loop has gone, and nowhere between two connections.  What
\* shut_down has taken is closed, and a transport being opened is a new one.
ChannelInv ==
    /\ streams \subseteq IF stage \in {"storing", "check", "reading"} THEN {cur}
                         ELSE IF stage \in Over THEN {mapped} ELSE {}
    /\ 0 \notin streams /\ taken \notin streams
    /\ stage \in {"opening", "storing"} => cur \in Transports \ {mapped, taken}
    /\ stage \in {"check", "reading"} => mapped = cur \/ streams = {}

\* What shut_down relies on: the loop opens nothing once the flag is raised, so
\* the stream in the map is the only one.
ShutInv ==
    /\ closing # "idle" => flag
    /\ flag /\ ~raced => stage \notin {"opening", "storing"}
    /\ closing \in {"stopping", "stopped", "done"} /\ ~raced => streams = {}

\* There is an id for a new transport that neither the map nor shut_down has.
LEMMA FreshTransport ==
    ASSUME NEW a, NEW b
    PROVE  (CHOOSE t \in Transports : t \notin {a, b}) \in Transports \ {a, b}
<1>1. \E t \in Transports : t \notin {a, b}
  <2>1. {1, 2, 3} \subseteq Transports
    BY DEF Transports
  <2> QED
    BY <2>1
<1> QED
  BY <1>1

\* The types and the place of the stream are one inductive invariant: the
\* types say that only held transports have streams, which rests on shut_down
\* holding none that is open.
LEMMA ChannelInvariant == ReconnectSpec => [](ReconnectTypeOK /\ ChannelInv)
<1> DEFINE IInv == ReconnectTypeOK /\ ChannelInv
<1>1. ReconnectInit => IInv
  <2> SUFFICES ASSUME ReconnectInit PROVE IInv
    OBVIOUS
  <2>1. limit \in Limits \cup {NoLimit}
    BY DEF ReconnectInit
  <2> QED
    BY <2>1 DEF ReconnectInit, ReconnectTypeOK, ChannelInv, Over
<1>2. IInv /\ [ReconnectNext]_reconnectVars => IInv'
  <2> SUFFICES ASSUME ReconnectTypeOK, ChannelInv, [ReconnectNext]_reconnectVars
               PROVE  ReconnectTypeOK' /\ ChannelInv'
    OBVIOUS
  <2>0. 0 \notin Transports
    BY DEF Transports
  <2> USE <2>0 DEF ReconnectTypeOK, ChannelInv, Over, shutVars, loopVars
  <2>1. CASE CreateSseStream \/ PushHandle
    BY <2>1 DEF CreateSseStream, PushHandle
  <2>2. CASE NewTransport
    <3>1. CASE flag
      BY <2>2, <3>1 DEF NewTransport, LoopReturns, Kept
    <3>2. CASE ~flag /\ options
      BY <2>2, <3>2, FreshTransport DEF NewTransport
    <3>3. CASE ~flag /\ ~options
      BY <2>2, <3>3 DEF NewTransport
    <3> QED
      BY <3>1, <3>2, <3>3
  <2>3. CASE Opened \/ Refused
    BY <2>3 DEF Opened, Refused
  <2>4. CASE StoreTransport
    BY <2>4 DEF StoreTransport, Kept
  <2>5. CASE CheckFlag \/ ReceiveMessage \/ HandlerFails
    BY <2>5 DEF CheckFlag, ReceiveMessage, HandlerFails, LoopReturns, Kept
  <2>6. ASSUME NEW t \in Transports, StreamLost(t)
        PROVE  ReconnectTypeOK' /\ ChannelInv'
    BY <2>6 DEF StreamLost
  <2>7. CASE ChannelEnds \/ Wake \/ Aborted
    BY <2>7 DEF ChannelEnds, Wake, Aborted, Kept
  <2>8. CASE TryReconnect
    BY <2>8 DEF TryReconnect, LoopReturns, Kept
  <2>9. CASE ShutDown \/ TerminateSession \/ ShutDownAgain
    <3>1. /\ flag' = TRUE /\ closing' = "flagged" /\ taken' = 0
          /\ UNCHANGED <<limit, options, stage, attempt, cur, mapped, streams, handle>>
      BY <2>9 DEF ShutDown, TerminateSession, ShutDownAgain, RaiseFlag
    <3>2. again' \in BOOLEAN
      BY <2>9 DEF ShutDown, TerminateSession, ShutDownAgain
    <3>3. raced' = TRUE \/ raced' = FALSE
      <4>1. CASE stage \in {"opening", "storing"}
        BY <2>9, <4>1 DEF ShutDown, TerminateSession, ShutDownAgain, RaiseFlag
      <4>2. CASE stage \notin {"opening", "storing"}
        BY <2>9, <4>2 DEF ShutDown, TerminateSession, ShutDownAgain, RaiseFlag
      <4> QED
        BY <4>1, <4>2
    <3> QED
      BY <3>1, <3>2, <3>3
  <2>10. CASE TakeTransport \/ TransportStopped \/ DrainHandlers
    BY <2>10 DEF TakeTransport, TransportStopped, DrainHandlers, Kept
  <2>11. CASE UNCHANGED reconnectVars
    BY <2>11 DEF reconnectVars
  <2> QED
    BY <2>1, <2>2, <2>3, <2>4, <2>5, <2>6, <2>7, <2>8, <2>9, <2>10, <2>11
       DEF ReconnectNext
<1> QED
  BY <1>1, <1>2, PTL DEF ReconnectSpec

\* ReconnectTypeOK is an invariant.
THEOREM ReconnectTypeInvariant == ReconnectSpec => []ReconnectTypeOK
BY ChannelInvariant, PTL

\* OneChannel is an invariant: however losses, failing handlers, aborts and
\* two shut_downs interleave, no second stream is opened beside one that is
\* still there.
THEOREM OneChannelHolds == ReconnectSpec => []OneChannel
<1>1. ChannelInv => OneChannel
  <2> SUFFICES ASSUME ChannelInv PROVE Cardinality(streams) <= 1
    BY DEF OneChannel
  <2>1. PICK t : streams \subseteq {t}
    BY DEF ChannelInv
  <2>2. IsFiniteSet({t}) /\ Cardinality({t}) = 1
    BY FS_Singleton
  <2> QED
    BY <2>1, <2>2, FS_Subset
<1> QED
  BY <1>1, ChannelInvariant, PTL

\* ShutDownCloses is an invariant: a shut_down that did not begin while the
\* loop was opening a stream leaves none open.
THEOREM ShutDownClosesHolds == ReconnectSpec => []ShutDownCloses
<1>1. ReconnectInit => ShutInv
  BY DEF ReconnectInit, ShutInv
<1>2. ReconnectTypeOK /\ ChannelInv /\ ShutInv /\ [ReconnectNext]_reconnectVars => ShutInv'
  <2> SUFFICES ASSUME ReconnectTypeOK, ChannelInv, ShutInv, [ReconnectNext]_reconnectVars
               PROVE  ShutInv'
    OBVIOUS
  <2> USE DEF ShutInv, shutVars, loopVars
  <2>1. CASE CreateSseStream \/ PushHandle
    BY <2>1 DEF CreateSseStream, PushHandle
  <2>2. CASE NewTransport
    BY <2>2 DEF NewTransport, LoopReturns, Kept, FlagFree, ReconnectTypeOK
  <2>3. CASE Opened \/ Refused \/ StoreTransport
    BY <2>3 DEF Opened, Refused, StoreTransport, Kept, ReconnectTypeOK
  <2>4. CASE CheckFlag \/ ReceiveMessage \/ HandlerFails
    BY <2>4 DEF CheckFlag, ReceiveMessage, HandlerFails, LoopReturns, Kept
  <2>5. ASSUME NEW t \in Transports, StreamLost(t) PROVE ShutInv'
    BY <2>5 DEF StreamLost
  <2>6. CASE ChannelEnds \/ TryReconnect \/ Wake \/ Aborted
    BY <2>6 DEF ChannelEnds, TryReconnect, Wake, Aborted, LoopReturns, Kept
  <2>7. CASE ShutDown \/ TerminateSession \/ ShutDownAgain
    BY <2>7 DEF ShutDown, TerminateSession, ShutDownAgain, RaiseFlag
  <2>8. CASE TakeTransport
    <3>1. CASE raced
      BY <2>8, <3>1 DEF TakeTransport
    <3>2. CASE ~raced
      <4>1. streams \subseteq {mapped}
        BY <2>8, <3>2 DEF TakeTransport, ChannelInv
      <4> QED
        BY <2>8, <4>1 DEF TakeTransport
    <3> QED
      BY <3>1, <3>2
  <2>9. CASE TransportStopped \/ DrainHandlers
    BY <2>9 DEF TransportStopped, DrainHandlers, Kept
  <2>10. CASE UNCHANGED reconnectVars
    BY <2>10 DEF reconnectVars
  <2> QED
    BY <2>1, <2>2, <2>3, <2>4, <2>5, <2>6, <2>7, <2>8, <2>9, <2>10 DEF ReconnectNext
<1>3. ShutInv => ShutDownCloses
  BY DEF ShutInv, ShutDownCloses
<1> QED
  BY <1>1, <1>2, <1>3, ChannelInvariant, PTL DEF ReconnectSpec

=============================================================================
