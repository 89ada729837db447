------------------------- MODULE MessageDispatcher -------------------------
(***************************************************************************)
(* The request/response correlation of one transport                       *)
(* (crates/rust-mcp-transport/src/message_dispatcher.rs).                  *)
(*                                                                         *)
(* A task that calls send_message stores one oneshot sender per request in *)
(* the transport's pending_requests map, writes the payload, and waits on  *)
(* the receivers with a timeout.  The runtime's reader hands every         *)
(* response and error to the sender stored under its id.  The client and   *)
(* the server implementation of the trait differ in one respect: when a    *)
(* batch stores its senders.                                               *)
(*                                                                         *)
(* A payload is abstracted to the pair (id, call that issued it), so that  *)
(* an answer carries the identity of the request it really answers.        *)
(***************************************************************************)
EXTENDS Naturals, FiniteSets

CONSTANTS
    Calls,        \* the invocations of send_message on this transport
    NoCall,       \* not a call: an id with no entry in pending_requests
    Side,         \* which implementation of McpDispatch: "client" or "server"
    BatchSize,    \* bound: requests in one batch
    MaxRequests,  \* bound: ids the generator hands out
    Copies        \* bound: how often the peer may answer one request

ASSUME CallsAssumption == NoCall \notin Calls
ASSUME SideAssumption == Side \in {"client", "server"}
ASSUME BoundsAssumption == BatchSize \in Nat /\ MaxRequests \in Nat

VARIABLES
    nextId,    \* RequestIdGenNumeric::message_id_counter
    kind,      \* whether a call sends a Single or a Batch
    ids,       \* the ids of the requests a call sends
    phase,     \* how far a call is in send_message
    pending,   \* pending_requests: the call whose sender is stored under an id
    chan,      \* the oneshot channel of a call for an id
    reply,     \* the request that the answer found in that channel answers
    hand,      \* senders removed from the map and not used yet
    requests,  \* requests the peer has received
    sent,      \* answers the peer has written
    inbox,     \* answers not handled by the reader yet
    dropped,   \* answers the reader found no sender for
    peer       \* the peer process of a stdio client

vars == <<nextId, kind, ids, phase, pending, chan, reply, hand,
          requests, sent, inbox, dropped, peer>>

RequestId == 0 .. MaxRequests - 1

Request == [id : RequestId, of : Calls]

Answer == [id : RequestId, of : Calls, copy : Copies]

\* "none": not created; "open": its receiver is awaited; "closed": its sender
\* was dropped unused; "gone": no receiver (timeout, failed write or a dropped
\* future), so the call has ended for this id; "answered": it holds a reply.
Channel == {"none", "open", "closed", "gone", "answered"}

\* The oneshot sender a reader removed from the map, and the answer to pass.
Delivery == [tx : Calls, id : RequestId, of : Calls]

TypeOK ==
    /\ nextId \in 0 .. MaxRequests
    /\ kind \in [Calls -> {"single", "batch"}]
    /\ ids \in [Calls -> SUBSET RequestId]
    /\ phase \in [Calls -> {"idle", "storing", "writing", "waiting", "done"}]
    /\ pending \in [RequestId -> Calls \cup {NoCall}]
    /\ chan \in [Calls -> [RequestId -> Channel]]
    /\ reply \in [Calls -> [RequestId -> Calls \cup {NoCall}]]
    /\ hand \subseteq Delivery
    /\ requests \subseteq Request
    /\ sent \subseteq Answer
    /\ inbox \subseteq Answer
    /\ dropped \subseteq Answer
    /\ peer \in {"running", "exited", "reaped"}

Init ==
    /\ nextId = 0
    /\ kind = [c \in Calls |-> "single"]
    /\ ids = [c \in Calls |-> {}]
    /\ phase = [c \in Calls |-> "idle"]
    /\ pending = [i \in RequestId |-> NoCall]
    /\ chan = [c \in Calls |-> [i \in RequestId |-> "none"]]
    /\ reply = [c \in Calls |-> [i \in RequestId |-> NoCall]]
    /\ hand = {}
    /\ requests = {}
    /\ sent = {}
    /\ inbox = {}
    /\ dropped = {}
    /\ peer = "running"

-----------------------------------------------------------------------------
(***************************************************************************)
(* The sending side                                                        *)
(***************************************************************************)


\* Faulty variant: every message starts again from the same id.
Mut_NextRequestIds(c, n) ==
    /\ n <= MaxRequests
    /\ ids' = [ids EXCEPT ![c] = 0 .. n - 1]
    /\ UNCHANGED nextId

\* next_request_id, once for each request of the message.
NextRequestIds(c, n) ==
    /\ nextId + n <= MaxRequests
    /\ ids' = [ids EXCEPT ![c] = nextId .. nextId + n - 1]
    /\ nextId' = nextId + n

\* Faulty variant: the client's batch stores its senders after the write too.
Mut_StoresFirst(c) == kind[c] = "single"

\* Single messages, and the client's batches, store their senders before the
\* payload is written; the server's batch awaits its (lazy) stores after it.
StoresFirst(c) == kind[c] = "single" \/ Side = "client"

\* send_message is called with n requests in a Single or a Batch; n = 0 is a
\* notification, a response or an error, which waits for nothing.
Send(c, k, n) ==
    /\ phase[c] = "idle"
    /\ n <= IF k = "single" THEN 1 ELSE BatchSize
    /\ NextRequestIds(c, n)
    /\ kind' = [kind EXCEPT ![c] = k]
    /\ phase' = [phase EXCEPT ![c] = IF n > 0 /\ StoresFirst(c)' THEN "storing"
                                                                 ELSE "writing"]
    /\ UNCHANGED <<pending, chan, reply, hand, requests, sent, inbox, dropped, peer>>

\* HashMap::insert of a new oneshot sender.  An entry already stored under the
\* id is overwritten, which drops the sender of its call.
StorePendingRequest(c, i) ==
    /\ pending' = [pending EXCEPT ![i] = c]
    /\ chan' = [d \in Calls |-> [j \in RequestId |->
                  IF d = c /\ j = i THEN "open"
                  ELSE IF j = i /\ d = pending[i] /\ chan[d][j] = "open" THEN "closed"
                  ELSE chan[d][j]]]

\* store_pending_request_for_message under the map's mutex; the stores of one
\* batch are polled by join_all and can be interleaved with other tasks.
Store(c, i) ==
    /\ phase[c] = "storing"
    /\ i \in ids[c] /\ chan[c][i] = "none"
    /\ StorePendingRequest(c, i)
    /\ phase' = [phase EXCEPT ![c] =
                   IF \E j \in ids[c] \ {i} : chan[c][j] = "none" THEN "storing"
                   ELSE IF StoresFirst(c) THEN "writing"
                   ELSE "waiting"]
    /\ UNCHANGED <<nextId, kind, ids, reply, hand, requests, sent, inbox, dropped, peer>>

\* The requests of a call, as the peer receives them.
Payload(c) == {[id |-> i, of |-> c] : i \in ids[c]}

\* write_str succeeds: the peer gets the payload.
Write(c) ==
    /\ phase[c] = "writing"
    /\ peer = "running"
    /\ requests' = requests \cup Payload(c)
    /\ phase' = [phase EXCEPT ![c] = IF ids[c] = {} THEN "done"
                                     ELSE IF StoresFirst(c) THEN "waiting"
                                     ELSE "storing"]
    /\ UNCHANGED <<nextId, kind, ids, pending, chan, reply, hand, sent, inbox, dropped, peer>>

\* send_message returns early or its future is dropped: its receivers go, its
\* entries stay in the map.
Leave(c) ==
    /\ phase' = [phase EXCEPT ![c] = "done"]
    /\ chan' = [chan EXCEPT ![c] = [i \in RequestId |->
                  IF i \in ids[c] /\ chan[c][i] \in {"none", "open"} THEN "gone"
                                                                     ELSE chan[c][i]]]
    /\ UNCHANGED <<nextId, kind, ids, pending, reply, hand, sent, inbox, dropped, peer>>

\* Serializing, writing, flushing or the acknowledged POST fails, and `?`
\* returns.  The peer may have received the payload all the same.
WriteFails(c) ==
    /\ phase[c] = "writing"
    /\ \/ requests' = requests
       \/ peer = "running" /\ requests' = requests \cup Payload(c)
    /\ Leave(c)

\* The future of send_message is dropped by its owner (select!, abort).
Abandon(c) ==
    /\ phase[c] \in {"storing", "writing", "waiting"}
    /\ Leave(c)
    /\ UNCHANGED requests

\* Faulty variant: the receivers of a batch are awaited without a timeout.
Mut_AwaitTimeout(c, i) == kind[c] = "single" /\ chan[c][i] = "open"

\* The timer of await_timeout may fire while the receiver is still empty.
AwaitTimeout(c, i) == chan[c][i] = "open"

\* The request times out.  The entry in pending_requests is not removed.
TimesOut(c, i) ==
    /\ phase[c] = "waiting"
    /\ i \in ids[c]
    /\ AwaitTimeout(c, i)
    /\ chan' = [chan EXCEPT ![c][i] = "gone"]
    /\ UNCHANGED <<nextId, kind, ids, phase, pending, reply, hand,
                   requests, sent, inbox, dropped, peer>>

\* Every receiver is resolved: send_message returns a response or an error for
\* each request.
Return(c) ==
    /\ phase[c] = "waiting"
    /\ \A i \in ids[c] : chan[c][i] # "open"
    /\ phase' = [phase EXCEPT ![c] = "done"]
    /\ UNCHANGED <<nextId, kind, ids, pending, chan, reply, hand,
                   requests, sent, inbox, dropped, peer>>

-----------------------------------------------------------------------------
(***************************************************************************)
(* The receiving side                                                      *)
(***************************************************************************)

\* The peer answers a request it has received, in any order, possibly again.
PeerAnswers(r, n) ==
    LET a == [id |-> r.id, of |-> r.of, copy |-> n]
    IN  /\ peer = "running"
        /\ r \in requests
        /\ a \notin sent
        /\ sent' = sent \cup {a}
        /\ inbox' = inbox \cup {a}
        /\ UNCHANGED <<nextId, kind, ids, phase, pending, chan, reply, hand,
                       requests, dropped, peer>>

\* pending_request_tx removes the sender of the answer's id from the map; an
\* answer without one is logged and dropped.
PendingRequestTx(a) ==
    IF pending[a.id] = NoCall
    THEN dropped' = dropped \cup {a} /\ UNCHANGED <<pending, hand>>
    ELSE /\ hand' = hand \cup {[tx |-> pending[a.id], id |-> a.id, of |-> a.of]}
         /\ pending' = [pending EXCEPT ![a.id] = NoCall]
         /\ UNCHANGED dropped

\* handle_message gets a Response or an Error from the stream.
HandleAnswer(a) ==
    /\ a \in inbox
    /\ inbox' = inbox \ {a}
    /\ PendingRequestTx(a)
    /\ UNCHANGED <<nextId, kind, ids, phase, chan, reply, requests, sent, peer>>

\* Faulty variant: the value is stored whether or not a receiver is left.
Mut_SendResponse(h) ==
    /\ chan' = [chan EXCEPT ![h.tx][h.id] = "answered"]
    /\ reply' = [reply EXCEPT ![h.tx][h.id] = h.of]

\* tx_response.send: without a receiver the answer is lost and handle_message
\* returns an error.
SendResponse(h) ==
    IF chan[h.tx][h.id] = "open"
    THEN /\ chan' = [chan EXCEPT ![h.tx][h.id] = "answered"]
         /\ reply' = [reply EXCEPT ![h.tx][h.id] = h.of]
    ELSE UNCHANGED <<chan, reply>>

Deliver(h) ==
    /\ h \in hand
    /\ hand' = hand \ {h}
    /\ SendResponse(h)
    /\ UNCHANGED <<nextId, kind, ids, phase, pending, requests, sent, inbox, dropped, peer>>

\* The child process of a stdio client ends.
PeerExits ==
    /\ Side = "client"
    /\ peer = "running"
    /\ peer' = "exited"
    /\ UNCHANGED <<nextId, kind, ids, phase, pending, chan, reply, hand,
                   requests, sent, inbox, dropped>>

\* Faulty variant: process.wait returns and the map is left alone.
Mut_ClearPending == UNCHANGED <<pending, chan>>

\* pending_requests.clear() drops every stored sender.
ClearPending ==
    /\ pending' = [i \in RequestId |-> NoCall]
    /\ chan' = [c \in Calls |-> [i \in RequestId |->
                  IF pending[i] = c /\ chan[c][i] = "open" THEN "closed"
                                                           ELSE chan[c][i]]]

\* process.wait returns in the task StdioTransport::start spawned.
Reap ==
    /\ peer = "exited"
    /\ peer' = "reaped"
    /\ ClearPending
    /\ UNCHANGED <<nextId, kind, ids, phase, reply, hand, requests, sent, inbox, dropped>>

-----------------------------------------------------------------------------

Next ==
    \/ \E c \in Calls :
         \/ \E k \in {"single", "batch"}, n \in 0 .. BatchSize : Send(c, k, n)
         \/ \E i \in RequestId : Store(c, i) \/ TimesOut(c, i)
         \/ Write(c)
         \/ WriteFails(c)
         \/ Abandon(c)
         \/ Return(c)
    \/ \E r \in requests, n \in Copies : PeerAnswers(r, n)
    \/ \E a \in inbox : HandleAnswer(a)
    \/ \E h \in hand : Deliver(h)
    \/ PeerExits
    \/ Reap

Spec == Init /\ [][Next]_vars

\* Timers fire and a resolved future is polled: tokio's runtime guarantees
\* both.  Nothing is assumed of the peer, of writes or of the reader.
Fairness ==
    \A c \in Calls : /\ \A i \in RequestId : WF_vars(TimesOut(c, i))
                     /\ WF_vars(Return(c))

FairSpec == Spec /\ Fairness

-----------------------------------------------------------------------------
(***************************************************************************)
(* Properties                                                              *)
(***************************************************************************)

\* The answer a call returns for an id (send_message, client and server) is
\* the peer's answer to the request that this very call sent under that id,
\* whatever other calls timed out, were abandoned or were answered late.
Correlation ==
    \A c \in Calls, i \in RequestId : chan[c][i] = "answered" => reply[c][i] = c

\* A receiver that is awaited can still be resolved: its sender is stored in
\* pending_requests under its own id or is in the hands of a reader, so no
\* task waits on a channel that only a timeout can end.
SenderReachable ==
    \A c \in Calls, i \in RequestId :
        chan[c][i] = "open" =>
            \/ pending[i] = c
            \/ \E h \in hand : h.tx = c /\ h.id = i

\* handle_message discards an answer as unmatched only when its call needs it
\* no more: the call has an outcome for the id already, or an earlier answer
\* is on its way to it.  "Ensure all request IDs are stored before sending the
\* request" (message_dispatcher.rs:201) is what makes it so.
NoLostAnswer ==
    \A a \in dropped :
        \/ chan[a.of][a.id] \notin {"none", "open"}
        \/ \E h \in hand : h.tx = a.of /\ h.id = a.id

\* "clean up pending requests to cancel waiting tasks" (stdio.rs:214): once the
\* child was reaped, a call waits only for an answer that is being delivered.
ExitUnblocks ==
    peer = "reaped" =>
        \A c \in Calls, i \in RequestId :
            (phase[c] = "waiting" /\ chan[c][i] = "open") =>
                \E h \in hand : h.tx = c /\ h.id = i

\* An outcome is final: a late, duplicated or unmatched answer, a second
\* registration or the cleanup of a dead child never changes what the call
\* has already been told for a request.
OutcomeFinal ==
    [][\A c \in Calls, i \in RequestId :
          chan[c][i] \in {"closed", "gone", "answered"} =>
              chan'[c][i] = chan[c][i] /\ reply'[c][i] = reply[c][i]]_vars

\* A call that waits for responses returns: await_timeout bounds the wait for
\* every request of the message.
WaitEnds ==
    \A c \in Calls : phase[c] = "waiting" ~> phase[c] = "done"

\* What the callers of send_message have been told, as RequestReply sees it.
OutcomeOf(c, i) ==
    CASE chan[c][i] = "answered" -> IF reply[c][i] = c THEN "response" ELSE "misrouted"
      [] chan[c][i] \in {"closed", "gone"} -> "error"
      [] OTHER -> "none"

Abstract ==
    INSTANCE RequestReply WITH
        answered <- {<<a.of, a.id>> : a \in sent},
        outcome  <- [c \in Calls |-> [i \in RequestId |-> OutcomeOf(c, i)]]

\* The dispatcher implements the remote call of RequestReply: one outcome per
\* request, and a response only after the peer answered that request.
ImplementsRequestReply == Abstract!Spec

=============================================================================
