----------------------------- MODULE ClientPost -----------------------------
(***************************************************************************)
(* One call of the Streamable HTTP client, ClientRuntime::start_stream: a  *)
(* transport of its own, the task that POSTs what the dispatcher writes    *)
(* and acknowledges each write with the result of the whole exchange       *)
(* (StreamableHttpStream::run), the send half that waits for the responses *)
(* and the receive half that handles what the server streams back.         *)
(* (crates/rust-mcp-sdk/src/mcp_runtimes/client_runtime.rs,                *)
(* crates/rust-mcp-transport/src/client_streamable_http.rs,                *)
(* crates/rust-mcp-transport/src/utils/streamable_http_stream.rs)          *)
(*                                                                         *)
(* The channel of bytes, the reader and the channel of messages are one    *)
(* bounded queue.  A chunk of a response stream is reduced to whether an   *)
(* event in it has an id, and to the messages in it; every message parses. *)
(* The transport of a call is in nobody else's hands: it ends when the     *)
(* call ends and drops it, never by shut_down.                             *)
(***************************************************************************)
EXTENDS Naturals, Sequences

CONSTANTS
    Requests,    \* the requests of the call, empty for a notification
    Batch,       \* whether they are sent as ClientMessages::Batch
    Sessions,    \* session ids
    NoSession,
    Capacity,    \* messages the channels of the transport hold
    MaxRetries,  \* max_retries
    MaxChunk     \* bound on the messages of a chunk

ASSUME ClientPostAssumption ==
    /\ Batch \in BOOLEAN
    /\ ~Batch => \A r, s \in Requests : r = s
    /\ NoSession \notin Sessions
    /\ Capacity \in Nat \ {0}
    /\ MaxRetries \in Nat
    /\ MaxChunk \in Nat

VARIABLES
    caller,    \* the send half
    outcome,   \* what came of each request
    recv,      \* the receive half
    queue,     \* write_rx: payloads not yet taken by the POST task
    task,      \* the POST task
    payload,   \* the payload it runs
    primed,    \* has_priming_event
    retries,   \* retry_count of make_standalone_stream_connection
    chunk,     \* messages read from the response and not yet passed on
    inbox,     \* messages on their way to the receive half
    session,   \* session_id of the transport
    runtime,   \* session_id of the runtime
    fresh,     \* no_session_id
    how,       \* how the server answered the POST of the call
    named,     \* the session id in that answer
    passed     \* the messages run has passed on for the call

send == <<caller, outcome, runtime, fresh>>

run == <<payload, primed, retries, chunk>>

history == <<how, named, passed>>

vars == <<send, recv, queue, task, run, inbox, session, history>>

\* What the server may send: a notification, a request, responses to some of
\* the call's requests (several in a batch).
Message == [kind : {"notification", "request"}, to : {{}}]
             \cup [kind : {"responses"}, to : (SUBSET Requests) \ {{}}]

SendType ==
    /\ caller \in {"posting", "waiting", "returned", "failed", "dropped"}
    /\ outcome \in [Requests -> {"none", "answered", "timeout"}]
    /\ recv \in {"running", "answering", "done"}
    /\ queue \in Seq({"call", "answer"})
    /\ session \in Sessions \cup {NoSession}
    /\ runtime \in Sessions \cup {NoSession}
    /\ fresh \in BOOLEAN

RunType ==
    /\ task \in {"idle", "posting", "streaming", "passing", "delay", "getting", "ended"}
    /\ payload \in {"call", "answer"}
    /\ primed \in BOOLEAN
    /\ retries \in 0 .. MaxRetries
    /\ chunk \in Seq(Message)
    /\ inbox \in Seq(Message)
    /\ Len(inbox) <= Capacity

HistoryType ==
    /\ how \in {"none", "refused", "accepted", "json", "stream"}
    /\ named \in Sessions \cup {NoSession}
    /\ passed \in Seq(Message)

TypeOK == SendType /\ RunType /\ HistoryType

\* The transport lives as long as the call.
Open == caller \in {"posting", "waiting"}

\* start_stream up to the point where the payload is in the POST task's
\* channel and its acknowledgement is awaited.
Init ==
    /\ caller = "posting"
    /\ outcome = [r \in Requests |-> "none"]
    /\ recv = IF Requests = {} THEN "done" ELSE "running"
    /\ queue = <<"call">>
    /\ task = "idle"
    /\ payload = "call"
    /\ primed = FALSE
    /\ retries = 0
    /\ chunk = <<>>
    /\ inbox = <<>>
    /\ runtime \in Sessions \cup {NoSession}
    /\ session = runtime
    /\ fresh = (runtime = NoSession)
    /\ how = "none"
    /\ named = NoSession
    /\ passed = <<>>

-----------------------------------------------------------------------------
(***************************************************************************)
(* The POST task.                                                          *)
(***************************************************************************)

\* The task takes the next payload.  Dropping the transport ends the select on
\* the cancellation token but does not set the flag run tests first.
TakePayload ==
    /\ task = "idle"
    /\ queue # <<>>
    /\ payload' = Head(queue)
    /\ queue' = Tail(queue)
    /\ task' = "posting"
    /\ primed' = FALSE
    /\ UNCHANGED <<send, recv, retries, chunk, inbox, session, history>>

\* cancelled(), or recv() gives None: the transport has been dropped.
StopTask ==
    /\ task = "idle"
    /\ ~Open
    /\ task' = "ended"
    /\ UNCHANGED <<send, recv, queue, run, inbox, session, history>>


\* What the end of run does to whoever awaits its acknowledgement: the send
\* half goes on to wait for responses, or fails and takes the receive half
\* with it; the receive half is done once its answer is written, or not.
Acknowledge(ok) ==
    /\ caller' = IF payload = "call" /\ caller = "posting"
                 THEN IF ok THEN "waiting" ELSE "failed"
                 ELSE caller
    /\ recv' = IF \/ payload = "call" /\ caller = "posting" /\ ~ok
                  \/ payload = "answer" /\ recv = "answering"
               THEN "done"
               ELSE recv
    /\ UNCHANGED <<outcome, runtime, fresh>>

\* run returns.
Finish(ok) ==
    /\ task' = "idle"
    /\ chunk' = <<>>
    /\ Acknowledge(ok)
    /\ UNCHANGED <<queue, payload, primed, retries>>

\* The session id of the transport becomes the one in the answer, or none.
TakeSession(h, answer) ==
    /\ session' = h
    /\ how' = IF payload = "call" THEN answer ELSE how
    /\ named' = IF payload = "call" THEN h ELSE named
    /\ UNCHANGED passed

\* No answer, or a status that is not a success.
PostFails ==
    /\ task = "posting"
    /\ Finish(FALSE)
    /\ UNCHANGED <<inbox, session, history>>

\* 200 with neither content type, or with a body that breaks off.
PostRefused(h) ==
    /\ task = "posting"
    /\ TakeSession(h, "refused")
    /\ Finish(FALSE)
    /\ UNCHANGED inbox

\* A success other than 200: no result is expected.
PostAccepted(h) ==
    /\ task = "posting"
    /\ TakeSession(h, "accepted")
    /\ Finish(TRUE)
    /\ UNCHANGED inbox

\* Mutant: the session id is read on the way to the stream only.
Mut_PostJson(h, m) ==
    /\ task = "posting"
    /\ UNCHANGED <<session, passed>>
    /\ how' = IF payload = "call" THEN "json" ELSE how
    /\ named' = IF payload = "call" THEN h ELSE named
    /\ chunk' = <<m>>
    /\ task' = "passing"
    /\ UNCHANGED <<send, recv, queue, payload, primed, retries, inbox>>

\* A JSON body is one message.
PostJson(h, m) ==
    /\ task = "posting"
    /\ TakeSession(h, "json")
    /\ chunk' = <<m>>
    /\ task' = "passing"
    /\ UNCHANGED <<send, recv, queue, payload, primed, retries, inbox>>

PostStream(h) ==
    /\ task = "posting"
    /\ TakeSession(h, "stream")
    /\ task' = "streaming"
    /\ UNCHANGED <<send, recv, queue, run, inbox>>

\* A chunk with complete events: an id primes the stream, data is passed on.
\* A chunk without either changes nothing.
ReadChunk(id, data) ==
    /\ task = "streaming"
    /\ id \/ data # <<>>
    /\ primed' = (primed \/ id)
    /\ chunk' = data
    /\ task' = IF data = <<>> THEN "streaming" ELSE "passing"
    /\ UNCHANGED <<send, recv, queue, payload, retries, inbox, session, history>>

\* read_tx.send waits for room in the channel.
PassOn ==
    /\ task = "passing"
    /\ chunk # <<>>
    /\ Len(inbox) < Capacity
    /\ inbox' = Append(inbox, Head(chunk))
    /\ chunk' = Tail(chunk)
    /\ passed' = IF payload = "call" THEN Append(passed, Head(chunk)) ELSE passed
    /\ UNCHANGED <<send, recv, queue, task, payload, primed, retries, session, how, named>>

\* The reader is gone with the transport.
PassOnFails ==
    /\ task = "passing"
    /\ chunk # <<>>
    /\ ~Open
    /\ Finish(FALSE)
    /\ UNCHANGED <<inbox, session, history>>

\* received_response: run returns after the chunk.
Passed ==
    /\ task = "passing"
    /\ chunk = <<>>
    /\ Finish(TRUE)
    /\ UNCHANGED <<inbox, session, history>>

\* Mutant: the end of an unprimed stream is a success.
Mut_StreamEnds ==
    /\ task = "streaming"
    /\ \/ /\ primed
          /\ task' = "delay"
          /\ UNCHANGED <<send, recv, queue, run>>
       \/ /\ ~primed
          /\ Finish(TRUE)
    /\ UNCHANGED <<inbox, session, history>>

\* The stream ends.  After a priming event the response is still to come, and
\* run asks for it with a GET; otherwise it fails.
StreamEnds ==
    /\ task = "streaming"
    /\ \/ /\ primed
          /\ task' = "delay"
          /\ UNCHANGED <<send, recv, queue, run>>
       \/ /\ ~primed
          /\ Finish(FALSE)
    /\ UNCHANGED <<inbox, session, history>>

\* The stream breaks, or the transport was dropped.
StreamBreaks ==
    /\ task = "streaming"
    /\ Finish(FALSE)
    /\ UNCHANGED <<inbox, session, history>>

StreamCancelled ==
    /\ ~Open
    /\ StreamBreaks

\* The retry delay is slept through, and the flag tested after it is not set
\* by dropping the transport.
Reconnect ==
    /\ task = "delay"
    /\ task' = "getting"
    /\ retries' = 0
    /\ UNCHANGED <<send, recv, queue, payload, primed, chunk, inbox, session, history>>

GetOpens ==
    /\ task = "getting"
    /\ task' = "streaming"
    /\ UNCHANGED <<send, recv, queue, run, inbox, session, history>>

\* A connection error or a status worth a retry.
GetRetries ==
    /\ task = "getting"
    /\ retries < MaxRetries
    /\ retries' = retries + 1
    /\ UNCHANGED <<send, recv, queue, task, payload, primed, chunk, inbox, session, history>>

\* 404, 405 or another content type at any attempt, anything else at the last.
GetFails ==
    /\ task = "getting"
    /\ Finish(FALSE)
    /\ UNCHANGED <<inbox, session, history>>

-----------------------------------------------------------------------------
(***************************************************************************)
(* The receive half.  It returns after the first message it handled.       *)
(***************************************************************************)

Receive(m) ==
    /\ recv = "running"
    /\ Open
    /\ inbox # <<>>
    /\ m = Head(inbox)
    /\ inbox' = Tail(inbox)

\* A request of the server: the answer is written to the same transport and
\* its acknowledgement awaited.
HandleRequest ==
    /\ \E m \in Message :
          /\ Receive(m)
          /\ m.kind = "request"
    /\ queue' = Append(queue, "answer")
    /\ recv' = "answering"
    /\ UNCHANGED <<send, task, run, session, history>>

\* A notification, or a message whose handler fails.
HandleOther ==
    /\ \E m \in Message :
          /\ Receive(m)
          /\ m.kind # "request"
    /\ recv' = "done"
    /\ UNCHANGED <<send, queue, task, run, session, history>>

\* Responses go to the requests that wait for them.  One whose receiver has
\* timed out fails the handling, and what else is in the batch may be lost.
HandleResponses ==
    /\ \E m \in Message, to \in SUBSET Requests :
          /\ Receive(m)
          /\ m.kind = "responses"
          /\ to \subseteq m.to
          /\ (\A r \in m.to : outcome[r] # "timeout") => to = m.to
          /\ outcome' = [r \in Requests |-> IF r \in to /\ outcome[r] = "none"
                                            THEN "answered" ELSE outcome[r]]
    /\ recv' = "done"
    /\ UNCHANGED <<caller, runtime, fresh, queue, task, run, session, history>>

-----------------------------------------------------------------------------
(***************************************************************************)
(* The send half.                                                          *)
(***************************************************************************)

\* await_timeout, which starts when the POST has been acknowledged.
TimesOut(r) ==
    /\ caller = "waiting"
    /\ outcome[r] = "none"
    /\ outcome' = [outcome EXCEPT ![r] = "timeout"]
    /\ UNCHANGED <<caller, runtime, fresh, recv, queue, task, run, inbox, session, history>>

\* A single request that timed out is an error of the call; in a batch it is
\* an entry of the result.
Succeeds == Batch \/ \A r \in Requests : outcome[r] = "answered"

\* send_message returns; a session id learnt on the way is kept in the
\* runtime, the receive half is aborted and the transport dropped.
Return ==
    /\ caller = "waiting"
    /\ \A r \in Requests : outcome[r] # "none"
    /\ caller' = "returned"
    /\ runtime' = IF Succeeds /\ fresh /\ session # NoSession THEN session ELSE runtime
    /\ recv' = "done"
    /\ UNCHANGED <<outcome, fresh, queue, task, run, inbox, session, history>>

\* The future of the call is dropped.
Abandon ==
    /\ Open
    /\ caller' = "dropped"
    /\ recv' = "done"
    /\ UNCHANGED <<outcome, runtime, fresh, queue, task, run, inbox, session, history>>

-----------------------------------------------------------------------------
Headers == Sessions \cup {NoSession}

Chunks == UNION {[1 .. n -> Message] : n \in 1 .. MaxChunk}

\* What the server and the network do to a POST in flight.
PostAnswered ==
    \/ PostFails
    \/ \E h \in Headers : PostRefused(h)
    \/ \E h \in Headers : PostAccepted(h)
    \/ \E h \in Headers, m \in Message : PostJson(h, m)
    \/ \E h \in Headers : PostStream(h)

\* Data in the response stream.
DataArrives == \E id \in BOOLEAN, data \in Chunks : ReadChunk(id, data)

\* An event with an id and no data.
Priming == ReadChunk(TRUE, <<>>)

GetAnswered == GetOpens \/ GetRetries \/ GetFails

TaskStep ==
    \/ TakePayload
    \/ StopTask
    \/ PassOn
    \/ PassOnFails
    \/ Passed
    \/ Reconnect

Handle == HandleRequest \/ HandleOther \/ HandleResponses

Next ==
    \/ TaskStep
    \/ PostAnswered
    \/ DataArrives
    \/ Priming
    \/ StreamEnds
    \/ StreamBreaks
    \/ StreamCancelled
    \/ GetAnswered
    \/ Handle
    \/ \E r \in Requests : TimesOut(r)
    \/ Return
    \/ Abandon

Spec == Init /\ [][Next]_vars

\* The tasks of the call run, timers fire, and a select with a ready
\* cancellation takes it sooner or later.
ClientFairness ==
    /\ WF_vars(TaskStep)
    /\ WF_vars(Handle)
    /\ WF_vars(\E r \in Requests : TimesOut(r))
    /\ WF_vars(Return)
    /\ SF_vars(StreamCancelled)

\* The server answers what it is asked, and in a stream that keeps being open
\* it sends data in the end.
ServerFairness ==
    /\ WF_vars(PostAnswered)
    /\ SF_vars(GetOpens \/ GetFails)
    /\ SF_vars(DataArrives)

FairSpec == Spec /\ ClientFairness /\ ServerFairness

-----------------------------------------------------------------------------
(***************************************************************************)
(* Properties.                                                             *)
(***************************************************************************)

\* A call that waits for its responses after the server answered with a body
\* has had a message of that body passed on: run acknowledges neither an
\* empty stream nor one that ended after its priming event.
AckMeansDelivered ==
    caller = "waiting" /\ how \in {"json", "stream"} => passed # <<>>

\* The select of the receive half has no else branch and would panic on the
\* end of the stream of messages: as long as it runs, the POST task, which
\* holds the other end, has not ended.
StreamOutlivesReceiver == recv # "done" => task # "ended"

\* When a call made without a session gets all its responses, the runtime ends
\* up with the session id of the answer to the call's own POST, whatever other
\* POSTs of the same transport were answered with.
SessionLearned ==
    fresh /\ caller = "returned" /\ (\A r \in Requests : outcome[r] = "answered")
      => runtime = named

\* run returns "once we've delivered a real response": a call whose POST was
\* acknowledged after a stream has had a response passed on.
RealResponse ==
    caller = "waiting" /\ how = "stream" /\ Requests # {}
      => \E i \in DOMAIN passed : passed[i].kind = "responses"


=============================================================================
