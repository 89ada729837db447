------------------------------ MODULE HttpServer ------------------------------
(***************************************************************************)
(* The HTTP server around the sessions: how requests create, use and end   *)
(* them, over Streamable HTTP and over the older SSE transport             *)
(* (crates/rust-mcp-sdk/src/mcp_http/{mcp_http_handler,http_utils}.rs, the *)
(* stream functions of mcp_runtimes/server_runtime.rs, and the servers and *)
(* runtimes of crates/rust-mcp-axum and crates/rust-mcp-actix).            *)
(*                                                                         *)
(* Every request r runs its handler step by step; its answer may be a body *)
(* that a spawned stream task writes.  A session is named by the request   *)
(* that creates it, a transport by the request that opens it.              *)
(***************************************************************************)
EXTENDS HttpRequests, FiniteSets, FiniteSetsExt

CONSTANTS Reqs,          \* the requests that arrive
          NoReq,         \* no request: no session, no transport
          Confs,         \* servers: options, and the requests each one gets
          MaxSessions    \* max_sessions of the session store

ASSUME HttpAssumption ==
    /\ NoReq \notin Reqs /\ IsFiniteSet(Reqs)
    /\ \A c \in Confs : DnsOptions(c) /\ (AxumOptions(c) \/ ActixOptions(c) \/ OwnOptions(c))
    /\ MaxSessions \in Nat \ {0}

VARIABLES conf,     \* the server's options
          server,   \* the listener: "new", "up", "draining", "ended", or "failed"
          store,    \* the session store: the ids in it
          rt,       \* the runtime of each session
          req,      \* the handler of each request
          stream,   \* the stream task of each request
          down,     \* transports that are shut down
          open,     \* bodies the client still reads
          out,      \* the lines written to each body
          told,     \* session ids a client has been told
          removed,  \* ids taken from the store
          ask       \* per session, a request of the server to its client

vars == <<conf, server, store, rt, req, stream, down, open, out, told, removed, ask>>

NoRuntime == [auth |-> "none", slot |-> NoReq, details |-> FALSE]

Idle == [st |-> "idle", q |-> [path |-> "other"], sid |-> NoReq, via |-> NoReq,
         status |-> 0, cors |-> FALSE]

HandlerStates == {"idle", "lookup", "full", "set", "auth", "write", "route", "oneshot",
                  "wait", "drop", "delete", "answered"}

StreamStates == {"none", "starting", "handling", "handled", "dropped", "serving", "closing",
                 "ended", "mute"}

\* The invariant on the shape of the state.
TypeOK ==
    /\ conf \in Confs
    /\ server \in {"new", "up", "draining", "ended", "failed"}
    /\ store \subseteq Reqs /\ told \subseteq Reqs /\ removed \subseteq Reqs
    /\ down \subseteq Reqs /\ open \subseteq Reqs
    /\ \A s \in Reqs : /\ rt[s].slot \in Reqs \union {NoReq}
                       /\ rt[s].details \in BOOLEAN
                       /\ rt[s].auth = "none" \/ conf.auth
    /\ \A r \in Reqs : /\ req[r].st \in HandlerStates
                       /\ req[r].sid \in Reqs \union {NoReq}
                       /\ (req[r].st = "answered") = (req[r].status # 0)
    /\ stream \in [Reqs -> StreamStates]
    /\ \A r \in Reqs : Range(out[r]) \subseteq {"note", "ping", "answer"}
    /\ \A s \in Reqs : /\ ask[s].st \in {"none", "waiting", "sent", "answered", "failed"}
                       /\ ask[s].on \in Reqs \union {NoReq}

\* McpAppState and the server: AxumServer::new, ActixServer::new.
Init ==
    /\ conf \in Confs
    /\ server = "new"
    /\ store = {} /\ told = {} /\ removed = {} /\ down = {} /\ open = {}
    /\ rt = [s \in Reqs |-> NoRuntime]
    /\ req = [r \in Reqs |-> Idle]
    /\ stream = [r \in Reqs |-> "none"]
    /\ out = [r \in Reqs |-> <<>>]
    /\ ask = [s \in Reqs |-> [st |-> "none", on |-> NoReq]]

-----------------------------------------------------------------------------

Body(r) == req[r].q.body
Session(r) == req[r].sid
Is(r, path, method) == req[r].q.path = path /\ req[r].q.method = method
IsPost(r) == Is(r, "mcp", "POST")
IsGet(r) == Is(r, "mcp", "GET")
IsDelete(r) == Is(r, "mcp", "DELETE")
IsSse(r) == Is(r, "sse", "GET")
IsMessages(r) == Is(r, "messages", "POST")

\* The handler of r goes on to its next await.
Goto(r, st) == req' = [req EXCEPT ![r].st = st]

\* The answer goes out through the middlewares; sid is the session r now has,
\* via the transport its messages are answered on.
AnsweredFor(r, response, sid, via) ==
    LET final == Compose(Chain(conf, req[r].q), conf, req[r].q, response)
    IN  req' = [req EXCEPT ![r].st = "answered", ![r].status = final.status,
                           ![r].cors = final.cors, ![r].sid = sid, ![r].via = via]

Answered(r, response) == AnsweredFor(r, response, Session(r), req[r].via)

\* The transport in the slot of s is there and not shut down.
Live(s) == rt[s].slot # NoReq /\ rt[s].slot \notin down

\* AuthInfo as the auth middleware leaves it in the request.
Info(r) == IF conf.auth THEN req[r].q.token ELSE "none"

\* The request comes in: route, middlewares, and the handler's checks.  Clients
\* use the ids they were told, strays unknown ones, and they post the result of a request
\* they have got.
Arrive(r) ==
    /\ server = "up" /\ req[r].st = "idle"
    /\ \E q \in conf.menu[r] :
         \E sid \in (IF q.session # "given" THEN {NoReq}
                    ELSE told \union (IF conf.strays THEN {NoReq} ELSE {})) :
           /\ q.body = "result" => sid # NoReq /\ ask[sid].st = "sent"
           /\ LET verdict == IF Route(conf, q) # Passed THEN Route(conf, q)
                             ELSE Compose(Chain(conf, q), conf, q, Check(conf, q))
              IN  req' = [req EXCEPT ![r] =
                            [st |-> IF verdict.status = 0 THEN "lookup" ELSE "answered",
                             q |-> q, sid |-> sid, via |-> NoReq,
                             status |-> verdict.status, cors |-> verdict.cors]]
    /\ UNCHANGED <<conf, server, store, rt, stream, down, open, out, told, removed, ask>>

-----------------------------------------------------------------------------
(* New sessions.                                                             *)

Creates(r) == IsSse(r) \/ (IsPost(r) /\ req[r].q.session = "none")

\* session_store.is_full(): a full store may drop idle sessions first; 503.
IsFull(r) ==
    /\ req[r].st = "lookup" /\ Creates(r)
    /\ IF Cardinality(store) < MaxSessions
       THEN Goto(r, "full") /\ UNCHANGED <<store, removed>>
       ELSE \E idle \in (IF conf.idle THEN SUBSET store ELSE {{}}) :
              /\ store' = store \ idle
              /\ removed' = removed \union idle
              /\ IF idle = {} THEN Answered(r, Response(503)) ELSE Goto(r, "full")
    /\ UNCHANGED <<conf, server, rt, stream, down, open, out, told, ask>>


\* start_new_session: the runtime is created and its first stream spawned,
StartSession(r) ==
    /\ req[r].st = "full" /\ IsPost(r)
    /\ rt' = [rt EXCEPT ![r] = [NoRuntime EXCEPT !.auth = Info(r)]]
    /\ stream' = [stream EXCEPT ![r] = "starting"]
    /\ req' = [req EXCEPT ![r].st = "set", ![r].sid = r, ![r].via = r]
    /\ UNCHANGED <<conf, server, store, down, open, out, told, removed, ask>>

\* then the session is stored, and the answer names it.
StoreSession(r) ==
    /\ req[r].st = "set"
    /\ store' = store \union {r}
    /\ Answered(r, Response(IF ContainsRequest(Body(r)) THEN 200 ELSE 202))
    /\ told' = told \union {r}
    /\ open' = open \union {r}
    /\ UNCHANGED <<conf, server, rt, stream, down, out, removed, ask>>

\* handle_sse_connection: the session is stored before its stream starts.  The
\* AuthInfo was taken from the request before the middlewares ran: none.
ConnectSse(r) ==
    /\ req[r].st = "full" /\ IsSse(r)
    /\ rt' = [rt EXCEPT ![r] = NoRuntime]
    /\ store' = store \union {r}
    /\ stream' = [stream EXCEPT ![r] = "starting"]
    /\ AnsweredFor(r, Response(200), r, r)
    /\ told' = told \union {r}
    /\ open' = open \union {r}
    /\ UNCHANGED <<conf, server, down, out, removed, ask>>

-----------------------------------------------------------------------------
(* Requests on a session.                                                    *)

\* session_store.get(): a miss is a 404 answer or an error, by endpoint.
Lookup(r) ==
    /\ req[r].st = "lookup" /\ ~ Creates(r)
    /\ IF Session(r) \in store
       THEN Goto(r, CASE IsDelete(r) -> "drop" [] IsMessages(r) -> "route" [] OTHER -> "auth")
       ELSE Answered(r, IF IsGet(r) \/ IsMessages(r) THEN HttpError(conf, "SessionIdInvalid")
                        ELSE Response(404))
    /\ UNCHANGED <<conf, server, store, rt, stream, down, open, out, told, removed, ask>>

\* update_auth_info: compared under the read lock,
ReadAuth(r) ==
    /\ req[r].st = "auth"
    /\ Goto(r, IF rt[Session(r)].auth = Info(r) THEN "route" ELSE "write")
    /\ UNCHANGED <<conf, server, store, rt, stream, down, open, out, told, removed, ask>>

\* assigned under the write lock.
WriteAuth(r) ==
    /\ req[r].st = "write"
    /\ rt' = [rt EXCEPT ![Session(r)].auth = Info(r)]
    /\ Goto(r, "route")
    /\ UNCHANGED <<conf, server, store, stream, down, open, out, told, removed, ask>>

\* A result reaches the transport in the slot: it resolves the request pending
\* there, if that is where the server's request went.
Deliver(s) ==
    IF ask[s].st = "sent" /\ ask[s].on = rt[s].slot
    THEN ask' = [ask EXCEPT ![s].st = "answered"] ELSE UNCHANGED ask

\* consume_payload_string fails without a transport, and may fail on one that
\* is shut down, whose reader is gone.
Consumes(s, ok) ==
    /\ ok => rt[s].slot # NoReq
    /\ ~ ok => ~ Live(s)

\* process_incoming_message with a result: it goes to the standalone stream.
PostResult(r) ==
    /\ req[r].st = "route" /\ IsPost(r) /\ ~ conf.json /\ IsResult(Body(r))
    /\ \E ok \in BOOLEAN :
         /\ Consumes(Session(r), ok)
         /\ IF ok THEN Deliver(Session(r)) ELSE UNCHANGED ask
         /\ Answered(r, Response(IF ok THEN 200 ELSE 400))
    /\ UNCHANGED <<conf, server, store, rt, stream, down, open, out, told, removed>>

\* process_incoming_message with anything else: a stream of its own.
PostStream(r) ==
    /\ req[r].st = "route" /\ IsPost(r) /\ ~ conf.json /\ ~ IsResult(Body(r))
    /\ IF IsJson(Body(r))
       THEN /\ stream' = [stream EXCEPT ![r] = "starting"]
            /\ open' = open \union {r}
            /\ AnsweredFor(r, Response(IF ContainsRequest(Body(r)) THEN 200 ELSE 202),
                           Session(r), r)
       ELSE Answered(r, Response(400)) /\ UNCHANGED <<stream, open>>
    /\ UNCHANGED <<conf, server, store, rt, down, out, told, removed, ask>>

\* process_incoming_message_return, single_shot_stream: any message, also a
\* result, gets a stream of its own,
PostOneShot(r) ==
    /\ req[r].st = "route" /\ IsPost(r) /\ conf.json
    /\ stream' = [stream EXCEPT ![r] = "starting"]
    /\ req' = [req EXCEPT ![r].st = "oneshot", ![r].via = r]
    /\ UNCHANGED <<conf, server, store, rt, down, open, out, told, removed, ask>>

\* whose first line, or end, is the answer.
FirstLine(r) ==
    /\ req[r].st = "oneshot"
    /\ \/ out[r] # <<>> /\ Answered(r, Response(200))
       \/ out[r] = <<>> /\ stream[r] \in {"ended", "mute"} /\ Answered(r, Response(422))
    /\ UNCHANGED <<conf, server, store, rt, stream, down, open, out, told, removed, ask>>

\* internal_handle_sse_message: the message goes to the SSE stream's transport.
PostMessages(r) ==
    /\ req[r].st = "route" /\ IsMessages(r)
    /\ \E ok \in BOOLEAN :
         /\ Consumes(Session(r), ok)
         /\ IF ok THEN AnsweredFor(r, Response(202), Session(r), rt[Session(r)].slot)
            ELSE Answered(r, HttpError(conf, "StreamIoError"))
         /\ IF ok /\ IsResult(Body(r)) THEN Deliver(Session(r)) ELSE UNCHANGED ask
         /\ stream' = IF ok /\ Live(Session(r)) /\ ~ IsResult(Body(r)) /\ IsMessage(Body(r))
                      THEN [stream EXCEPT ![r] = "handling"] ELSE stream
    /\ UNCHANGED <<conf, server, store, rt, down, open, out, told, removed>>

-----------------------------------------------------------------------------
(* Standalone streams, and the end of a session.                             *)

\* create_standalone_stream: 409 next to a live stream, else a new one,
OpenStandalone(r) ==
    /\ req[r].st = "route" /\ IsGet(r)
    /\ IF Live(Session(r))
       THEN Answered(r, Response(409)) /\ UNCHANGED stream
       ELSE /\ stream' = [stream EXCEPT ![r] = "starting"]
            /\ Goto(r, "wait")
    /\ UNCHANGED <<conf, server, store, rt, down, open, out, told, removed, ask>>

\* answered when a live transport is in the slot, or with an error when the
\* deadline passes without one.
StandaloneReady(r) ==
    /\ req[r].st = "wait"
    /\ IF Live(Session(r))
       THEN Answered(r, Response(200)) /\ open' = open \union {r}
       ELSE Answered(r, HttpError(conf, "HttpError")) /\ UNCHANGED open
    /\ UNCHANGED <<conf, server, store, rt, stream, down, out, told, removed, ask>>

\* delete_session, first half: shutdown() takes the transport from the slot.
ShutdownRuntime(r) ==
    /\ req[r].st = "drop"
    /\ down' = down \union ({rt[Session(r)].slot} \ {NoReq})
    /\ rt' = [rt EXCEPT ![Session(r)].slot = NoReq]
    /\ Goto(r, "delete")
    /\ UNCHANGED <<conf, server, store, stream, open, out, told, removed, ask>>

\* Second half: the session leaves the store.
DropSession(r) ==
    /\ req[r].st = "delete"
    /\ store' = store \ {Session(r)}
    /\ removed' = removed \union {Session(r)}
    /\ Answered(r, Response(200))
    /\ UNCHANGED <<conf, server, rt, stream, down, open, out, told, ask>>

-----------------------------------------------------------------------------
(* Stream tasks: start_stream and what its spawner does after it.            *)

\* start_stream of a default stream: the transport takes the slot.
StoreTransport(r) ==
    /\ stream[r] = "starting" /\ (IsGet(r) \/ IsSse(r))
    /\ rt' = [rt EXCEPT ![Session(r)].slot = r]
    /\ stream' = [stream EXCEPT ![r] = "serving"]
    /\ UNCHANGED <<conf, server, store, req, down, open, out, told, removed, ask>>

\* The payload of a POST is read as a message and its handler spawned; a
\* payload that is no message is skipped by the reader.
ConsumePayload(r) ==
    /\ stream[r] = "starting" /\ IsPost(r) /\ IsMessage(Body(r))
    /\ stream' = [stream EXCEPT ![r] = "handling"]
    /\ UNCHANGED <<conf, server, store, rt, req, down, open, out, told, removed, ask>>

\* A notification of a handler goes out on the stream of its request.
HandlerNotifies(r) ==
    /\ stream[r] = "handling" /\ Body(r) = "call" /\ conf.notes /\ out[req[r].via] = <<>>
    /\ out' = [out EXCEPT ![req[r].via] = Append(@, "note")]
    /\ UNCHANGED <<conf, server, store, rt, req, stream, down, open, told, removed, ask>>

\* handle_message returns.  A request is answered; an error is dropped as long
\* as the client is not initialized.  Nothing else has an answer.
HandlerReturns(r) ==
    /\ stream[r] = "handling"
    /\ \E ok \in BOOLEAN :
         LET s == Session(r)
             answers == ContainsRequest(Body(r)) /\ (ok \/ rt[s].details)
         IN  /\ out' = IF answers THEN [out EXCEPT ![req[r].via] = Append(@, "answer")] ELSE out
             /\ stream' = [stream EXCEPT ![r] = IF answers THEN "handled" ELSE "dropped"]
             /\ rt' = IF ok /\ Body(r) = "initialize" THEN [rt EXCEPT ![s].details = TRUE] ELSE rt
    /\ UNCHANGED <<conf, server, store, req, down, open, told, removed, ask>>


\* The stream of a POST ends once the results of its handlers are drained.
Drain(r) ==
    /\ stream[r] \in {"handled", "dropped"}
    /\ stream' = [stream EXCEPT ![r] = IF @ = "handled" THEN "ended" ELSE "mute"]
    /\ UNCHANGED <<conf, server, store, rt, req, down, open, out, told, removed, ask>>


\* A keep-alive line on the stream of a POST; in JSON mode it is a line like
\* any other.
KeepAlive(r) ==
    /\ conf.json /\ stream[r] \in {"starting", "handling"} /\ IsPost(r) /\ out[r] = <<>>
    /\ out' = [out EXCEPT ![r] = Append(@, "ping")]
    /\ UNCHANGED <<conf, server, store, rt, req, stream, down, open, told, removed, ask>>

\* Nobody reads the body of r (any more).
Unread(r) == req[r].st = "answered" /\ r \notin open

\* Faulty variant: the keep-alive of a standalone stream works only while the
\* session is in the store.
Mut_Disconnect(r) ==
    /\ Unread(r) /\ Session(r) \in store
    /\ \/ stream[r] = "starting" /\ IsPost(r)
          /\ stream' = [stream EXCEPT ![r] = "mute"] /\ UNCHANGED down
       \/ /\ stream[r] = "serving"
          /\ \A j \in Reqs : ~ (stream[j] = "handling" /\ req[j].via = r)
          /\ down' = down \union ({rt[Session(r)].slot} \intersect {r})
          /\ stream' = [stream EXCEPT ![r] = IF IsSse(r) THEN "closing" ELSE "ended"]
    /\ UNCHANGED <<conf, server, store, rt, req, open, out, told, removed, ask>>

\* The keep-alive hits a broken pipe: the stream ends when its handlers have
\* returned, and its transport is shut down if it is the one in the slot
\* (remove_transport).
Disconnect(r) ==
    /\ Unread(r)
    /\ \/ stream[r] = "starting" /\ IsPost(r)
          /\ stream' = [stream EXCEPT ![r] = "mute"] /\ UNCHANGED down
       \/ /\ stream[r] = "serving"
          /\ \A j \in Reqs : ~ (stream[j] = "handling" /\ req[j].via = r)
          /\ down' = down \union ({rt[Session(r)].slot} \intersect {r})
          /\ stream' = [stream EXCEPT ![r] = IF IsSse(r) THEN "closing" ELSE "ended"]
    /\ UNCHANGED <<conf, server, store, rt, req, open, out, told, removed, ask>>

\* The task that ran the stream of an SSE session deletes the session.
DeleteSse(r) ==
    /\ stream[r] = "closing"
    /\ stream' = [stream EXCEPT ![r] = "ended"]
    /\ store' = store \ {r}
    /\ removed' = removed \union {r}
    /\ UNCHANGED <<conf, server, rt, req, down, open, out, told, ask>>

\* The client stops reading a body (external).
ClientLeaves(r) ==
    /\ r \in open
    /\ open' = open \ {r}
    /\ UNCHANGED <<conf, server, store, rt, req, stream, down, out, told, removed, ask>>

-----------------------------------------------------------------------------
(* The program: requests to a client, and the end of the server.             *)

\* runtime_by_session finds the runtime, which waits for a live standalone
\* stream to send its request on.
AskClient(s) ==
    /\ conf.asks /\ s \in store /\ ask[s].st = "none"
    /\ ask' = [ask EXCEPT ![s].st = "waiting"]
    /\ UNCHANGED <<conf, server, store, rt, req, stream, down, open, out, told, removed>>

\* runtime_by_session finds the runtime, which writes to the transport in the
\* slot, shut down or not (one line per body is enough here).
TellClient(s) ==
    /\ conf.asks /\ s \in store /\ rt[s].slot # NoReq /\ out[rt[s].slot] = <<>>
    /\ out' = [out EXCEPT ![rt[s].slot] = Append(@, "note")]
    /\ UNCHANGED <<conf, server, store, rt, req, stream, down, open, told, removed, ask>>

\* The request wrappers of AxumRuntime and ActixRuntime.
SendRequest(s) == conf.framework = "axum" /\ AskClient(s)

ActixSendRequest(s) == conf.framework = "actix" /\ AskClient(s)

\* The notification wrappers.
SendNotification(s) == conf.framework = "axum" /\ TellClient(s)

ActixSendNotification(s) == conf.framework = "actix" /\ TellClient(s)

\* The callback that polls the client's tasks asks through the session.
PollTask(s) == conf.polls /\ AskClient(s)

\* Status changes in the server's task store are sent on to their session.
ForwardTaskStatus(s) == conf.polls /\ TellClient(s)

\* The request goes out and is pending on that stream.
RequestSent(s) ==
    /\ ask[s].st = "waiting" /\ Live(s)
    /\ ask' = [ask EXCEPT ![s] = [st |-> "sent", on |-> rt[s].slot]]
    /\ UNCHANGED <<conf, server, store, rt, req, stream, down, open, out, told, removed>>

\* No stream, or no answer, in time.
RequestTimesOut(s) ==
    /\ ask[s].st \in {"waiting", "sent"}
    /\ ask' = [ask EXCEPT ![s].st = "failed"]
    /\ UNCHANGED <<conf, server, store, rt, req, stream, down, open, out, told, removed>>

\* AxumRuntime::create, ActixRuntime::create and the task that serves.
StartServer ==
    /\ server = "new"
    /\ server' = IF Serves(conf) THEN "up" ELSE "failed"
    /\ UNCHANGED <<conf, store, rt, req, stream, down, open, out, told, removed, ask>>

\* shutdown_signal of axum clears the store and stops gracefully; actix has a
\* handler of its own that only stops.
Signal ==
    /\ conf.stops /\ server = "up"
    /\ server' = "draining"
    /\ store' = IF conf.framework = "axum" THEN {} ELSE store
    /\ removed' = removed \union (store \ store')
    /\ UNCHANGED <<conf, rt, req, stream, down, open, out, told, ask>>

\* The graceful stop ends, at the latest when its time is over.
ServerEnds ==
    /\ server = "draining"
    /\ server' = "ended"
    /\ UNCHANGED <<conf, store, rt, req, stream, down, open, out, told, removed, ask>>

Handler(r) ==
    \/ IsFull(r) \/ StartSession(r) \/ StoreSession(r) \/ ConnectSse(r) \/ Lookup(r)
    \/ ReadAuth(r) \/ WriteAuth(r) \/ PostResult(r) \/ PostStream(r) \/ PostOneShot(r)
    \/ FirstLine(r) \/ PostMessages(r) \/ OpenStandalone(r) \/ StandaloneReady(r)
    \/ ShutdownRuntime(r) \/ DropSession(r)

StreamTask(r) ==
    \/ StoreTransport(r) \/ ConsumePayload(r) \/ HandlerReturns(r) \/ Drain(r)
    \/ Disconnect(r) \/ DeleteSse(r)

Next ==
    \/ \E r \in Reqs : \/ Arrive(r) \/ Handler(r) \/ StreamTask(r) \/ KeepAlive(r)
                        \/ HandlerNotifies(r) \/ ClientLeaves(r)
    \/ \E s \in Reqs : \/ SendRequest(s) \/ ActixSendRequest(s) \/ SendNotification(s)
                        \/ ActixSendNotification(s) \/ PollTask(s) \/ ForwardTaskStatus(s)
                        \/ RequestSent(s) \/ RequestTimesOut(s)
    \/ StartServer \/ Signal \/ ServerEnds

\* Handlers, stream tasks and timers run; requests, clients leaving, the
\* program's requests and the signal need not come.
Fairness ==
    /\ \A r \in Reqs : /\ WF_vars(Handler(r)) /\ WF_vars(StreamTask(r))
                        /\ WF_vars(KeepAlive(r))
    /\ \A s \in Reqs : WF_vars(RequestTimesOut(s))
    /\ WF_vars(StartServer) /\ WF_vars(ServerEnds)

Spec == Init /\ [][Next]_vars /\ Fairness

-----------------------------------------------------------------------------
(* Properties.                                                               *)





\* A client that is gone leaves nothing behind: its stream ends, also one that a
\* GET opened on a session that a concurrent DELETE was removing, and an SSE
\* session does not outlive its connection.
AbandonedEnds ==
    \A r \in Reqs :
        /\ Unread(r) /\ stream[r] # "none" ~> stream[r] \in {"ended", "mute"}
        /\ IsSse(r) /\ r \in store /\ r \notin open ~> r \notin store

=============================================================================
