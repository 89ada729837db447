-------------------------- MODULE ClientTransports --------------------------
(***************************************************************************)
(* The three transports of a client that live as long as its connection:   *)
(* stdio, SSE and the standalone stream of Streamable HTTP.  Each has a    *)
(* start and a shut_down, a task that reads the server's stream and        *)
(* reconnects, a task that POSTs what the dispatcher writes, and a reader  *)
(* that cuts the bytes into messages                                       *)
(* (crates/rust-mcp-transport/src: stdio.rs, client_sse.rs,                *)
(* client_streamable_http.rs, mcp_stream.rs and utils/).                   *)
(*                                                                         *)
(* The server is external: it numbers its messages, gives them ids on a    *)
(* standalone stream and replays what follows a Last-Event-ID it knows.    *)
(* Time is left out: a sleep ends, a timeout strikes at some point.        *)
(***************************************************************************)
EXTENDS SseWire

CONSTANTS
    Setups,      \* what is explored: a kind of transport and its workload
    MaxLine,     \* max_line_length
    Capacity,    \* DEFAULT_CHANNEL_CAPACITY
    MaxRetries   \* max_retries

\* A setup: the transport; the sizes of the server's messages 1, 2, ...; the
\* number of messages the client writes, and those of them that do not fit
\* the buffer of a BufWriter; a bound on the connections that are refused or
\* broken and on the comments.
IsSetup(s) ==
    /\ s.kind \in {"stdio", "sse", "standalone"}
    /\ s.sizes \in Seq(Nat \ {0})
    /\ s.writes \in Nat /\ s.big \subseteq 1 .. s.writes
    /\ s.faults \in Nat

ASSUME ClientTransportsAssumption ==
    /\ \A s \in Setups : IsSetup(s)
    /\ MaxLine \in Nat /\ MaxRetries \in Nat
    /\ Capacity \in Nat \ {0}

VARIABLES
    setup,      \* fixed: the setup
    start,      \* the call of start: its guard of shutdown_source is held until it returns
    armed,      \* shutdown_source holds a CancellationTokenSource
    cancelled,  \* its watch channel is true
    endpoint,   \* the oneshot that start of the SSE transport waits for, and whether
                \* the client has read an endpoint event
    stream,     \* SseStream::run, or run_standalone
    wire,       \* what the server sent on the connection and the client has not read
    server,     \* the server's side
    inbound,    \* read_tx, or the pipe of a child process
    reader,     \* spawn_reader
    writer,     \* the dispatcher's write_str and WritableChannel
    post,       \* the POST task and its channel
    shut,       \* the call of shut_down
    isDown,     \* is_shut_down
    delivered,  \* history: messages the reader passed on
    posted,     \* history: the last message posted, and those posted again
    gets,       \* history: GETs begun since the last chunk
    blemish     \* history: what went wrong on the wire

clientVars == <<setup, start, armed, cancelled, endpoint, stream, wire, server, inbound,
                reader, writer, post, shut, isDown, delivered, posted, gets, blemish>>

\* The setup's transport and messages.
kind == setup.kind

Sizes == setup.sizes

Messages == 1 .. Len(Sizes)

\* Endpoints: the one of a connection, and one of another origin.
EndpointOf(conn) == 100 + conn
Foreign == 200

\* The end of an endpoint's data line.
EndsEndpoint(s) == s.key = "data" /\ s.val >= EndpointOf(0) /\ s.end

\* A line for the reader; a child that exits can leave one without newline.
Item(line, size, nl) == [line |-> line, size |-> size, nl |-> nl]

\* serde_json accepts it.
Parses(line) == Whole(line) /\ Key(line) = "data" /\ line[1].val \in Messages

Size(line) == IF Parses(line) THEN Sizes[line[1].val] ELSE 1

Items(lines) == [i \in DOMAIN lines |-> Item(lines[i], Size(lines[i]), TRUE)]

IsLine(line) == \A i \in DOMAIN line : line[i].end \in BOOLEAN /\ line[i].val \in Nat

TransportTypeOK ==
    /\ setup \in Setups
    /\ start \in {"new", "awaiting", "connecting", "up", "failed"}
    /\ {armed, cancelled, isDown} \subseteq BOOLEAN
    /\ endpoint.state \in {"pending", "sent", "none"} /\ IsLine(endpoint.line)
    /\ stream.pc \in {"none", "check", "get", "sleep", "read", "deliver", "ended"}
    /\ stream.tries \in 0 .. MaxRetries /\ stream.dials \in 0 .. MaxRetries
    /\ IsLine(stream.buffer) /\ IsLine(stream.last)
    /\ (stream.pc = "deliver") <=> (stream.todo # <<>>)
    /\ IsLine(wire)
    /\ server.faults \in 0 .. setup.faults /\ server.log \in 0 .. Len(Sizes)
    /\ kind # "stdio" => Len(inbound) <= Capacity
    /\ reader.pc \in {"none", "reading", "ended"} /\ reader.len <= MaxLine
    /\ writer.pc \in {"idle", "ready", "parked"}
    /\ post.pc \in {"none", "idle", "posting", "ended"} /\ Len(post.queue) <= Capacity
    /\ shut \in {"none", "locking", "waiting", "ok", "timeout", "error"}

Init ==
    /\ setup \in Setups
    /\ start = "new" /\ armed = FALSE /\ cancelled = FALSE
    /\ endpoint = [state |-> "pending", line |-> <<>>, heard |-> FALSE]
    /\ stream = [pc |-> "none", tries |-> 0, dials |-> 0, buffer |-> <<>>, todo |-> <<>>,
                 last |-> <<>>]
    /\ wire = <<>>
    /\ server = [up |-> FALSE, conn |-> 0, log |-> 0, faults |-> 0]
    /\ inbound = <<>>
    /\ reader = [pc |-> "none", items |-> <<>>, got |-> 0, len |-> 0, over |-> FALSE]
    /\ writer = [pc |-> "idle", next |-> 1, parts |-> <<>>, spawned |-> <<>>]
    /\ post = [pc |-> "none", queue |-> <<>>]
    /\ shut = "none" /\ isDown = FALSE
    /\ delivered = <<>> /\ posted = [last |-> 0, again |-> {}] /\ gets = 0 /\ blemish = {}

-----------------------------------------------------------------------------
(***************************************************************************)
(* start                                                                   *)
(***************************************************************************)

\* The source is stored under a lock that is released when start returns.
Arm(pc) ==
    /\ start = "new"
    /\ start' = pc
    /\ armed' = TRUE

\* stdio: the child is spawned, or not; stdin is ours for a server.
StartStdio ==
    /\ kind = "stdio"
    /\ \/ Arm("up") /\ reader' = [reader EXCEPT !.pc = "reading"]
                    /\ server' = [server EXCEPT !.up = TRUE]
       \/ Arm("failed") /\ UNCHANGED <<reader, server>>
    /\ UNCHANGED <<setup, cancelled, endpoint, stream, wire, inbound, writer, post, shut,
                   isDown, delivered, posted, gets, blemish>>

\* SSE: the stream task is spawned and start waits for the endpoint.
StartSse ==
    /\ kind = "sse"
    /\ Arm("awaiting")
    /\ stream' = [stream EXCEPT !.pc = "check"]
    /\ UNCHANGED <<setup, cancelled, endpoint, wire, server, inbound, reader, writer, post,
                   shut, isDown, delivered, posted, gets, blemish>>

\* Standalone: start itself makes the first connection.
StartStandalone ==
    /\ kind = "standalone"
    /\ Arm("connecting")
    /\ stream' = [stream EXCEPT !.pc = "check"]
    /\ UNCHANGED <<setup, cancelled, endpoint, wire, server, inbound, reader, writer, post,
                   shut, isDown, delivered, posted, gets, blemish>>

\* The tasks that exist once start succeeds.
Spawned ==
    /\ start' = "up"
    /\ reader' = [reader EXCEPT !.pc = "reading"]
    /\ post' = [post EXCEPT !.pc = "idle"]

\* validate_message_endpoint: relative, or of the same origin, or no URL.
ValidateMessageEndpoint(line) == line[1].val # Foreign

\* The endpoint event decides the start of the SSE transport.
EndpointReceived ==
    /\ start = "awaiting"
    /\ endpoint.state # "pending"
    /\ IF endpoint.state = "sent" /\ ValidateMessageEndpoint(endpoint.line)
       THEN Spawned
       ELSE start' = "failed" /\ UNCHANGED <<reader, post>>
    /\ UNCHANGED <<setup, armed, cancelled, endpoint, stream, wire, server, inbound, writer,
                   shut, isDown, delivered, posted, gets, blemish>>

-----------------------------------------------------------------------------
(***************************************************************************)
(* The stream task                                                         *)
(***************************************************************************)

\* read_rx is dropped: the send fails.
Closed == start = "failed" \/ reader.pc = "ended"

\* The task returns; an endpoint nobody sent is None, or a dropped sender.
StreamReturns ==
    /\ stream' = [stream EXCEPT !.pc = "ended", !.todo = <<>>]
    /\ server' = [server EXCEPT !.up = FALSE]
    /\ wire' = <<>>
    /\ endpoint' = IF endpoint.state = "pending" THEN [endpoint EXCEPT !.state = "none"]
                   ELSE endpoint
    /\ start' = IF start = "connecting" THEN "failed" ELSE start

\* is_cancelled(), before a connection attempt.
CheckCancelled == cancelled

\* The top of the loop: the task ends, or sends its GET.
Connect ==
    /\ stream.pc = "check"
    /\ IF CheckCancelled
       THEN StreamReturns /\ UNCHANGED <<gets, blemish>>
       ELSE /\ stream' = [stream EXCEPT !.pc = "get"]
            /\ gets' = gets + 1
            /\ blemish' = IF kind = "standalone" /\ server.conn > 0 /\ stream.last = <<>>
                          THEN blemish \cup {"bare"} ELSE blemish
            /\ UNCHANGED <<server, wire, endpoint, start>>
    /\ UNCHANGED <<setup, armed, cancelled, inbound, reader, writer, post, shut, isDown,
                   delivered, posted>>

\* What the server sends first: the endpoint; or, on a standalone stream, an
\* event with an id and no data, and the messages after the given id.
Event(m) == Display(<<>>, IF kind = "standalone" THEN Line("id", m) ELSE <<>>, <<>>, Line("data", m))

Opening(conn, foreign, primes) ==
    IF kind = "sse"
    THEN Display(<<>>, <<>>, EndpointEvent,
                 Line("data", IF foreign THEN Foreign ELSE EndpointOf(conn)))
    ELSE (IF primes THEN Display(<<>>, Line("id", server.log), <<>>, EmptyData) ELSE <<>>)
         \o (IF Whole(stream.last)
             THEN FlattenSeq([i \in 1 .. (server.log - stream.last[1].val) |->
                                Event(stream.last[1].val + i)])
             ELSE <<>>)

\* The server accepts the GET.
Connected ==
    /\ stream.pc = "get"
    /\ server' = [server EXCEPT !.up = TRUE, !.conn = @ + 1]
    /\ \E f, p \in BOOLEAN : wire' = Opening(server.conn + 1, f, p)
    /\ stream' = [stream EXCEPT !.pc = "read", !.dials = 0]
    /\ IF start = "connecting" THEN Spawned ELSE UNCHANGED <<start, reader, post>>
    /\ UNCHANGED <<setup, armed, cancelled, endpoint, inbound, writer, shut, isDown, delivered,
                   posted, gets, blemish>>

\* The SSE client takes an answer of any status for the stream: it reads the
\* page of an error.
ErrorPage ==
    /\ kind = "sse" /\ stream.pc = "get"
    /\ server.faults < setup.faults
    /\ server' = [server EXCEPT !.faults = @ + 1]
    /\ wire' = <<Symbol("page", 0, FALSE)>>
    /\ stream' = [stream EXCEPT !.pc = "read"]
    /\ UNCHANGED <<setup, start, armed, cancelled, endpoint, inbound, reader, writer, post, shut,
                   isDown, delivered, posted, gets, blemish>>

\* The standalone client gives up at 404, 405 or another content type.
NotSupported ==
    /\ kind = "standalone" /\ stream.pc = "get"
    /\ server.faults < setup.faults
    /\ StreamReturns
    /\ UNCHANGED <<setup, armed, cancelled, inbound, reader, writer, post, shut, isDown,
                   delivered, posted, gets, blemish>>

\* A GET fails: the SSE client counts it with the streams that ended, the
\* standalone one for this connection alone.
GetFails ==
    /\ stream.pc = "get"
    /\ server.faults < setup.faults
    /\ LET count == IF kind = "sse" THEN stream.tries ELSE stream.dials
       IN  IF count >= MaxRetries THEN StreamReturns
           ELSE /\ stream' = IF kind = "sse" THEN [stream EXCEPT !.pc = "sleep", !.tries = @ + 1]
                             ELSE [stream EXCEPT !.pc = "sleep", !.dials = @ + 1]
                /\ server' = [server EXCEPT !.faults = @ + 1]
                /\ UNCHANGED <<wire, endpoint, start>>
    /\ UNCHANGED <<setup, armed, cancelled, inbound, reader, writer, post, shut, isDown,
                   delivered, posted, gets, blemish>>

\* retry_delay, or the delay of a retry field, passes.
Sleep ==
    /\ stream.pc = "sleep"
    /\ stream' = [stream EXCEPT !.pc = "check"]
    /\ UNCHANGED <<setup, start, armed, cancelled, endpoint, wire, server, inbound, reader,
                   writer, post, shut, isDown, delivered, posted, gets, blemish>>

\* Faulty variant: the first id is kept.
Mut_Cursor(last, event) == IF last = <<>> THEN event.id ELSE last

\* _last_event_id: the id of an event with data.
Cursor(last, event) == IF event.id # <<>> THEN event.id ELSE last

\* A chunk of the SSE stream.
ReadLines(chunk) ==
    LET r == ProcessLines(stream.buffer, chunk, endpoint.state = "pending")
    IN  /\ stream' = [stream EXCEPT !.buffer = r.buffer, !.tries = 0,
                        !.pc = IF r.items = <<>> THEN "read" ELSE "deliver",
                        !.todo = [i \in DOMAIN r.items |-> [id |-> <<>>, data |-> <<r.items[i]>>]]]
        /\ endpoint' = [state |-> IF r.endpoint = <<>> THEN endpoint.state ELSE "sent",
                        line |-> IF r.endpoint = <<>> THEN endpoint.line ELSE r.endpoint,
                        heard |-> endpoint.heard \/ \E i \in DOMAIN chunk : EndsEndpoint(chunk[i])]
        /\ blemish' = IF r.named THEN blemish \cup {"split"} ELSE blemish

\* A chunk of a standalone stream.
ReadEvents(chunk) ==
    LET r == ProcessNewChunk(stream.buffer, chunk)
        todo == SelectSeq(r.events, LAMBDA e : e.data # <<>>)
    IN  /\ stream' = [stream EXCEPT !.buffer = r.buffer, !.tries = 0, !.todo = todo,
                        !.pc = IF todo = <<>> THEN "read" ELSE "deliver"]
        /\ UNCHANGED <<endpoint, blemish>>

\* The next chunk arrives; retry_count starts again.
Chunk ==
    /\ stream.pc = "read"
    /\ \E n \in 1 .. Len(wire) :
         /\ wire' = SubSeq(wire, n + 1, Len(wire))
         /\ IF kind = "sse" THEN ReadLines(SubSeq(wire, 1, n)) ELSE ReadEvents(SubSeq(wire, 1, n))
    /\ gets' = 0
    /\ UNCHANGED <<setup, start, armed, cancelled, server, inbound, reader, writer, post, shut,
                   isDown, delivered, posted>>

\* read_tx.send for the next event: it waits for room, without looking at the
\* token, and fails when the reader is gone.
Deliver ==
    /\ stream.pc = "deliver"
    /\ \/ Closed /\ StreamReturns /\ UNCHANGED inbound
       \/ /\ ~ Closed /\ Len(inbound) < Capacity
          /\ inbound' = Append(inbound, Items(Head(stream.todo).data))
          /\ stream' = [stream EXCEPT !.last = Cursor(@, Head(stream.todo)),
                                      !.todo = Tail(@),
                                      !.pc = IF Len(stream.todo) = 1 THEN "read" ELSE "deliver"]
          /\ UNCHANGED <<server, wire, endpoint, start>>
    /\ UNCHANGED <<setup, armed, cancelled, reader, writer, post, shut, isDown, delivered, posted,
                   gets, blemish>>

\* retry_count < max_retries.
MayReconnect == stream.tries < MaxRetries

\* The stream ends or breaks, what is on its way is lost.  The buffer keeps
\* the beginning of a line or an event.
StreamBreaks ==
    /\ stream.pc = "read"
    /\ server.faults < setup.faults
    /\ IF ~ MayReconnect THEN StreamReturns
       ELSE /\ stream' = [stream EXCEPT !.pc = "sleep",
                            !.tries = IF @ < MaxRetries THEN @ + 1 ELSE @]
            /\ server' = [server EXCEPT !.up = FALSE, !.faults = @ + 1]
            /\ wire' = <<>>
            /\ UNCHANGED <<endpoint, start>>
    /\ blemish' = IF stream.buffer \in {<<>>, <<Blank>>} THEN blemish ELSE blemish \cup {"torn"}
    /\ UNCHANGED <<setup, armed, cancelled, inbound, reader, writer, post, shut, isDown,
                   delivered, posted, gets>>

\* The select on the next chunk sees the token.
StreamCancelled ==
    /\ stream.pc = "read"
    /\ cancelled
    /\ StreamReturns
    /\ UNCHANGED <<setup, armed, cancelled, inbound, reader, writer, post, shut, isDown,
                   delivered, posted, gets, blemish>>

-----------------------------------------------------------------------------
(***************************************************************************)
(* The server and the child process                                        *)
(***************************************************************************)

\* The next message: on the connection, if there is one, or on stdout.
Emit ==
    /\ server.log < Len(Sizes)
    /\ kind = "stdio" => server.up
    /\ start \in {"up", "awaiting"}
    /\ server' = [server EXCEPT !.log = @ + 1]
    /\ IF kind = "stdio"
       THEN inbound' = Append(inbound, Items(<<Line("data", server.log + 1)>>)) /\ UNCHANGED wire
       ELSE wire' = (IF server.up THEN wire \o Event(server.log + 1) ELSE wire) /\ UNCHANGED inbound
    /\ UNCHANGED <<setup, start, armed, cancelled, endpoint, stream, reader, writer, post, shut,
                   isDown, delivered, posted, gets, blemish>>

\* A keep-alive comment.
Comment ==
    /\ kind = "sse" /\ server.up /\ wire = <<>>
    /\ server.faults < setup.faults
    /\ server' = [server EXCEPT !.faults = @ + 1]
    /\ wire' = Line("comment", 0) \o <<Blank>>
    /\ UNCHANGED <<setup, start, armed, cancelled, endpoint, stream, inbound, reader, writer,
                   post, shut, isDown, delivered, posted, gets, blemish>>

\* The child exits, perhaps with a line begun; nothing makes it exit.
ChildExits ==
    /\ kind = "stdio" /\ server.up
    /\ server' = [server EXCEPT !.up = FALSE]
    /\ \/ UNCHANGED inbound
       \/ /\ server.log < Len(Sizes)
          /\ \E n \in 1 .. Sizes[server.log + 1] :
               inbound' = Append(inbound, <<Item(Line("data", server.log + 1), n, FALSE)>>)
    /\ UNCHANGED <<setup, start, armed, cancelled, endpoint, stream, wire, reader, writer, post,
                   shut, isDown, delivered, posted, gets, blemish>>

-----------------------------------------------------------------------------
(***************************************************************************)
(* The reader                                                              *)
(***************************************************************************)

\* ReadableChannel::poll_read takes the next buffer, or the pipe has bytes.
PollRead ==
    /\ reader.pc = "reading" /\ reader.items = <<>>
    /\ inbound # <<>>
    /\ reader' = [reader EXCEPT !.items = Head(inbound)]
    /\ inbound' = Tail(inbound)
    /\ UNCHANGED <<setup, start, armed, cancelled, endpoint, stream, wire, server, writer, post,
                   shut, isDown, delivered, posted, gets, blemish>>

\* What becomes of a line, complete or cut off by the end of the pipe.
LineRead(item, fits) ==
    delivered' = IF fits /\ Parses(item.line) /\ item.size = Size(item.line)
                 THEN Append(delivered, item.line[1].val) ELSE delivered

\* A chunk of any length of the current line; with its newline the line is
\* done, and what does not parse is skipped.
ReadCappedLine ==
    /\ reader.pc = "reading" /\ reader.items # <<>>
    /\ LET item == Head(reader.items)
           r == [len |-> reader.len, over |-> reader.over]
           rest == item.size - reader.got
       IN  \/ \E n \in 1 .. rest :
                /\ reader' = LET b == Buffered(r, n, MaxLine)
                             IN  [reader EXCEPT !.got = @ + n, !.len = b.len, !.over = b.over]
                /\ UNCHANGED delivered
           \/ /\ item.nl
              /\ LineRead(item, Fits(r, rest, MaxLine))
              /\ reader' = [reader EXCEPT !.items = Tail(@), !.got = 0, !.len = 0, !.over = FALSE]
    /\ UNCHANGED <<setup, start, armed, cancelled, endpoint, stream, wire, server, inbound,
                   writer, post, shut, isDown, posted, gets, blemish>>

\* Nothing more can come: the sender of the channel is dropped, the child is
\* gone.
AtEnd ==
    /\ inbound = <<>>
    /\ IF kind = "stdio" THEN ~ server.up ELSE stream.pc = "ended"
    /\ reader.items # <<>> =>
         ~ Head(reader.items).nl /\ reader.got = Head(reader.items).size

\* The reader ends: cancelled, at the end of the pipe, whose last line needs
\* no newline, or with an error at the end of the channel.
ReaderEnds ==
    /\ reader.pc = "reading"
    /\ \/ cancelled /\ UNCHANGED delivered
       \/ /\ AtEnd
          /\ IF reader.items # <<>> THEN LineRead(Head(reader.items), ~ reader.over)
             ELSE UNCHANGED delivered
    /\ reader' = [reader EXCEPT !.pc = "ended", !.items = <<>>, !.got = 0, !.len = 0,
                                !.over = FALSE]
    /\ UNCHANGED <<setup, start, armed, cancelled, endpoint, stream, wire, server, inbound,
                   writer, post, shut, isDown, posted, gets, blemish>>

-----------------------------------------------------------------------------
(***************************************************************************)
(* Writes and POSTs                                                        *)
(***************************************************************************)

\* message_sender is set at the end of start; without it send_message is an
\* error.
HasSender == start = "up"

\* write_str: message and newline leave the BufWriter together, or the
\* newline follows on its own (0) if the message goes past the buffer.
WriteStr ==
    /\ HasSender /\ kind # "stdio"
    /\ writer.pc = "idle" /\ writer.next <= setup.writes
    /\ writer' = [writer EXCEPT !.pc = "ready", !.next = @ + 1,
                    !.parts = IF writer.next \in setup.big THEN <<writer.next, 0>> ELSE <<writer.next>>]
    /\ UNCHANGED <<setup, start, armed, cancelled, endpoint, stream, wire, server, inbound,
                   reader, post, shut, isDown, delivered, posted, gets, blemish>>

\* Faulty variant: a full channel loses the bytes.
Mut_PollWrite ==
    /\ writer.pc = "ready"
    /\ writer' = [writer EXCEPT !.parts = Tail(@),
                                !.pc = IF Len(writer.parts) = 1 THEN "idle" ELSE "ready"]
    /\ IF Len(post.queue) < Capacity
       THEN post' = [post EXCEPT !.queue = Append(@, Head(writer.parts))] ELSE UNCHANGED post
    /\ UNCHANGED <<setup, start, armed, cancelled, endpoint, stream, wire, server, inbound,
                   reader, shut, isDown, delivered, posted, gets, blemish>>

\* WritableChannel::poll_write: into the channel, or an error when it is
\* closed; when it is full a task sends a copy and the write stays pending.
PollWrite ==
    /\ writer.pc = "ready"
    /\ \/ /\ post.pc = "ended"
          /\ writer' = [writer EXCEPT !.pc = "idle", !.parts = <<>>]
          /\ UNCHANGED <<post, blemish>>
       \/ /\ post.pc # "ended" /\ Len(post.queue) < Capacity
          /\ post' = [post EXCEPT !.queue = Append(@, Head(writer.parts))]
          /\ writer' = [writer EXCEPT !.parts = Tail(@),
                                      !.pc = IF Len(writer.parts) = 1 THEN "idle" ELSE "ready"]
          /\ UNCHANGED blemish
       \/ /\ post.pc # "ended" /\ Len(post.queue) = Capacity
          /\ writer' = [writer EXCEPT !.pc = "parked", !.spawned = <<Head(writer.parts)>>]
          /\ blemish' = blemish \cup {"full"}
          /\ UNCHANGED post
    /\ UNCHANGED <<setup, start, armed, cancelled, endpoint, stream, wire, server, inbound,
                   reader, shut, isDown, delivered, posted, gets>>

\* The copy is sent and the writer polled again, or the channel was closed
\* and nobody wakes the writer.
SpawnedSend ==
    /\ writer.spawned # <<>>
    /\ \/ /\ post.pc = "ended"
          /\ writer' = [writer EXCEPT !.spawned = <<>>]
          /\ UNCHANGED post
       \/ /\ post.pc # "ended" /\ Len(post.queue) < Capacity
          /\ post' = [post EXCEPT !.queue = @ \o writer.spawned]
          /\ writer' = [writer EXCEPT !.spawned = <<>>, !.pc = "ready"]
    /\ UNCHANGED <<setup, start, armed, cancelled, endpoint, stream, wire, server, inbound,
                   reader, shut, isDown, delivered, posted, gets, blemish>>

\* The POST task takes the next payload and sends it.
TakePost ==
    /\ post.pc = "idle" /\ post.queue # <<>>
    /\ post' = [post EXCEPT !.pc = "posting", !.queue = Tail(@)]
    /\ posted' = LET m == Head(post.queue)
                 IN  IF m = 0 THEN posted
                     ELSE [last |-> m, again |-> posted.again \cup ({m} \cap 1 .. posted.last)]
    /\ UNCHANGED <<setup, start, armed, cancelled, endpoint, stream, wire, server, inbound,
                   reader, writer, shut, isDown, delivered, gets, blemish>>

\* The POST is answered, or fails: an error is only logged.
PostAnswered ==
    /\ post.pc = "posting"
    /\ post' = [post EXCEPT !.pc = "idle"]
    /\ UNCHANGED <<setup, start, armed, cancelled, endpoint, stream, wire, server, inbound,
                   reader, writer, shut, isDown, delivered, posted, gets, blemish>>

\* Between two payloads the task sees the token; it ends with its channel.
PostStops ==
    /\ post.pc = "idle" /\ cancelled
    /\ post' = [pc |-> "ended", queue |-> <<>>]
    /\ UNCHANGED <<setup, start, armed, cancelled, endpoint, stream, wire, server, inbound,
                   reader, writer, shut, isDown, delivered, posted, gets, blemish>>

-----------------------------------------------------------------------------
(***************************************************************************)
(* shut_down                                                               *)
(***************************************************************************)

ShutDown ==
    /\ shut = "none" /\ start # "new"
    /\ shut' = "locking"
    /\ UNCHANGED <<setup, start, armed, cancelled, endpoint, stream, wire, server, inbound,
                   reader, writer, post, isDown, delivered, posted, gets, blemish>>

\* The lock of shutdown_source is free when start has returned.
Unlocked == start \in {"up", "failed"}

\* Some task holds a token: cancel() fails without one.
HasReceivers ==
    \/ reader.pc = "reading"
    \/ stream.pc \notin {"none", "ended"}
    \/ post.pc \in {"idle", "posting"}

\* cancel(), and is_shut_down; an error returns before that.  stdio waits for
\* no task.
Cancel ==
    /\ shut = "locking" /\ Unlocked
    /\ IF ~ HasReceivers
       THEN shut' = "error" /\ UNCHANGED <<armed, cancelled, isDown>>
       ELSE /\ cancelled' = TRUE /\ armed' = FALSE /\ isDown' = TRUE
            /\ shut' = IF kind = "stdio" THEN "ok" ELSE "waiting"
    /\ UNCHANGED <<setup, start, endpoint, stream, wire, server, inbound, reader, writer, post,
                   delivered, posted, gets, blemish>>

\* The SSE transport joins both tasks, the standalone one the POST task.
Joined ==
    /\ post.pc \in {"none", "ended"}
    /\ kind = "sse" => stream.pc \in {"none", "ended"}

\* Faulty variant: the join has no timeout.
Mut_ShutDownReturns ==
    /\ shut = "waiting"
    /\ Joined /\ shut' = "ok"
    /\ UNCHANGED <<setup, start, armed, cancelled, endpoint, stream, wire, server, inbound,
                   reader, writer, post, isDown, delivered, posted, gets, blemish>>

\* The tasks are joined, or SHUTDOWN_TIMEOUT_SECONDS pass.
ShutDownReturns ==
    /\ shut = "waiting"
    /\ \/ Joined /\ shut' = "ok"
       \/ shut' = "timeout"
    /\ UNCHANGED <<setup, start, armed, cancelled, endpoint, stream, wire, server, inbound,
                   reader, writer, post, isDown, delivered, posted, gets, blemish>>

-----------------------------------------------------------------------------

\* Steps of the client's own tasks: they are scheduled, sleeps and timeouts
\* pass.
StartStep == StartStdio \/ StartSse \/ StartStandalone \/ EndpointReceived
StreamStep == Connect \/ Sleep \/ Deliver \/ StreamCancelled
ReaderStep == PollRead \/ ReadCappedLine \/ ReaderEnds
WriterStep == PollWrite
SpawnedStep == SpawnedSend
PostStep == TakePost
PostCancelled == PostStops
ShutDownStep == Cancel \/ ShutDownReturns

\* Answers of the network, the server, the child, and the application.
Network == Connected \/ ErrorPage \/ NotSupported \/ GetFails \/ Chunk \/ StreamBreaks \/ PostAnswered
Peer == Emit \/ Comment \/ ChildExits
Application == WriteStr \/ ShutDown

Next ==
    \/ StartStep \/ StreamStep \/ ReaderStep \/ WriterStep \/ SpawnedStep \/ PostStep
    \/ PostCancelled \/ ShutDownStep \/ Network \/ Peer \/ Application

Spec == Init /\ [][Next]_clientVars

\* The POST task's select takes one of its ready branches at random, so the
\* token is seen in the end however many payloads are waiting.
FairSpec ==
    /\ Spec
    /\ WF_clientVars(StreamStep) /\ WF_clientVars(ReaderStep)
    /\ WF_clientVars(WriterStep) /\ WF_clientVars(SpawnedStep)
    /\ WF_clientVars(PostStep) /\ SF_clientVars(PostCancelled)
    /\ WF_clientVars(ShutDownStep)
    /\ WF_clientVars(EndpointReceived)

-----------------------------------------------------------------------------

Fitting(S) == {m \in S : Sizes[m] <= MaxLine}

\* What the server sends arrives, however the bytes are cut into chunks and
\* however often the stream is reconnected (run_standalone, SseParser,
\* read_capped_line).  As long as no connection broke inside an event, the reader
\* passes on no message twice, none out of order and none longer than
\* max_line_length.  None that fits is left out between two that were passed
\* on: on a standalone stream what was sent while the client reconnected is
\* replayed after the id of the last event with data, unless there was none yet
\* (SSE has no replay).  And an endpoint event the client has read reaches start,
\* unless a chunk ended between its lines (SseStream::run).
InOrder ==
    "torn" \notin blemish =>
        /\ \A i, j \in DOMAIN delivered : i < j => delivered[i] < delivered[j]
        /\ \A i \in DOMAIN delivered : delivered[i] \in Fitting(Messages)
        /\ kind # "sse" /\ "bare" \notin blemish =>
              \A i \in DOMAIN delivered : \A m \in Fitting(1 .. delivered[i]) :
                  \E j \in 1 .. i : delivered[j] = m
        /\ endpoint.heard /\ "split" \notin blemish => endpoint.state # "pending"

\* The POST task posts what was written in order and leaves nothing out; it
\* posts a message again only if its channel was full when it was written:
\* then poll_write sends a copy and, polled again, the bytes themselves.
PostedInOrder ==
    [][/\ posted'.last \in {posted.last, posted.last + 1}
       /\ posted'.again # {} => "full" \in blemish]_clientVars

\* A transport that is shut down comes to rest.  shut_down returns, also with a
\* POST or a GET that is never answered; it can only wait for a start that never
\* returns.  A cancelled task ends, unless it waits for the answer of a request
\* forever.  No GET begins after the token was cancelled and no POST after
\* shut_down returned Ok.
ShutDownEnds ==
    /\ \/ <>[](start \in {"awaiting", "connecting"})
       \/ (shut = "locking") ~> (shut \in {"ok", "timeout", "error"})
    /\ <>[](stream.pc = "get") \/ (cancelled ~> stream.pc \in {"none", "ended"})
    /\ <>[](post.pc = "posting") \/ (cancelled ~> post.pc \in {"none", "ended"})
    /\ cancelled ~> reader.pc # "reading"
    /\ [][/\ cancelled => gets' <= gets
          /\ shut = "ok" => (post'.pc = "posting" => post.pc = "posting")]_clientVars

=============================================================================
