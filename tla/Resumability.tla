---------------------------- MODULE Resumability ----------------------------
(***************************************************************************)
(* Resuming the standalone stream of a Streamable HTTP session: tasks that *)
(* send notifications, the event store, the connections of the client and  *)
(* the replay after a reconnect                                            *)
(* (write_str in crates/rust-mcp-transport/src/message_dispatcher.rs,      *)
(* ServerRuntime::send, create_sse_stream in                               *)
(* crates/rust-mcp-sdk/src/mcp_http/http_utils.rs, run_standalone in       *)
(* crates/rust-mcp-transport/src/utils/streamable_http_stream.rs).         *)
(*                                                                         *)
(* The client makes its connections 1, 2, ... one after the other.  How a  *)
(* GET is accepted or refused is the subject of StandaloneStream.          *)
(***************************************************************************)
EXTENDS EventQueue, Functions

CONSTANTS
    Writers,  \* server tasks that send notifications
    ConnCount \* bound: connections the client makes

ASSUME ResumeAssumption == ConnCount \in Nat

Conns == 1 .. ConnCount

\* The streams of the session: the standalone one and a POST's.
GetStream == "get"
PostStream == "post"

VARIABLES
    queue,   \* the session's queue in the event store
    stamp,   \* current_timestamp()
    number,  \* messages given to write_str so far
    slot,    \* transport_map: the last connection stored, 0 for none
    conn,    \* the server's side of a connection
    pipe,    \* what was written to a connection and not read by the client
    replay,  \* the replay task of a connection
    writer,  \* the write_str calls under way
    open,    \* the connection the client reads, 0 for none
    cursor,  \* _last_event_id of the client: a timestamp, 0 for none
    seen     \* messages the client has received

resumeVars == <<queue, stamp, number, slot, conn, pipe, replay, writer, open, cursor, seen>>

\* A line on the wire: the timestamp of its event id, 0 without an id.
Line == [id : 0 .. MaxStamp, msg : Messages]

\* A replay: the cursor it was asked for, the events it has still to write,
\* the messages that were due when it read the store, and those whose write
\* failed.
Replay == [state : {"none", "asked", "writing", "done"}, from : 0 .. MaxStamp,
           todo : Seq(EventEntry), due : SUBSET Messages, failed : SUBSET Messages]

NoReplay == [state |-> "none", from |-> 0, todo |-> <<>>, due |-> {}, failed |-> {}]

\* A call of write_str: the connection it writes to and its event.
Idle == [pc |-> "idle", to |-> 0, ts |-> 0, msg |-> 0]

ResumeTypeOK ==
    /\ queue \in Seq(EventEntry)
    /\ stamp \in Times
    /\ number \in 0 .. MaxStored
    /\ slot \in 0 .. ConnCount
    /\ conn \in [Conns -> {"none", "created", "started"}]
    /\ \A c \in Conns : pipe[c] \in Seq(Line) /\ replay[c] \in Replay
    /\ \A w \in Writers : writer[w] = Idle \/ writer[w] \in
         [pc : {"stamped", "stored"}, to : Conns, ts : Times, msg : Messages]
    /\ open \in 0 .. ConnCount
    /\ cursor \in 0 .. MaxStamp
    /\ seen \subseteq Messages

ResumeInit ==
    /\ queue = <<>>
    /\ stamp = 1
    /\ number = 0
    /\ slot = 0
    /\ conn = [c \in Conns |-> "none"]
    /\ pipe = [c \in Conns |-> <<>>]
    /\ replay = [c \in Conns |-> NoReplay]
    /\ writer = [w \in Writers |-> Idle]
    /\ open = 0
    /\ cursor = 0
    /\ seen = {}

MessagesIn(s) == {s[i].msg : i \in DOMAIN s}

-----------------------------------------------------------------------------
(***************************************************************************)
(* The server sends                                                        *)
(***************************************************************************)

\* The clock advances.
TimePasses ==
    /\ stamp < MaxStamp
    /\ stamp' = stamp + 1
    /\ UNCHANGED <<queue, number, slot, conn, pipe, replay, writer, open, cursor, seen>>

\* "transport stream does not exists or is closed!" otherwise.
HasTransport == slot # 0

\* A notification takes the transport in the slot, shut down or not, and
\* write_str reads the clock.
SendNotification(w) ==
    /\ writer[w] = Idle
    /\ HasTransport
    /\ number < MaxStored
    /\ number' = number + 1
    /\ writer' = [writer EXCEPT ![w] =
                    [pc |-> "stamped", to |-> slot, ts |-> stamp, msg |-> number + 1]]
    /\ UNCHANGED <<queue, stamp, slot, conn, pipe, replay, open, cursor, seen>>

\* store_event.
Store(w) ==
    /\ writer[w].pc = "stamped"
    /\ queue' = PushEvent(queue, [stream |-> GetStream, ts |-> writer[w].ts, msg |-> writer[w].msg])
    /\ writer' = [writer EXCEPT ![w].pc = "stored"]
    /\ UNCHANGED <<stamp, number, slot, conn, pipe, replay, open, cursor, seen>>

\* A line reaches the connection's pipe, or BrokenPipe if the client is gone.
WriteLine(c, line) ==
    pipe' = IF open = c THEN [pipe EXCEPT ![c] = Append(@, line)] ELSE pipe

\* The writer's lock, the id and the payload.  An error ends the call.
Write(w) ==
    /\ writer[w].pc = "stored"
    /\ WriteLine(writer[w].to, [id |-> writer[w].ts, msg |-> writer[w].msg])
    /\ writer' = [writer EXCEPT ![w] = Idle]
    /\ UNCHANGED <<queue, stamp, number, slot, conn, replay, open, cursor, seen>>

\* A message of a POST's stream is stored in the same queue.
StoreOther ==
    /\ number < MaxStored
    /\ number' = number + 1
    /\ queue' = PushEvent(queue, [stream |-> PostStream, ts |-> stamp, msg |-> number + 1])
    /\ UNCHANGED <<stamp, slot, conn, pipe, replay, writer, open, cursor, seen>>

-----------------------------------------------------------------------------
(***************************************************************************)
(* The client connects, reads and disconnects                              *)
(***************************************************************************)

\* A GET, with Last-Event-ID if the client has one: create_sse_stream spawns
\* the stream task and the replay task.
Connect(c) ==
    /\ open = 0
    /\ conn[c] = "none"
    /\ \A d \in Conns : d < c => conn[d] # "none"
    /\ open' = c
    /\ conn' = [conn EXCEPT ![c] = "created"]
    /\ replay' = [replay EXCEPT ![c] =
                    IF cursor = 0 THEN [NoReplay EXCEPT !.state = "done"]
                    ELSE [NoReplay EXCEPT !.state = "asked", !.from = cursor]]
    /\ UNCHANGED <<queue, stamp, number, slot, pipe, writer, cursor, seen>>

\* start_stream: transport.start() sets the message sender, and the transport
\* is stored in the slot.
Start(c) ==
    /\ conn[c] = "created"
    /\ conn' = [conn EXCEPT ![c] = "started"]
    /\ slot' = c
    /\ UNCHANGED <<queue, stamp, number, pipe, replay, writer, open, cursor, seen>>

\* The client remembers the id of a line that has one.
NextCursor(line) == IF line.id = 0 THEN cursor ELSE line.id

ClientReads ==
    /\ open # 0
    /\ pipe[open] # <<>>
    /\ seen' = seen \cup {Head(pipe[open]).msg}
    /\ cursor' = NextCursor(Head(pipe[open]))
    /\ pipe' = [pipe EXCEPT ![open] = Tail(@)]
    /\ UNCHANGED <<queue, stamp, number, slot, conn, replay, writer, open>>

\* The connection breaks; what the client has not read is lost.
Disconnect ==
    /\ open # 0
    /\ pipe' = [pipe EXCEPT ![open] = <<>>]
    /\ open' = 0
    /\ UNCHANGED <<queue, stamp, number, slot, conn, replay, writer, cursor, seen>>

-----------------------------------------------------------------------------
(***************************************************************************)
(* The replay task                                                         *)
(***************************************************************************)

\* What the client is owed: the stream's messages in the store that came
\* after the (first) event with the cursor's id.
Due(ts) ==
    LET mine == {e \in Range(queue) : e.stream = GetStream}
        at == {e.msg : e \in {f \in mine : f.ts = ts}}
    IN  {e.msg : e \in {f \in mine : at # {} /\ f.msg \notin at /\
                          \E i, j \in DOMAIN queue : /\ i < j /\ queue[j] = f
                                                     /\ queue[i].msg \in at}}

\* events_after(last_event_id).
ReplayLoads(c) ==
    /\ replay[c].state = "asked"
    /\ replay' = [replay EXCEPT ![c].state = "writing",
                                ![c].todo = EventsAfter(queue, GetStream, replay[c].from),
                                ![c].due = Due(replay[c].from)]
    /\ UNCHANGED <<queue, stamp, number, slot, conn, pipe, writer, open, cursor, seen>>

\* write_str(message, skip_store): no id, not stored again.  Before the
\* transport is started there is no message sender and the write fails; the
\* error is logged and the next message is tried.
ReplayWrites(c) ==
    /\ replay[c].state = "writing"
    /\ replay[c].todo # <<>>
    /\ LET m == Head(replay[c].todo).msg
           ok == conn[c] = "started" /\ open = c
       IN  /\ IF ok THEN WriteLine(c, [id |-> 0, msg |-> m]) ELSE UNCHANGED pipe
           /\ replay' = [replay EXCEPT ![c].todo = Tail(@),
                                       ![c].failed = IF ok THEN @ ELSE @ \cup {m}]
    /\ UNCHANGED <<queue, stamp, number, slot, conn, writer, open, cursor, seen>>


\* The loop is through.
ReplayEnds(c) ==
    /\ replay[c].state = "writing"
    /\ replay[c].todo = <<>>
    /\ replay' = [replay EXCEPT ![c].state = "done"]
    /\ UNCHANGED <<queue, stamp, number, slot, conn, pipe, writer, open, cursor, seen>>

-----------------------------------------------------------------------------

ResumeNext ==
    \/ TimePasses
    \/ \E w \in Writers : SendNotification(w) \/ Store(w) \/ Write(w)
    \/ StoreOther
    \/ \E c \in Conns : \/ Connect(c) \/ Start(c)
                        \/ ReplayLoads(c) \/ ReplayWrites(c) \/ ReplayEnds(c)
    \/ ClientReads
    \/ Disconnect

ResumeSpec == ResumeInit /\ [][ResumeNext]_resumeVars

-----------------------------------------------------------------------------
(***************************************************************************)
(* Properties                                                              *)
(***************************************************************************)


=============================================================================
