-------------------------- MODULE StandaloneStream --------------------------
(***************************************************************************)
(* The standalone (GET) stream of one Streamable HTTP session: the slot    *)
(* `transport_map` of ServerRuntime, its `transport_ready` notification,   *)
(* the GET and DELETE handlers, the stream tasks with their keep-alive,    *)
(* and server-initiated requests that wait for a live transport            *)
(* (crates/rust-mcp-sdk/src/mcp_runtimes/server_runtime.rs,                *)
(* crates/rust-mcp-sdk/src/mcp_http/http_utils.rs,                         *)
(* crates/rust-mcp-transport/src/sse.rs).                                  *)
(*                                                                         *)
(* Everything between two awaits that another task can observe is one      *)
(* step.  A connection is one GET request, its transport and its task.     *)
(***************************************************************************)
EXTENDS Naturals

CONSTANTS
    Conns,     \* GET requests
    Requests,  \* server-initiated requests (ServerRuntime::send)
    NoConn     \* the empty slot

ASSUME ConnsAssumption == NoConn \notin Conns /\ Conns \cap Requests = {}

\* Everybody who calls wait_for_live_default_transport.
Waiters == Conns \cup Requests

VARIABLES
    session,  \* whether the session is in the session store
    slot,     \* transport_map
    permit,   \* the stored permit of transport_ready
    wait,     \* how far a waiter is in wait_for_live_default_transport
    task,     \* how far the task of a connection is in start_stream
    down,     \* SseTransport::is_shut_down
    reader,   \* the reader task of a connection's transport
    client,   \* whether the client still reads the response body
    del,      \* how far the DELETE handler is
    taken     \* the transport the DELETE handler took out of the slot

vars == <<session, slot, permit, wait, task, down, reader, client, del, taken>>

TypeOK ==
    /\ session \in {"stored", "deleted"}
    /\ slot \in Conns \cup {NoConn}
    /\ permit \in BOOLEAN
    /\ wait \in [Waiters -> {"idle", "found", "checking", "missed", "parked",
                             "ready", "failed", "refused"}]
    /\ task \in [Conns -> {"none", "starting", "storing", "serving", "closing",
                           "failed", "ended"}]
    /\ down \in [Conns -> BOOLEAN]
    /\ reader \in [Conns -> {"none", "running", "exited"}]
    /\ client \in [Conns -> {"open", "gone"}]
    /\ del \in {"idle", "taken", "shut", "done"}
    /\ taken \in Conns \cup {NoConn}
    /\ slot # NoConn => reader[slot] # "none"
    /\ taken # NoConn => reader[taken] # "none"

Init ==
    /\ session = "stored"
    /\ slot = NoConn
    /\ permit = FALSE
    /\ wait = [w \in Waiters |-> "idle"]
    /\ task = [c \in Conns |-> "none"]
    /\ down = [c \in Conns |-> FALSE]
    /\ reader = [c \in Conns |-> "none"]
    /\ client = [c \in Conns |-> "open"]
    /\ del = "idle"
    /\ taken = NoConn

-----------------------------------------------------------------------------
(***************************************************************************)
(* Waiting for a live transport                                            *)
(***************************************************************************)

\* default_stream_exists, and the test of wait_for_live_default_transport.
LiveDefault == slot # NoConn /\ ~ down[slot]

\* Faulty variant: without a parked waiter the notification is lost.
Mut_NotifyOne(f) ==
    \/ /\ \A w \in Waiters : f[w] # "parked"
       /\ wait' = f
       /\ UNCHANGED permit
    \/ \E w \in Waiters :
         /\ f[w] = "parked"
         /\ wait' = [f EXCEPT ![w] = "checking"]
         /\ UNCHANGED permit

\* Notify::notify_one when the waiters are in the states f: a parked waiter is
\* woken, or else a permit is stored for the next one.
NotifyOne(f) ==
    \/ /\ \A w \in Waiters : f[w] # "parked"
       /\ wait' = f
       /\ permit' = TRUE
    \/ \E w \in Waiters :
         /\ f[w] = "parked"
         /\ wait' = [f EXCEPT ![w] = "checking"]
         /\ UNCHANGED permit

\* The slot is read under its lock: a live transport is returned and another
\* waiter is notified in turn; otherwise the waiter goes on to await.
Check(w) ==
    /\ wait[w] = "checking"
    /\ IF LiveDefault
       THEN NotifyOne([wait EXCEPT ![w] = "ready"])
       ELSE wait' = [wait EXCEPT ![w] = "missed"] /\ UNCHANGED permit
    /\ UNCHANGED <<session, slot, task, down, reader, client, del, taken>>

\* transport_ready.notified() consumes the permit or parks.
Await(w) ==
    /\ wait[w] = "missed"
    /\ wait' = [wait EXCEPT ![w] = IF permit THEN "checking" ELSE "parked"]
    /\ permit' = FALSE
    /\ UNCHANGED <<session, slot, task, down, reader, client, del, taken>>

\* The deadline is compared with the clock after a miss, and bounds the await.
DeadlinePasses(w) == wait[w] \in {"missed", "parked"}

\* The wait fails; a GET handler answers with an error and drops the body.
TimesOut(w) ==
    /\ DeadlinePasses(w)
    /\ wait' = [wait EXCEPT ![w] = "failed"]
    /\ client' = [c \in Conns |-> IF c = w THEN "gone" ELSE client[c]]
    /\ UNCHANGED <<session, slot, permit, task, down, reader, del, taken>>

\* ServerRuntime::send of a request.
SendRequest(r) ==
    /\ wait[r] = "idle"
    /\ wait' = [wait EXCEPT ![r] = "checking"]
    /\ UNCHANGED <<session, slot, permit, task, down, reader, client, del, taken>>

-----------------------------------------------------------------------------
(***************************************************************************)
(* GET: create_standalone_stream and the task it spawns                    *)
(***************************************************************************)

\* The session is looked up; an unknown one is answered with an error.
GetSession(c) ==
    /\ wait[c] = "idle"
    /\ wait' = [wait EXCEPT ![c] = IF session = "stored" THEN "found" ELSE "refused"]
    /\ UNCHANGED <<session, slot, permit, task, down, reader, client, del, taken>>

\* 409 if there is a live stream; otherwise create_sse_stream spawns the task
\* and the handler waits for a live transport.
CreateStandaloneStream(c) ==
    /\ wait[c] = "found"
    /\ IF LiveDefault
       THEN wait' = [wait EXCEPT ![c] = "refused"] /\ UNCHANGED task
       ELSE /\ wait' = [wait EXCEPT ![c] = "checking"]
            /\ task' = [task EXCEPT ![c] = "starting"]
    /\ UNCHANGED <<session, slot, permit, down, reader, client, del, taken>>

\* transport.start() spawns the reader, and store_transport fills the slot,
\* whatever it holds.
StoreTransport(c) ==
    /\ task[c] = "starting"
    /\ reader' = [reader EXCEPT ![c] = "running"]
    /\ slot' = c
    /\ task' = [task EXCEPT ![c] = "storing"]
    /\ UNCHANGED <<session, permit, wait, down, client, del, taken>>

\* store_transport then notifies, after it released the lock.
NotifyStored(c) ==
    /\ task[c] = "storing"
    /\ NotifyOne(wait)
    /\ task' = [task EXCEPT ![c] = "serving"]
    /\ UNCHANGED <<session, slot, down, reader, client, del, taken>>

\* The client goes away.  The server framework drops the handler's future if
\* it is still waiting.
ClientDrops(c) ==
    /\ task[c] # "none"
    /\ client[c] = "open"
    /\ wait[c] \in {"missed", "parked", "ready"}
    /\ client' = [client EXCEPT ![c] = "gone"]
    /\ wait' = [wait EXCEPT ![c] = IF @ = "ready" THEN "ready" ELSE "failed"]
    /\ UNCHANGED <<session, slot, permit, task, down, reader, del, taken>>

\* keep_alive's ping fails with BrokenPipe: start_stream leaves its loop and
\* collects the results of the handlers that still run.
PingFails(c) ==
    /\ task[c] = "serving"
    /\ client[c] = "gone"
    /\ task' = [task EXCEPT ![c] = "closing"]
    /\ UNCHANGED <<session, slot, permit, wait, down, reader, client, del, taken>>

\* `result?` propagates the error of a handler: start_stream returns, which
\* drops the message stream and aborts the keep-alive task.
StreamFails(c) ==
    /\ task[c] \in {"serving", "closing"}
    /\ task' = [task EXCEPT ![c] = "failed"]
    /\ UNCHANGED <<session, slot, permit, wait, down, reader, client, del, taken>>

\* A POSTed result is passed to the transport in the slot although its stream
\* has been dropped: the reader cannot pass it on and ends.
LateResult(c) ==
    /\ slot = c
    /\ task[c] = "failed"
    /\ reader[c] = "running"
    /\ reader' = [reader EXCEPT ![c] = "exited"]
    /\ UNCHANGED <<session, slot, permit, wait, task, down, client, del, taken>>

\* SseTransport::shut_down: cancel() fails when the reader, its only receiver,
\* has ended, and `?` then returns before the flag is set.  A transport that
\* is shut down already has no source to cancel.
ShutDown(c) ==
    IF ~ down[c] /\ reader[c] = "exited"
    THEN UNCHANGED <<down, reader>>
    ELSE /\ down' = [down EXCEPT ![c] = TRUE]
         /\ reader' = [reader EXCEPT ![c] = "exited"]

\* Faulty variant: no comparison of pointers.
Mut_RemoveTransport(c) ==
    IF slot # NoConn THEN ShutDown(slot) ELSE UNCHANGED <<down, reader>>

\* Faulty variant: the comparison is inverted.
Mut_RemoveInverted(c) ==
    IF slot \in {c, NoConn} THEN UNCHANGED <<down, reader>> ELSE ShutDown(slot)

\* remove_transport shuts down the transport in the slot if it is this one.
RemoveTransport(c) ==
    IF slot = c THEN ShutDown(c) ELSE UNCHANGED <<down, reader>>

\* After a failed ping, start_stream removes the transport and returns.
LeaveLoop(c) ==
    /\ task[c] = "closing"
    /\ RemoveTransport(c)
    /\ task' = [task EXCEPT ![c] = "failed"]
    /\ UNCHANGED <<session, slot, permit, wait, client, del, taken>>

\* The spawned task removes the transport when start_stream has returned.
EndTask(c) ==
    /\ task[c] = "failed"
    /\ RemoveTransport(c)
    /\ task' = [task EXCEPT ![c] = "ended"]
    /\ UNCHANGED <<session, slot, permit, wait, client, del, taken>>

-----------------------------------------------------------------------------
(***************************************************************************)
(* DELETE: delete_session                                                  *)
(***************************************************************************)

\* ServerRuntime::shutdown takes the transport out of the slot.
DeleteTakes ==
    /\ del = "idle"
    /\ session = "stored"
    /\ del' = "taken"
    /\ taken' = slot
    /\ slot' = NoConn
    /\ UNCHANGED <<session, permit, wait, task, down, reader, client>>

\* It then shuts the transport down, without the lock.
DeleteShutsDown ==
    /\ del = "taken"
    /\ del' = "shut"
    /\ IF taken = NoConn THEN UNCHANGED <<down, reader>> ELSE ShutDown(taken)
    /\ UNCHANGED <<session, slot, permit, wait, task, client, taken>>

\* The session leaves the session store.
DeleteRemoves ==
    /\ del = "shut"
    /\ del' = "done"
    /\ session' = "deleted"
    /\ UNCHANGED <<slot, permit, wait, task, down, reader, client, taken>>

-----------------------------------------------------------------------------

Task(c) ==
    StoreTransport(c) \/ NotifyStored(c) \/ PingFails(c) \/ LeaveLoop(c) \/ EndTask(c)

Next ==
    \/ \E w \in Waiters : Check(w) \/ Await(w) \/ TimesOut(w)
    \/ \E r \in Requests : SendRequest(r)
    \/ \E c \in Conns :
         \/ GetSession(c)
         \/ CreateStandaloneStream(c)
         \/ Task(c)
         \/ ClientDrops(c)
         \/ StreamFails(c)
         \/ LateResult(c)
    \/ DeleteTakes
    \/ DeleteShutsDown
    \/ DeleteRemoves

Spec == Init /\ [][Next]_vars

\* The runtime polls every task that can go on, the ping interval elapses and
\* deadlines pass.  Nothing is assumed of clients.
Fairness ==
    /\ \A w \in Waiters : WF_vars(Check(w)) /\ WF_vars(Await(w)) /\ WF_vars(TimesOut(w))
    /\ \A c \in Conns : WF_vars(Task(c))

FairSpec == Spec /\ Fairness

-----------------------------------------------------------------------------
(***************************************************************************)
(* Properties                                                              *)
(***************************************************************************)

\* "guarantees no missed wakeup" (server_runtime.rs:509): while the slot holds
\* a live transport, a waiter that has missed it is not left to its timeout;
\* a notification is on its way, stored, or held by a waiter that will pass
\* it on.
NoMissedWakeup ==
    (LiveDefault /\ \E w \in Waiters : wait[w] \in {"missed", "parked"}) =>
        \/ permit
        \/ \E w \in Waiters : wait[w] = "checking"
        \/ \E c \in Conns : task[c] = "storing"

\* "a stale stream's teardown never shuts down the transport of a newer
\* connection" (server_runtime.rs:575): a transport is shut down only by its
\* own task after it left its loop, or by the DELETE that took it.
NewerConnectionSpared ==
    [][\A c \in Conns :
          (~ down[c] /\ down'[c]) =>
              task[c] \in {"closing", "failed"} \/ (del = "taken" /\ taken = c)]_vars

\* After its client has gone, a connection does not keep the session's only
\* slot: the next GET is not refused because of it.  (A reader that ended
\* before the shutdown is the exception: cancel fails and the flag stays unset.)
SlotFreed ==
    \A c \in Conns :
        (task[c] = "serving" /\ client[c] = "gone") ~>
            (slot # c \/ down[c] \/ reader[c] = "exited")

=============================================================================
