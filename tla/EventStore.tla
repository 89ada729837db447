----------------------------- MODULE EventStore -----------------------------
(***************************************************************************)
(* InMemoryEventStore                                                      *)
(* (crates/rust-mcp-transport/src/event_store/in_memory_event_store.rs).   *)
(*                                                                         *)
(* Every operation runs under the store's RwLock and is one step.  The     *)
(* timestamps are the callers': they are read before the lock is taken, so *)
(* they can repeat and arrive out of order.                                *)
(***************************************************************************)
EXTENDS EventQueue, Functions

CONSTANT EventSessions  \* the sessions that store events

VARIABLES
    storage,  \* storage_map: the queue of every session that has one
    log,      \* history: all events of a session, in the order of storing
    removed   \* history: messages that were removed on purpose

eventVars == <<storage, log, removed>>

Stored == UNION {{log[s][i].msg : i \in DOMAIN log[s]} : s \in EventSessions}

EventsTypeOK ==
    /\ DOMAIN storage \subseteq EventSessions
    /\ \A s \in DOMAIN storage : storage[s] \in Seq(EventEntry)
    /\ \A s \in DOMAIN storage : \A i \in DOMAIN storage[s] :
          \E k \in DOMAIN log[s] : log[s][k] = storage[s][i]

EventsInit ==
    /\ storage = [s \in {} |-> <<>>]
    /\ log = [s \in EventSessions |-> <<>>]
    /\ removed = {}

\* The queue of a session, empty if it has none (or_insert_with).
Queue(s) == IF s \in DOMAIN storage THEN storage[s] ELSE <<>>

\* The queue of a session is replaced.
SetQueue(s, q) == storage' = [t \in DOMAIN storage \cup {s} |-> IF t = s THEN q ELSE storage[t]]

\* The queues of some sessions go.
DropQueues(S) == storage' = Restrict(storage, DOMAIN storage \ S)

MessagesOf(q) == {q[i].msg : i \in DOMAIN q}

StoreEvent(s, stream, ts) ==
    LET n == Cardinality(Stored) + 1
        e == [stream |-> stream, ts |-> ts, msg |-> n]
    IN  /\ n \in Messages
        /\ SetQueue(s, PushEvent(Queue(s), e))
        /\ log' = [log EXCEPT ![s] = Append(@, e)]
        /\ UNCHANGED removed

\* retain, and the session goes with its last event.
RemoveStreamInSession(s, stream) ==
    LET q == WithoutStream(Queue(s), stream)
    IN  /\ IF s \in DOMAIN storage /\ q # <<>> THEN SetQueue(s, q) ELSE DropQueues({s})
        /\ removed' = removed \cup (MessagesOf(Queue(s)) \ MessagesOf(q))
        /\ UNCHANGED log

RemoveBySessionId(s) ==
    /\ DropQueues({s})
    /\ removed' = removed \cup MessagesOf(Queue(s))
    /\ UNCHANGED log

ClearEvents ==
    /\ DropQueues(DOMAIN storage)
    /\ removed' = removed \cup UNION {MessagesOf(storage[s]) : s \in DOMAIN storage}
    /\ UNCHANGED log

\* count() is the length of the map.
Count == Cardinality(DOMAIN storage)

EventsNext ==
    \/ \E s \in EventSessions, stream \in Streams :
         \/ \E ts \in Times : StoreEvent(s, stream, ts)
         \/ RemoveStreamInSession(s, stream)
    \/ \E s \in EventSessions : RemoveBySessionId(s)
    \/ ClearEvents

EventsSpec == EventsInit /\ [][EventsNext]_eventVars

-----------------------------------------------------------------------------

\* A session holds at most max_events_per_session events, and store_event gives
\* up only the oldest ones, and only when it must: one that is missing was
\* removed on purpose, or max_events_per_session events of its session came
\* after it ("removing the oldest event if the session reaches
\* `max_events_per_session`", in_memory_event_store.rs:141).
RetainsNewest ==
    \A s \in EventSessions :
        /\ Len(Queue(s)) <= MaxEvents
        /\ \A i \in DOMAIN log[s] : \/ log[s][i].msg \in MessagesOf(Queue(s)) \cup removed
                                    \/ Len(log[s]) - i >= MaxEvents

\* events_after returns exactly the messages of the stream that reached the
\* store after the (first) event with the given id and are still there,
\* oldest timestamp first.
ReplayExact ==
    \A s \in DOMAIN storage, stream \in Streams, ts \in Times :
        LET r == EventsAfter(storage[s], stream, ts)
            same == {e \in Range(storage[s]) : e.stream = stream}
            cursor == {e.msg : e \in {f \in same : f.ts = ts}}
        IN  /\ Range(r) = {e \in same : cursor # {} /\ e.msg > Min(cursor)}
            /\ \A i, j \in DOMAIN r : i < j => r[i].ts <= r[j].ts /\ r[i] # r[j]

=============================================================================
