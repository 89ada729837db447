----------------------------- MODULE EventQueue -----------------------------
(***************************************************************************)
(* The bounded queue in which InMemoryEventStore keeps the events of one   *)
(* session, of all its streams                                             *)
(* (crates/rust-mcp-transport/src/event_store/in_memory_event_store.rs).   *)
(*                                                                         *)
(* An event id is session-.-stream-.-timestamp; within a session it is the *)
(* pair (stream, timestamp).  A message is its number in the order in      *)
(* which the store got them.                                               *)
(***************************************************************************)
EXTENDS Naturals, Sequences, FiniteSets, SequencesExt

CONSTANTS
    Streams,    \* stream ids
    MaxEvents,  \* max_events_per_session
    MaxStamp,    \* bound: the largest timestamp
    MaxStored   \* bound: events stored in a behaviour

ASSUME QueueAssumption == MaxEvents \in Nat /\ MaxStamp \in Nat /\ MaxStored \in Nat

Times == 1 .. MaxStamp

Messages == 1 .. MaxStored

EventEntry == [stream : Streams, ts : Times, msg : Messages]

\* Faulty variant: one event too many goes when the queue is nearly full.
Mut_PushEventEarly(q, e) ==
    IF Len(q) + 1 >= MaxEvents /\ q # <<>> THEN Append(Tail(q), e) ELSE Append(q, e)

\* The part of store_event that changes the queue: pop_front if it is full
\* (which does nothing to an empty queue), then push_back.
PushEvent(q, e) ==
    IF Len(q) = MaxEvents /\ q # <<>> THEN Append(Tail(q), e) ELSE Append(q, e)

\* The positions behind i that hold events of the stream.
Subsequent(q, stream, i) == {j \in DOMAIN q : j > i /\ q[j].stream = stream}

\* Faulty variant: the order of storing.
Mut_Earlier(q, i, j) == i < j

\* sort_by_key on the timestamp is stable.
Earlier(q, i, j) == q[i].ts < q[j].ts \/ (q[i].ts = q[j].ts /\ i < j)

\* events_after: the stream's events behind the first one with the given id,
\* by timestamp; nothing if there is no such event (any more).
EventsAfter(q, stream, ts) ==
    LET found == {i \in DOMAIN q : q[i].stream = stream /\ q[i].ts = ts}
        order == SetToSortSeq(Subsequent(q, stream, Min(found)),
                              LAMBDA i, j : Earlier(q, i, j))
    IN  IF found = {} THEN <<>> ELSE [k \in DOMAIN order |-> q[order[k]]]

\* The part of remove_stream_in_session that changes the queue.
WithoutStream(q, stream) == SelectSeq(q, LAMBDA e : e.stream # stream)

=============================================================================
