---------------------------- MODULE SessionStore ----------------------------
(***************************************************************************)
(* The in-memory session store of the HTTP server and the handlers that    *)
(* create sessions through it                                              *)
(* (crates/rust-mcp-sdk/src/session_store/in_memory_session_store.rs and   *)
(* start_new_session in crates/rust-mcp-sdk/src/mcp_http/http_utils.rs).   *)
(*                                                                         *)
(* Sessions are spread over shards, each with its own lock; an atomic      *)
(* counter is kept beside them.  An operation on one shard is one step     *)
(* (it holds the shard's lock); a pass over all shards is one step per     *)
(* shard, and other handlers run between them.                             *)
(***************************************************************************)
EXTENDS Integers, FiniteSets

CONSTANTS
    Handlers,     \* HTTP requests being handled concurrently
    SessionCount, \* bound: session ids the id generator hands out
    ShardCount,   \* SHARD_COUNT
    MaxSessions,  \* max_sessions
    IdleTtl,      \* idle_ttl in clock ticks; None behaves as one above MaxTime
    Word,         \* the number of values of a usize: 2^64 in the program
    MaxTime,      \* bound: the last instant
    MaxClears     \* bound: calls of clear()

ASSUME ConstantsAssumption ==
    /\ SessionCount \in Nat
    /\ ShardCount \in Nat \ {0}
    /\ MaxSessions \in Nat
    /\ IdleTtl \in Nat
    /\ Word \in Nat /\ SessionCount < Word
    /\ MaxTime \in Nat
    /\ MaxClears \in Nat

Sessions == 1 .. SessionCount

VARIABLES
    used,        \* session ids the generator has produced
    present,     \* the sessions in the shards
    lastAccess,  \* last_access_ms of a session's entry (0 without an entry)
    count,       \* the atomic counter
    clock,       \* now_millis()
    pc,          \* what a handler is doing
    scan,        \* the pass over the shards a handler is making
    clears       \* calls of clear() so far

vars == <<used, present, lastAccess, count, clock, pc, scan, clears>>

\* A pass: the next shard, the sessions counted, the instant evict_idle compares
\* with, and the sessions clear found when it began.
Scan == [shard : 0 .. ShardCount, total : Nat, now : 0 .. MaxTime, old : SUBSET Sessions]

NoScan == [shard |-> 0, total |-> 0, now |-> 0, old |-> {}]

TypeOK ==
    /\ used \subseteq Sessions
    /\ present \subseteq used
    /\ lastAccess \in [Sessions -> 0 .. MaxTime]
    /\ count \in 0 .. Word - 1
    /\ clock \in 0 .. MaxTime
    /\ pc \in [Handlers -> {"ready", "evicting", "accepted", "clearing"}]
    /\ scan \in [Handlers -> Scan]
    /\ clears \in 0 .. MaxClears

Init ==
    /\ used = {}
    /\ present = {}
    /\ lastAccess = [s \in Sessions |-> 0]
    /\ count = 0
    /\ clock = 0
    /\ pc = [h \in Handlers |-> "ready"]
    /\ scan = [h \in Handlers |-> NoScan]
    /\ clears = 0

-----------------------------------------------------------------------------

\* The shard a key hashes to; a session's number stands for its hash.
ShardOf(s) == s % ShardCount

InShard(k) == {s \in present : ShardOf(s) = k}

\* fetch_add and fetch_sub wrap around.
Plus(n) == (count + n) % Word

Minus(n) == (count - n) % Word

\* SessionEntry::is_idle: longer than the TTL since the last access; an access
\* after `now` was read counts as zero (saturating_sub).
IsIdle(s, now) == now - lastAccess[s] > IdleTtl

\* Time passes.
Tick ==
    /\ clock < MaxTime
    /\ clock' = clock + 1
    /\ UNCHANGED <<used, present, lastAccess, count, pc, scan, clears>>

\* Faulty variant: the fast path is off by one.
Mut_IsFullFast == count <= MaxSessions

\* is_full's fast path.
IsFullFast == count < MaxSessions

\* A handler calls is_full: it passes at once, or starts to evict and count.
CheckCapacity(h) ==
    /\ pc[h] = "ready"
    /\ IF IsFullFast
       THEN pc' = [pc EXCEPT ![h] = "accepted"] /\ UNCHANGED scan
       ELSE /\ pc' = [pc EXCEPT ![h] = "evicting"]
            /\ scan' = [scan EXCEPT ![h] = [NoScan EXCEPT !.now = clock]]
    /\ UNCHANGED <<used, present, lastAccess, count, clock, clears>>

\* The entries of some sessions go.
RemoveEntries(S) ==
    /\ present' = present \ S
    /\ lastAccess' = [s \in Sessions |-> IF s \in S THEN 0 ELSE lastAccess[s]]

\* evict_idle for one shard, under its lock.
EvictShard(h, k) ==
    LET idle == {s \in InShard(k) : IsIdle(s, scan[h].now)}
    IN  RemoveEntries(idle) /\ count' = Minus(Cardinality(idle))

\* One turn of evict_idle's loop; after the last shard is_full compares the
\* total, and a full store makes start_new_session answer 503.
Evict(h) ==
    LET k == scan[h].shard
        total == scan[h].total + Cardinality({s \in InShard(k) : ~ IsIdle(s, scan[h].now)})
    IN  /\ pc[h] = "evicting"
        /\ EvictShard(h, k)
        /\ IF k + 1 < ShardCount
           THEN /\ scan' = [scan EXCEPT ![h].shard = k + 1, ![h].total = total]
                /\ UNCHANGED pc
           ELSE /\ scan' = [scan EXCEPT ![h] = NoScan]
                /\ pc' = [pc EXCEPT ![h] = IF total >= MaxSessions THEN "ready"
                                                                  ELSE "accepted"]
        /\ UNCHANGED <<used, clock, clears>>

\* start_new_session generates an id, creates the stream and calls set.
Set(h, s) ==
    /\ pc[h] = "accepted"
    /\ s \notin used
    /\ used' = used \cup {s}
    /\ present' = present \cup {s}
    /\ lastAccess' = [lastAccess EXCEPT ![s] = clock]
    /\ count' = Plus(1)
    /\ pc' = [pc EXCEPT ![h] = "ready"]
    /\ UNCHANGED <<clock, scan, clears>>

\* start_new_session fails to create the stream: the session is not stored.
CreateFails(h) ==
    /\ pc[h] = "accepted"
    /\ pc' = [pc EXCEPT ![h] = "ready"]
    /\ UNCHANGED <<used, present, lastAccess, count, clock, scan, clears>>

\* get: the entry is touched, however long it was idle.
Get(s) ==
    /\ s \in present
    /\ lastAccess' = [lastAccess EXCEPT ![s] = clock]
    /\ UNCHANGED <<used, present, count, clock, pc, scan, clears>>

\* Faulty variant: the counter goes down whether or not there was an entry.
Mut_Delete(s) ==
    /\ s \in used
    /\ RemoveEntries({s})
    /\ count' = Minus(1)
    /\ UNCHANGED <<used, clock, pc, scan, clears>>

\* delete: also called for a session that was deleted or evicted before.
Delete(s) ==
    /\ s \in used
    /\ RemoveEntries({s})
    /\ count' = IF s \in present THEN Minus(1) ELSE count
    /\ UNCHANGED <<used, clock, pc, scan, clears>>

\* clear begins.
ClearStart(h) ==
    /\ pc[h] = "ready"
    /\ clears < MaxClears
    /\ clears' = clears + 1
    /\ pc' = [pc EXCEPT ![h] = "clearing"]
    /\ scan' = [scan EXCEPT ![h] = [NoScan EXCEPT !.old = present]]
    /\ UNCHANGED <<used, present, lastAccess, count, clock>>

\* The end of a pass over all shards.
LastShard == ShardCount

\* clear empties one shard, under its lock.
ClearShard(h) ==
    /\ pc[h] = "clearing"
    /\ scan[h].shard < LastShard
    /\ RemoveEntries(InShard(scan[h].shard))
    /\ scan' = [scan EXCEPT ![h].shard = @ + 1]
    /\ UNCHANGED <<used, count, clock, pc, clears>>

\* clear then stores zero in the counter, whatever was set meanwhile.
ClearCount(h) ==
    /\ pc[h] = "clearing"
    /\ scan[h].shard = LastShard
    /\ count' = 0
    /\ pc' = [pc EXCEPT ![h] = "ready"]
    /\ scan' = [scan EXCEPT ![h] = NoScan]
    /\ UNCHANGED <<used, present, lastAccess, clock, clears>>

Next ==
    \/ Tick
    \/ \E h \in Handlers :
         \/ CheckCapacity(h)
         \/ Evict(h)
         \/ \E s \in Sessions : Set(h, s)
         \/ CreateFails(h)
         \/ ClearStart(h)
         \/ ClearShard(h)
         \/ ClearCount(h)
    \/ \E s \in Sessions : Get(s) \/ Delete(s)

Spec == Init /\ [][Next]_vars

-----------------------------------------------------------------------------

\* While nobody clears the store, the counter that is_full reads equals the
\* number of stored sessions, through racing creations, evictions by several
\* handlers, and deletions of sessions that are already gone.
CountExact ==
    clears = 0 => count = Cardinality(present)

\* The check in is_full and the later set are not atomic, so the store can
\* grow past max_sessions, but by no more than the other requests that were
\* admitted meanwhile: with n handlers at most n - 1 sessions too many.
OvershootBounded ==
    clears = 0 =>
        Cardinality(present) + Cardinality({h \in Handlers : pc[h] = "accepted"})
            <= MaxSessions + Cardinality(Handlers) - 1

\* A session that vanishes in an eviction pass had been idle for longer than
\* the TTL at that very moment, although the pass compares with an instant
\* read before other requests touched the session.
EvictsOnlyIdle ==
    [][\A h \in Handlers, s \in Sessions :
          (Evict(h) /\ s \in present /\ s \notin present') =>
              clock - lastAccess[s] > IdleTtl]_vars

\* clear removes every session that was stored when it began, shard by shard,
\* whatever is created, touched or deleted meanwhile.
ClearIsComplete ==
    [][\A h \in Handlers : ClearCount(h) => scan[h].old \cap present' = {}]_vars

=============================================================================
