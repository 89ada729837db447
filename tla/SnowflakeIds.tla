---------------------------- MODULE SnowflakeIds ----------------------------
(***************************************************************************)
(* SnowflakeIdGenerator                                                    *)
(* (crates/rust-mcp-extra/src/id_generator/snow_flake_id_generator.rs).    *)
(*                                                                         *)
(* next_id holds no lock: it reads the clock, loads the last timestamp,    *)
(* and changes the two atomics in steps of their own.  The threads that    *)
(* call generate may share a generator; each generator has its machine id. *)
(* The memory order is Relaxed; here every thread sees the others' stores  *)
(* in order, and nothing below depends on what threads of one generator    *)
(* see of each other.                                                      *)
(***************************************************************************)
EXTENDS Naturals, Sequences, FiniteSets

CONSTANTS
    Machines,     \* machine_ids of the generators
    Threads,      \* the threads that call generate
    Home,         \* the generator of a thread
    TimeSize,     \* 2^41
    MachineSize,  \* 2^10
    SequenceSize, \* 2^12
    MaxMs,        \* bound on the clock
    MaxIds        \* bound on the ids of a generator

\* new asserts the range of the machine id.
ASSUME SnowflakeAssumption ==
    /\ {TimeSize, MachineSize, SequenceSize, MaxMs, MaxIds} \subseteq Nat
    /\ Machines \subseteq 0 .. MachineSize - 1
    /\ Home \in [Threads -> Machines]
    /\ MaxMs < TimeSize

VARIABLES
    ms,             \* milliseconds since SHORTER_EPOCH
    last_timestamp, \* of each generator
    sequence,       \* of each generator
    call,           \* a thread's next_id: where it is and its local variables
    ids             \* the ids each generator has returned, in order

idVars == <<ms, last_timestamp, sequence, call, ids>>

IdsTypeOK ==
    /\ ms \in 0 .. MaxMs
    /\ \A m \in Machines : last_timestamp[m] \in 0 .. ms /\ sequence[m] \in Nat
    /\ call \in [Threads -> [at : {"idle", "clocked", "same", "spin", "new", "stamp"},
                             timestamp : 0 .. MaxMs, last_ts : 0 .. MaxMs]]
    /\ \A m \in Machines : ids[m] \in Seq(0 .. TimeSize * MachineSize * SequenceSize - 1)

Idling == [at |-> "idle", timestamp |-> 0, last_ts |-> 0]

IdsInit ==
    /\ ms = 0
    /\ last_timestamp = [m \in Machines |-> 0] /\ sequence = [m \in Machines |-> 0]
    /\ call = [t \in Threads |-> Idling]
    /\ ids = [m \in Machines |-> <<>>]

-----------------------------------------------------------------------------

\* SystemTime does not go back.
Millisecond ==
    /\ ms < MaxMs /\ ms' = ms + 1
    /\ UNCHANGED <<last_timestamp, sequence, call, ids>>

\* current_timestamp.
ReadClock(t) ==
    /\ call[t].at = "idle" /\ Len(ids[Home[t]]) < MaxIds
    /\ call' = [call EXCEPT ![t] = [Idling EXCEPT !.at = "clocked", !.timestamp = ms]]
    /\ UNCHANGED <<ms, last_timestamp, sequence, ids>>

\* The load of last_timestamp and the comparison.
LoadLast(t) ==
    /\ call[t].at = "clocked"
    /\ LET last_ts == last_timestamp[Home[t]]
       IN  call' = [call EXCEPT ![t].last_ts = last_ts,
                                ![t].at = IF call[t].timestamp = last_ts
                                          THEN "same" ELSE "new"]
    /\ UNCHANGED <<ms, last_timestamp, sequence, ids>>

\* [timestamp][machine_id][sequence].
Compose(timestamp, machine, seq) ==
    ((timestamp % TimeSize) * MachineSize + machine) * SequenceSize + seq

\* next_id returns.
Generated(t, seq) ==
    /\ ids' = [ids EXCEPT ![Home[t]] = Append(@, Compose(call[t].timestamp, Home[t], seq))]
    /\ call' = [call EXCEPT ![t] = Idling]

\* fetch_add in the same millisecond; 0 is taken for an overflow.
FetchAdd(t) ==
    /\ call[t].at = "same"
    /\ LET seq == sequence[Home[t]] % SequenceSize
       IN  IF seq = 0 THEN call' = [call EXCEPT ![t].at = "spin"] /\ UNCHANGED ids
           ELSE Generated(t, seq)
    /\ sequence' = [sequence EXCEPT ![Home[t]] = @ + 1]
    /\ UNCHANGED <<ms, last_timestamp>>


\* The loop that waits for the next millisecond ends.
Spin(t) ==
    /\ call[t].at = "spin" /\ ms > call[t].last_ts
    /\ call' = [call EXCEPT ![t].at = "new", ![t].timestamp = ms]
    /\ UNCHANGED <<ms, last_timestamp, sequence, ids>>

\* A new millisecond: sequence.store(0), and then last_timestamp.store.
ResetSequence(t) ==
    /\ call[t].at = "new"
    /\ sequence' = [sequence EXCEPT ![Home[t]] = 0]
    /\ call' = [call EXCEPT ![t].at = "stamp"]
    /\ UNCHANGED <<ms, last_timestamp, ids>>

StoreTimestamp(t) ==
    /\ call[t].at = "stamp"
    /\ last_timestamp' = [last_timestamp EXCEPT ![Home[t]] = call[t].timestamp]
    /\ Generated(t, 0)
    /\ UNCHANGED <<ms, sequence>>

IdsNext ==
    \/ Millisecond
    \/ \E t \in Threads : \/ ReadClock(t) \/ LoadLast(t) \/ FetchAdd(t)
                          \/ Spin(t) \/ ResetSequence(t) \/ StoreTimestamp(t)

IdsSpec == IdsInit /\ [][IdsNext]_idVars

-----------------------------------------------------------------------------


=============================================================================
