---------------------- MODULE StandaloneStreamProofs ----------------------
(***************************************************************************)
(* Proofs about StandaloneStream, for any number of GETs and requests.     *)
(***************************************************************************)
EXTENDS StandaloneStream, TLAPS

WaitState == {"idle", "found", "checking", "missed", "parked", "ready", "failed",
              "refused"}

\* notify_one keeps the types.
LEMMA NotifyType ==
    ASSUME TypeOK, NEW f \in [Waiters -> WaitState], NotifyOne(f)
    PROVE  wait' \in [Waiters -> WaitState] /\ permit' \in BOOLEAN
<1>1. permit \in BOOLEAN
  BY DEF TypeOK
<1> QED
  BY <1>1 DEF NotifyOne, WaitState

\* Shutting a transport down keeps the types, and no started reader is undone.
LEMMA ShutDownType ==
    ASSUME TypeOK, NEW c \in Conns, ShutDown(c) \/ UNCHANGED <<down, reader>>
    PROVE  /\ down' \in [Conns -> BOOLEAN]
           /\ reader' \in [Conns -> {"none", "running", "exited"}]
           /\ \A d \in Conns : reader[d] # "none" => reader'[d] # "none"
<1>1. /\ down \in [Conns -> BOOLEAN]
      /\ reader \in [Conns -> {"none", "running", "exited"}]
  BY DEF TypeOK
<1> QED
  BY <1>1 DEF ShutDown

\* TypeOK is an invariant of the session's standalone stream.
THEOREM StreamTypeInvariant == Spec => []TypeOK
<1>1. Init => TypeOK
  <2> SUFFICES ASSUME Init PROVE TypeOK
    OBVIOUS
  <2>1. slot = NoConn /\ taken = NoConn
    BY DEF Init
  <2>2. /\ permit \in BOOLEAN
        /\ down \in [Conns -> BOOLEAN]
    BY DEF Init
  <2> QED
    BY <2>1, <2>2 DEF Init, TypeOK
<1>2. TypeOK /\ [Next]_vars => TypeOK'
  <2> SUFFICES ASSUME TypeOK, [Next]_vars PROVE TypeOK'
    OBVIOUS
  <2> USE ConnsAssumption DEF Waiters
  <2>1. ASSUME NEW w \in Waiters, Check(w) PROVE TypeOK'
    BY <2>1 DEF TypeOK, Check, NotifyOne
  <2>2. ASSUME NEW w \in Waiters, Await(w) PROVE TypeOK'
    BY <2>2 DEF TypeOK, Await
  <2>3. ASSUME NEW w \in Waiters, TimesOut(w) PROVE TypeOK'
    BY <2>3 DEF TypeOK, TimesOut
  <2>4. ASSUME NEW r \in Requests, SendRequest(r) PROVE TypeOK'
    BY <2>4 DEF TypeOK, SendRequest
  <2>5. ASSUME NEW c \in Conns, GetSession(c) PROVE TypeOK'
    BY <2>5 DEF TypeOK, GetSession
  <2>6. ASSUME NEW c \in Conns, CreateStandaloneStream(c) PROVE TypeOK'
    BY <2>6 DEF TypeOK, CreateStandaloneStream
  <2>7. ASSUME NEW c \in Conns, StoreTransport(c) PROVE TypeOK'
    BY <2>7 DEF TypeOK, StoreTransport
  <2>8. ASSUME NEW c \in Conns, NotifyStored(c) PROVE TypeOK'
    <3>1. wait \in [Waiters -> WaitState] /\ NotifyOne(wait)
      BY <2>8 DEF TypeOK, NotifyStored, WaitState
    <3>2. wait' \in [Waiters -> WaitState] /\ permit' \in BOOLEAN
      BY <3>1, NotifyType
    <3> QED
      BY <2>8, <3>2 DEF TypeOK, NotifyStored, WaitState
  <2>9. ASSUME NEW c \in Conns, ClientDrops(c) PROVE TypeOK'
    BY <2>9 DEF TypeOK, ClientDrops
  <2>10. ASSUME NEW c \in Conns, PingFails(c) PROVE TypeOK'
    BY <2>10 DEF TypeOK, PingFails
  <2>11. ASSUME NEW c \in Conns, StreamFails(c) PROVE TypeOK'
    BY <2>11 DEF TypeOK, StreamFails
  <2>12. ASSUME NEW c \in Conns, LateResult(c) PROVE TypeOK'
    BY <2>12 DEF TypeOK, LateResult
  <2>13. ASSUME NEW c \in Conns, LeaveLoop(c) PROVE TypeOK'
    <3>1. ShutDown(c) \/ UNCHANGED <<down, reader>>
      BY <2>13 DEF LeaveLoop, RemoveTransport
    <3> QED
      BY <2>13, <3>1, ShutDownType DEF TypeOK, LeaveLoop
  <2>14. ASSUME NEW c \in Conns, EndTask(c) PROVE TypeOK'
    <3>1. ShutDown(c) \/ UNCHANGED <<down, reader>>
      BY <2>14 DEF EndTask, RemoveTransport
    <3> QED
      BY <2>14, <3>1, ShutDownType DEF TypeOK, EndTask
  <2>15. CASE DeleteTakes
    BY <2>15 DEF TypeOK, DeleteTakes
  <2>16. CASE DeleteShutsDown
    <3>1. CASE taken = NoConn
      BY <2>16, <3>1 DEF TypeOK, DeleteShutsDown
    <3>2. CASE taken # NoConn
      <4>1. taken \in Conns /\ ShutDown(taken)
        BY <2>16, <3>2 DEF TypeOK, DeleteShutsDown
      <4> QED
        BY <2>16, <4>1, ShutDownType DEF TypeOK, DeleteShutsDown
    <3> QED
      BY <3>1, <3>2
  <2>17. CASE DeleteRemoves
    BY <2>17 DEF TypeOK, DeleteRemoves
  <2>18. CASE UNCHANGED vars
    BY <2>18 DEF TypeOK, vars
  <2> QED
    BY <2>1, <2>2, <2>3, <2>4, <2>5, <2>6, <2>7, <2>8, <2>9, <2>10, <2>11,
       <2>12, <2>13, <2>14, <2>15, <2>16, <2>17, <2>18 DEF Next, Task
<1> QED
  BY <1>1, <1>2, PTL DEF Spec

\* notify_one never fails to leave a permit or a waiter that checks.
LEMMA NotifyLeavesTrace ==
    ASSUME NEW f \in [Waiters -> {"idle", "found", "checking", "missed", "parked",
                                  "ready", "failed", "refused"}],
           NotifyOne(f)
    PROVE  permit' \/ \E w \in Waiters : wait'[w] = "checking"
BY DEF NotifyOne

\* NoMissedWakeup is an invariant, and inductive: whoever consumes the permit
\* checks, and whoever finds a live transport notifies.
THEOREM WakeupsAreNotMissed == Spec => []NoMissedWakeup
<1>1. Init => NoMissedWakeup
  BY DEF Init, NoMissedWakeup, LiveDefault
<1>2. TypeOK /\ NoMissedWakeup /\ [Next]_vars => NoMissedWakeup'
  <2> SUFFICES ASSUME TypeOK, NoMissedWakeup, [Next]_vars PROVE NoMissedWakeup'
    OBVIOUS
  <2> USE ConnsAssumption DEF Waiters
  <2>1. ASSUME NEW w \in Waiters, Check(w) PROVE NoMissedWakeup'
    <3>1. CASE LiveDefault
      <4>1. [wait EXCEPT ![w] = "ready"] \in
               [Waiters -> {"idle", "found", "checking", "missed", "parked",
                            "ready", "failed", "refused"}]
        BY DEF TypeOK
      <4> QED
        BY <2>1, <3>1, <4>1, NotifyLeavesTrace DEF Check, NoMissedWakeup
    <3>2. CASE ~ LiveDefault
      BY <2>1, <3>2 DEF Check, NoMissedWakeup, LiveDefault
    <3> QED
      BY <3>1, <3>2
  <2>2. ASSUME NEW w \in Waiters, Await(w) PROVE NoMissedWakeup'
    BY <2>2 DEF TypeOK, Await, NoMissedWakeup, LiveDefault
  <2>3. ASSUME NEW w \in Waiters, TimesOut(w) PROVE NoMissedWakeup'
    BY <2>3 DEF TypeOK, TimesOut, DeadlinePasses, NoMissedWakeup, LiveDefault
  <2>4. ASSUME NEW r \in Requests, SendRequest(r) PROVE NoMissedWakeup'
    BY <2>4 DEF TypeOK, SendRequest, NoMissedWakeup, LiveDefault
  <2>5. ASSUME NEW c \in Conns, GetSession(c) PROVE NoMissedWakeup'
    BY <2>5 DEF TypeOK, GetSession, NoMissedWakeup, LiveDefault
  <2>6. ASSUME NEW c \in Conns, CreateStandaloneStream(c) PROVE NoMissedWakeup'
    BY <2>6 DEF TypeOK, CreateStandaloneStream, NoMissedWakeup, LiveDefault
  <2>7. ASSUME NEW c \in Conns, StoreTransport(c) PROVE NoMissedWakeup'
    BY <2>7 DEF TypeOK, StoreTransport, NoMissedWakeup
  <2>8. ASSUME NEW c \in Conns, NotifyStored(c) PROVE NoMissedWakeup'
    BY <2>8, NotifyLeavesTrace DEF TypeOK, NotifyStored, NoMissedWakeup
  <2>9. ASSUME NEW c \in Conns, ClientDrops(c) PROVE NoMissedWakeup'
    BY <2>9 DEF TypeOK, ClientDrops, NoMissedWakeup, LiveDefault
  <2>10. ASSUME NEW c \in Conns, PingFails(c) \/ StreamFails(c) \/ LateResult(c)
         PROVE  NoMissedWakeup'
    BY <2>10 DEF TypeOK, PingFails, StreamFails, LateResult, NoMissedWakeup, LiveDefault
  <2>11. ASSUME NEW c \in Conns, LeaveLoop(c) PROVE NoMissedWakeup'
    BY <2>11 DEF TypeOK, LeaveLoop, RemoveTransport, ShutDown, NoMissedWakeup, LiveDefault
  <2>12. ASSUME NEW c \in Conns, EndTask(c) PROVE NoMissedWakeup'
    BY <2>12 DEF TypeOK, EndTask, RemoveTransport, ShutDown, NoMissedWakeup, LiveDefault
  <2>13. CASE DeleteTakes
    BY <2>13 DEF DeleteTakes, NoMissedWakeup, LiveDefault
  <2>14. CASE DeleteShutsDown
    BY <2>14 DEF TypeOK, DeleteShutsDown, ShutDown, NoMissedWakeup, LiveDefault
  <2>15. CASE DeleteRemoves
    BY <2>15 DEF DeleteRemoves, NoMissedWakeup, LiveDefault
  <2>16. CASE UNCHANGED vars
    BY <2>16 DEF vars, NoMissedWakeup, LiveDefault
  <2> QED
    BY <2>1, <2>2, <2>3, <2>4, <2>5, <2>6, <2>7, <2>8, <2>9, <2>10, <2>11,
       <2>12, <2>13, <2>14, <2>15, <2>16 DEF Next, Task
<1> QED
  BY <1>1, <1>2, StreamTypeInvariant, PTL DEF Spec

\* NewerConnectionSpared holds: the pointer comparison of remove_transport
\* confines a teardown to its own transport.
THEOREM TeardownIsOwn == Spec => NewerConnectionSpared
<1>1. TypeOK /\ [Next]_vars =>
        [\A c \in Conns :
            (~ down[c] /\ down'[c]) =>
                task[c] \in {"closing", "failed"} \/ (del = "taken" /\ taken = c)]_vars
  <2> SUFFICES ASSUME TypeOK, Next, NEW c \in Conns, ~ down[c], down'[c]
               PROVE  task[c] \in {"closing", "failed"} \/ (del = "taken" /\ taken = c)
    OBVIOUS
  <2>1. ASSUME NEW d \in Conns, LeaveLoop(d) PROVE task[c] = "closing"
    BY <2>1 DEF TypeOK, LeaveLoop, RemoveTransport, ShutDown
  <2>2. ASSUME NEW d \in Conns, EndTask(d) PROVE task[c] = "failed"
    BY <2>2 DEF TypeOK, EndTask, RemoveTransport, ShutDown
  <2>3. ASSUME DeleteShutsDown PROVE del = "taken" /\ taken = c
    BY <2>3 DEF TypeOK, DeleteShutsDown, ShutDown
  <2>4. CASE down' = down
    BY <2>4
  <2> QED
    BY <2>1, <2>2, <2>3, <2>4
       DEF Next, Task, Check, Await, TimesOut, SendRequest, GetSession,
           CreateStandaloneStream, StoreTransport, NotifyStored, ClientDrops,
           PingFails, StreamFails, LateResult, DeleteTakes, DeleteRemoves
<1> QED
  BY <1>1, StreamTypeInvariant, PTL DEF Spec, NewerConnectionSpared

=============================================================================
