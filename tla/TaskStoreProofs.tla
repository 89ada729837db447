-------------------------- MODULE TaskStoreProofs --------------------------
(***************************************************************************)
(* Proofs about TaskStore, for any number of tasks, waiters and page size. *)
(***************************************************************************)
EXTENDS TaskStore, SequenceTheorems, TLAPS

\* What is known of the list of ids.
LEMMA OrderedFacts ==
    ASSUME StoreType
    PROVE  /\ Len(ordered) \in Nat
           /\ DOMAIN ordered = 1 .. Len(ordered)
           /\ \A i \in 1 .. Len(ordered) : ordered[i] \in Ids
BY DEF StoreType

\* Removing an element leaves a list of ids, shorter by one.
LEMMA WithoutType ==
    ASSUME StoreType, NEW p \in 1 .. Len(ordered)
    PROVE  /\ Without(p) \in Seq(Ids)
           /\ Len(Without(p)) = Len(ordered) - 1
<1>1. Len(ordered) - 1 \in Nat
  BY OrderedFacts
<1>2. \A i \in 1 .. Len(ordered) - 1 : i \in 1 .. Len(ordered) /\ i + 1 \in 1 .. Len(ordered)
  BY OrderedFacts
<1>3. Without(p) \in [1 .. Len(ordered) - 1 -> Ids]
  BY OrderedFacts, <1>2 DEF Without
<1> QED
  BY <1>1, <1>3

\* The place of an id in the list.
LEMMA PositionType ==
    ASSUME StoreType, NEW t
    PROVE  /\ Position(t) \in Nat
           /\ Position(t) = 0 => \A i \in DOMAIN ordered : ordered[i] # t
           /\ Position(t) # 0 => /\ Position(t) \in 1 .. Len(ordered)
                                 /\ ordered[Position(t)] = t
<1>1. DOMAIN ordered = 1 .. Len(ordered) /\ Len(ordered) \in Nat
  BY OrderedFacts
<1> QED
  BY <1>1 DEF Position

\* What Vec::remove does to the list of ids when a TTL runs out.
LEMMA ExpireOrdered ==
    ASSUME StoreType, NEW t \in Ids, Expire(t)
    PROVE  /\ ordered' \in Seq(Ids)
           /\ \/ ordered' = ordered /\ \A i \in DOMAIN ordered : ordered[i] # t
              \/ \E p \in 1 .. Len(ordered) : ordered[p] = t /\ ordered' = Without(p)
<1>1. CASE Position(t) = 0
  BY <1>1, PositionType DEF Expire, StoreType
<1>2. CASE Position(t) # 0
  BY <1>2, PositionType, WithoutType DEF Expire
<1> QED
  BY <1>1, <1>2

\* The steps of the polling loop and of the callers that leave the store
\* alone.
LEMMA StoreUnchanged ==
    ASSUME StoreType, UNCHANGED <<created, live, result, tx, ordered, ttl>>
    PROVE  StoreType'
BY DEF StoreType

\* The steps that leave the polling loop alone.
LEMMA LoopUnchanged ==
    ASSUME LoopType, UNCHANGED <<schedule, round, again, pc, cur>>
    PROVE  LoopType'
BY DEF LoopType

\* The steps that leave the peer and the callers alone.
LEMMA CallersUnchanged ==
    ASSUME CallersType, UNCHANGED <<remote, waiter, page>>
    PROVE  CallersType'
BY DEF CallersType

\* Removing an entry keeps the types of what it changes.
LEMMA RemoveEntryType ==
    ASSUME StoreType, CallersType, NEW t \in Ids,
           NEW o \in {"result", "bare", "failed"}, RemoveEntry(t, o)
    PROVE  /\ live' \subseteq Ids
           /\ result' \in [Ids -> BOOLEAN]
           /\ tx' \in [Ids -> Waiters \cup {NoWaiter}]
           /\ waiter' \in [Waiters -> {"idle", "waiting", "result", "bare", "failed"}]
<1>1. live' \subseteq Ids
  BY DEF StoreType, RemoveEntry
<1>2. result' \in [Ids -> BOOLEAN]
  BY Zenon DEF StoreType, RemoveEntry
<1>3. tx' \in [Ids -> Waiters \cup {NoWaiter}]
  BY DEF StoreType, RemoveEntry
<1>4. waiter' \in [Waiters -> {"idle", "waiting", "result", "bare", "failed"}]
  BY DEF CallersType, RemoveEntry
<1> QED
  BY <1>1, <1>2, <1>3, <1>4

\* TypeOK is an invariant: every operation of the store and every step of the
\* polling loop keeps the state well formed.
THEOREM TasksTypeInvariant == Spec => []TypeOK
<1>1. Init => TypeOK
  <2> SUFFICES ASSUME Init PROVE TypeOK
    OBVIOUS
  <2>1. StoreType
    BY TaskStoreAssumption DEF Init, StoreType, Ids
  <2>2. LoopType
    BY TaskStoreAssumption DEF Init, LoopType, NoTasks, Ids
  <2>3. CallersType
    BY TaskStoreAssumption DEF Init, CallersType, Ids
  <2> QED
    BY <2>1, <2>2, <2>3 DEF TypeOK
<1>2. TypeOK /\ [Next]_vars => TypeOK'
  <2> SUFFICES ASSUME StoreType, LoopType, CallersType, [Next]_vars PROVE TypeOK'
    BY DEF TypeOK
  <2>1. ASSUME NEW e \in BOOLEAN, CreateTask(e) PROVE TypeOK'
    <3>1. created + 1 \in Ids /\ created' \in 0 .. TaskCount
      BY <2>1, TaskStoreAssumption DEF StoreType, CreateTask, Ids
    <3>2. ordered' \in Seq(Ids)
      BY <2>1, <3>1 DEF StoreType, CreateTask
    <3>3. StoreType'
      BY <2>1, <3>1, <3>2 DEF StoreType, CreateTask
    <3>4. LoopType'
      BY <2>1, <3>1 DEF LoopType, CreateTask, loop
    <3>5. CallersType'
      BY <2>1, CallersUnchanged DEF CreateTask
    <3> QED
      BY <3>3, <3>4, <3>5 DEF TypeOK
  <2>2. ASSUME NEW t \in Ids, Expire(t) PROVE TypeOK'
    <3>1. RemoveEntry(t, "failed")
      BY <2>2 DEF Expire
    <3>2. StoreType'
      BY <2>2, <3>1, ExpireOrdered, RemoveEntryType DEF StoreType, Expire
    <3>3. LoopType'
      BY <2>2, LoopUnchanged DEF Expire, loop
    <3>4. CallersType'
      BY <2>2, <3>1, RemoveEntryType DEF CallersType, Expire
    <3> QED
      BY <3>2, <3>3, <3>4 DEF TypeOK
  <2>3. ASSUME NEW t \in Ids, NEW w \in Waiters, WaitForTaskResult(w, t) PROVE TypeOK'
    <3>1. StoreType'
      BY <2>3 DEF StoreType, WaitForTaskResult, SubscribeToTask
    <3>2. LoopType'
      BY <2>3, LoopUnchanged DEF WaitForTaskResult, loop
    <3>3. waiter' \in [Waiters -> {"idle", "waiting", "result", "bare", "failed"}]
      BY <2>3 DEF CallersType, WaitForTaskResult, SubscribeToTask
    <3>4. CallersType'
      BY <2>3, <3>3 DEF CallersType, WaitForTaskResult
    <3> QED
      BY <3>1, <3>2, <3>4 DEF TypeOK
  <2>4. ASSUME NEW t \in Ids, RequestGetTask(t) PROVE TypeOK'
    <3>1. round' \in [Ids -> Nat] /\ t # 0
      BY <2>4 DEF LoopType, RequestGetTask, Ids
    <3>2. LoopType'
      BY <2>4, <3>1 DEF LoopType, RequestGetTask
    <3> QED
      BY <2>4, <3>2, StoreUnchanged, CallersUnchanged DEF TypeOK, RequestGetTask, store
  <2>5. ASSUME NEW t \in Ids, RemoteEnds(t) PROVE TypeOK'
    <3>1. CallersType'
      BY <2>5 DEF CallersType, RemoteEnds
    <3> QED
      BY <2>5, <3>1, StoreUnchanged, LoopUnchanged DEF TypeOK, RemoteEnds, store, loop
  <2>6. ASSUME NEW w \in Waiters, Abandon(w) PROVE TypeOK'
    <3>1. CallersType'
      BY <2>6 DEF CallersType, Abandon
    <3> QED
      BY <2>6, <3>1, StoreUnchanged, LoopUnchanged DEF TypeOK, Abandon, store, loop
  <2>7. ASSUME NEW due \in SUBSET Ids, TasksToPoll(due) PROVE TypeOK'
    <3>1. schedule' \in [Ids -> Nat] /\ round' \in [Ids -> Nat]
      BY <2>7 DEF LoopType, TasksToPoll
    <3>2. LoopType'
      BY <2>7, <3>1 DEF LoopType, TasksToPoll
    <3> QED
      BY <2>7, <3>2, StoreUnchanged, CallersUnchanged DEF TypeOK, TasksToPoll, store
  <2>8. CASE GetTaskAnswered
    <3>1. again' \in [Ids -> Nat]
      BY <2>8 DEF LoopType, GetTaskAnswered
    <3>2. LoopType'
      BY <2>8, <3>1 DEF LoopType, GetTaskAnswered, NextTask
    <3> QED
      BY <2>8, <3>2, StoreUnchanged, CallersUnchanged DEF TypeOK, GetTaskAnswered, store
  <2>9. CASE PayloadAnswered
    <3>1. cur \in Ids
      BY <2>9 DEF LoopType, PayloadAnswered
    <3>2. result' \in [Ids -> BOOLEAN]
      BY <2>9, <3>1 DEF StoreType, PayloadAnswered, StoreTaskResult
    <3>3. StoreType'
      BY <2>9, <3>2 DEF StoreType, PayloadAnswered
    <3>4. LoopType'
      BY <2>9 DEF LoopType, PayloadAnswered
    <3> QED
      BY <2>9, <3>3, <3>4, CallersUnchanged DEF TypeOK, PayloadAnswered
  <2>10. CASE PollFails
    <3>1. again' \in [Ids -> Nat]
      BY <2>10 DEF LoopType, PollFails
    <3>2. LoopType'
      BY <2>10, <3>1 DEF LoopType, PollFails, NextTask
    <3> QED
      BY <2>10, <3>2, StoreUnchanged, CallersUnchanged DEF TypeOK, PollFails, store
  <2>11. CASE Finish
    <3>1. PICK o \in {"result", "bare", "failed"} : RemoveEntry(cur, o)
      BY <2>11 DEF Finish
    <3>2. cur \in Ids
      BY <2>11 DEF LoopType, Finish
    <3>3. StoreType'
      BY <2>11, <3>1, <3>2, RemoveEntryType DEF StoreType, Finish
    <3>4. LoopType'
      BY <2>11 DEF LoopType, Finish, NextTask
    <3>5. CallersType'
      BY <2>11, <3>1, <3>2, RemoveEntryType DEF CallersType, Finish
    <3> QED
      BY <3>3, <3>4, <3>5 DEF TypeOK
  <2>12. CASE RoundEnds
    <3>1. schedule' \in [Ids -> Nat] /\ again' \in [Ids -> Nat]
      BY <2>12 DEF LoopType, RoundEnds, ReSchedule, NoTasks
    <3>2. LoopType'
      BY <2>12, <3>1 DEF LoopType, RoundEnds
    <3> QED
      BY <2>12, <3>2, StoreUnchanged, CallersUnchanged DEF TypeOK, RoundEnds, store
  <2>13. CASE ListTasks
    <3>1. CallersType'
      <4> DEFINE rest == StartIndex(page.at) + PageSize
      <4>1. rest \in Nat /\ rest > 0
        BY PositionType, TaskStoreAssumption DEF StartIndex
      <4>2. rest <= Len(ordered) => ordered[rest] \in Ids
        BY <4>1, OrderedFacts
      <4>3. page'.at \in Ids \cup {0}
        BY <2>13, <4>2 DEF ListTasks
      <4> QED
        BY <2>13, <4>2 DEF CallersType, ListTasks, StoreType
    <3> QED
      BY <2>13, <3>1, StoreUnchanged, LoopUnchanged DEF TypeOK, ListTasks, store, loop
  <2>14. CASE UNCHANGED vars
    BY <2>14, StoreUnchanged, LoopUnchanged, CallersUnchanged DEF TypeOK, vars, store, loop
  <2> QED
    BY <2>1, <2>2, <2>3, <2>4, <2>5, <2>6, <2>7, <2>8, <2>9, <2>10, <2>11,
       <2>12, <2>13, <2>14 DEF Next
<1> QED
  BY <1>1, <1>2, PTL DEF Spec

-----------------------------------------------------------------------------
(***************************************************************************)
(* Polling                                                                 *)
(***************************************************************************)

\* What makes PolledOnce inductive: ids that were not generated are nowhere,
\* and between two rounds the vector of tasks_to_poll is gone.
PolledInv ==
    /\ PolledOnce
    /\ \A t \in Ids : t > created => Count(t) = 0 /\ t \notin live
    /\ pc = "sleeping" => round = NoTasks

\* A step that touches neither the loop nor the tasks.
LEMMA PolledUnchanged ==
    ASSUME PolledInv, live' \subseteq live,
           UNCHANGED <<created, schedule, round, again, pc, cur>>
    PROVE  PolledInv'
BY DEF PolledInv, PolledOnce, Count, NoTasks

\* PolledInv is an invariant.
LEMMA PolledInvariant == Spec => []PolledInv
<1>1. Init => PolledInv
  BY DEF Init, PolledInv, PolledOnce, Count, NoTasks, Ids
<1>2. TypeOK /\ PolledInv /\ [Next]_vars => PolledInv'
  <2> SUFFICES ASSUME StoreType, LoopType, CallersType, PolledInv, [Next]_vars
               PROVE  PolledInv'
    BY DEF TypeOK
  <2>0. /\ 0 \notin Ids /\ created \in Nat
        /\ \A t \in Ids : /\ t \in Nat /\ schedule[t] \in Nat
                          /\ round[t] \in Nat /\ again[t] \in Nat
    BY DEF LoopType, StoreType, Ids
  <2>1. ASSUME NEW e \in BOOLEAN, CreateTask(e) PROVE PolledInv'
    <3>1. /\ created + 1 \in Ids /\ created' = created + 1
          /\ live' = live \cup {created + 1}
          /\ schedule' = [schedule EXCEPT ![created + 1] = @ + 1]
          /\ UNCHANGED <<round, again, pc, cur>>
      BY <2>1, TaskStoreAssumption DEF CreateTask, loop, StoreType, Ids
    <3>2. Count(created + 1) = 0
      BY <2>0, <3>1 DEF PolledInv
    <3>3. \A t \in Ids : t = created + 1 => Count(t)' = 1
      BY <2>0, <3>1, <3>2 DEF Count, LoopType
    <3>4. \A t \in Ids : t # created + 1 => Count(t)' = Count(t)
      BY <3>1 DEF Count, LoopType
    <3>5. PolledOnce'
      BY <3>1, <3>3, <3>4 DEF PolledInv, PolledOnce
    <3>6. \A t \in Ids : t > created' => Count(t)' = 0 /\ t \notin live'
      BY <2>0, <3>1, <3>4 DEF PolledInv
    <3> QED
      BY <3>1, <3>5, <3>6 DEF PolledInv, NoTasks
  <2>2. ASSUME NEW t \in Ids, Expire(t) PROVE PolledInv'
    BY <2>2, PolledUnchanged DEF Expire, RemoveEntry, loop
  <2>3. ASSUME NEW t \in Ids, NEW w \in Waiters, WaitForTaskResult(w, t) PROVE PolledInv'
    BY <2>3, PolledUnchanged DEF WaitForTaskResult, loop
  <2>4. ASSUME NEW t \in Ids, RequestGetTask(t) PROVE PolledInv'
    <3>1. /\ cur = 0 /\ cur' = t /\ round[t] > 0 /\ pc' = "asking"
          /\ round' = [round EXCEPT ![t] = @ - 1]
          /\ UNCHANGED <<created, live, schedule, again>>
      BY <2>4 DEF RequestGetTask, LoopType, store
    <3>2. \A s \in Ids : Count(s)' = Count(s)
      BY <2>0, <3>1 DEF Count, LoopType
    <3> QED
      BY <3>1, <3>2 DEF PolledInv, PolledOnce
  <2>5. ASSUME NEW t \in Ids, RemoteEnds(t) PROVE PolledInv'
    BY <2>5, PolledUnchanged DEF RemoteEnds, loop, store
  <2>6. ASSUME NEW w \in Waiters, Abandon(w) PROVE PolledInv'
    BY <2>6, PolledUnchanged DEF Abandon, loop, store
  <2>7. ASSUME NEW due \in SUBSET Ids, TasksToPoll(due) PROVE PolledInv'
    <3>1. /\ round = NoTasks /\ pc' = "polling"
          /\ \A t \in due : schedule[t] > 0
          /\ schedule' = [t \in Ids |-> IF t \in due THEN schedule[t] - 1 ELSE schedule[t]]
          /\ round' = [t \in Ids |-> IF t \in due THEN 1 ELSE 0]
          /\ UNCHANGED <<created, live, again, cur>>
      BY <2>7 DEF TasksToPoll, PolledInv, store
    <3>2. \A s \in Ids : Count(s)' = Count(s)
      BY <2>0, <3>1 DEF Count, NoTasks
    <3> QED
      BY <3>1, <3>2 DEF PolledInv, PolledOnce
  <2>8. CASE GetTaskAnswered
    <3>1. CASE remote[cur] = "working"
      <4>1. /\ cur \in Ids /\ cur' = 0 /\ pc' = "polling"
            /\ again' = [again EXCEPT ![cur] = @ + 1]
            /\ UNCHANGED <<created, live, schedule, round>>
        BY <2>8, <3>1 DEF GetTaskAnswered, NextTask, LoopType, store
      <4>2. \A s \in Ids : Count(s)' = Count(s)
        BY <2>0, <4>1 DEF Count, LoopType
      <4> QED
        BY <4>1, <4>2 DEF PolledInv, PolledOnce
    <3>2. CASE remote[cur] # "working"
      <4>1. pc' = "payload" /\ UNCHANGED <<created, live, schedule, round, again, cur>>
        BY <2>8, <3>2 DEF GetTaskAnswered, store
      <4> QED
        BY <4>1 DEF PolledInv, PolledOnce, Count
    <3> QED
      BY <3>1, <3>2
  <2>9. CASE PayloadAnswered
    <3>1. pc' = "stored" /\ UNCHANGED <<created, live, schedule, round, again, cur>>
      BY <2>9 DEF PayloadAnswered
    <3> QED
      BY <3>1 DEF PolledInv, PolledOnce, Count
  <2>10. CASE PollFails
    <3>1. /\ cur \in Ids /\ cur' = 0 /\ pc' = "polling"
          /\ UNCHANGED <<created, live, schedule, round>>
      BY <2>10 DEF PollFails, NextTask, LoopType, store
    <3>2. CASE cur \in live
      <4>1. again' = [again EXCEPT ![cur] = @ + 1]
        BY <2>10, <3>2 DEF PollFails
      <4>2. \A s \in Ids : Count(s)' = Count(s)
        BY <2>0, <3>1, <4>1 DEF Count, LoopType
      <4> QED
        BY <3>1, <4>2 DEF PolledInv, PolledOnce
    <3>3. CASE cur \notin live
      <4>1. UNCHANGED again
        BY <2>10, <3>3 DEF PollFails
      <4>2. \A s \in Ids : Count(s)' <= Count(s) /\ Count(s)' \in Nat
                           /\ (s # cur => Count(s)' = Count(s))
        BY <2>0, <3>1, <4>1 DEF Count
      <4> QED
        BY <2>0, <3>1, <3>3, <4>2 DEF PolledInv, PolledOnce, Count
    <3> QED
      BY <3>2, <3>3
  <2>11. CASE Finish
    <3>1. /\ cur \in Ids /\ cur' = 0 /\ pc' = "polling" /\ live' = live \ {cur}
          /\ UNCHANGED <<created, schedule, round, again>>
      BY <2>11 DEF Finish, NextTask, RemoveEntry, LoopType
    <3>2. \A s \in Ids : Count(s)' <= Count(s) /\ Count(s)' \in Nat
                         /\ (s # cur => Count(s)' = Count(s))
      BY <2>0, <3>1 DEF Count
    <3> QED
      BY <2>0, <3>1, <3>2 DEF PolledInv, PolledOnce, Count
  <2>12. CASE RoundEnds
    <3>1. /\ pc' = "sleeping" /\ round = NoTasks /\ again' = NoTasks
          /\ schedule' = [t \in Ids |-> schedule[t] + again[t]]
          /\ UNCHANGED <<created, live, round, cur>>
      BY <2>12 DEF RoundEnds, ReSchedule, store
    <3>2. \A s \in Ids : Count(s)' = Count(s)
      BY <2>0, <3>1 DEF Count, NoTasks
    <3> QED
      BY <3>1, <3>2 DEF PolledInv, PolledOnce, NoTasks
  <2>13. CASE ListTasks
    BY <2>13, PolledUnchanged DEF ListTasks, loop, store
  <2>14. CASE UNCHANGED vars
    BY <2>14, PolledUnchanged DEF vars, loop, store
  <2> QED
    BY <2>1, <2>2, <2>3, <2>4, <2>5, <2>6, <2>7, <2>8, <2>9, <2>10, <2>11,
       <2>12, <2>13, <2>14 DEF Next
<1> QED
  BY <1>1, <1>2, TasksTypeInvariant, PTL DEF Spec

\* PolledOnce is an invariant: no order of failed polls, expiries and new
\* tasks makes the loop forget a task it tracks or poll it twice over.
THEOREM PolledOnceInvariant == Spec => []PolledOnce
<1>1. PolledInv => PolledOnce
  BY DEF PolledInv
<1> QED
  BY <1>1, PolledInvariant, PTL

-----------------------------------------------------------------------------
(***************************************************************************)
(* Waiters                                                                 *)
(***************************************************************************)

\* What makes NoBareResult inductive: the payload was stored if the entry is
\* still there, and only entries of the store hold senders.
ResultInv ==
    /\ NoBareResult
    /\ pc = "stored" /\ cur \in live => result[cur]
    /\ \A t \in Ids : t \notin live => tx[t] = NoWaiter

\* A step that stores nothing, changes no entry and answers nobody.
LEMMA ResultUnchanged ==
    ASSUME ResultInv, UNCHANGED <<live, result, tx, waiter>>,
           pc' = "stored" => pc = "stored" /\ cur' = cur
    PROVE  ResultInv'
BY DEF ResultInv, NoBareResult

\* NoBareResult is an invariant: remove_task and the send that follows it come
\* after store_task_result, and an entry that expired in between has no
\* waiter left.
THEOREM NoBareResultInvariant == Spec => []NoBareResult
<1>1. Init => ResultInv
  BY DEF Init, ResultInv, NoBareResult
<1>2. TypeOK /\ PolledInv /\ ResultInv /\ [Next]_vars => ResultInv'
  <2> SUFFICES ASSUME StoreType, LoopType, CallersType, PolledInv, ResultInv, [Next]_vars
               PROVE  ResultInv'
    BY DEF TypeOK
  <2>1. ASSUME NEW e \in BOOLEAN, CreateTask(e) PROVE ResultInv'
    <3>1. /\ created + 1 \in Ids /\ live' = live \cup {created + 1}
          /\ UNCHANGED <<result, tx, waiter, pc, cur>>
      BY <2>1, TaskStoreAssumption DEF CreateTask, loop, StoreType, Ids
    <3>2. Count(created + 1) = 0
      BY <3>1 DEF PolledInv, StoreType
    <3>3. cur # created + 1
      BY <3>1, <3>2 DEF Count, LoopType
    <3> QED
      BY <3>1, <3>3 DEF ResultInv, NoBareResult
  <2>2. ASSUME NEW t \in Ids, Expire(t) PROVE ResultInv'
    <3>1. RemoveEntry(t, "failed") /\ UNCHANGED <<pc, cur>>
      BY <2>2 DEF Expire, loop
    <3>2. NoBareResult'
      BY <3>1 DEF RemoveEntry, ResultInv, NoBareResult
    <3>3. pc' = "stored" /\ cur' \in live' => result'[cur']
      BY <3>1, Zenon DEF RemoveEntry, ResultInv, StoreType
    <3>4. \A s \in Ids : s \notin live' => tx'[s] = NoWaiter
      BY <3>1 DEF RemoveEntry, ResultInv, StoreType
    <3> QED
      BY <3>2, <3>3, <3>4 DEF ResultInv
  <2>3. ASSUME NEW t \in Ids, NEW w \in Waiters, WaitForTaskResult(w, t) PROVE ResultInv'
    <3>1. UNCHANGED <<live, result, pc, cur>>
      BY <2>3 DEF WaitForTaskResult, loop
    <3>2. NoBareResult'
      BY <2>3 DEF WaitForTaskResult, SubscribeToTask, ResultInv, NoBareResult, CallersType
    <3>3. \A s \in Ids : s \notin live' => tx'[s] = NoWaiter
      BY <2>3 DEF WaitForTaskResult, SubscribeToTask, ResultInv, StoreType
    <3> QED
      BY <3>1, <3>2, <3>3 DEF ResultInv
  <2>4. ASSUME NEW t \in Ids, RequestGetTask(t) PROVE ResultInv'
    BY <2>4, ResultUnchanged DEF RequestGetTask, store
  <2>5. ASSUME NEW t \in Ids, RemoteEnds(t) PROVE ResultInv'
    BY <2>5, ResultUnchanged DEF RemoteEnds, store, loop
  <2>6. ASSUME NEW w \in Waiters, Abandon(w) PROVE ResultInv'
    <3>1. UNCHANGED <<live, result, tx, pc, cur>>
      BY <2>6 DEF Abandon, store, loop
    <3>2. NoBareResult'
      BY <2>6 DEF Abandon, ResultInv, NoBareResult, CallersType
    <3> QED
      BY <3>1, <3>2 DEF ResultInv
  <2>7. ASSUME NEW due \in SUBSET Ids, TasksToPoll(due) PROVE ResultInv'
    BY <2>7, ResultUnchanged DEF TasksToPoll, store
  <2>8. CASE GetTaskAnswered
    BY <2>8, ResultUnchanged DEF GetTaskAnswered, NextTask, store
  <2>9. CASE PayloadAnswered
    <3>1. /\ cur \in Ids /\ result' = [result EXCEPT ![cur] = cur \in live]
          /\ UNCHANGED <<live, tx, waiter, cur>>
      BY <2>9 DEF PayloadAnswered, StoreTaskResult, LoopType
    <3>2. cur' \in live' => result'[cur']
      BY <3>1, Zenon DEF StoreType
    <3> QED
      BY <3>1, <3>2 DEF ResultInv, NoBareResult
  <2>10. CASE PollFails
    BY <2>10, ResultUnchanged DEF PollFails, NextTask, store
  <2>11. CASE Finish
    <3>1. cur \in Ids /\ pc' = "polling"
      BY <2>11 DEF Finish, LoopType, NextTask
    <3>2. ASSUME NEW w \in Waiters PROVE waiter'[w] # "bare"
      <4>1. CASE w = tx[cur] /\ waiter[w] = "waiting"
        <5>1. result[cur]
          BY <2>11, <3>1, <4>1, TaskStoreAssumption DEF ResultInv, Finish
        <5> QED
          BY <2>11, <4>1, <5>1 DEF Finish, RemoveEntry
      <4>2. CASE ~ (w = tx[cur] /\ waiter[w] = "waiting")
        BY <2>11, <4>2 DEF Finish, RemoveEntry, ResultInv, NoBareResult
      <4> QED
        BY <4>1, <4>2
    <3>3. \A s \in Ids : s \notin live' => tx'[s] = NoWaiter
      BY <2>11, <3>1 DEF Finish, RemoveEntry, ResultInv, StoreType
    <3> QED
      BY <3>1, <3>2, <3>3 DEF ResultInv, NoBareResult
  <2>12. CASE RoundEnds
    BY <2>12, ResultUnchanged DEF RoundEnds, store
  <2>13. CASE ListTasks
    BY <2>13, ResultUnchanged DEF ListTasks, store, loop
  <2>14. CASE UNCHANGED vars
    BY <2>14, ResultUnchanged DEF vars, store, loop
  <2> QED
    BY <2>1, <2>2, <2>3, <2>4, <2>5, <2>6, <2>7, <2>8, <2>9, <2>10, <2>11,
       <2>12, <2>13, <2>14 DEF Next
<1>3. ResultInv => NoBareResult
  BY DEF ResultInv
<1> QED
  BY <1>1, <1>2, <1>3, TasksTypeInvariant, PolledInvariant, PTL DEF Spec

\* Whoever still waits after an entry was removed waits for another one.
LEMMA RemoveEntryReachable ==
    ASSUME StoreType, CallersType, WaiterReachable, NEW t \in Ids,
           NEW o \in {"result", "bare", "failed"}, RemoveEntry(t, o)
    PROVE  WaiterReachable'
<1> SUFFICES ASSUME NEW w \in Waiters, waiter'[w] = "waiting"
             PROVE  \E s \in live' : tx'[s] = w
  BY DEF WaiterReachable
<1>1. waiter[w] = "waiting" /\ w # tx[t]
  BY DEF RemoveEntry
<1>2. PICK s \in live : tx[s] = w
  BY <1>1 DEF WaiterReachable
<1>3. s \in live' /\ tx'[s] = w
  BY <1>1, <1>2 DEF RemoveEntry, StoreType
<1> QED
  BY <1>3

\* WaiterReachable is an invariant: no waiter is left behind, with its sender
\* in no entry and no error.
THEOREM WaiterReachableInvariant == Spec => []WaiterReachable
<1>1. Init => WaiterReachable
  BY DEF Init, WaiterReachable
<1>2. TypeOK /\ WaiterReachable /\ [Next]_vars => WaiterReachable'
  <2> SUFFICES ASSUME StoreType, LoopType, CallersType, WaiterReachable, [Next]_vars
               PROVE  WaiterReachable'
    BY DEF TypeOK
  <2>1. ASSUME NEW e \in BOOLEAN, CreateTask(e) PROVE WaiterReachable'
    BY <2>1 DEF CreateTask, WaiterReachable
  <2>2. ASSUME NEW t \in Ids, Expire(t) PROVE WaiterReachable'
    BY <2>2, RemoveEntryReachable DEF Expire
  <2>3. ASSUME NEW t \in Ids, NEW w \in Waiters, WaitForTaskResult(w, t)
        PROVE  WaiterReachable'
    <3>1. CASE t \notin live
      BY <2>3, <3>1 DEF WaitForTaskResult, WaiterReachable, CallersType
    <3>2. CASE t \in live
      <4>1. SubscribeToTask(w, t) /\ UNCHANGED live
        BY <2>3, <3>2 DEF WaitForTaskResult
      <4> SUFFICES ASSUME NEW v \in Waiters, waiter'[v] = "waiting"
                   PROVE  \E s \in live' : tx'[s] = v
        BY DEF WaiterReachable
      <4>2. CASE v = w
        BY <3>2, <4>1, <4>2 DEF SubscribeToTask, StoreType
      <4>3. CASE v # w
        <5>1. waiter[v] = "waiting" /\ v # tx[t]
          BY <4>1, <4>3 DEF SubscribeToTask
        <5>2. PICK s \in live : tx[s] = v
          BY <5>1 DEF WaiterReachable
        <5>3. s \in live' /\ tx'[s] = v
          BY <4>1, <5>1, <5>2 DEF SubscribeToTask, StoreType
        <5> QED
          BY <5>3
      <4> QED
        BY <4>2, <4>3
    <3> QED
      BY <3>1, <3>2
  <2>4. ASSUME NEW w \in Waiters, Abandon(w) PROVE WaiterReachable'
    BY <2>4 DEF Abandon, WaiterReachable, CallersType, store
  <2>5. CASE Finish
    <3>1. cur \in Ids
      BY <2>5 DEF Finish, LoopType
    <3> QED
      BY <2>5, <3>1, RemoveEntryReachable DEF Finish
  <2>6. CASE \/ \E t \in Ids : RequestGetTask(t) \/ RemoteEnds(t)
             \/ \E due \in SUBSET Ids : TasksToPoll(due)
             \/ GetTaskAnswered \/ PayloadAnswered \/ PollFails \/ RoundEnds
             \/ ListTasks \/ UNCHANGED vars
    <3>1. UNCHANGED <<live, tx, waiter>>
      BY <2>6 DEF RequestGetTask, RemoteEnds, TasksToPoll, GetTaskAnswered,
         PayloadAnswered, PollFails, RoundEnds, ListTasks, vars, store
    <3> QED
      BY <3>1 DEF WaiterReachable
  <2> QED
    BY <2>1, <2>2, <2>3, <2>4, <2>5, <2>6 DEF Next
<1> QED
  BY <1>1, <1>2, TasksTypeInvariant, PTL DEF Spec

-----------------------------------------------------------------------------
(***************************************************************************)
(* Listing                                                                 *)
(***************************************************************************)

\* The list names every task in the store, once, and no id to come.
ListInv ==
    /\ \A i, j \in DOMAIN ordered : ordered[i] = ordered[j] => i = j
    /\ \A i \in DOMAIN ordered : ordered[i] <= created
    /\ \A t \in live : \E i \in DOMAIN ordered : ordered[i] = t

\* What a walk still owes, and has not lost, lies at or after its cursor.
WalkInv ==
    /\ \A t \in page.owed : t <= created
    /\ page.state = "idle" => page.at = 0
    /\ page.state = "walking" =>
         \A i, j \in DOMAIN ordered :
            ordered[i] \in page.owed \cap live /\ ordered[j] = page.at => j <= i
    /\ PagesComplete

\* A new task goes to the front and pushes the others on by one.
LEMMA CreateStep ==
    ASSUME StoreType, NEW e \in BOOLEAN, CreateTask(e)
    PROVE  /\ created + 1 \in Ids /\ created' = created + 1 /\ created \in Nat
           /\ live' = live \cup {created + 1}
           /\ Len(ordered') = Len(ordered) + 1
           /\ DOMAIN ordered' = 1 .. Len(ordered) + 1
           /\ ordered'[1] = created + 1
           /\ \A i \in 1 .. Len(ordered) : ordered'[i + 1] = ordered[i]
           /\ \A i \in DOMAIN ordered' : i # 1 =>
                 i - 1 \in DOMAIN ordered /\ ordered'[i] = ordered[i - 1]
<1>1. /\ created + 1 \in Ids /\ created' = created + 1 /\ created \in Nat
      /\ live' = live \cup {created + 1}
      /\ ordered' = <<created + 1>> \o ordered
  BY TaskStoreAssumption DEF CreateTask, StoreType, Ids
<1>2. ordered \in Seq(Ids) /\ <<created + 1>> \in Seq(Ids)
  BY <1>1 DEF StoreType
<1>3. Len(ordered') = Len(ordered) + 1 /\ Len(ordered) \in Nat
  BY <1>1, <1>2
<1>4. DOMAIN ordered' = 1 .. Len(ordered) + 1 /\ DOMAIN ordered = 1 .. Len(ordered)
  BY <1>1, <1>2, <1>3
<1>5. \A i \in 1 .. Len(ordered) + 1 :
         ordered'[i] = IF i <= 1 THEN created + 1 ELSE ordered[i - 1]
  BY <1>1, <1>2, <1>3
<1>6. ordered'[1] = created + 1
  BY <1>3, <1>5
<1>7. \A i \in 1 .. Len(ordered) : ordered'[i + 1] = ordered[i]
  BY <1>3, <1>5
<1>8. \A i \in DOMAIN ordered' : i # 1 =>
         i - 1 \in DOMAIN ordered /\ ordered'[i] = ordered[i - 1]
  BY <1>3, <1>4, <1>5
<1> QED
  BY <1>1, <1>3, <1>4, <1>6, <1>7, <1>8

\* Where the elements of a list without its p-th one come from.
LEMMA WithoutElements ==
    ASSUME StoreType, NEW p \in 1 .. Len(ordered)
    PROVE  /\ DOMAIN Without(p) = 1 .. Len(ordered) - 1
           /\ \A i \in 1 .. Len(ordered) - 1 :
                 Without(p)[i] = IF i < p THEN ordered[i] ELSE ordered[i + 1]
           /\ \A i \in 1 .. Len(ordered) : i < p =>
                 i \in DOMAIN Without(p) /\ Without(p)[i] = ordered[i]
           /\ \A i \in 1 .. Len(ordered) : i > p =>
                 i - 1 \in DOMAIN Without(p) /\ Without(p)[i - 1] = ordered[i]
<1>1. DOMAIN Without(p) = 1 .. Len(ordered) - 1 /\ Len(ordered) \in Nat
  BY OrderedFacts DEF Without
<1>2. \A i \in 1 .. Len(ordered) - 1 :
         Without(p)[i] = IF i < p THEN ordered[i] ELSE ordered[i + 1]
  BY DEF Without
<1>3. \A i \in 1 .. Len(ordered) : i < p =>
         i \in DOMAIN Without(p) /\ Without(p)[i] = ordered[i]
  BY <1>1, <1>2
<1>4. \A i \in 1 .. Len(ordered) : i > p =>
         i - 1 \in DOMAIN Without(p) /\ Without(p)[i - 1] = ordered[i]
  BY <1>1, <1>2
<1> QED
  BY <1>1, <1>2, <1>3, <1>4

\* ListInv is an invariant: create_task and the TTL's cleanup keep the list
\* and the map in step, while remove_task of the polling loop leaves an id in
\* the list that the map no longer has.
LEMMA ListInvariant == Spec => []ListInv
<1>1. Init => ListInv
  BY DEF Init, ListInv
<1>2. TypeOK /\ ListInv /\ [Next]_vars => ListInv'
  <2> SUFFICES ASSUME StoreType, LoopType, CallersType, ListInv, [Next]_vars
               PROVE  ListInv'
    BY DEF TypeOK
  <2>1. ASSUME NEW e \in BOOLEAN, CreateTask(e) PROVE ListInv'
    <3>1. DOMAIN ordered = 1 .. Len(ordered) /\ Len(ordered) \in Nat
      BY OrderedFacts
    <3>2. \A i \in DOMAIN ordered' : i # 1 => ordered'[i] # created + 1
      BY <2>1, <3>1, CreateStep, OrderedFacts DEF ListInv, Ids
    <3>3. ASSUME NEW i \in DOMAIN ordered', NEW j \in DOMAIN ordered', ordered'[i] = ordered'[j]
          PROVE  i = j
      <4>1. CASE i = 1 \/ j = 1
        BY <2>1, <3>2, <3>3, <4>1, CreateStep
      <4>2. CASE i # 1 /\ j # 1
        <5>1. /\ i - 1 \in DOMAIN ordered /\ ordered'[i] = ordered[i - 1]
              /\ j - 1 \in DOMAIN ordered /\ ordered'[j] = ordered[j - 1]
          BY <2>1, <4>2, CreateStep
        <5>2. i - 1 = j - 1
          BY <3>3, <5>1 DEF ListInv
        <5>3. i \in Int /\ j \in Int
          BY <2>1, <3>1, CreateStep
        <5> QED
          BY <5>2, <5>3
      <4> QED
        BY <4>1, <4>2
    <3>4. \A i \in DOMAIN ordered' : ordered'[i] <= created'
      BY <2>1, <3>1, CreateStep, OrderedFacts DEF ListInv, Ids
    <3>5. ASSUME NEW t \in live' PROVE \E i \in DOMAIN ordered' : ordered'[i] = t
      <4>1. CASE t = created + 1
        BY <2>1, <3>1, <4>1, CreateStep
      <4>2. CASE t # created + 1
        <5>1. PICK i \in DOMAIN ordered : ordered[i] = t
          BY <2>1, <4>2, CreateStep DEF ListInv
        <5>2. i + 1 \in DOMAIN ordered' /\ ordered'[i + 1] = t
          BY <2>1, <3>1, <5>1, CreateStep
        <5> QED
          BY <5>2
      <4> QED
        BY <4>1, <4>2
    <3> QED
      BY <3>3, <3>4, <3>5 DEF ListInv
  <2>2. ASSUME NEW t \in Ids, Expire(t) PROVE ListInv'
    <3>1. live' = live \ {t} /\ UNCHANGED created
      BY <2>2 DEF Expire, RemoveEntry
    <3>2. CASE ordered' = ordered
      BY <3>1, <3>2 DEF ListInv
    <3>3. ASSUME NEW p \in 1 .. Len(ordered), ordered[p] = t, ordered' = Without(p)
          PROVE  ListInv'
      <4>1. DOMAIN ordered = 1 .. Len(ordered) /\ Len(ordered) \in Nat
        BY OrderedFacts
      <4> DEFINE up(n) == IF n < p THEN n ELSE n + 1
      <4>2. \A i \in DOMAIN ordered' : /\ i \in 1 .. Len(ordered) - 1
                                       /\ up(i) \in DOMAIN ordered
                                       /\ ordered'[i] = ordered[up(i)]
        BY <3>3, <4>1, WithoutElements
      <4>3. ASSUME NEW i \in DOMAIN ordered', NEW j \in DOMAIN ordered', ordered'[i] = ordered'[j]
            PROVE  i = j
        <5>1. up(i) = up(j)
          BY <4>3, <4>2 DEF ListInv
        <5> QED
          BY <4>1, <4>2, <5>1
      <4>4. \A i \in DOMAIN ordered' : ordered'[i] <= created'
        BY <3>1, <4>2 DEF ListInv
      <4>5. ASSUME NEW s \in live' PROVE \E i \in DOMAIN ordered' : ordered'[i] = s
        <5>1. PICK i \in DOMAIN ordered : ordered[i] = s
          BY <3>1 DEF ListInv
        <5>2. i < p \/ i > p
          BY <3>1, <3>3, <4>1, <5>1
        <5> QED
          BY <3>3, <4>1, <5>1, <5>2, WithoutElements
      <4> QED
        BY <4>3, <4>4, <4>5 DEF ListInv
    <3> QED
      BY <2>2, <3>2, <3>3, ExpireOrdered
  <2>3. CASE Finish
    <3>1. live' \subseteq live /\ UNCHANGED <<ordered, created>>
      BY <2>3 DEF Finish, RemoveEntry
    <3> QED
      BY <3>1 DEF ListInv
  <2>4. CASE \/ \E t \in Ids : \E w \in Waiters : WaitForTaskResult(w, t)
             \/ \E t \in Ids : RequestGetTask(t) \/ RemoteEnds(t)
             \/ \E w \in Waiters : Abandon(w)
             \/ \E due \in SUBSET Ids : TasksToPoll(due)
             \/ GetTaskAnswered \/ PayloadAnswered \/ PollFails \/ RoundEnds
             \/ ListTasks \/ UNCHANGED vars
    <3>1. UNCHANGED <<live, ordered, created>>
      BY <2>4 DEF WaitForTaskResult, RequestGetTask, RemoteEnds, Abandon, TasksToPoll,
         GetTaskAnswered, PayloadAnswered, PollFails, RoundEnds, ListTasks, vars, store
    <3> QED
      BY <3>1 DEF ListInv
  <2> QED
    BY <2>1, <2>2, <2>3, <2>4 DEF Next
<1> QED
  BY <1>1, <1>2, TasksTypeInvariant, PTL DEF Spec

\* One page: what it starts with, and what of the list comes after it.
LEMMA PageStep ==
    ASSUME StoreType, CallersType, ListInv, WalkInv, ListTasks
    PROVE  WalkInv'
<1> DEFINE first == StartIndex(page.at)
           rest  == first + PageSize
           base  == IF page.state = "idle" THEN live ELSE page.owed
           ids   == {ordered[i] : i \in {j \in DOMAIN ordered : first <= j /\ j < rest}}
<1>1. DOMAIN ordered = 1 .. Len(ordered) /\ Len(ordered) \in Nat
  BY OrderedFacts
<1>2. /\ first \in Nat /\ first >= 1 /\ rest \in Nat /\ rest >= 1
      /\ first = 1 \/ (first \in DOMAIN ordered /\ ordered[first] = page.at)
  <2>1. CASE Position(page.at) = 0
    BY <2>1, TaskStoreAssumption DEF StartIndex
  <2>2. CASE Position(page.at) # 0
    <3>1. Position(page.at) \in 1 .. Len(ordered) /\ ordered[Position(page.at)] = page.at
      BY <2>2, PositionType
    <3>2. first = Position(page.at)
      BY <2>2 DEF StartIndex
    <3> QED
      BY <1>1, <3>1, <3>2, TaskStoreAssumption
  <2> QED
    BY <2>1, <2>2
<1>3. /\ page'.at = IF rest <= Len(ordered) THEN ordered[rest] ELSE 0
      /\ page'.state = IF rest <= Len(ordered) THEN "walking" ELSE "done"
      /\ page'.owed = base \ ids
      /\ page.state # "done"
  BY DEF ListTasks
<1>4. UNCHANGED <<created, live, ordered>>
  BY DEF ListTasks, store
<1>5. ASSUME NEW i \in DOMAIN ordered, ordered[i] \in base \cap live PROVE i >= first
  <2>1. CASE first = 1
    BY <1>1, <2>1
  <2>2. CASE first # 1
    <3>1. first \in DOMAIN ordered /\ ordered[first] = page.at
      BY <1>2, <2>2
    <3>2. page.state = "walking"
      <4>1. page.at # 0
        BY <1>1, <3>1, OrderedFacts DEF Ids
      <4> QED
        BY <1>3, <4>1 DEF WalkInv, CallersType
    <3> QED
      BY <1>5, <3>1, <3>2 DEF WalkInv
  <2> QED
    BY <2>1, <2>2
<1>6. ASSUME NEW i \in DOMAIN ordered, ordered[i] \in page'.owed \cap live PROVE i >= rest
  <2>1. i >= first
    BY <1>3, <1>5, <1>6
  <2>2. ~ (first <= i /\ i < rest)
    BY <1>3, <1>6
  <2> QED
    BY <1>1, <1>2, <2>1, <2>2
<1> HIDE DEF first, rest, base, ids
<1>7. \A t \in page'.owed : t <= created'
  BY <1>1, <1>3, <1>4 DEF base, ListInv, WalkInv
<1>8. page'.state # "idle"
  BY <1>3
<1>9. ASSUME page'.state = "walking", NEW i \in DOMAIN ordered, NEW j \in DOMAIN ordered,
             ordered[i] \in page'.owed \cap live, ordered[j] = page'.at
      PROVE  j <= i
  <2>1. rest \in DOMAIN ordered /\ ordered[j] = ordered[rest]
    BY <1>1, <1>2, <1>3, <1>9
  <2>2. j = rest
    BY <2>1 DEF ListInv
  <2> QED
    BY <1>6, <1>9, <2>2
<1>10. ASSUME page'.state = "done" PROVE page'.owed \cap live = {}
  <2> SUFFICES ASSUME NEW t \in page'.owed \cap live PROVE FALSE
    OBVIOUS
  <2>1. PICK i \in DOMAIN ordered : ordered[i] = t
    BY DEF ListInv
  <2>2. i >= rest
    BY <1>6, <2>1
  <2> QED
    BY <1>1, <1>2, <1>3, <1>10, <2>1, <2>2
<1> QED
  BY <1>4, <1>7, <1>8, <1>9, <1>10 DEF WalkInv, PagesComplete

\* PagesComplete is an invariant: create_task shifts the list under a walk and
\* an expiry may take the very task its cursor names, yet a task that stays in
\* the store is on some page.
THEOREM PagesCompleteInvariant == Spec => []PagesComplete
<1>1. Init => WalkInv
  BY DEF Init, WalkInv, PagesComplete
<1>2. TypeOK /\ ListInv /\ WalkInv /\ [Next]_vars => WalkInv'
  <2> SUFFICES ASSUME StoreType, LoopType, CallersType, ListInv, WalkInv, [Next]_vars
               PROVE  WalkInv'
    BY DEF TypeOK
  <2>1. ASSUME NEW e \in BOOLEAN, CreateTask(e) PROVE WalkInv'
    <3>1. DOMAIN ordered = 1 .. Len(ordered) /\ Len(ordered) \in Nat
      BY OrderedFacts
    <3>2. UNCHANGED page /\ page.owed \subseteq Ids
      BY <2>1 DEF CreateTask, CallersType
    <3>3. created + 1 \notin page.owed
      BY <2>1, CreateStep DEF WalkInv
    <3>4. page.owed \cap live' = page.owed \cap live
      BY <2>1, <3>3, CreateStep
    <3>5. \A t \in page.owed : t <= created'
      BY <2>1, <3>2, CreateStep DEF WalkInv, Ids
    <3>6. ASSUME page.state = "walking",
                 NEW i \in DOMAIN ordered', NEW j \in DOMAIN ordered',
                 ordered'[i] \in page.owed \cap live, ordered'[j] = page.at
          PROVE  j <= i
      <4>1. i # 1
        BY <2>1, <3>3, <3>6, CreateStep
      <4>2. CASE j = 1
        BY <2>1, <3>1, <4>2, CreateStep
      <4>3. CASE j # 1
        <5>1. /\ i - 1 \in DOMAIN ordered /\ ordered'[i] = ordered[i - 1]
              /\ j - 1 \in DOMAIN ordered /\ ordered'[j] = ordered[j - 1]
          BY <2>1, <4>1, <4>3, CreateStep
        <5>2. j - 1 <= i - 1
          BY <3>6, <5>1 DEF WalkInv
        <5>3. i \in Int /\ j \in Int
          BY <2>1, <3>1, CreateStep
        <5> QED
          BY <5>2, <5>3
      <4> QED
        BY <4>2, <4>3
    <3> QED
      BY <3>2, <3>4, <3>5, <3>6 DEF WalkInv, PagesComplete
  <2>2. ASSUME NEW t \in Ids, Expire(t) PROVE WalkInv'
    <3>1. live' = live \ {t} /\ UNCHANGED <<created, page>>
      BY <2>2 DEF Expire, RemoveEntry
    <3>2. CASE ordered' = ordered
      BY <3>1, <3>2 DEF WalkInv, PagesComplete
    <3>3. ASSUME NEW p \in 1 .. Len(ordered), ordered' = Without(p)
          PROVE  WalkInv'
      <4>1. DOMAIN ordered = 1 .. Len(ordered) /\ Len(ordered) \in Nat
        BY OrderedFacts
      <4>2. ASSUME page.state = "walking",
                   NEW i \in DOMAIN ordered', NEW j \in DOMAIN ordered',
                   ordered'[i] \in page.owed \cap live', ordered'[j] = page.at
            PROVE  j <= i
        <5> DEFINE up(n) == IF n < p THEN n ELSE n + 1
        <5>1. i \in 1 .. Len(ordered) - 1 /\ j \in 1 .. Len(ordered) - 1
          BY <3>3, WithoutElements
        <5>2. /\ up(i) \in DOMAIN ordered /\ ordered'[i] = ordered[up(i)]
              /\ up(j) \in DOMAIN ordered /\ ordered'[j] = ordered[up(j)]
          BY <3>3, <4>1, <5>1, WithoutElements
        <5>3. up(j) <= up(i)
          BY <3>1, <4>2, <5>2 DEF WalkInv
        <5> QED
          BY <4>1, <5>1, <5>3
      <4> QED
        BY <3>1, <4>2 DEF WalkInv, PagesComplete
    <3> QED
      BY <2>2, <3>2, <3>3, ExpireOrdered
  <2>3. CASE Finish
    <3>1. live' \subseteq live /\ UNCHANGED <<ordered, created, page>>
      BY <2>3 DEF Finish, RemoveEntry
    <3> QED
      BY <3>1 DEF WalkInv, PagesComplete
  <2>4. CASE ListTasks
    BY <2>4, PageStep
  <2>5. CASE \/ \E t \in Ids : \E w \in Waiters : WaitForTaskResult(w, t)
             \/ \E t \in Ids : RequestGetTask(t) \/ RemoteEnds(t)
             \/ \E w \in Waiters : Abandon(w)
             \/ \E due \in SUBSET Ids : TasksToPoll(due)
             \/ GetTaskAnswered \/ PayloadAnswered \/ PollFails \/ RoundEnds
             \/ UNCHANGED vars
    <3>1. UNCHANGED <<live, ordered, created, page>>
      BY <2>5 DEF WaitForTaskResult, RequestGetTask, RemoteEnds, Abandon, TasksToPoll,
         GetTaskAnswered, PayloadAnswered, PollFails, RoundEnds, vars, store
    <3> QED
      BY <3>1 DEF WalkInv, PagesComplete
  <2> QED
    BY <2>1, <2>2, <2>3, <2>4, <2>5 DEF Next
<1>3. WalkInv => PagesComplete
  BY DEF WalkInv
<1> QED
  BY <1>1, <1>2, <1>3, TasksTypeInvariant, ListInvariant, PTL DEF Spec

=============================================================================
