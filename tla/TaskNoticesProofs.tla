------------------------- MODULE TaskNoticesProofs -------------------------
(***************************************************************************)
(* Proofs about TaskNotices, for any tasks, statuses and capacity of the   *)
(* broadcast channel.                                                      *)
(***************************************************************************)
EXTENDS TaskNotices, TLAPS

\* The notice at position i is the last one of its task among the first n.
LastOf(t, i, n) ==
    /\ i \in 1 .. n /\ published[i].task = t
    /\ \A j \in i + 1 .. n : published[j].task # t

\* The last notice of a task whose status came with a result has that status.
ResultPublished ==
    \A t \in Tasks :
        /\ record[t] = "none" => changed[t] = "create"
        /\ changed[t] = "result" /\ record[t] \in Statuses =>
             \E i \in 1 .. Len(published) :
                 LastOf(t, i, Len(published)) /\ published[i].status = record[t]

\* A peer that missed nothing of a task knows the last notice the subscriber
\* has received.
ReadIsTold ==
    \A t \in Tasks \ (skipped \cup unheard) : \A i \in 1 .. read :
        LastOf(t, i, read) => told[t] = published[i].status

\* A notice of a task.
Notice == [task : Tasks, status : Statuses]

\* What an operation on a task does to the channel: nothing, or one notice
\* more, of that task.
LEMMA OneNotice ==
    ASSUME NoticesTypeOK, NEW t \in Tasks, NEW status \in Statuses,
           StoreResult(t, status) \/ UpdateTaskStatus(t, status)
    PROVE  \/ published' = published
           \/ \E n \in Notice : n.task = t /\ published' = Append(published, n)
<1>1. record[t] \in Statuses
  BY DEF StoreResult, UpdateTaskStatus
<1>2. PICK holds \in Statuses :
        \/ published' = published
        \/ published' = Append(published, [task |-> t, status |-> holds])
  BY <1>1 DEF StoreResult, UpdateTaskStatus, NotifyStatusChange, Publish
<1>3. [task |-> t, status |-> holds] \in Notice
  BY DEF Notice
<1> QED
  BY <1>2, <1>3

\* The channel's notices are notices, and one more goes behind them.
LEMMA Channel ==
    ASSUME NoticesTypeOK
    PROVE  /\ Len(published) \in Nat
           /\ \A i \in 1 .. Len(published) : published[i] \in Notice
           /\ \A n \in Notice :
                /\ Append(published, n) \in Seq(Notice)
                /\ Len(Append(published, n)) = Len(published) + 1
                /\ \A i \in 1 .. Len(published) : Append(published, n)[i] = published[i]
                /\ Append(published, n)[Len(published) + 1] = n
<1>1. published \in Seq(Notice)
  BY DEF NoticesTypeOK, Notice
<1> QED
  BY <1>1

\* NoticesTypeOK is an invariant: the subscriber's place stays within the
\* channel through forwarding and lagging.
THEOREM NoticesTypeInvariant == NoticesSpec => []NoticesTypeOK
<1> USE TaskNoticesAssumption
<1>1. NoticesInit => NoticesTypeOK
  BY DEF NoticesInit, NoticesTypeOK
<1>2. NoticesTypeOK /\ [NoticesNext]_noticeVars => NoticesTypeOK'
  <2> SUFFICES ASSUME NoticesTypeOK, [NoticesNext]_noticeVars PROVE NoticesTypeOK'
    OBVIOUS
  <2> USE DEF NoticesTypeOK, channelVars, entryVars
  <2>1. ASSUME NEW t \in Tasks, ReceiveTask(t) \/ ForgetTask(t) \/ SessionEnds(t)
        PROVE  NoticesTypeOK'
    BY <2>1 DEF ReceiveTask, ForgetTask, SessionEnds
  <2>2. ASSUME NEW t \in Tasks, NEW status \in Statuses,
               StoreResult(t, status) \/ UpdateTaskStatus(t, status)
        PROVE  NoticesTypeOK'
    <3>1. record' \in [Tasks -> Statuses \cup {"none", "gone"}]
      BY <2>2 DEF StoreResult, UpdateTaskStatus
    <3>2. changed' \in [Tasks -> {"create", "result", "update"}]
      BY <2>2 DEF StoreResult, UpdateTaskStatus, NotifyStatusChange
    <3>3. /\ published' \in Seq([task : Tasks, status : Statuses])
          /\ Len(published') >= Len(published)
      <4>1. CASE published' = published
        BY <4>1
      <4>2. ASSUME NEW n \in Notice, published' = Append(published, n)
            PROVE  published' \in Seq(Notice) /\ Len(published') >= Len(published)
        BY <4>2, Channel
      <4> QED
        BY <2>2, <4>1, <4>2, OneNotice DEF Notice
    <3> QED
      BY <2>2, <3>1, <3>2, <3>3 DEF StoreResult, UpdateTaskStatus
  <2>3. CASE Forward
    <3>1. published[read + 1].task \in Tasks /\ published[read + 1].status \in Statuses
      BY <2>3, Channel DEF Forward, Notice
    <3>2. /\ read' \in 0 .. Len(published)
          /\ UNCHANGED <<http, record, changed, published, skipped, sessions>>
      BY <2>3 DEF Forward
    <3>3. told' \in [Tasks -> Statuses \cup {"none"}] /\ unheard' \subseteq Tasks
      BY <2>3, <3>1 DEF Forward
    <3> QED
      BY <3>2, <3>3
  <2>4. CASE Lagged
    <3>1. read' \in 0 .. Len(published)
      BY <2>4 DEF Lagged
    <3>2. \A i \in read + 1 .. read' : published[i].task \in Tasks
      BY <3>1, Channel DEF Notice
    <3>3. skipped' \subseteq Tasks
      BY <2>4, <3>2 DEF Lagged
    <3> QED
      BY <2>4, <3>1, <3>3 DEF Lagged
  <2>5. CASE UNCHANGED noticeVars
    BY <2>5 DEF noticeVars
  <2> QED
    BY <2>1, <2>2, <2>3, <2>4, <2>5 DEF NoticesNext
<1> QED
  BY <1>1, <1>2, PTL DEF NoticesSpec

\* Results are published with the status they bring.
LEMMA ResultPublishedInvariant == NoticesSpec => []ResultPublished
<1> USE TaskNoticesAssumption
<1>1. NoticesInit => ResultPublished
  BY DEF NoticesInit, ResultPublished
<1>2. NoticesTypeOK /\ ResultPublished /\ [NoticesNext]_noticeVars => ResultPublished'
  <2> SUFFICES ASSUME NoticesTypeOK, ResultPublished, [NoticesNext]_noticeVars
               PROVE  ResultPublished'
    OBVIOUS
  <2> USE DEF channelVars, entryVars
  <2>0. ASSUME UNCHANGED <<published, changed>>, NEW t \in Tasks,
               \A u \in Tasks \ {t} : record'[u] = record[u],
               record'[t] \in Statuses => record'[t] = record[t] \/ record[t] = "none",
               record'[t] # "none"
        PROVE  ResultPublished'
    BY <2>0 DEF ResultPublished, LastOf
  <2>1. ASSUME NEW t \in Tasks, ReceiveTask(t) \/ ForgetTask(t)
        PROVE  ResultPublished'
    BY <2>0, <2>1 DEF ReceiveTask, ForgetTask, NoticesTypeOK
  <2>2. ASSUME NEW t \in Tasks, NEW status \in Statuses, NEW holds \in Statuses,
               NEW operation \in {"result", "update"},
               operation = "result" => holds = status,
               NotifyStatusChange(t, status, holds, operation),
               record[t] \in Statuses, record' = [record EXCEPT ![t] = status]
        PROVE  ResultPublished'
    <3>1. CASE record[t] = status
      BY <2>0, <2>2, <3>1 DEF NotifyStatusChange, NoticesTypeOK
    <3>2. CASE record[t] # status
      <4> DEFINE n == [task |-> t, status |-> holds]
      <4>0. PICK len \in Nat : len = Len(published)
        BY Channel
      <4>1. n \in Notice /\ n.task = t /\ n.status = holds
        BY DEF Notice
      <4>2. published' = Append(published, n) /\ changed' = [changed EXCEPT ![t] = operation]
        BY <2>2, <3>2 DEF NotifyStatusChange, Publish
      <4> HIDE DEF n
      <4>3. /\ len \in Nat /\ Len(published') = len + 1 /\ published'[len + 1] = n
            /\ \A i \in 1 .. len : published'[i] = published[i]
        BY <4>0, <4>1, <4>2, Channel
      <4> SUFFICES ASSUME NEW u \in Tasks
                   PROVE  /\ record'[u] = "none" => changed'[u] = "create"
                          /\ changed'[u] = "result" /\ record'[u] \in Statuses =>
                               \E i \in 1 .. Len(published') :
                                   /\ LastOf(u, i, Len(published))'
                                   /\ published'[i].status = record'[u]
        BY DEF ResultPublished
      <4>4. CASE u = t
        <5>1. record'[u] = status /\ changed'[u] = operation
          BY <2>2, <4>2, <4>4 DEF NoticesTypeOK
        <5>2. LastOf(u, len + 1, Len(published))'
          BY <4>1, <4>3, <4>4 DEF LastOf
        <5> QED
          BY <2>2, <4>1, <4>3, <5>1, <5>2
      <4>5. CASE u # t
        <5>1. record'[u] = record[u] /\ changed'[u] = changed[u]
          BY <2>2, <4>2, <4>5 DEF NoticesTypeOK
        <5>2. CASE changed[u] = "result" /\ record[u] \in Statuses
          <6>1. PICK i \in 1 .. len : LastOf(u, i, len) /\ published[i].status = record[u]
            BY <4>0, <5>2 DEF ResultPublished
          <6>2. LastOf(u, i, Len(published))'
            BY <4>1, <4>3, <4>5, <6>1 DEF LastOf
          <6> QED
            BY <4>3, <5>1, <5>2, <6>1, <6>2
        <5> QED
          BY <5>1, <5>2 DEF ResultPublished
      <4> QED
        BY <4>4, <4>5
    <3> QED
      BY <3>1, <3>2
  <2>3. ASSUME NEW t \in Tasks, NEW status \in Statuses, StoreResult(t, status)
        PROVE  ResultPublished'
    BY <2>2, <2>3 DEF StoreResult
  <2>4. ASSUME NEW t \in Tasks, NEW status \in Statuses, UpdateTaskStatus(t, status)
        PROVE  ResultPublished'
    BY <2>2, <2>4 DEF UpdateTaskStatus
  <2>5. CASE \/ \E t \in Tasks : SessionEnds(t)
             \/ Forward \/ Lagged \/ UNCHANGED noticeVars
    <3>1. UNCHANGED <<record, changed, published>>
      BY <2>5 DEF SessionEnds, Forward, Lagged, noticeVars
    <3> QED
      BY <3>1 DEF ResultPublished, LastOf
  <2> QED
    BY <2>1, <2>3, <2>4, <2>5 DEF NoticesNext
<1> QED
  BY <1>1, <1>2, NoticesTypeInvariant, PTL DEF NoticesSpec

\* What the subscriber has received it has forwarded, lagging or not.
LEMMA ReadIsToldInvariant == NoticesSpec => []ReadIsTold
<1> USE TaskNoticesAssumption
<1>1. NoticesInit => ReadIsTold
  BY DEF NoticesInit, ReadIsTold
<1>2. NoticesTypeOK /\ ReadIsTold /\ [NoticesNext]_noticeVars => ReadIsTold'
  <2> SUFFICES ASSUME NoticesTypeOK, ReadIsTold, [NoticesNext]_noticeVars
               PROVE  ReadIsTold'
    OBVIOUS
  <2> USE DEF channelVars, entryVars
  <2>0. read \in Nat /\ read <= Len(published) /\ Len(published) \in Nat
    BY Channel DEF NoticesTypeOK
  <2>1. ASSUME UNCHANGED <<read, skipped, unheard, told>>,
               \A i \in 1 .. read : published'[i] = published[i]
        PROVE  ReadIsTold'
    BY <2>0, <2>1 DEF ReadIsTold, LastOf
  <2>2. ASSUME NEW t \in Tasks, NEW status \in Statuses,
               StoreResult(t, status) \/ UpdateTaskStatus(t, status)
        PROVE  ReadIsTold'
    <3>1. \A i \in 1 .. read : published'[i] = published[i]
      <4>1. ASSUME NEW n \in Notice, published' = Append(published, n)
            PROVE  \A i \in 1 .. read : published'[i] = published[i]
        BY <2>0, <4>1, Channel
      <4> QED
        BY <2>2, <4>1, OneNotice
    <3> QED
      BY <2>1, <2>2, <3>1 DEF StoreResult, UpdateTaskStatus
  <2>3. CASE Forward
    <3> DEFINE n == published[read + 1]
    <3>1. /\ n \in Notice /\ read' = read + 1
          /\ UNCHANGED <<published, skipped>>
      BY <2>0, <2>3, Channel DEF Forward
    <3>2. /\ told' = IF Forwards(n.task) THEN [told EXCEPT ![n.task] = n.status] ELSE told
          /\ unheard' = IF n.task \in sessions THEN unheard ELSE unheard \cup {n.task}
      BY <2>3 DEF Forward
    <3> SUFFICES ASSUME NEW u \in Tasks, u \notin skipped \cup unheard',
                        NEW i \in 1 .. read + 1, LastOf(u, i, read)'
                 PROVE  told'[u] = published[i].status
      BY <3>1 DEF ReadIsTold
    <3>3. CASE i = read + 1
      <4>1. n.task = u /\ u \in sessions
        BY <3>1, <3>2, <3>3 DEF LastOf
      <4> QED
        BY <3>2, <3>3, <4>1 DEF Forwards, NoticesTypeOK
    <3>4. CASE i # read + 1
      <4>1. i \in 1 .. read /\ n.task # u /\ LastOf(u, i, read)
        BY <2>0, <3>1, <3>4 DEF LastOf
      <4>2. told'[u] = told[u] /\ u \notin unheard
        BY <3>2, <4>1 DEF NoticesTypeOK
      <4> QED
        BY <4>1, <4>2 DEF ReadIsTold
    <3> QED
      BY <3>3, <3>4
  <2>4. CASE Lagged
    <3>1. /\ read' \in Nat /\ read <= read' /\ read' <= Len(published)
          /\ skipped' = skipped \cup {published[i].task : i \in read + 1 .. read'}
          /\ UNCHANGED <<published, unheard, told>>
      BY <2>0, <2>4 DEF Lagged
    <3> SUFFICES ASSUME NEW u \in Tasks, u \notin skipped' \cup unheard,
                        NEW i \in 1 .. read', LastOf(u, i, read)'
                 PROVE  told[u] = published[i].status
      BY <3>1 DEF ReadIsTold
    <3>2. i \in 1 .. read /\ LastOf(u, i, read)
      BY <2>0, <3>1 DEF LastOf
    <3> QED
      BY <3>1, <3>2 DEF ReadIsTold
  <2>5. CASE \/ \E t \in Tasks : ReceiveTask(t) \/ ForgetTask(t) \/ SessionEnds(t)
             \/ UNCHANGED noticeVars
    BY <2>1, <2>5 DEF ReceiveTask, ForgetTask, SessionEnds, noticeVars
  <2> QED
    BY <2>2, <2>3, <2>4, <2>5 DEF NoticesNext
<1> QED
  BY <1>1, <1>2, NoticesTypeInvariant, PTL DEF NoticesSpec

\* ResultTold is an invariant: whatever the channel's capacity, a peer whose
\* notices were neither skipped nor without a session knows the status of a
\* stored result as soon as the subscriber has caught up.
THEOREM ResultToldHolds == NoticesSpec => []ResultTold
<1>1. NoticesTypeOK /\ ResultPublished /\ ReadIsTold => ResultTold
  BY DEF ResultPublished, ReadIsTold, ResultTold
<1> QED
  BY <1>1, NoticesTypeInvariant, ResultPublishedInvariant, ReadIsToldInvariant, PTL

\* GoneNotTold holds: nothing is forwarded to a session that has ended.
THEOREM GoneNotToldHolds == NoticesSpec => GoneNotTold
<1>1. NoticesTypeOK /\ [NoticesNext]_noticeVars =>
        [\A t \in Tasks : http /\ t \notin sessions => told'[t] = told[t]]_noticeVars
  <2> SUFFICES ASSUME NoticesTypeOK, NoticesNext, NEW t \in Tasks, http, t \notin sessions
               PROVE  told'[t] = told[t]
    OBVIOUS
  <2>1. CASE Forward
    BY <2>1 DEF Forward, Forwards, NoticesTypeOK
  <2>2. CASE ~Forward
    BY <2>2 DEF NoticesNext, ReceiveTask, ForgetTask, SessionEnds, StoreResult,
                UpdateTaskStatus, Lagged
  <2> QED
    BY <2>1, <2>2
<1> QED
  BY <1>1, NoticesTypeInvariant, PTL DEF NoticesSpec, GoneNotTold

=============================================================================
