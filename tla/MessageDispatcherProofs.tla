---------------------- MODULE MessageDispatcherProofs ----------------------
(***************************************************************************)
(* Proofs about MessageDispatcher, for any number of calls, requests and   *)
(* answers.                                                                *)
(***************************************************************************)
EXTENDS MessageDispatcher, TLAPS

\* An id belongs to the one call it was generated for, and only ids that
\* were generated are in use.
IdsUnique ==
    /\ \A c \in Calls : phase[c] = "idle" => ids[c] = {}
    /\ \A c \in Calls : \A i \in ids[c] : i < nextId
    /\ \A c, d \in Calls : \A i \in ids[c] : i \in ids[d] => c = d

\* Everything that names an id names the call the id belongs to: requests at
\* the peer, answers on their way, stored senders and senders being used.
Owned ==
    /\ \A r \in requests : r.id \in ids[r.of]
    /\ \A a \in sent : a.id \in ids[a.of]
    /\ inbox \subseteq sent
    /\ \A i \in RequestId : pending[i] # NoCall => i \in ids[pending[i]]
    /\ \A h \in hand : /\ h.id \in ids[h.tx]
                       /\ \E a \in sent : a.id = h.id /\ a.of = h.of

\* Where a sender is stored before the write, the peer knows no request
\* whose channel is missing.
StoredBeforeWrite ==
    /\ \A c \in Calls : phase[c] = "writing" /\ StoresFirst(c) =>
          \A i \in ids[c] : chan[c][i] # "none"
    /\ \A r \in requests : StoresFirst(r.of) => chan[r.of][r.id] # "none"
    /\ \A a \in sent : StoresFirst(a.of) => chan[a.of][a.id] # "none"

\* A dead child's cleanup leaves no stored sender that is waited for.
ReapedClean ==
    peer = "reaped" =>
        \A c \in Calls, i \in RequestId :
            phase[c] = "waiting" /\ pending[i] = c => chan[c][i] # "open"

\* TypeOK is an invariant: every operation of the dispatcher keeps its state
\* well formed.
THEOREM TypeInvariant == Spec => []TypeOK
<1>1. Init => TypeOK
  BY BoundsAssumption DEF Init, TypeOK, Channel, RequestId
<1>2. TypeOK /\ [Next]_vars => TypeOK'
  <2> SUFFICES ASSUME TypeOK, [Next]_vars PROVE TypeOK'
    OBVIOUS
  <2> USE BoundsAssumption
  <2>1. ASSUME NEW c \in Calls, NEW k \in {"single", "batch"},
               NEW n \in 0 .. BatchSize, Send(c, k, n)
        PROVE  TypeOK'
    BY <2>1 DEF TypeOK, Send, NextRequestIds, RequestId, Channel
  <2>2. ASSUME NEW c \in Calls, NEW i \in RequestId, Store(c, i)
        PROVE  TypeOK'
    BY <2>2 DEF TypeOK, Store, StorePendingRequest, Channel
  <2>3. ASSUME NEW c \in Calls, NEW i \in RequestId, TimesOut(c, i)
        PROVE  TypeOK'
    BY <2>3 DEF TypeOK, TimesOut, Channel
  <2>4. ASSUME NEW c \in Calls, Write(c)
        PROVE  TypeOK'
    BY <2>4 DEF TypeOK, Write, Payload, Request
  <2>5. ASSUME NEW c \in Calls, WriteFails(c)
        PROVE  TypeOK'
    BY <2>5 DEF TypeOK, WriteFails, Leave, Payload, Request, Channel
  <2>6. ASSUME NEW c \in Calls, Abandon(c)
        PROVE  TypeOK'
    BY <2>6 DEF TypeOK, Abandon, Leave, Channel
  <2>7. ASSUME NEW c \in Calls, Return(c)
        PROVE  TypeOK'
    BY <2>7 DEF TypeOK, Return
  <2>8. ASSUME NEW r \in requests, NEW n \in Copies, PeerAnswers(r, n)
        PROVE  TypeOK'
    <3>1. r.id \in RequestId /\ r.of \in Calls
      BY <2>8 DEF TypeOK, Request
    <3>2. [id |-> r.id, of |-> r.of, copy |-> n] \in Answer
      BY <3>1 DEF Answer
    <3> QED
      BY <2>8, <3>2 DEF TypeOK, PeerAnswers
  <2>9. ASSUME NEW a \in inbox, HandleAnswer(a)
        PROVE  TypeOK'
    <3>1. a \in Answer /\ a.id \in RequestId /\ a.of \in Calls
      BY <2>9 DEF TypeOK, Answer
    <3>2. ASSUME pending[a.id] # NoCall
          PROVE  [tx |-> pending[a.id], id |-> a.id, of |-> a.of] \in Delivery
      BY <3>1, <3>2 DEF TypeOK, Delivery
    <3>3. CASE pending[a.id] = NoCall
      BY <2>9, <3>1, <3>3 DEF TypeOK, HandleAnswer, PendingRequestTx
    <3>4. CASE pending[a.id] # NoCall
      <4>1. hand' \subseteq Delivery
        BY <2>9, <3>2, <3>4 DEF TypeOK, HandleAnswer, PendingRequestTx
      <4> QED
        BY <2>9, <3>1, <3>4, <4>1 DEF TypeOK, HandleAnswer, PendingRequestTx
    <3> QED
      BY <3>3, <3>4
  <2>10. ASSUME NEW h \in hand, Deliver(h)
         PROVE  TypeOK'
    <3>1. h.tx \in Calls /\ h.id \in RequestId /\ h.of \in Calls
      BY DEF TypeOK, Delivery
    <3>2. CASE chan[h.tx][h.id] = "open"
      <4>1. /\ chan' = [chan EXCEPT ![h.tx][h.id] = "answered"]
            /\ reply' = [reply EXCEPT ![h.tx][h.id] = h.of]
        BY <2>10, <3>2 DEF Deliver, SendResponse
      <4>2. chan' \in [Calls -> [RequestId -> Channel]]
        BY <3>1, <4>1 DEF TypeOK, Channel
      <4>3. reply' \in [Calls -> [RequestId -> Calls \cup {NoCall}]]
        BY <3>1, <4>1 DEF TypeOK
      <4> QED
        BY <2>10, <4>2, <4>3 DEF TypeOK, Deliver
    <3>3. CASE chan[h.tx][h.id] # "open"
      BY <2>10, <3>3 DEF TypeOK, Deliver, SendResponse
    <3> QED
      BY <3>2, <3>3
  <2>11. CASE PeerExits
    BY <2>11 DEF TypeOK, PeerExits
  <2>12. CASE Reap
    BY <2>12 DEF TypeOK, Reap, ClearPending, Channel
  <2>13. CASE UNCHANGED vars
    BY <2>13 DEF TypeOK, vars
  <2> QED
    BY <2>1, <2>2, <2>3, <2>4, <2>5, <2>6, <2>7, <2>8, <2>9, <2>10, <2>11,
       <2>12, <2>13 DEF Next
<1> QED
  BY <1>1, <1>2, PTL DEF Spec

\* A timeout closes the receiving end of one channel and touches no other.
LEMMA TimesOutStep ==
    ASSUME TypeOK, NEW d \in Calls, NEW j \in RequestId, TimesOut(d, j),
           NEW c \in Calls, NEW i \in RequestId
    PROVE  /\ chan'[c][i] = IF c = d /\ i = j THEN "gone" ELSE chan[c][i]
           /\ phase' = phase /\ pending' = pending
<1>1. chan \in [Calls -> [RequestId -> Channel]]
  BY DEF TypeOK
<1>2. /\ chan' = [chan EXCEPT ![d][j] = "gone"]
      /\ phase' = phase /\ pending' = pending
  BY DEF TimesOut
<1> QED
  BY <1>1, <1>2

\* A response in hand goes to its own channel, if that is still open, and
\* touches no other.
LEMMA DeliverStep ==
    ASSUME TypeOK, NEW h \in hand, Deliver(h), NEW c \in Calls, NEW i \in RequestId
    PROVE  /\ h.tx \in Calls /\ h.id \in RequestId /\ h.of \in Calls
           /\ c = h.tx /\ i = h.id /\ chan[c][i] = "open" =>
                 chan'[c][i] = "answered" /\ reply'[c][i] = h.of
           /\ ~ (c = h.tx /\ i = h.id /\ chan[c][i] = "open") =>
                 chan'[c][i] = chan[c][i] /\ reply'[c][i] = reply[c][i]
<1>1. h.tx \in Calls /\ h.id \in RequestId /\ h.of \in Calls
  BY DEF TypeOK, Delivery
<1>2. /\ chan \in [Calls -> [RequestId -> Channel]]
      /\ reply \in [Calls -> [RequestId -> Calls \cup {NoCall}]]
  BY DEF TypeOK
<1>3. CASE chan[h.tx][h.id] = "open"
  <2>1. /\ chan' = [chan EXCEPT ![h.tx][h.id] = "answered"]
        /\ reply' = [reply EXCEPT ![h.tx][h.id] = h.of]
    BY <1>3 DEF Deliver, SendResponse
  <2>2. chan'[c][i] = IF c = h.tx /\ i = h.id THEN "answered" ELSE chan[c][i]
    BY <1>1, <1>2, <2>1
  <2>3. reply'[c][i] = IF c = h.tx /\ i = h.id THEN h.of ELSE reply[c][i]
    BY <1>1, <1>2, <2>1
  <2> QED
    BY <1>1, <1>3, <2>2, <2>3
<1>4. CASE chan[h.tx][h.id] # "open"
  BY <1>1, <1>4 DEF Deliver, SendResponse
<1> QED
  BY <1>3, <1>4

\* A call that leaves does nothing to a channel but close its receiving end,
\* and is over.
LEMMA LeaveStep ==
    ASSUME TypeOK, NEW d \in Calls, Leave(d), NEW c \in Calls, NEW i \in RequestId
    PROVE  /\ chan'[c][i] = chan[c][i] \/ chan'[c][i] = "gone"
           /\ phase'[c] = IF c = d THEN "done" ELSE phase[c]
           /\ pending' = pending /\ peer' = peer
<1>1. /\ chan \in [Calls -> [RequestId -> Channel]]
      /\ DOMAIN phase = Calls
  BY DEF TypeOK
<1>2. /\ phase' = [phase EXCEPT ![d] = "done"]
      /\ pending' = pending /\ peer' = peer
  BY DEF Leave
<1>3. chan'[c][i] = chan[c][i] \/ chan'[c][i] = "gone"
  BY <1>1 DEF Leave
<1> QED
  BY <1>1, <1>2, <1>3

\* Every id names one call only, and whatever carries an id is about that
\* call.
LEMMA OwnershipInvariant == Spec => [](IdsUnique /\ Owned)
<1>1. Init => IdsUnique /\ Owned
  BY DEF Init, IdsUnique, Owned
<1>2. TypeOK /\ TypeOK' /\ IdsUnique /\ Owned /\ [Next]_vars => (IdsUnique /\ Owned)'
  <2> SUFFICES ASSUME TypeOK, TypeOK', IdsUnique, Owned, [Next]_vars
               PROVE  (IdsUnique /\ Owned)'
    OBVIOUS
  <2> USE BoundsAssumption
  <2>1. ASSUME NEW c \in Calls, NEW k \in {"single", "batch"},
               NEW n \in 0 .. BatchSize, Send(c, k, n)
        PROVE  (IdsUnique /\ Owned)'
    <3>1. /\ ids' = [ids EXCEPT ![c] = nextId .. nextId + n - 1]
          /\ nextId' = nextId + n /\ nextId \in Nat /\ n \in Nat
          /\ ids[c] = {}
          /\ phase'[c] # "idle"
      BY <2>1 DEF Send, NextRequestIds, TypeOK, IdsUnique
    <3>2. \A d \in Calls : ids[d] \subseteq ids'[d]
      BY <3>1 DEF TypeOK
    <3>3. IdsUnique'
      <4>1. \A d \in Calls : \A i \in ids[d] : i < nextId
        BY DEF IdsUnique
      <4>2. \A d \in Calls \ {c} : ids'[d] = ids[d] /\ phase'[d] = phase[d]
        BY <2>1, <3>1 DEF Send, TypeOK
      <4>3. ids'[c] = nextId .. nextId + n - 1
        BY <3>1 DEF TypeOK
      <4>4. \A d \in Calls : \A i \in ids'[d] : i < nextId'
        BY <3>1, <4>1, <4>2, <4>3 DEF TypeOK, RequestId
      <4>5. \A d, e \in Calls : \A i \in ids'[d] : i \in ids'[e] => d = e
        BY <3>1, <4>1, <4>2, <4>3 DEF TypeOK, IdsUnique, RequestId
      <4>6. \A d \in Calls : phase'[d] = "idle" => ids'[d] = {}
        BY <3>1, <4>2 DEF IdsUnique
      <4> QED
        BY <4>4, <4>5, <4>6 DEF IdsUnique
    <3>4. Owned'
      BY <2>1, <3>2 DEF Owned, Send, TypeOK, Request, Answer, Delivery
    <3> QED
      BY <3>3, <3>4
  <2>2. ASSUME NEW c \in Calls, NEW i \in RequestId, Store(c, i)
        PROVE  (IdsUnique /\ Owned)'
    BY <2>2, CallsAssumption DEF TypeOK, IdsUnique, Owned, Store, StorePendingRequest
  <2>3. ASSUME NEW c \in Calls, NEW i \in RequestId, TimesOut(c, i)
        PROVE  (IdsUnique /\ Owned)'
    BY <2>3 DEF IdsUnique, Owned, TimesOut
  <2>4. ASSUME NEW c \in Calls, Write(c)
        PROVE  (IdsUnique /\ Owned)'
    <3>1. /\ UNCHANGED <<ids, pending, hand, sent, inbox, nextId>>
          /\ requests' \subseteq requests \cup Payload(c)
      BY <2>4 DEF Write
    <3>2. \A d \in Calls : phase'[d] = "idle" => phase[d] = "idle"
      BY <2>4 DEF TypeOK, Write
    <3>3. \A r \in Payload(c) : r.id \in ids[r.of]
      BY DEF Payload
    <3> QED
      BY <3>1, <3>2, <3>3 DEF IdsUnique, Owned
  <2>5. ASSUME NEW c \in Calls, WriteFails(c)
        PROVE  (IdsUnique /\ Owned)'
    <3>1. /\ UNCHANGED <<ids, pending, hand, sent, inbox, nextId>>
          /\ requests' \subseteq requests \cup Payload(c)
      BY <2>5 DEF WriteFails, Leave
    <3>2. \A d \in Calls : phase'[d] = "idle" => phase[d] = "idle"
      BY <2>5 DEF TypeOK, WriteFails, Leave
    <3>3. \A r \in Payload(c) : r.id \in ids[r.of]
      BY DEF Payload
    <3> QED
      BY <3>1, <3>2, <3>3 DEF IdsUnique, Owned
  <2>6. ASSUME NEW c \in Calls, Abandon(c)
        PROVE  (IdsUnique /\ Owned)'
    <3>1. UNCHANGED <<ids, pending, hand, sent, inbox, nextId, requests>>
      BY <2>6 DEF Abandon, Leave
    <3>2. \A d \in Calls : phase'[d] = "idle" => phase[d] = "idle"
      BY <2>6 DEF TypeOK, Abandon, Leave
    <3> QED
      BY <3>1, <3>2 DEF IdsUnique, Owned
  <2>7. ASSUME NEW c \in Calls, Return(c)
        PROVE  (IdsUnique /\ Owned)'
    BY <2>7 DEF TypeOK, IdsUnique, Owned, Return
  <2>8. ASSUME NEW r \in requests, NEW n \in Copies, PeerAnswers(r, n)
        PROVE  (IdsUnique /\ Owned)'
    BY <2>8 DEF IdsUnique, Owned, PeerAnswers
  <2>9. ASSUME NEW a \in inbox, HandleAnswer(a)
        PROVE  (IdsUnique /\ Owned)'
    <3>1. a \in sent /\ a.id \in RequestId
      BY DEF Owned, TypeOK, Answer
    <3>2. CASE pending[a.id] = NoCall
      BY <2>9, <3>2 DEF IdsUnique, Owned, HandleAnswer, PendingRequestTx
    <3>3. CASE pending[a.id] # NoCall
      <4> DEFINE taken == [tx |-> pending[a.id], id |-> a.id, of |-> a.of]
      <4>1. /\ hand' = hand \cup {taken}
            /\ UNCHANGED <<ids, sent>>
        BY <2>9, <3>3 DEF HandleAnswer, PendingRequestTx
      <4>2. taken.tx = pending[a.id] /\ taken.id = a.id /\ taken.of = a.of
        OBVIOUS
      <4>3. \A h \in hand' : /\ h.id \in ids'[h.tx]
                            /\ \E b \in sent' : b.id = h.id /\ b.of = h.of
        <5> HIDE DEF taken
        <5> QED
          BY <3>1, <3>3, <4>1, <4>2 DEF Owned
      <4>4. \A i \in RequestId : pending'[i] # NoCall => i \in ids'[pending'[i]]
        BY <2>9, <3>1, <3>3 DEF Owned, TypeOK, HandleAnswer, PendingRequestTx
      <4>5. IdsUnique'
        BY <2>9 DEF IdsUnique, HandleAnswer
      <4> QED
        BY <2>9, <4>3, <4>4, <4>5 DEF Owned, HandleAnswer
    <3> QED
      BY <3>2, <3>3
  <2>10. ASSUME NEW h \in hand, Deliver(h)
         PROVE  (IdsUnique /\ Owned)'
    BY <2>10 DEF IdsUnique, Owned, Deliver
  <2>11. CASE PeerExits
    BY <2>11 DEF IdsUnique, Owned, PeerExits
  <2>12. CASE Reap
    BY <2>12 DEF IdsUnique, Owned, Reap, ClearPending
  <2>13. CASE UNCHANGED vars
    BY <2>13 DEF IdsUnique, Owned, vars
  <2> QED
    BY <2>1, <2>2, <2>3, <2>4, <2>5, <2>6, <2>7, <2>8, <2>9, <2>10, <2>11,
       <2>12, <2>13 DEF Next
<1> QED
  BY <1>1, <1>2, TypeInvariant, PTL DEF Spec

\* A channel with an outcome keeps it, and its reply, in every step.
LEMMA OutcomeStep ==
    ASSUME TypeOK, [Next]_vars,
           NEW c \in Calls, NEW i \in RequestId,
           chan[c][i] \in {"closed", "gone", "answered"}
    PROVE  chan'[c][i] = chan[c][i] /\ reply'[c][i] = reply[c][i]
<1>1. ASSUME NEW d \in Calls, NEW j \in RequestId, Store(d, j) \/ TimesOut(d, j)
      PROVE  chan'[c][i] = chan[c][i] /\ reply'[c][i] = reply[c][i]
  <2>1. CASE Store(d, j)
    BY <2>1 DEF TypeOK, Store, StorePendingRequest
  <2>2. CASE TimesOut(d, j)
    <3>1. chan' = [chan EXCEPT ![d][j] = "gone"] /\ chan[d][j] = "open" /\ reply' = reply
      BY <2>2 DEF TimesOut, AwaitTimeout
    <3>2. c # d \/ i # j
      BY <3>1
    <3> QED
      BY <3>1, <3>2 DEF TypeOK
  <2> QED
    BY <1>1, <2>1, <2>2
<1>2. ASSUME NEW d \in Calls, WriteFails(d) \/ Abandon(d)
      PROVE  chan'[c][i] = chan[c][i] /\ reply'[c][i] = reply[c][i]
  <2>1. Leave(d)
    BY <1>2 DEF WriteFails, Abandon
  <2>2. CASE c = d
    BY <2>1, <2>2 DEF TypeOK, Leave
  <2>3. CASE c # d
    BY <2>1, <2>3 DEF TypeOK, Leave
  <2> QED
    BY <2>2, <2>3
<1>3. ASSUME NEW h \in hand, Deliver(h)
      PROVE  chan'[c][i] = chan[c][i] /\ reply'[c][i] = reply[c][i]
  <2>1. h.tx \in Calls /\ h.id \in RequestId
    BY DEF TypeOK, Delivery
  <2>2. CASE chan[h.tx][h.id] = "open"
    <3>1. c # h.tx \/ i # h.id
      BY <2>2
    <3> QED
      BY <1>3, <2>1, <2>2, <3>1, DeliverStep DEF TypeOK
  <2>3. CASE chan[h.tx][h.id] # "open"
    BY <1>3, <2>3 DEF Deliver, SendResponse
  <2> QED
    BY <2>2, <2>3
<1>4. CASE Reap
  BY <1>4 DEF Reap, ClearPending
<1>5. CASE \/ \E d \in Calls :
                \/ \E k \in {"single", "batch"}, n \in 0 .. BatchSize : Send(d, k, n)
                \/ Write(d)
                \/ Return(d)
           \/ \E r \in requests, n \in Copies : PeerAnswers(r, n)
           \/ \E a \in inbox : HandleAnswer(a)
           \/ PeerExits
           \/ UNCHANGED vars
  BY <1>5 DEF Send, Write, Return, PeerAnswers, HandleAnswer, PeerExits, vars
<1> QED
  BY <1>1, <1>2, <1>3, <1>4, <1>5 DEF Next

\* OutcomeFinal for every number of calls, requests and answers: no later
\* event changes what send_message has told its caller.
THEOREM OutcomesAreFinal == Spec => OutcomeFinal
<1>1. TypeOK /\ [Next]_vars =>
        [\A c \in Calls, i \in RequestId :
           chan[c][i] \in {"closed", "gone", "answered"} =>
               chan'[c][i] = chan[c][i] /\ reply'[c][i] = reply[c][i]]_vars
  BY OutcomeStep
<1> QED
  BY <1>1, TypeInvariant, PTL DEF Spec, OutcomeFinal

\* Correlation for every number of calls, requests and answers: the ids of
\* RequestIdGenNumeric being unique, send_message only ever returns the
\* peer's answer to its own request.
THEOREM AnswersAreCorrelated == Spec => []Correlation
<1>1. Init => Correlation
  BY DEF Init, Correlation
<1>2. /\ TypeOK /\ TypeOK' /\ IdsUnique /\ Owned
      /\ Correlation /\ [Next]_vars
      => Correlation'
  <2> SUFFICES ASSUME TypeOK, TypeOK', IdsUnique, Owned, Correlation, [Next]_vars,
                      NEW c \in Calls, NEW i \in RequestId,
                      chan'[c][i] = "answered"
               PROVE  reply'[c][i] = c
    BY DEF Correlation
  <2>1. CASE chan[c][i] = "answered"
    BY <2>1, OutcomeStep DEF Correlation
  <2>2. CASE chan[c][i] # "answered"
    <3>1. PICK h \in hand : Deliver(h)
      <4>1. ASSUME NEW d \in Calls, NEW j \in RequestId, Store(d, j) \/ TimesOut(d, j)
            PROVE  chan'[c][i] # "answered"
        BY <4>1, <2>2 DEF TypeOK, Store, StorePendingRequest, TimesOut
      <4>2. ASSUME NEW d \in Calls, WriteFails(d) \/ Abandon(d)
            PROVE  chan'[c][i] # "answered"
        BY <4>2, <2>2 DEF TypeOK, WriteFails, Abandon, Leave
      <4>3. CASE Reap
        BY <4>3, <2>2 DEF Reap, ClearPending
      <4> QED
        BY <2>2, <4>1, <4>2, <4>3
           DEF Next, vars, Send, Write, Return, PeerAnswers, HandleAnswer, PeerExits
    <3>2. h.tx \in Calls /\ h.id \in RequestId /\ h.of \in Calls
      BY DEF TypeOK, Delivery
    <3>3. chan[h.tx][h.id] = "open" /\ c = h.tx /\ i = h.id
      BY <2>2, <3>1, DeliverStep
    <3>4. reply'[c][i] = h.of
      BY <3>1, <3>3, DeliverStep
    <3>5. h.id \in ids[h.tx] /\ h.id \in ids[h.of]
      BY DEF Owned
    <3> QED
      BY <3>2, <3>3, <3>4, <3>5 DEF IdsUnique
  <2> QED
    BY <2>1, <2>2
<1> QED
  BY <1>1, <1>2, TypeInvariant, OwnershipInvariant, PTL DEF Spec

\* SenderReachable for every number of calls, requests and answers: nobody
\* waits for a response whose sender is neither stored nor in use.
THEOREM SendersAreReachable == Spec => []SenderReachable
<1>1. Init => SenderReachable
  BY DEF Init, SenderReachable
<1>2. TypeOK /\ SenderReachable /\ [Next]_vars => SenderReachable'
  <2> SUFFICES ASSUME TypeOK, SenderReachable, [Next]_vars,
                      NEW c \in Calls, NEW i \in RequestId, chan'[c][i] = "open"
               PROVE  pending'[i] = c \/ \E h \in hand' : h.tx = c /\ h.id = i
    BY DEF SenderReachable
  <2> DEFINE Goal == pending'[i] = c \/ \E h \in hand' : h.tx = c /\ h.id = i
  <2>1. ASSUME NEW d \in Calls, NEW j \in RequestId, Store(d, j)
        PROVE  Goal
    <3>1. CASE c = d /\ i = j
      BY <2>1, <3>1 DEF TypeOK, Store, StorePendingRequest
    <3>2. CASE ~ (c = d /\ i = j)
      <4>1. chan[c][i] = "open" /\ ~ (i = j /\ c = pending[j])
        BY <2>1, <3>2 DEF TypeOK, Store, StorePendingRequest
      <4>2. pending[i] = c => pending'[i] = c
        BY <2>1, <4>1 DEF TypeOK, Store, StorePendingRequest
      <4> QED
        BY <2>1, <4>1, <4>2 DEF Store, SenderReachable
    <3> QED
      BY <3>1, <3>2
  <2>2. ASSUME NEW d \in Calls, NEW j \in RequestId, TimesOut(d, j)
        PROVE  Goal
    <3>1. chan[c][i] = "open"
      BY <2>2 DEF TypeOK, TimesOut
    <3> QED
      BY <2>2, <3>1 DEF TimesOut, SenderReachable
  <2>3. ASSUME NEW d \in Calls, WriteFails(d) \/ Abandon(d)
        PROVE  Goal
    <3>1. chan[c][i] = "open"
      BY <2>3 DEF TypeOK, WriteFails, Abandon, Leave
    <3> QED
      BY <2>3, <3>1 DEF WriteFails, Abandon, Leave, SenderReachable
  <2>4. ASSUME NEW a \in inbox, HandleAnswer(a)
        PROVE  Goal
    <3>1. chan[c][i] = "open" /\ a.id \in RequestId
      BY <2>4 DEF HandleAnswer, TypeOK, Answer
    <3>2. CASE pending[a.id] = NoCall
      <4>1. pending' = pending /\ hand' = hand
        BY <2>4, <3>2 DEF HandleAnswer, PendingRequestTx
      <4> QED
        BY <3>1, <4>1 DEF SenderReachable
    <3>3. CASE pending[a.id] # NoCall
      <4> DEFINE taken == [tx |-> pending[a.id], id |-> a.id, of |-> a.of]
      <4>1. taken.tx = pending[a.id] /\ taken.id = a.id
        OBVIOUS
      <4>2. hand' = hand \cup {taken}
        BY <2>4, <3>3 DEF HandleAnswer, PendingRequestTx
      <4>3. i # a.id => pending'[i] = pending[i]
        BY <2>4, <3>1, <3>3 DEF HandleAnswer, PendingRequestTx, TypeOK
      <4> HIDE DEF taken
      <4> QED
        BY <3>1, <4>1, <4>2, <4>3 DEF SenderReachable
    <3> QED
      BY <3>2, <3>3
  <2>5. ASSUME NEW h \in hand, Deliver(h)
        PROVE  Goal
    <3>1. h.tx \in Calls /\ h.id \in RequestId
      BY DEF TypeOK, Delivery
    <3>2. chan[c][i] = "open" /\ ~ (h.tx = c /\ h.id = i)
      BY <2>5, DeliverStep
    <3> QED
      BY <2>5, <3>2 DEF Deliver, SenderReachable
  <2>6. CASE Reap
    <3>1. chan[c][i] = "open" /\ pending[i] # c
      BY <2>6 DEF Reap, ClearPending
    <3> QED
      BY <2>6, <3>1 DEF Reap, SenderReachable
  <2>7. CASE \/ \E d \in Calls :
                  \/ \E k \in {"single", "batch"}, n \in 0 .. BatchSize : Send(d, k, n)
                  \/ Write(d)
                  \/ Return(d)
             \/ \E r \in requests, n \in Copies : PeerAnswers(r, n)
             \/ PeerExits
             \/ UNCHANGED vars
    <3>1. UNCHANGED <<chan, pending, hand>>
      BY <2>7 DEF Send, Write, Return, PeerAnswers, PeerExits, vars
    <3> QED
      BY <3>1 DEF SenderReachable
  <2> QED
    BY <2>1, <2>2, <2>3, <2>4, <2>5, <2>6, <2>7 DEF Next
<1> QED
  BY <1>1, <1>2, TypeInvariant, PTL DEF Spec

\* A channel that was created is never forgotten.
LEMMA ChannelStep ==
    ASSUME TypeOK, [Next]_vars,
           NEW c \in Calls, NEW i \in RequestId, chan'[c][i] = "none"
    PROVE  chan[c][i] = "none"
<1>1. ASSUME NEW d \in Calls, NEW j \in RequestId, Store(d, j) \/ TimesOut(d, j)
      PROVE  chan[c][i] = "none"
  <2>1. CASE Store(d, j)
    BY <2>1 DEF TypeOK, Store, StorePendingRequest
  <2>2. CASE TimesOut(d, j)
    <3>1. chan' = [chan EXCEPT ![d][j] = "gone"]
      BY <2>2 DEF TimesOut
    <3>2. c # d \/ i # j
      BY <3>1 DEF TypeOK
    <3> QED
      BY <3>1, <3>2 DEF TypeOK
  <2> QED
    BY <1>1, <2>1, <2>2
<1>2. ASSUME NEW d \in Calls, WriteFails(d) \/ Abandon(d)
      PROVE  chan[c][i] = "none"
  BY <1>2, LeaveStep DEF WriteFails, Abandon
<1>3. ASSUME NEW h \in hand, Deliver(h)
      PROVE  chan[c][i] = "none"
  <2>1. h.tx \in Calls /\ h.id \in RequestId
    BY DEF TypeOK, Delivery
  <2>2. CASE chan' = [chan EXCEPT ![h.tx][h.id] = "answered"]
    <3>1. c # h.tx \/ i # h.id
      BY <2>1, <2>2 DEF TypeOK
    <3> QED
      BY <2>1, <2>2, <3>1 DEF TypeOK
  <2>3. CASE chan' = chan
    BY <2>3
  <2> QED
    BY <1>3, <2>2, <2>3 DEF Deliver, SendResponse
<1>4. CASE Reap
  BY <1>4 DEF Reap, ClearPending
<1> QED
  BY <1>1, <1>2, <1>3, <1>4
     DEF Next, vars, Send, Write, Return, PeerAnswers, HandleAnswer, PeerExits

\* Where send_message stores before it writes, every request that the peer
\* has received or answered had its channel created first.
LEMMA StoredBeforeWriteInvariant == Spec => []StoredBeforeWrite
<1>1. Init => StoredBeforeWrite
  BY DEF Init, StoredBeforeWrite
<1>2. /\ TypeOK /\ TypeOK' /\ IdsUnique /\ Owned
      /\ StoredBeforeWrite /\ [Next]_vars
      => StoredBeforeWrite'
  <2> SUFFICES ASSUME TypeOK, TypeOK', IdsUnique, Owned, StoredBeforeWrite, [Next]_vars
               PROVE  StoredBeforeWrite'
    OBVIOUS
  <2>0. /\ \A r \in requests : r.of \in Calls /\ r.id \in RequestId
        /\ \A a \in sent : a.of \in Calls /\ a.id \in RequestId
        /\ \A d \in Calls : ids[d] \subseteq RequestId
    BY DEF TypeOK, Request, Answer
  <2>1. ASSUME NEW c \in Calls, NEW k \in {"single", "batch"},
               NEW n \in 0 .. BatchSize, Send(c, k, n)
        PROVE  StoredBeforeWrite'
    <3>1. /\ \A r \in requests : r.of # c
          /\ \A a \in sent : a.of # c
      BY <2>1 DEF Send, IdsUnique, Owned
    <3>2. \A d \in Calls \ {c} : /\ StoresFirst(d)' <=> StoresFirst(d)
                                 /\ phase'[d] = phase[d] /\ ids'[d] = ids[d]
      <4>1. DOMAIN kind = Calls /\ DOMAIN phase = Calls /\ DOMAIN ids = Calls
        BY DEF TypeOK
      <4>2. \A d \in Calls \ {c} : kind'[d] = kind[d] /\ phase'[d] = phase[d]
        BY <2>1, <4>1 DEF Send
      <4>3. \A d \in Calls \ {c} : ids'[d] = ids[d]
        BY <2>1, <4>1 DEF Send, NextRequestIds
      <4> QED
        BY <4>2, <4>3 DEF StoresFirst
    <3>3. phase'[c] = "writing" /\ StoresFirst(c)' => ids'[c] = {}
      <4>1. phase'[c] = "writing" /\ StoresFirst(c)' => n = 0
        <5>1. DOMAIN phase = Calls /\ n \in Nat
          BY BoundsAssumption DEF TypeOK
        <5> QED
          BY <2>1, <5>1 DEF Send
      <4>2. n = 0 => ids'[c] = {}
        <5>1. DOMAIN ids = Calls /\ nextId \in Nat
          BY BoundsAssumption DEF TypeOK
        <5>2. ids' = [ids EXCEPT ![c] = nextId .. nextId + n - 1]
          BY <2>1 DEF Send, NextRequestIds
        <5> QED
          BY <5>1, <5>2
      <4> QED
        BY <4>1, <4>2
    <3>4. UNCHANGED <<chan, requests, sent>>
      BY <2>1 DEF Send
    <3> QED
      BY <2>0, <3>1, <3>2, <3>3, <3>4 DEF StoredBeforeWrite
  <2>2. ASSUME NEW c \in Calls, NEW i \in RequestId, Store(c, i)
        PROVE  StoredBeforeWrite'
    <3>1. \A d \in Calls : StoresFirst(d)' <=> StoresFirst(d)
      BY <2>2 DEF Store, StoresFirst
    <3>2. ASSUME phase'[c] = "writing", NEW j \in ids[c]
          PROVE  chan'[c][j] # "none"
      <4>1. j = i \/ chan[c][j] # "none"
        BY <2>2, <3>2 DEF Store, TypeOK
      <4> QED
        BY <2>0, <2>2, <4>1, ChannelStep DEF Store, StorePendingRequest, TypeOK
    <3>3. \A d \in Calls \ {c} : phase'[d] = phase[d]
      BY <2>2 DEF Store, TypeOK
    <3>4. UNCHANGED <<ids, requests, sent>>
      BY <2>2 DEF Store
    <3>5. \A d \in Calls, j \in RequestId : chan[d][j] # "none" => chan'[d][j] # "none"
      BY ChannelStep
    <3>6. \A d \in Calls : phase'[d] = "writing" /\ StoresFirst(d)' =>
             \A j \in ids'[d] : chan'[d][j] # "none"
      BY <2>0, <3>1, <3>2, <3>3, <3>4, <3>5 DEF StoredBeforeWrite
    <3>7. /\ \A r \in requests' : StoresFirst(r.of)' => chan'[r.of][r.id] # "none"
          /\ \A a \in sent' : StoresFirst(a.of)' => chan'[a.of][a.id] # "none"
      BY <2>0, <3>1, <3>4, <3>5 DEF StoredBeforeWrite
    <3> QED
      BY <3>6, <3>7 DEF StoredBeforeWrite
  <2>3. ASSUME NEW c \in Calls, Write(c) \/ WriteFails(c)
        PROVE  StoredBeforeWrite'
    <3>1. \A d \in Calls : StoresFirst(d)' <=> StoresFirst(d)
      BY <2>3 DEF Write, WriteFails, Leave, StoresFirst
    <3>2. \A d \in Calls : phase'[d] = "writing" => phase[d] = "writing"
      BY <2>3 DEF Write, WriteFails, Leave, TypeOK
    <3>3. UNCHANGED <<ids, sent>> /\ phase[c] = "writing"
      BY <2>3 DEF Write, WriteFails, Leave
    <3>4. requests' \subseteq requests \cup Payload(c)
      BY <2>3 DEF Write, WriteFails
    <3>5. \A r \in Payload(c) : r.of = c /\ r.id \in ids[c]
      BY DEF Payload
    <3>6. \A d \in Calls, j \in RequestId : chan[d][j] # "none" => chan'[d][j] # "none"
      BY ChannelStep
    <3>7. \A d \in Calls : phase'[d] = "writing" /\ StoresFirst(d)' =>
             \A j \in ids'[d] : chan'[d][j] # "none"
      BY <2>0, <3>1, <3>2, <3>3, <3>6 DEF StoredBeforeWrite
    <3>8. ASSUME NEW r \in requests', StoresFirst(r.of)'
          PROVE  chan'[r.of][r.id] # "none"
      <4>1. CASE r \in requests
        BY <2>0, <3>1, <3>6, <3>8, <4>1 DEF StoredBeforeWrite
      <4>2. CASE r \in Payload(c)
        BY <2>0, <3>1, <3>3, <3>5, <3>6, <3>8, <4>2 DEF StoredBeforeWrite
      <4> QED
        BY <3>4, <4>1, <4>2
    <3>9. \A a \in sent' : StoresFirst(a.of)' => chan'[a.of][a.id] # "none"
      BY <2>0, <3>1, <3>3, <3>6 DEF StoredBeforeWrite
    <3> QED
      BY <3>7, <3>8, <3>9 DEF StoredBeforeWrite
  <2>4. ASSUME NEW r \in requests, NEW n \in Copies, PeerAnswers(r, n)
        PROVE  StoredBeforeWrite'
    <3> DEFINE a == [id |-> r.id, of |-> r.of, copy |-> n]
    <3>1. a.of = r.of /\ a.id = r.id
      OBVIOUS
    <3>2. sent' = sent \cup {a} /\ UNCHANGED <<kind, ids, phase, chan, requests>>
      BY <2>4 DEF PeerAnswers
    <3> HIDE DEF a
    <3> QED
      BY <3>1, <3>2 DEF StoredBeforeWrite, StoresFirst
  <2>5. CASE \/ \E c \in Calls : \/ \E i \in RequestId : TimesOut(c, i)
                                 \/ Abandon(c)
                                 \/ Return(c)
             \/ \E a \in inbox : HandleAnswer(a)
             \/ \E h \in hand : Deliver(h)
             \/ PeerExits
             \/ Reap
             \/ UNCHANGED vars
    <3>1. UNCHANGED <<kind, ids, requests, sent>>
      BY <2>5 DEF TimesOut, Abandon, Leave, Return, HandleAnswer, Deliver,
                  PeerExits, Reap, vars
    <3>2. \A d \in Calls : phase'[d] = "writing" => phase[d] = "writing"
      BY <2>5 DEF TimesOut, Abandon, Leave, Return, HandleAnswer, Deliver,
                  PeerExits, Reap, vars, TypeOK
    <3> QED
      BY <2>0, <3>1, <3>2, ChannelStep DEF StoredBeforeWrite, StoresFirst
  <2> QED
    BY <2>1, <2>2, <2>3, <2>4, <2>5 DEF Next
<1> QED
  BY <1>1, <1>2, TypeInvariant, OwnershipInvariant, PTL DEF Spec

\* NoLostAnswer for every number of calls, requests and answers, on the
\* client: an answer is discarded only if its call needs it no more.  (On the
\* server a batch stores too late, and TLC finds the lost answer.)
THEOREM ClientLosesNoAnswer ==
    ASSUME Side = "client"
    PROVE  Spec => []NoLostAnswer
<1>1. Init => NoLostAnswer
  BY DEF Init, NoLostAnswer
<1>2. /\ TypeOK /\ TypeOK' /\ IdsUnique /\ Owned /\ SenderReachable /\ StoredBeforeWrite
      /\ NoLostAnswer /\ [Next]_vars
      => NoLostAnswer'
  <2> SUFFICES ASSUME TypeOK, TypeOK', IdsUnique, Owned, SenderReachable,
                      StoredBeforeWrite, NoLostAnswer, [Next]_vars,
                      NEW a \in dropped'
               PROVE  \/ chan'[a.of][a.id] \notin {"none", "open"}
                      \/ \E h \in hand' : h.tx = a.of /\ h.id = a.id
    BY DEF NoLostAnswer
  <2> DEFINE Settled == chan[a.of][a.id] \in {"closed", "gone", "answered"}
             Coming(H) == \E h \in H : h.tx = a.of /\ h.id = a.id
  <2>0. a.of \in Calls /\ a.id \in RequestId
    BY DEF TypeOK, Answer
  <2>1. chan[a.of][a.id] \in Channel /\ chan'[a.of][a.id] \in Channel
    BY <2>0 DEF TypeOK
  <2>2. CASE a \in dropped
    <3>1. CASE Settled
      BY <2>0, <3>1, OutcomeStep
    <3>2. CASE ~ Settled
      <4>1. PICK h \in hand : h.tx = a.of /\ h.id = a.id
        BY <2>1, <2>2, <3>2 DEF NoLostAnswer, Channel
      <4>2. CASE h \in hand'
        BY <4>1, <4>2
      <4>3. CASE h \notin hand'
        <5>1. Deliver(h)
          <6>1. ASSUME NEW b \in inbox, HandleAnswer(b) PROVE h \in hand'
            BY <6>1 DEF HandleAnswer, PendingRequestTx
          <6>2. ASSUME NEW g \in hand, Deliver(g) PROVE g = h
            BY <4>3, <6>2 DEF Deliver
          <6>3. ASSUME hand' = hand PROVE FALSE
            BY <4>3, <6>3
          <6>4. \/ \E b \in inbox : HandleAnswer(b)
                \/ \E g \in hand : Deliver(g)
                \/ hand' = hand
            BY DEF Next, vars, Send, Store, TimesOut, Write, WriteFails, Abandon,
                   Leave, Return, PeerAnswers, PeerExits, Reap
          <6> QED
            BY <4>3, <6>1, <6>2, <6>3, <6>4
        <5>2. chan[h.tx][h.id] = "open" => chan'[h.tx][h.id] = "answered"
          BY <2>0, <4>1, <5>1, DeliverStep
        <5>3. h.of = a.of
          <6>1. h.of \in Calls /\ h.id \in ids[h.tx] /\ h.id \in ids[h.of]
            BY DEF TypeOK, Delivery, Owned
          <6> QED
            BY <2>0, <4>1, <6>1 DEF IdsUnique
        <5>4. chan[a.of][a.id] # "none"
          <6>1. \E b \in sent : b.of = a.of /\ b.id = a.id
            BY <4>1, <5>3 DEF Owned
          <6> QED
            BY <6>1 DEF StoredBeforeWrite, StoresFirst
        <5> QED
          BY <2>1, <3>2, <4>1, <5>2, <5>4 DEF Channel
      <4> QED
        BY <4>2, <4>3
    <3> QED
      BY <3>1, <3>2
  <2>3. CASE a \notin dropped
    <3>1. a \in inbox /\ HandleAnswer(a) /\ pending[a.id] = NoCall
      <4>1. (\E b \in inbox : HandleAnswer(b)) \/ dropped' = dropped
        BY DEF Next, vars, Send, Store, TimesOut, Write, WriteFails, Abandon,
               Leave, Return, PeerAnswers, Deliver, PeerExits, Reap
      <4>2. PICK b \in inbox : HandleAnswer(b)
        BY <2>3, <4>1
      <4>3. pending[b.id] = NoCall /\ dropped' = dropped \cup {b}
        BY <2>3, <4>2 DEF HandleAnswer, PendingRequestTx
      <4> QED
        BY <2>3, <4>2, <4>3
    <3>2. chan[a.of][a.id] # "none"
      BY <3>1 DEF Owned, StoredBeforeWrite, StoresFirst
    <3>3. chan[a.of][a.id] = "open" => Coming(hand)
      <4>1. pending[a.id] # a.of
        BY <2>0, <3>1, CallsAssumption
      <4> QED
        BY <2>0, <4>1 DEF SenderReachable
    <3>4. hand' = hand /\ chan' = chan
      BY <3>1 DEF HandleAnswer, PendingRequestTx
    <3> QED
      BY <3>2, <3>3, <3>4
  <2> QED
    BY <2>2, <2>3
<1> QED
  BY <1>1, <1>2, TypeInvariant, OwnershipInvariant, SendersAreReachable,
     StoredBeforeWriteInvariant, PTL DEF Spec

\* After the child was reaped nobody waits on a stored sender: a payload that
\* was written was registered before the child ended.
LEMMA ReapedCleanInvariant ==
    ASSUME Side = "client"
    PROVE  Spec => []ReapedClean
<1>1. Init => ReapedClean
  BY DEF Init, ReapedClean
<1>2. TypeOK /\ TypeOK' /\ IdsUnique /\ Owned /\ ReapedClean /\ [Next]_vars => ReapedClean'
  <2> SUFFICES ASSUME TypeOK, TypeOK', IdsUnique, Owned, ReapedClean, [Next]_vars,
                      peer' = "reaped", NEW c \in Calls, NEW i \in RequestId,
                      phase'[c] = "waiting", pending'[i] = c
               PROVE  chan'[c][i] # "open"
    BY DEF ReapedClean
  <2>1. CASE Reap
    BY <2>1, CallsAssumption DEF Reap, ClearPending
  <2>2. CASE ~ Reap
    <3>1. peer = "reaped"
      BY <2>2 DEF Next, vars, Send, Store, TimesOut, Write, WriteFails, Abandon,
                  Leave, Return, PeerAnswers, HandleAnswer, Deliver, PeerExits
    <3>2. ASSUME NEW d \in Calls, NEW j \in RequestId, Store(d, j)
          PROVE  chan'[c][i] # "open"
      <4>1. d # c /\ phase[c] = "waiting"
        BY <3>2 DEF Store, StoresFirst, TypeOK
      <4>2. i # j /\ pending[i] = c
        <5>1. DOMAIN pending = RequestId /\ pending' = [pending EXCEPT ![j] = d]
          BY <3>2 DEF Store, StorePendingRequest, TypeOK
        <5> QED
          BY <4>1, <5>1
      <4>3. chan'[c][i] = chan[c][i]
        BY <3>2, <4>1, <4>2 DEF Store, StorePendingRequest
      <4> QED
        BY <3>1, <4>1, <4>2, <4>3 DEF ReapedClean
    <3>3. ASSUME NEW d \in Calls, NEW j \in RequestId, TimesOut(d, j)
          PROVE  chan'[c][i] # "open"
      <4>1. chan[c][i] # "open"
        BY <3>1, <3>3 DEF TimesOut, ReapedClean
      <4>2. chan \in [Calls -> [RequestId -> Channel]]
        BY DEF TypeOK
      <4>3. chan' = [chan EXCEPT ![d][j] = "gone"]
        BY <3>3 DEF TimesOut
      <4> QED
        BY <4>1, <4>2, <4>3
    <3>4. ASSUME NEW d \in Calls, WriteFails(d) \/ Abandon(d)
          PROVE  chan'[c][i] # "open"
      <4>1. Leave(d)
        BY <3>4 DEF WriteFails, Abandon
      <4>2. phase[c] = "waiting" /\ pending[i] = c
        BY <4>1, LeaveStep
      <4> QED
        BY <3>1, <4>1, <4>2, LeaveStep DEF ReapedClean
    <3>5. ASSUME NEW a \in inbox, HandleAnswer(a)
          PROVE  chan'[c][i] # "open"
      <4>1. a.id \in RequestId /\ UNCHANGED <<chan, phase>>
        BY <3>5 DEF HandleAnswer, TypeOK, Answer
      <4>2. pending[i] = c
        BY <3>5, <4>1, CallsAssumption DEF HandleAnswer, PendingRequestTx, TypeOK
      <4> QED
        BY <3>1, <4>1, <4>2 DEF ReapedClean
    <3>6. ASSUME NEW h \in hand, Deliver(h)
          PROVE  chan'[c][i] # "open"
      <4>1. chan[c][i] # "open"
        BY <3>1, <3>6 DEF Deliver, ReapedClean
      <4> QED
        BY <3>6, <4>1, DeliverStep
    <3>7. CASE \/ \E d \in Calls :
                    \/ \E k \in {"single", "batch"}, n \in 0 .. BatchSize : Send(d, k, n)
                    \/ Write(d)
                    \/ Return(d)
               \/ \E r \in requests, n \in Copies : PeerAnswers(r, n)
               \/ PeerExits
               \/ UNCHANGED vars
      <4>1. UNCHANGED <<chan, pending>>
        BY <3>7 DEF Send, Write, Return, PeerAnswers, PeerExits, vars
      <4>2. phase[c] = "waiting"
        <5>1. DOMAIN phase = Calls
          BY DEF TypeOK
        <5>2. ASSUME NEW d \in Calls, NEW k \in {"single", "batch"},
                     NEW n \in 0 .. BatchSize, Send(d, k, n)
              PROVE  phase[c] = "waiting"
          BY <5>1, <5>2 DEF Send
        <5>3. ASSUME NEW d \in Calls, Write(d) \/ Return(d)
              PROVE  phase[c] = "waiting"
          BY <3>1, <5>1, <5>3 DEF Write, Return
        <5> QED
          BY <3>7, <5>2, <5>3 DEF PeerAnswers, PeerExits, vars
      <4> QED
        BY <3>1, <4>1, <4>2 DEF ReapedClean
    <3> QED
      BY <2>2, <3>2, <3>3, <3>4, <3>5, <3>6, <3>7 DEF Next
  <2> QED
    BY <2>1, <2>2
<1> QED
  BY <1>1, <1>2, TypeInvariant, OwnershipInvariant, PTL DEF Spec

\* ExitUnblocks for every number of calls and requests: when the task that
\* StdioTransport::start spawned has cleared pending_requests, a call waits
\* only for a response that is being handed to it.
THEOREM ChildExitUnblocks ==
    ASSUME Side = "client"
    PROVE  Spec => []ExitUnblocks
<1>1. SenderReachable /\ ReapedClean => ExitUnblocks
  BY DEF SenderReachable, ReapedClean, ExitUnblocks
<1> QED
  BY <1>1, SendersAreReachable, ReapedCleanInvariant, PTL

\* MessageDispatcher implements RequestReply for every value of the constants,
\* on the client and on the server: at most one outcome per request, and a
\* response only after the peer answered that very request.
THEOREM DispatcherImplementsRequestReply == Spec => ImplementsRequestReply
<1> DEFINE answered == {<<a.of, a.id>> : a \in sent}
           outcome == [c \in Calls |-> [i \in RequestId |-> OutcomeOf(c, i)]]
<1>1. Init => Abstract!Init
  BY DEF Init, Abstract!Init, OutcomeOf
<1>2. /\ TypeOK /\ TypeOK' /\ IdsUnique /\ Owned /\ [Next]_vars
      => [Abstract!Next]_<<answered, outcome>>
  <2> SUFFICES ASSUME TypeOK, TypeOK', IdsUnique, Owned, [Next]_vars
               PROVE  Abstract!Next \/ UNCHANGED <<answered, outcome>>
    OBVIOUS
  <2>1. ASSUME NEW h \in hand, Deliver(h), chan[h.tx][h.id] = "open"
        PROVE  Abstract!Respond(h.tx, h.id)
    <3>1. h.tx \in Calls /\ h.id \in RequestId /\ h.of \in Calls
      BY DEF TypeOK, Delivery
    <3>2. h.of = h.tx
      BY <3>1 DEF Owned, IdsUnique
    <3>3. <<h.tx, h.id>> \in answered
      BY <3>2 DEF Owned
    <3>4. OutcomeOf(h.tx, h.id) = "none"
      BY <2>1 DEF OutcomeOf
    <3>5. OutcomeOf(h.tx, h.id)' = "response"
      <4>1. chan'[h.tx][h.id] = "answered" /\ reply'[h.tx][h.id] = h.tx
        BY <2>1, <3>1, <3>2, DeliverStep
      <4> QED
        BY <4>1 DEF OutcomeOf
    <3>6. ASSUME NEW c \in Calls, NEW i \in RequestId, c # h.tx \/ i # h.id
          PROVE  OutcomeOf(c, i)' = OutcomeOf(c, i)
      <4>1. chan'[c][i] = chan[c][i] /\ reply'[c][i] = reply[c][i]
        <5>1. ~ (c = h.tx /\ i = h.id /\ chan[c][i] = "open") =>
                 chan'[c][i] = chan[c][i] /\ reply'[c][i] = reply[c][i]
          BY <2>1, DeliverStep
        <5> QED
          BY <3>6, <5>1
      <4> QED
        BY <4>1 DEF OutcomeOf
    <3>7. UNCHANGED answered
      BY <2>1 DEF Deliver
    <3>8. outcome' = [outcome EXCEPT ![h.tx][h.id] = "response"]
      <4> DEFINE after == [outcome EXCEPT ![h.tx][h.id] = "response"]
      <4>1. ASSUME NEW c \in Calls PROVE outcome'[c] = after[c]
        <5>1. CASE c = h.tx
          BY <3>1, <3>5, <3>6, <5>1
        <5>2. CASE c # h.tx
          BY <3>6, <5>2
        <5> QED
          BY <5>1, <5>2
      <4> QED
        BY <4>1
    <3> QED
      BY <3>1, <3>3, <3>4, <3>7, <3>8 DEF Abstract!Respond
  <2>2. ASSUME NEW r \in requests, NEW n \in Copies, PeerAnswers(r, n)
        PROVE  r.of \in Calls /\ r.id \in RequestId /\ Abstract!PeerAnswers(r.of, r.id)
    <3>1. r.of \in Calls /\ r.id \in RequestId
      BY DEF TypeOK, Request
    <3>2. answered' = answered \cup {<<r.of, r.id>>}
      <4> DEFINE a == [id |-> r.id, of |-> r.of, copy |-> n]
      <4>1. a.of = r.of /\ a.id = r.id
        OBVIOUS
      <4>2. sent' = sent \cup {a}
        BY <2>2 DEF PeerAnswers
      <4> HIDE DEF a
      <4> QED
        BY <4>1, <4>2
    <3>3. outcome' = outcome
      BY <2>2 DEF PeerAnswers, OutcomeOf
    <3> QED
      BY <3>1, <3>2, <3>3 DEF Abstract!PeerAnswers
  <2>3. ASSUME \A c \in Calls, i \in RequestId :
                  OutcomeOf(c, i)' # OutcomeOf(c, i) =>
                      OutcomeOf(c, i) = "none" /\ OutcomeOf(c, i)' = "error",
               UNCHANGED sent
        PROVE  Abstract!Fail
    BY <2>3 DEF Abstract!Fail
  <2>4. ASSUME ~ (\E r \in requests, n \in Copies : PeerAnswers(r, n)),
               ~ (\E h \in hand : Deliver(h) /\ chan[h.tx][h.id] = "open"),
               NEW c \in Calls, NEW i \in RequestId,
               OutcomeOf(c, i)' # OutcomeOf(c, i)
        PROVE  OutcomeOf(c, i) = "none" /\ OutcomeOf(c, i)' = "error"
    <3>1. chan[c][i] \in {"none", "open"}
      <4>1. chan[c][i] \in {"closed", "gone", "answered"} =>
              chan'[c][i] = chan[c][i] /\ reply'[c][i] = reply[c][i]
        BY OutcomeStep
      <4> QED
        BY <2>4, <4>1 DEF OutcomeOf, TypeOK, Channel
    <3>2. chan'[c][i] # "answered"
      <4>1. ASSUME NEW d \in Calls, NEW j \in RequestId, Store(d, j) \/ TimesOut(d, j)
            PROVE  chan'[c][i] # "answered"
        <5>1. CASE Store(d, j)
          BY <3>1, <5>1 DEF TypeOK, Store, StorePendingRequest
        <5>2. CASE TimesOut(d, j)
          BY <3>1, <5>2, TimesOutStep
        <5> QED
          BY <4>1, <5>1, <5>2
      <4>2. ASSUME NEW d \in Calls, WriteFails(d) \/ Abandon(d)
            PROVE  chan'[c][i] # "answered"
        BY <3>1, <4>2, LeaveStep DEF WriteFails, Abandon
      <4>3. CASE Reap
        BY <3>1, <4>3 DEF Reap, ClearPending
      <4>4. ASSUME NEW h \in hand, Deliver(h)
            PROVE  chan'[c][i] # "answered"
        BY <2>4, <3>1, <4>4 DEF Deliver, SendResponse
      <4> QED
        BY <3>1, <4>1, <4>2, <4>3, <4>4
           DEF Next, vars, Send, Write, Return, PeerAnswers, HandleAnswer, PeerExits
    <3> QED
      BY <2>4, <3>1, <3>2 DEF OutcomeOf, TypeOK, Channel
  <2>5. ASSUME ~ (\E r \in requests, n \in Copies : PeerAnswers(r, n))
        PROVE  UNCHANGED sent
    BY <2>5 DEF Next, vars, Send, Store, TimesOut, Write, WriteFails, Abandon, Leave,
                Return, HandleAnswer, Deliver, PeerExits, Reap
  <2>6. CASE \E r \in requests, n \in Copies : PeerAnswers(r, n)
    BY <2>2, <2>6 DEF Abstract!Next
  <2>7. CASE \E h \in hand : Deliver(h) /\ chan[h.tx][h.id] = "open"
    BY <2>1, <2>7 DEF Abstract!Next, TypeOK, Delivery
  <2> QED
    BY <2>3, <2>4, <2>5, <2>6, <2>7 DEF Abstract!Next
<1> QED
  BY <1>1, <1>2, TypeInvariant, OwnershipInvariant, PTL
     DEF Spec, ImplementsRequestReply, Abstract!Spec

=============================================================================
