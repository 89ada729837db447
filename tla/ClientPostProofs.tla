-------------------------- MODULE ClientPostProofs --------------------------
(***************************************************************************)
(* Proofs about ClientPost, for any set of requests and sessions, single   *)
(* or batch, any capacity of the channels and any number of retries.       *)
(***************************************************************************)
EXTENDS ClientPost, TLAPS

\* A step is one of the operations, with the inputs it takes.
LEMMA NextCases ==
    ASSUME [Next]_vars
    PROVE  \/ TakePayload
           \/ StopTask
           \/ PassOn
           \/ PassOnFails
           \/ Passed
           \/ Reconnect
           \/ PostFails
           \/ \E h \in Headers : PostRefused(h)
           \/ \E h \in Headers : PostAccepted(h)
           \/ \E h \in Headers, m \in Message : PostJson(h, m)
           \/ \E h \in Headers : PostStream(h)
           \/ \E id \in BOOLEAN, data \in Seq(Message) : ReadChunk(id, data)
           \/ StreamEnds
           \/ StreamBreaks
           \/ GetOpens
           \/ GetRetries
           \/ GetFails
           \/ HandleRequest
           \/ HandleOther
           \/ HandleResponses
           \/ \E r \in Requests : TimesOut(r)
           \/ Return
           \/ Abandon
           \/ UNCHANGED vars
<1>1. \A data \in Chunks : data \in Seq(Message)
  BY ClientPostAssumption DEF Chunks
<1>2. <<>> \in Seq(Message)
  OBVIOUS
<1>3. DataArrives => \E id \in BOOLEAN, data \in Seq(Message) : ReadChunk(id, data)
  BY <1>1 DEF DataArrives
<1>4. Priming => \E id \in BOOLEAN, data \in Seq(Message) : ReadChunk(id, data)
  BY <1>2 DEF Priming
<1> QED
  BY <1>3, <1>4 DEF Next, TaskStep, PostAnswered, GetAnswered, Handle, StreamCancelled

\* TypeOK is an invariant; that the queue of messages never exceeds the
\* capacity of the channels and a GET is never retried more than max_retries
\* times are part of it.
THEOREM PostTypeInvariant == Spec => []TypeOK
<1>1. Init => TypeOK
  <2> SUFFICES ASSUME Init PROVE TypeOK
    OBVIOUS
  <2>1. SendType
    BY DEF Init, SendType
  <2>2. RunType
    <3>1. /\ task = "idle" /\ payload = "call" /\ primed = FALSE
          /\ retries = 0 /\ chunk = <<>> /\ inbox = <<>>
      BY DEF Init
    <3>2. 0 \in 0 .. MaxRetries /\ 0 <= Capacity
      BY ClientPostAssumption
    <3>3. chunk \in Seq(Message) /\ inbox \in Seq(Message) /\ Len(inbox) = 0
      BY <3>1
    <3> QED
      BY <3>1, <3>2, <3>3 DEF RunType
  <2>3. HistoryType
    BY DEF Init, HistoryType
  <2> QED
    BY <2>1, <2>2, <2>3 DEF TypeOK
<1>2. TypeOK /\ [Next]_vars => TypeOK'
  <2> SUFFICES ASSUME SendType, RunType, HistoryType, [Next]_vars PROVE TypeOK'
    BY DEF TypeOK
  <2> USE ClientPostAssumption
  <2>1. ASSUME TakePayload PROVE TypeOK'
    <3>1. Head(queue) \in {"call", "answer"} /\ Tail(queue) \in Seq({"call", "answer"})
      BY <2>1 DEF TakePayload, SendType
    <3>2. SendType'
      BY <2>1, <3>1 DEF TakePayload, SendType, send
    <3>3. RunType' /\ HistoryType'
      BY <2>1, <3>1 DEF TakePayload, RunType, HistoryType, history
    <3> QED
      BY <3>2, <3>3 DEF TypeOK
  <2>2. ASSUME StopTask PROVE TypeOK'
    BY <2>2 DEF StopTask, TypeOK, SendType, RunType, HistoryType, send, run, history
  <2>3. ASSUME PassOn PROVE TypeOK'
    BY <2>3 DEF PassOn, TypeOK, SendType, RunType, HistoryType, send, run, history
  <2>4. ASSUME PassOnFails PROVE TypeOK'
    BY <2>4 DEF PassOnFails, Finish, Acknowledge, TypeOK, SendType, RunType, HistoryType, send, run, history
  <2>5. ASSUME Passed PROVE TypeOK'
    BY <2>5 DEF Passed, Finish, Acknowledge, TypeOK, SendType, RunType, HistoryType, send, run, history
  <2>6. ASSUME Reconnect PROVE TypeOK'
    BY <2>6 DEF Reconnect, TypeOK, SendType, RunType, HistoryType, send, run, history
  <2>7. ASSUME PostFails PROVE TypeOK'
    BY <2>7 DEF PostFails, Finish, Acknowledge, TypeOK, SendType, RunType, HistoryType, send, run, history
  <2>8. ASSUME NEW h \in Headers, PostRefused(h) PROVE TypeOK'
    BY <2>8 DEF PostRefused, TakeSession, Finish, Acknowledge, Headers, TypeOK, SendType, RunType, HistoryType, send, run, history
  <2>9. ASSUME NEW h \in Headers, PostAccepted(h) PROVE TypeOK'
    BY <2>9 DEF PostAccepted, TakeSession, Finish, Acknowledge, Headers, TypeOK, SendType, RunType, HistoryType, send, run, history
  <2>10. ASSUME NEW h \in Headers, NEW m \in Message, PostJson(h, m) PROVE TypeOK'
    BY <2>10 DEF PostJson, TakeSession, Headers, TypeOK, SendType, RunType, HistoryType, send, run, history
  <2>11. ASSUME NEW h \in Headers, PostStream(h) PROVE TypeOK'
    BY <2>11 DEF PostStream, TakeSession, Headers, TypeOK, SendType, RunType, HistoryType, send, run, history
  <2>12. ASSUME NEW id \in BOOLEAN, NEW data \in Seq(Message), ReadChunk(id, data) PROVE TypeOK'
    BY <2>12 DEF ReadChunk, TypeOK, SendType, RunType, HistoryType, send, run, history
  <2>13. ASSUME StreamEnds PROVE TypeOK'
    <3>1. CASE primed
      BY <2>13, <3>1 DEF StreamEnds, TypeOK, SendType, RunType, HistoryType, send, run, history
    <3>2. CASE ~primed
      <4>1. Finish(FALSE) /\ UNCHANGED <<inbox, session, history>>
        BY <2>13, <3>2 DEF StreamEnds
      <4> QED
        BY <4>1 DEF Finish, Acknowledge, TypeOK, SendType, RunType, HistoryType, history
    <3> QED
      BY <3>1, <3>2 DEF RunType
  <2>14. ASSUME StreamBreaks PROVE TypeOK'
    BY <2>14 DEF StreamBreaks, Finish, Acknowledge, TypeOK, SendType, RunType, HistoryType, send, run, history
  <2>15. ASSUME GetOpens PROVE TypeOK'
    BY <2>15 DEF GetOpens, TypeOK, SendType, RunType, HistoryType, send, run, history
  <2>16. ASSUME GetRetries PROVE TypeOK'
    BY <2>16 DEF GetRetries, TypeOK, SendType, RunType, HistoryType, send, run, history
  <2>17. ASSUME GetFails PROVE TypeOK'
    BY <2>17 DEF GetFails, Finish, Acknowledge, TypeOK, SendType, RunType, HistoryType, send, run, history
  <2>18. ASSUME HandleRequest PROVE TypeOK'
    BY <2>18 DEF HandleRequest, Receive, TypeOK, SendType, RunType, HistoryType, send, run, history
  <2>19. ASSUME HandleOther PROVE TypeOK'
    BY <2>19 DEF HandleOther, Receive, TypeOK, SendType, RunType, HistoryType, send, run, history
  <2>20. ASSUME HandleResponses PROVE TypeOK'
    BY <2>20 DEF HandleResponses, Receive, TypeOK, SendType, RunType, HistoryType, send, run, history
  <2>21. ASSUME NEW r \in Requests, TimesOut(r) PROVE TypeOK'
    BY <2>21 DEF TimesOut, TypeOK, SendType, RunType, HistoryType, send, run, history
  <2>22. ASSUME Return PROVE TypeOK'
    BY <2>22 DEF Return, Succeeds, TypeOK, SendType, RunType, HistoryType, send, run, history
  <2>23. ASSUME Abandon PROVE TypeOK'
    BY <2>23 DEF Abandon, TypeOK, SendType, RunType, HistoryType, send, run, history
  <2>24. CASE UNCHANGED vars
    BY <2>24 DEF vars, send, run, history, TypeOK, SendType, RunType, HistoryType, send, run, history
  <2> QED
    BY NextCases, <2>1, <2>2, <2>3, <2>4, <2>5, <2>6, <2>7, <2>8, <2>9, <2>10, <2>11, <2>12, <2>13, <2>14, <2>15, <2>16, <2>17, <2>18, <2>19, <2>20, <2>21, <2>22, <2>23, <2>24
<1> QED
  BY <1>1, <1>2, PTL DEF Spec

\* The payload of the call is in the channel until the task takes it, and
\* nothing has happened by then.
Unsent ==
    /\ queue = <<"call">>
    /\ task \in {"idle", "ended"}
    /\ caller \in {"posting", "dropped"}
    /\ payload = "call"
    /\ how = "none"
    /\ inbox = <<>>

\* How far the send half, the receive half and the task can be apart.
PhaseInv ==
    /\ recv # "done" => Open
    /\ task = "ended" => ~Open
    /\ (\E i \in DOMAIN queue : queue[i] = "call") => Unsent
    /\ caller \in {"waiting", "returned"} =>
          /\ how # "none"
          /\ payload = "call" => task \in {"idle", "ended"}
          /\ how \in {"json", "stream"} => passed # <<>>
    /\ payload = "call" /\ task \notin {"idle", "ended", "posting"} => how # "none"
    /\ payload = "call" /\ task = "passing" /\ chunk = <<>> => passed # <<>>

\* No POST but that of the call has been made or is to be made.
Alone == payload = "call" /\ \A i \in DOMAIN queue : queue[i] # "answer"

Answered == \E r \in Requests : outcome[r] = "answered"

SessionInv ==
    /\ recv = "running" \/ Requests = {} \/ Answered => Alone
    /\ Requests = {} \/ Answered => recv = "done"
    /\ payload = "call" /\ how # "none" => session = named
    /\ fresh /\ caller # "returned" => runtime = NoSession
    /\ SessionLearned

\* PhaseInv is inductive.
LEMMA PhaseInvariant == Spec => []PhaseInv
<1>1. Init => PhaseInv
  BY DEF Init, PhaseInv, Unsent, Open
<1>2. TypeOK /\ PhaseInv /\ [Next]_vars => PhaseInv'
  <2> SUFFICES ASSUME SendType, RunType, HistoryType, PhaseInv, [Next]_vars PROVE PhaseInv'
    BY DEF TypeOK
  <2>1. ASSUME TakePayload PROVE PhaseInv'
    BY <2>1 DEF TakePayload, PhaseInv, Unsent, Open, SendType, RunType, HistoryType, send, run, history
  <2>2. ASSUME StopTask PROVE PhaseInv'
    BY <2>2 DEF StopTask, PhaseInv, Unsent, Open, SendType, RunType, HistoryType, send, run, history
  <2>3. ASSUME PassOn PROVE PhaseInv'
    <3>1. Head(chunk) \in Message
      BY <2>3 DEF PassOn, RunType
    <3>2. payload = "call" => passed' # <<>>
      BY <2>3, <3>1 DEF PassOn, HistoryType
    <3>3. payload # "call" => passed' = passed
      BY <2>3 DEF PassOn
    <3> QED
      BY <2>3, <3>2, <3>3 DEF PassOn, PhaseInv, Unsent, Open, send
  <2>4. ASSUME PassOnFails PROVE PhaseInv'
    BY <2>4 DEF PassOnFails, Finish, Acknowledge, PhaseInv, Unsent, Open, SendType, RunType, HistoryType, send, run, history
  <2>5. ASSUME Passed PROVE PhaseInv'
    BY <2>5 DEF Passed, Finish, Acknowledge, PhaseInv, Unsent, Open, SendType, RunType, HistoryType, send, run, history
  <2>6. ASSUME Reconnect PROVE PhaseInv'
    BY <2>6 DEF Reconnect, PhaseInv, Unsent, Open, SendType, RunType, HistoryType, send, run, history
  <2>7. ASSUME PostFails PROVE PhaseInv'
    BY <2>7 DEF PostFails, Finish, Acknowledge, PhaseInv, Unsent, Open, SendType, RunType, HistoryType, send, run, history
  <2>8. ASSUME NEW h \in Headers, PostRefused(h) PROVE PhaseInv'
    BY <2>8 DEF PostRefused, TakeSession, Finish, Acknowledge, Headers, PhaseInv, Unsent, Open, SendType, RunType, HistoryType, send, run, history
  <2>9. ASSUME NEW h \in Headers, PostAccepted(h) PROVE PhaseInv'
    BY <2>9 DEF PostAccepted, TakeSession, Finish, Acknowledge, Headers, PhaseInv, Unsent, Open, SendType, RunType, HistoryType, send, run, history
  <2>10. ASSUME NEW h \in Headers, NEW m \in Message, PostJson(h, m) PROVE PhaseInv'
    BY <2>10 DEF PostJson, TakeSession, Headers, PhaseInv, Unsent, Open, SendType, RunType, HistoryType, send, run, history
  <2>11. ASSUME NEW h \in Headers, PostStream(h) PROVE PhaseInv'
    BY <2>11 DEF PostStream, TakeSession, Headers, PhaseInv, Unsent, Open, SendType, RunType, HistoryType, send, run, history
  <2>12. ASSUME NEW id \in BOOLEAN, NEW data \in Seq(Message), ReadChunk(id, data) PROVE PhaseInv'
    BY <2>12 DEF ReadChunk, PhaseInv, Unsent, Open, SendType, RunType, HistoryType, send, run, history
  <2>13. ASSUME StreamEnds PROVE PhaseInv'
    BY <2>13 DEF StreamEnds, Finish, Acknowledge, PhaseInv, Unsent, Open, SendType, RunType, HistoryType, send, run, history
  <2>14. ASSUME StreamBreaks PROVE PhaseInv'
    BY <2>14 DEF StreamBreaks, Finish, Acknowledge, PhaseInv, Unsent, Open, SendType, RunType, HistoryType, send, run, history
  <2>15. ASSUME GetOpens PROVE PhaseInv'
    BY <2>15 DEF GetOpens, PhaseInv, Unsent, Open, SendType, RunType, HistoryType, send, run, history
  <2>16. ASSUME GetRetries PROVE PhaseInv'
    BY <2>16 DEF GetRetries, PhaseInv, Unsent, Open, SendType, RunType, HistoryType, send, run, history
  <2>17. ASSUME GetFails PROVE PhaseInv'
    BY <2>17 DEF GetFails, Finish, Acknowledge, PhaseInv, Unsent, Open, SendType, RunType, HistoryType, send, run, history
  <2>18. ASSUME HandleRequest PROVE PhaseInv'
    BY <2>18 DEF HandleRequest, Receive, PhaseInv, Unsent, Open, SendType, RunType, HistoryType, send, run, history
  <2>19. ASSUME HandleOther PROVE PhaseInv'
    BY <2>19 DEF HandleOther, Receive, PhaseInv, Unsent, Open, SendType, RunType, HistoryType, send, run, history
  <2>20. ASSUME HandleResponses PROVE PhaseInv'
    BY <2>20 DEF HandleResponses, Receive, PhaseInv, Unsent, Open, SendType, RunType, HistoryType, send, run, history
  <2>21. ASSUME NEW r \in Requests, TimesOut(r) PROVE PhaseInv'
    BY <2>21 DEF TimesOut, PhaseInv, Unsent, Open, SendType, RunType, HistoryType, send, run, history
  <2>22. ASSUME Return PROVE PhaseInv'
    BY <2>22 DEF Return, Succeeds, PhaseInv, Unsent, Open, SendType, RunType, HistoryType, send, run, history
  <2>23. ASSUME Abandon PROVE PhaseInv'
    BY <2>23 DEF Abandon, PhaseInv, Unsent, Open, SendType, RunType, HistoryType, send, run, history
  <2>24. CASE UNCHANGED vars
    BY <2>24 DEF vars, send, run, history, PhaseInv, Unsent, Open, SendType, RunType, HistoryType, send, run, history
  <2> QED
    BY NextCases, <2>1, <2>2, <2>3, <2>4, <2>5, <2>6, <2>7, <2>8, <2>9, <2>10, <2>11, <2>12, <2>13, <2>14, <2>15, <2>16, <2>17, <2>18, <2>19, <2>20, <2>21, <2>22, <2>23, <2>24
<1> QED
  BY <1>1, <1>2, PostTypeInvariant, PTL DEF Spec

\* A call that waits for responses after a body was answered has had a message
\* passed on by run.
THEOREM AckMeansDeliveredInvariant == Spec => []AckMeansDelivered
<1>1. PhaseInv => AckMeansDelivered
  BY DEF PhaseInv, AckMeansDelivered
<1> QED
  BY <1>1, PhaseInvariant, PTL

\* While the receive half runs, its stream does not end: its select cannot
\* panic.
THEOREM StreamOutlivesReceiverInvariant == Spec => []StreamOutlivesReceiver
<1>1. PhaseInv => StreamOutlivesReceiver
  BY DEF PhaseInv, StreamOutlivesReceiver
<1> QED
  BY <1>1, PhaseInvariant, PTL

\* SessionInv is inductive.
LEMMA SessionInvariant == Spec => []SessionInv
<1>1. Init => SessionInv
  <2> SUFFICES ASSUME Init PROVE SessionInv
    OBVIOUS
  <2>1. Alone /\ ~Answered
    BY DEF Init, Alone, Answered
  <2>2. (recv = "running" <=> Requests # {}) /\ (Requests = {} => recv = "done")
    BY DEF Init
  <2>3. how = "none" /\ caller = "posting"
    BY DEF Init
  <2>4. fresh => runtime = NoSession
    BY Zenon DEF Init
  <2> QED
    BY <2>1, <2>2, <2>3, <2>4 DEF SessionInv, SessionLearned
<1>2. TypeOK /\ PhaseInv /\ SessionInv /\ [Next]_vars => SessionInv'
  <2> SUFFICES ASSUME SendType, RunType, HistoryType, PhaseInv, SessionInv, [Next]_vars
               PROVE  SessionInv'
    BY DEF TypeOK
  <2>1. ASSUME TakePayload PROVE SessionInv'
    BY <2>1 DEF TakePayload, SessionInv, SessionLearned, Alone, Answered, PhaseInv, Unsent, Open, SendType, RunType, HistoryType, send, run, history
  <2>2. ASSUME StopTask PROVE SessionInv'
    BY <2>2 DEF StopTask, SessionInv, SessionLearned, Alone, Answered, PhaseInv, Unsent, Open, SendType, RunType, HistoryType, send, run, history
  <2>3. ASSUME PassOn PROVE SessionInv'
    BY <2>3 DEF PassOn, SessionInv, SessionLearned, Alone, Answered, PhaseInv, Unsent, Open, SendType, RunType, HistoryType, send, run, history
  <2>4. ASSUME PassOnFails PROVE SessionInv'
    BY <2>4 DEF PassOnFails, Finish, Acknowledge, SessionInv, SessionLearned, Alone, Answered, PhaseInv, Unsent, Open, SendType, RunType, HistoryType, send, run, history
  <2>5. ASSUME Passed PROVE SessionInv'
    BY <2>5 DEF Passed, Finish, Acknowledge, SessionInv, SessionLearned, Alone, Answered, PhaseInv, Unsent, Open, SendType, RunType, HistoryType, send, run, history
  <2>6. ASSUME Reconnect PROVE SessionInv'
    BY <2>6 DEF Reconnect, SessionInv, SessionLearned, Alone, Answered, PhaseInv, Unsent, Open, SendType, RunType, HistoryType, send, run, history
  <2>7. ASSUME PostFails PROVE SessionInv'
    BY <2>7 DEF PostFails, Finish, Acknowledge, SessionInv, SessionLearned, Alone, Answered, PhaseInv, Unsent, Open, SendType, RunType, HistoryType, send, run, history
  <2>8. ASSUME NEW h \in Headers, PostRefused(h) PROVE SessionInv'
    BY <2>8 DEF PostRefused, TakeSession, Finish, Acknowledge, Headers, SessionInv, SessionLearned, Alone, Answered, PhaseInv, Unsent, Open, SendType, RunType, HistoryType, send, run, history
  <2>9. ASSUME NEW h \in Headers, PostAccepted(h) PROVE SessionInv'
    BY <2>9 DEF PostAccepted, TakeSession, Finish, Acknowledge, Headers, SessionInv, SessionLearned, Alone, Answered, PhaseInv, Unsent, Open, SendType, RunType, HistoryType, send, run, history
  <2>10. ASSUME NEW h \in Headers, NEW m \in Message, PostJson(h, m) PROVE SessionInv'
    BY <2>10 DEF PostJson, TakeSession, Headers, SessionInv, SessionLearned, Alone, Answered, PhaseInv, Unsent, Open, SendType, RunType, HistoryType, send, run, history
  <2>11. ASSUME NEW h \in Headers, PostStream(h) PROVE SessionInv'
    BY <2>11 DEF PostStream, TakeSession, Headers, SessionInv, SessionLearned, Alone, Answered, PhaseInv, Unsent, Open, SendType, RunType, HistoryType, send, run, history
  <2>12. ASSUME NEW id \in BOOLEAN, NEW data \in Seq(Message), ReadChunk(id, data) PROVE SessionInv'
    BY <2>12 DEF ReadChunk, SessionInv, SessionLearned, Alone, Answered, PhaseInv, Unsent, Open, SendType, RunType, HistoryType, send, run, history
  <2>13. ASSUME StreamEnds PROVE SessionInv'
    BY <2>13 DEF StreamEnds, Finish, Acknowledge, SessionInv, SessionLearned, Alone, Answered, PhaseInv, Unsent, Open, SendType, RunType, HistoryType, send, run, history
  <2>14. ASSUME StreamBreaks PROVE SessionInv'
    BY <2>14 DEF StreamBreaks, Finish, Acknowledge, SessionInv, SessionLearned, Alone, Answered, PhaseInv, Unsent, Open, SendType, RunType, HistoryType, send, run, history
  <2>15. ASSUME GetOpens PROVE SessionInv'
    BY <2>15 DEF GetOpens, SessionInv, SessionLearned, Alone, Answered, PhaseInv, Unsent, Open, SendType, RunType, HistoryType, send, run, history
  <2>16. ASSUME GetRetries PROVE SessionInv'
    BY <2>16 DEF GetRetries, SessionInv, SessionLearned, Alone, Answered, PhaseInv, Unsent, Open, SendType, RunType, HistoryType, send, run, history
  <2>17. ASSUME GetFails PROVE SessionInv'
    BY <2>17 DEF GetFails, Finish, Acknowledge, SessionInv, SessionLearned, Alone, Answered, PhaseInv, Unsent, Open, SendType, RunType, HistoryType, send, run, history
  <2>18. ASSUME HandleRequest PROVE SessionInv'
    BY <2>18 DEF HandleRequest, Receive, SessionInv, SessionLearned, Alone, Answered, PhaseInv, Unsent, Open, SendType, RunType, HistoryType, send, run, history
  <2>19. ASSUME HandleOther PROVE SessionInv'
    BY <2>19 DEF HandleOther, Receive, SessionInv, SessionLearned, Alone, Answered, PhaseInv, Unsent, Open, SendType, RunType, HistoryType, send, run, history
  <2>20. ASSUME HandleResponses PROVE SessionInv'
    BY <2>20 DEF HandleResponses, Receive, SessionInv, SessionLearned, Alone, Answered, PhaseInv, Unsent, Open, SendType, RunType, HistoryType, send, run, history
  <2>21. ASSUME NEW r \in Requests, TimesOut(r) PROVE SessionInv'
    BY <2>21 DEF TimesOut, SessionInv, SessionLearned, Alone, Answered, PhaseInv, Unsent, Open, SendType, RunType, HistoryType, send, run, history
  <2>22. ASSUME Return PROVE SessionInv'
    BY <2>22 DEF Return, Succeeds, SessionInv, SessionLearned, Alone, Answered, PhaseInv, Unsent, Open, SendType, RunType, HistoryType, send, run, history
  <2>23. ASSUME Abandon PROVE SessionInv'
    BY <2>23 DEF Abandon, SessionInv, SessionLearned, Alone, Answered, PhaseInv, Unsent, Open, SendType, RunType, HistoryType, send, run, history
  <2>24. CASE UNCHANGED vars
    BY <2>24 DEF vars, send, run, history, SessionInv, SessionLearned, Alone, Answered, PhaseInv, Unsent, Open, SendType, RunType, HistoryType, send, run, history
  <2> QED
    BY NextCases, <2>1, <2>2, <2>3, <2>4, <2>5, <2>6, <2>7, <2>8, <2>9, <2>10, <2>11, <2>12, <2>13, <2>14, <2>15, <2>16, <2>17, <2>18, <2>19, <2>20, <2>21, <2>22, <2>23, <2>24
<1> QED
  BY <1>1, <1>2, PostTypeInvariant, PhaseInvariant, PTL DEF Spec

\* A call made without a session that gets all its responses leaves the
\* runtime with the session id of the answer to its own POST.
THEOREM SessionLearnedInvariant == Spec => []SessionLearned
<1>1. SessionInv => SessionLearned
  BY DEF SessionInv
<1> QED
  BY <1>1, SessionInvariant, PTL

=============================================================================
