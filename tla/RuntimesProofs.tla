--------------------------- MODULE RuntimesProofs ---------------------------
(***************************************************************************)
(* The handshake of Runtimes for every set of configurations and every     *)
(* number of calls: VersionAgreed and InitializedLast.                      *)
(*                                                                         *)
(* Neither is inductive: what start() accepts depends on the welcome that  *)
(* is still in the pipe, and what on_initialized finds on a notification   *)
(* that an arbitrarily late task handles.  Handshake says what every        *)
(* message of the handshake that is still under way stands for.            *)
(***************************************************************************)
EXTENDS Runtimes, TLAPS

\* A version start() may accept from this server.
Offered(v) ==
    /\ v \in Nat \ {0}
    /\ ~conf.serverCore => v <= conf.server

Handshake ==
    /\ conf \in Confs
    /\ details \in {0, conf.client}
    /\ phase \in {"accepted", "ok"} =>
          details = conf.client /\ Offered(agreed) /\ agreed <= conf.client
    /\ \A m \in tasks : m.type = "initialize" => m.v = conf.client
    /\ \A m \in tasks : m.type = "initialized" => phase = "ok"
    /\ initialized => phase = "ok"

\* The pipe to the client: a welcome stands for a client whose details the
\* server has, and for a version it offers.
Welcomes ==
    /\ \E S : toClient \in Seq(S)
    /\ \A i \in 1..Len(toClient) :
          toClient[i].type = "welcome" => details = conf.client /\ Offered(toClient[i].v)

IInv == Handshake /\ Welcomes

\* A longer or shorter pipe is a pipe, and its messages are known.
LEMMA AppendMessage ==
    ASSUME NEW s, NEW m, \E S : s \in Seq(S)
    PROVE  /\ \E S : Append(s, m) \in Seq(S)
           /\ Len(Append(s, m)) = Len(s) + 1 /\ Len(s) \in Nat
           /\ \A i \in 1..Len(s) : Append(s, m)[i] = s[i]
           /\ Append(s, m)[Len(s) + 1] = m
<1>1. PICK S : s \in Seq(S)
  OBVIOUS
<1>2. s \in Seq(S \cup {m}) /\ m \in S \cup {m}
  BY <1>1
<1>3. Append(s, m) \in Seq(S \cup {m})
  BY <1>2
<1> QED
  BY <1>2, <1>3

LEMMA TailMessages ==
    ASSUME NEW s, \E S : s \in Seq(S), s # <<>>
    PROVE  /\ \E S : Tail(s) \in Seq(S)
           /\ Len(Tail(s)) = Len(s) - 1 /\ Len(s) \in Nat \ {0}
           /\ \A i \in 1..Len(Tail(s)) : Tail(s)[i] = s[i + 1]
           /\ Head(s) = s[1]
<1>1. PICK S : s \in Seq(S)
  OBVIOUS
<1>2. Tail(s) \in Seq(S)
  BY <1>1
<1> QED
  BY <1>1, <1>2

\* The initial states: nothing is under way.
LEMMA InitIInv == Init => IInv
<1> SUFFICES ASSUME Init PROVE IInv
  OBVIOUS
<1>1. toClient = <<>> /\ Len(toClient) = 0 /\ toClient \in Seq({})
  BY DEF Init
<1>2. Welcomes
  BY <1>1 DEF Welcomes
<1>3. Handshake
  BY DEF Init, ClientInit, ServerInit, Handshake
<1> QED
  BY <1>2, <1>3 DEF IInv

\* What leaves the handshake's state alone, and only takes messages from the
\* pipe to the client or adds one that is no welcome, preserves IInv.
LEMMA Elsewhere ==
    ASSUME IInv, UNCHANGED <<conf, details, phase, agreed>>,
           initialized' => initialized \/ \E m \in tasks : m.type = "initialized",
           \A m \in tasks' : m \in tasks \/ m.type \notin {"initialize", "initialized"},
           \/ toClient' = toClient
           \/ \E m : m.type # "welcome" /\ toClient' = Append(toClient, m)
           \/ toClient # <<>> /\ toClient' = Tail(toClient)
    PROVE  IInv'
<1>1. Handshake'
  BY DEF IInv, Handshake, Offered
<1>2. Welcomes'
  <2>1. CASE toClient' = toClient
    BY <2>1 DEF IInv, Welcomes, Offered
  <2>2. CASE \E m : m.type # "welcome" /\ toClient' = Append(toClient, m)
    <3>1. PICK m : m.type # "welcome" /\ toClient' = Append(toClient, m)
      BY <2>2
    <3>2. \E S : toClient \in Seq(S)
      BY DEF IInv, Welcomes
    <3>3. /\ \E S : toClient' \in Seq(S)
          /\ Len(toClient') = Len(toClient) + 1 /\ Len(toClient) \in Nat
          /\ \A i \in 1..Len(toClient) : toClient'[i] = toClient[i]
          /\ toClient'[Len(toClient) + 1] = m
      <4> DEFINE longer == Append(toClient, m)
      <4>1. /\ \E S : longer \in Seq(S)
            /\ Len(longer) = Len(toClient) + 1 /\ Len(toClient) \in Nat
            /\ \A i \in 1..Len(toClient) : longer[i] = toClient[i]
            /\ longer[Len(toClient) + 1] = m
        BY <3>2, AppendMessage
      <4>2. toClient' = longer
        BY <3>1
      <4> HIDE DEF longer
      <4> QED
        BY <4>1, <4>2
    <3>4. ASSUME NEW i \in 1..Len(toClient')
          PROVE  (toClient[i].type = "welcome" => details = conf.client /\ Offered(toClient[i].v))'
      <4>1. CASE i \in 1..Len(toClient)
        BY <3>3, <4>1 DEF IInv, Welcomes, Offered
      <4>2. CASE i = Len(toClient) + 1
        BY <3>1, <3>3, <4>2
      <4> QED
        BY <3>3, <4>1, <4>2
    <3> QED
      BY <3>3, <3>4 DEF Welcomes
  <2>3. CASE toClient # <<>> /\ toClient' = Tail(toClient)
    <3>2. \E S : toClient \in Seq(S)
      BY DEF IInv, Welcomes
    <3>3. /\ \E S : toClient' \in Seq(S)
          /\ Len(toClient') = Len(toClient) - 1 /\ Len(toClient) \in Nat \ {0}
          /\ \A i \in 1..Len(toClient') : toClient'[i] = toClient[i + 1]
      BY <2>3, <3>2, TailMessages
    <3>4. ASSUME NEW i \in 1..Len(toClient')
          PROVE  (toClient[i].type = "welcome" => details = conf.client /\ Offered(toClient[i].v))'
      <4>1. i + 1 \in 1..Len(toClient) /\ toClient'[i] = toClient[i + 1]
        BY <3>3
      <4> QED
        BY <4>1 DEF IInv, Welcomes, Offered
    <3> QED
      BY <3>3, <3>4 DEF Welcomes
  <2> QED
    BY <2>1, <2>2, <2>3
<1> QED
  BY <1>1, <1>2 DEF IInv

\* The steps of start() that touch neither pipe's handshake messages but the
\* ones they write.
LEMMA StartSteps ==
    ASSUME IInv, Start \/ SendInitialize \/ InitializeTimesOut \/ SendInitialized
    PROVE  IInv'
<1>1. UNCHANGED <<conf, details, initialized, agreed, toClient>>
  BY DEF Start, SendInitialize, InitializeTimesOut, SendInitialized, serverVars
<1>2. Welcomes'
  BY <1>1 DEF IInv, Welcomes, Offered
<1>3. Handshake'
  <2>1. CASE Start
    BY <1>1, <2>1 DEF IInv, Handshake, Start, Offered
  <2>2. CASE SendInitialize
    BY <1>1, <2>2 DEF IInv, Handshake, SendInitialize, Write, Offered
  <2>3. CASE InitializeTimesOut
    BY <1>1, <2>3 DEF IInv, Handshake, InitializeTimesOut, Offered
  <2>4. CASE SendInitialized
    BY <1>1, <2>4 DEF IInv, Handshake, SendInitialized, Write, Offered
  <2> QED
    BY <2>1, <2>2, <2>3, <2>4
<1> QED
  BY <1>2, <1>3 DEF IInv

\* The main task hands the answer to initialize to start().
LEMMA MainStep ==
    ASSUME IInv, MainReceives
    PROVE  IInv'
<1> DEFINE m == Head(toClient)
<1>1. toClient # <<>> /\ toClient' = Tail(toClient) /\ UNCHANGED <<conf, tasks, details, initialized>>
  BY DEF MainReceives, serverVars
<1>2. CASE UNCHANGED <<phase, agreed>>
  BY <1>1, <1>2, Elsewhere
<1>3. CASE m.type \in {"welcome", "refused"} /\ InitializeAnswered(m) /\ phase = "asking"
  <2>1. \E S : toClient \in Seq(S)
    BY DEF IInv, Welcomes
  <2>2. /\ \E S : toClient' \in Seq(S)
        /\ Len(toClient') = Len(toClient) - 1 /\ Len(toClient) \in Nat \ {0}
        /\ \A i \in 1..Len(toClient') : toClient'[i] = toClient[i + 1]
        /\ m = toClient[1]
    BY <1>1, <2>1, TailMessages
  <2>3. Welcomes'
    <3>1. ASSUME NEW i \in 1..Len(toClient')
          PROVE  (toClient[i].type = "welcome" => details = conf.client /\ Offered(toClient[i].v))'
      <4>1. i + 1 \in 1..Len(toClient) /\ toClient'[i] = toClient[i + 1]
        BY <2>2
      <4> QED
        BY <1>1, <4>1 DEF IInv, Welcomes, Offered
    <3> QED
      BY <2>2, <3>1 DEF Welcomes
  <2>4. m.type = "welcome" => details = conf.client /\ Offered(m.v)
    BY <2>2 DEF IInv, Welcomes
  <2>5. Handshake'
    <3> HIDE DEF m
    <3>1. CASE m.type = "welcome" /\ Compatible(conf.client, m.v)
      <4>1. phase' = "accepted" /\ agreed' = m.v
        BY <1>3, <3>1 DEF InitializeAnswered
      <4>2. conf.client \in Nat /\ m.v \in Nat /\ m.v <= conf.client
        BY <2>4, <3>1, ConfsAssumption DEF IInv, Handshake, Offered, Compatible
      <4> QED
        BY <1>1, <1>3, <2>4, <3>1, <4>1, <4>2 DEF IInv, Handshake, Offered
    <3>2. CASE ~(m.type = "welcome" /\ Compatible(conf.client, m.v))
      <4>1. phase' = "failed"
        BY <1>3, <3>2 DEF InitializeAnswered
      <4> QED
        BY <1>1, <1>3, <4>1 DEF IInv, Handshake, Offered
    <3> QED
      BY <3>1, <3>2
  <2> QED
    BY <2>3, <2>5 DEF IInv
<1> QED
  BY <1>2, <1>3 DEF MainReceives, InitializeAnswered

\* The server answers initialize: the details are the client's, and the
\* version is the client's or the server's.
LEMMA Welcomed ==
    ASSUME IInv, NEW v, details' = conf.client, Offered(v),
           UNCHANGED <<conf, phase, agreed, initialized>>, tasks' \subseteq tasks,
           toClient' = Append(toClient, [type |-> "welcome", v |-> v])
    PROVE  IInv'
<1>1. Handshake'
  BY DEF IInv, Handshake, Offered
<1>2. \E S : toClient \in Seq(S)
  BY DEF IInv, Welcomes
<1> DEFINE longer == Append(toClient, [type |-> "welcome", v |-> v])
<1>3. /\ \E S : longer \in Seq(S)
      /\ Len(longer) = Len(toClient) + 1 /\ Len(toClient) \in Nat
      /\ \A i \in 1..Len(toClient) : longer[i] = toClient[i]
      /\ longer[Len(toClient) + 1] = [type |-> "welcome", v |-> v]
  BY <1>2, AppendMessage
<1>4. toClient' = longer
  OBVIOUS
<1> HIDE DEF longer
<1>5. ASSUME NEW i \in 1..Len(toClient')
      PROVE  (toClient[i].type = "welcome" => details = conf.client /\ Offered(toClient[i].v))'
  <2>1. CASE i \in 1..Len(toClient)
    BY <1>3, <1>4, <2>1 DEF IInv, Welcomes, Offered
  <2>2. CASE i = Len(toClient) + 1
    <3>1. toClient'[i].v = v
      BY <1>3, <1>4, <2>2
    <3> QED
      BY <3>1 DEF Offered
  <2> QED
    BY <1>3, <1>4, <2>1, <2>2
<1> QED
  BY <1>1, <1>3, <1>4, <1>5 DEF IInv, Welcomes

\* One of the server's tasks handles its message.
LEMMA HandleStep ==
    ASSUME IInv, NEW m \in tasks, Handle(m)
    PROVE  IInv'
<1>1. UNCHANGED <<conf, phase, agreed>> /\ tasks' \subseteq tasks
  BY DEF Handle, clientVars
<1>2. conf.client \in Nat \ {0} /\ conf.server \in Nat \ {0} /\ conf.serverCore \in BOOLEAN
  BY ConfsAssumption DEF IInv, Handshake
<1>3. CASE HandleInitialize(m)
  <2>1. m.v = conf.client /\ UNCHANGED initialized
    BY <1>3 DEF IInv, Handshake, HandleInitialize
  <2>2. CASE m.v > conf.server
    BY <1>1, <1>3, <2>1, <2>2, Elsewhere DEF HandleInitialize
  <2>3. CASE ~(m.v > conf.server)
    <3>1. details' = conf.client /\ toClient' = Append(toClient, [type |-> "welcome", v |-> conf.client])
      BY <1>3, <2>1, <2>3 DEF HandleInitialize, Reply
    <3>2. Offered(conf.client)
      BY <1>2, <2>1, <2>3 DEF Offered
    <3> QED
      BY <1>1, <2>1, <3>1, <3>2, Welcomed
  <2> QED
    BY <2>2, <2>3
<1>4. CASE HandleInitializeCore(m)
  <2>1. details' = conf.client /\ UNCHANGED initialized /\ conf.serverCore
    BY <1>4 DEF IInv, Handshake, HandleInitializeCore
  <2>2. CASE Reply([type |-> "welcome", v |-> conf.server])
    <3>1. Offered(conf.server)
      BY <1>2 DEF Offered
    <3> QED
      BY <1>1, <2>1, <2>2, <3>1, Welcomed DEF Reply
  <2>3. CASE Reply([type |-> "refused"])
    <3> DEFINE n == [type |-> "refused"]
        longer == Append(toClient, n)
    <3>1. \E S : toClient \in Seq(S)
      BY DEF IInv, Welcomes
    <3>2. /\ \E S : longer \in Seq(S)
          /\ Len(longer) = Len(toClient) + 1 /\ Len(toClient) \in Nat
          /\ \A i \in 1..Len(toClient) : longer[i] = toClient[i]
          /\ longer[Len(toClient) + 1] = n
      BY <3>1, AppendMessage
    <3>3. toClient' = longer /\ n.type # "welcome"
      BY <2>3 DEF Reply
    <3> HIDE DEF longer, n
    <3>4. ASSUME NEW i \in 1..Len(toClient')
          PROVE  (toClient[i].type = "welcome" => details = conf.client /\ Offered(toClient[i].v))'
      <4>1. CASE i \in 1..Len(toClient)
        BY <1>1, <2>1, <3>2, <3>3, <4>1 DEF IInv, Welcomes, Offered
      <4>2. CASE i = Len(toClient) + 1
        BY <3>2, <3>3, <4>2
      <4> QED
        BY <3>2, <3>3, <4>1, <4>2
    <3>5. Welcomes'
      BY <3>2, <3>3, <3>4 DEF Welcomes
    <3>6. Handshake'
      BY <1>1, <2>1 DEF IInv, Handshake, Offered
    <3> QED
      BY <3>5, <3>6 DEF IInv
  <2> QED
    BY <1>4, <2>2, <2>3 DEF HandleInitializeCore
<1>5. CASE HandleInitialized(m)
  BY <1>1, <1>5, Elsewhere DEF HandleInitialized
<1>6. CASE HandleCall(m)
  <2>1. UNCHANGED <<details, initialized>>
    BY <1>6 DEF HandleCall
  <2>2. toClient' = toClient \/ \E ok : toClient' = Append(toClient, Answer(m.id, ok))
    BY <1>6 DEF HandleCall, ReplyOrDrop, Reply
  <2>3. \A ok : Answer(m.id, ok).type # "welcome"
    BY DEF Answer
  <2> QED
    BY <1>1, <2>1, <2>2, <2>3, Elsewhere
<1>7. CASE HandleReply(m) \/ HandlePolled(m)
  BY <1>1, <1>7, Elsewhere DEF HandleReply, HandlePolled
<1> QED
  BY <1>3, <1>4, <1>5, <1>6, <1>7 DEF Handle

\* Every other action leaves the handshake alone.
LEMMA OtherSteps ==
    ASSUME IInv,
           \/ \E c \in Calls : Call(c) \/ SendCall(c) \/ CallTimesOut(c) \/ HandlerCalls(c)
           \/ \E ok \in BOOLEAN : MainAnswers(ok)
           \/ HandlerResumes \/ ShutDown \/ ShutDownTakes
           \/ \E c \in Calls : AskTimesOut(c) \/ ToolReturns(c) \/ ToolNotifies(c)
           \/ \E c \in Calls, k \in conf.asks : ToolAsks(c, k)
           \/ \E t \in tracked : PollTask(t)
           \/ Waiter
    PROVE  IInv'
<1>1. CASE \E c \in Calls : Call(c) \/ SendCall(c) \/ CallTimesOut(c) \/ HandlerCalls(c)
  <2>1. PICK c \in Calls : Call(c) \/ SendCall(c) \/ CallTimesOut(c) \/ HandlerCalls(c)
    BY <1>1
  <2>2. UNCHANGED <<conf, details, phase, agreed, initialized, toClient>>
    BY <2>1 DEF Call, SendCall, CallTimesOut, HandlerCalls, serverVars
  <2>3. \A n \in tasks' : n \in tasks \/ n.type \notin {"initialize", "initialized"}
    <3>1. tasks' = tasks \/ tasks' = tasks \cup {[type |-> "call", id |-> c]}
      BY <2>1 DEF Call, SendCall, CallTimesOut, HandlerCalls, Write
    <3> QED
      BY <3>1
  <2> QED
    BY <2>2, <2>3, Elsewhere
<1>2. CASE \E ok \in BOOLEAN : MainAnswers(ok)
  <2>1. PICK ok \in BOOLEAN : MainAnswers(ok)
    BY <1>2
  <2>2. \A n \in tasks' : n \in tasks \/ n.type \notin {"initialize", "initialized"}
    BY <2>1 DEF MainAnswers, Write
  <2> QED
    BY <2>1, <2>2, Elsewhere DEF MainAnswers, serverVars
<1>3. CASE HandlerResumes \/ ShutDown \/ ShutDownTakes
  BY <1>3, Elsewhere DEF HandlerResumes, ShutDown, ShutDownTakes, serverVars
<1>4. CASE \E c \in Calls : AskTimesOut(c)
  BY <1>4, Elsewhere DEF AskTimesOut, clientVars
<1>5. CASE \E c \in Calls : ToolReturns(c)
  <2>1. PICK c \in Calls : ToolReturns(c)
    BY <1>5
  <2>2. toClient' = toClient \/ \E ok \in BOOLEAN : toClient' = Append(toClient, Answer(c, ok))
    BY <2>1 DEF ToolReturns, ReplyOrDrop, Reply
  <2>3. \A ok \in BOOLEAN : Answer(c, ok).type # "welcome"
    BY DEF Answer
  <2> QED
    BY <2>1, <2>2, <2>3, Elsewhere DEF ToolReturns, clientVars
<1>6. CASE \E c \in Calls, k \in conf.asks : ToolAsks(c, k)
  <2>1. PICK c \in Calls, k \in conf.asks : ToolAsks(c, k)
    BY <1>6
  <2>2. toClient' = Append(toClient, [type |-> "ask", id |-> c, kind |-> k])
    BY <2>1 DEF ToolAsks, Reply
  <2>3. [type |-> "ask", id |-> c, kind |-> k].type # "welcome"
    OBVIOUS
  <2> QED
    BY <2>1, <2>2, <2>3, Elsewhere DEF ToolAsks, clientVars
<1>9. CASE \E c \in Calls : ToolNotifies(c)
  <2>1. PICK c \in Calls : ToolNotifies(c)
    BY <1>9
  <2>2. toClient' = Append(toClient, [type |-> "note", id |-> c])
    BY <2>1 DEF ToolNotifies, Reply
  <2>3. [type |-> "note", id |-> c].type # "welcome"
    OBVIOUS
  <2> QED
    BY <2>1, <2>2, <2>3, Elsewhere DEF ToolNotifies, clientVars
<1>7. CASE \E t \in tracked : PollTask(t)
  <2>1. PICK t \in tracked : PollTask(t)
    BY <1>7
  <2>2. toClient' = Append(toClient, [type |-> "poll", kind |-> "getTask", task |-> t])
    BY <2>1 DEF PollTask, Reply
  <2>3. [type |-> "poll", kind |-> "getTask", task |-> t].type # "welcome"
    OBVIOUS
  <2> QED
    BY <2>1, <2>2, <2>3, Elsewhere DEF PollTask, clientVars, serverVars
<1>8. CASE Waiter
  BY <1>8, Elsewhere DEF Waiter, WaiterChecks, WaiterClones, WaiterWakes, clientVars
<1> QED
  BY <1>1, <1>2, <1>3, <1>4, <1>5, <1>6, <1>7, <1>8, <1>9

\* The induction step, one case for each part of the two runtimes.
LEMMA NextIInv == IInv /\ [Next]_vars => IInv'
<1> SUFFICES ASSUME IInv, [Next]_vars PROVE IInv'
  OBVIOUS
<1>1. CASE UNCHANGED vars
  BY <1>1, Elsewhere DEF vars
<1>2. CASE Start \/ SendInitialize \/ InitializeTimesOut \/ SendInitialized
  BY <1>2, StartSteps
<1>3. CASE MainReceives
  BY <1>3, MainStep
<1>4. CASE \E m \in tasks : Handle(m)
  BY <1>4, HandleStep
<1> QED
  BY <1>1, <1>2, <1>3, <1>4, OtherSteps DEF Next

\* The handshake's invariant holds throughout.
THEOREM HandshakeHolds == Spec => []IInv
BY InitIInv, NextIInv, PTL DEF Spec

\* initialize_request, handle_initialize_request and the two version checks:
\* a start() that has succeeded has agreed on a version both sides can speak,
\* whatever the configurations and however the messages interleave.
THEOREM VersionAgreedHolds == Spec => []VersionAgreed
<1>1. IInv => VersionAgreed
  BY DEF IInv, Handshake, VersionAgreed, Offered
<1> QED
  BY <1>1, HandshakeHolds, PTL

\* The server's tasks run in any order, and still on_initialized runs only
\* when both sides have the other's details.
THEOREM InitializedLastHolds == Spec => []InitializedLast
<1>1. IInv => InitializedLast
  BY ConfsAssumption DEF IInv, Handshake, InitializedLast, Offered
<1> QED
  BY <1>1, HandshakeHolds, PTL
=============================================================================
