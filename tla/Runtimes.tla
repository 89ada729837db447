------------------------------ MODULE Runtimes ------------------------------
(***************************************************************************)
(* A ClientRuntime and a ServerRuntime over stdio                          *)
(* (crates/rust-mcp-sdk/src/mcp_runtimes/{client,server}_runtime.rs and    *)
(* the handlers and traits they call): the initialize handshake, requests  *)
(* of both sides, and shut_down of the client.                             *)
(*                                                                         *)
(* The server spawns a task for every message it reads, so messages are    *)
(* handled in any order.  The client handles one message after the other   *)
(* in its main task: a handler that sends a request itself holds up the    *)
(* answers of every other request.  start() and send() of the client hold  *)
(* a read guard of transport_map while they wait, shut_down() asks for the *)
(* write guard, and the lock is fair: a waiting writer holds up every      *)
(* reader that comes after it.                                             *)
(*                                                                         *)
(* Versions are numbers in the order of the protocol's version strings.    *)
(* The outcome of a user's handler is a choice.                            *)
(***************************************************************************)
EXTENDS Naturals, Sequences, FiniteSets

CONSTANTS
    Calls,      \* requests of the client; a call's handler makes at most one request
    Confs       \* the configurations of the two runtimes and the program around them

ASSUME ConfsAssumption ==
    \A k \in Confs : k.client \in Nat \ {0} /\ k.server \in Nat \ {0} /\ k.serverCore \in BOOLEAN

VARIABLES
    conf,        \* versions, handlers, capabilities and stores of the two sides; the
                 \* requests the client and the tools make, the ones the user's handlers
                 \* implement; whether tools notify and whether the program calls
                 \* shut_down, wait_for_initialization, and requests before start() is through
    toClient,    \* stdout of the server
    phase,       \* start() of the client
    agreed,      \* server_details of the client: the version, 0 for none
    details,     \* client_details of the server: the version, 0 for none
    initialized, \* on_initialized has run
    waiter,      \* a caller of wait_for_initialization
    call,        \* the client's requests
    tasks,       \* messages in the server's stdin and in its spawned tasks, not yet handled
    tools,       \* calls whose tool handler runs
    note,        \* the notification the tool handler of a call has sent
    ask,         \* the request the tool handler of a call has made
    main,        \* the client's main task
    shut,        \* shut_down() of the client
    peerTasks,   \* the tasks of the client's task store
    tracked,     \* the tasks of the server's client_task_store
    poll         \* the poll of a tracked task

vars == <<conf, toClient, phase, agreed, details, initialized, waiter, call, tasks,
          tools, note, ask, main, shut, peerTasks, tracked, poll>>

clientVars == <<phase, agreed, call, main, shut>>
serverVars == <<details, initialized, waiter, tools, note, ask>>
taskVars   == <<peerTasks, tracked, poll>>

-----------------------------------------------------------------------------
(* The requests of the two protocols and the capability each one needs.     *)

\* What the server must have declared for a request of the client
\* (can_handle_request of the schema crate).
ServerNeeds ==
    [ping |-> {}, custom |-> {}, complete |-> {"completions"}, setLevel |-> {"logging"},
     listPrompts |-> {"prompts"}, getPrompt |-> {"prompts"},
     listResources |-> {"resources"}, listResourceTemplates |-> {"resources"},
     readResource |-> {"resources"}, subscribe |-> {"resources"}, unsubscribe |-> {"resources"},
     listTools |-> {"tools"}, callTool |-> {"tools"}, callToolTask |-> {"tools"},
     getTask |-> {"tasks"}, getTaskPayload |-> {"tasks"}, cancelTask |-> {"tasks"},
     listTasks |-> {"tasks"}]

\* What the client must have declared for a request of the server.
ClientNeeds ==
    [ping |-> {}, custom |-> {}, createMessage |-> {"sampling"}, listRoots |-> {"roots"},
     elicit |-> {"elicitation"}, elicitTask |-> {"elicitation"},
     getTask |-> {"tasks"}, getTaskPayload |-> {"tasks"}, cancelTask |-> {"tasks"},
     listTasks |-> {"tasks"}]

Ended == {"ok", "failed", "timeout"}
Ask0  == [st |-> "none", kind |-> "ping"]
Idle  == [st |-> "idle"]
Poll0 == [st |-> "none"]

TypeOK ==
    /\ conf \in Confs
    /\ phase \in {"idle", "starting", "asking", "accepted", "ok", "failed"}
    /\ agreed \in Nat /\ details \in Nat
    /\ initialized \in BOOLEAN
    /\ waiter \in {"checks", "clones", "waits", "returned"}
    /\ \A c \in Calls :
          /\ call[c].st \in {"none", "locking", "waiting"} \cup Ended
          /\ call[c].kind \in DOMAIN ServerNeeds
          /\ ask[c].st \in {"none", "waiting", "answered", "failed"}
          /\ ask[c].kind \in DOMAIN ClientNeeds
          /\ note[c] \in {"none", "sent", "seen"}
          /\ ask[c].st = "waiting" => c \in tools
          /\ c \in tools => call[c].st # "none"
    /\ main.st \in {"idle", "handling", "calling", "ended"}
    /\ shut \in {"no", "waiting", "done"}
    /\ tracked \subseteq {"server"} \X Calls
    /\ peerTasks \subseteq {"client"} \X Calls

ClientInit ==
    /\ phase = "idle" /\ agreed = 0 /\ shut = "no"
    /\ main = Idle
    /\ call \in [Calls -> [st : {"none"}, kind : conf.calls, late : {FALSE}]]
    /\ peerTasks = {}

ServerInit ==
    /\ details = 0 /\ initialized = FALSE
    /\ waiter = IF conf.waits THEN "checks" ELSE "returned"
    /\ tools = {}
    /\ ask = [c \in Calls |-> Ask0]
    /\ note = [c \in Calls |-> "none"]
    /\ tracked = {} /\ poll = Poll0

Init ==
    /\ conf \in Confs
    /\ toClient = <<>> /\ tasks = {}
    /\ ClientInit
    /\ ServerInit

Write(m) == tasks' = tasks \cup {m}

Reply(m) == toClient' = Append(toClient, m)

Answer(c, ok) == [type |-> "answer", id |-> c, ok |-> ok]

\* A waiting writer holds up new readers of transport_map.
CanRead == shut # "waiting"

\* Faulty variant: start() keeps its guard for as long as the client runs.
Mut_Guarded == phase \notin {"idle", "failed"} \/ \E c \in Calls : call[c].st = "waiting"

\* The guards that keep the writer waiting: start() holds one from its first
\* line on, every request holds one over its round trip.
Guarded == phase \in {"starting", "asking", "accepted"} \/ \E c \in Calls : call[c].st = "waiting"

-----------------------------------------------------------------------------
(* The client: start(), the handshake and requests.                          *)

\* start_standalone up to the initialize request: the guard, transport.start
\* and the two tasks.
Start ==
    /\ phase = "idle"
    /\ CanRead
    /\ phase' = IF shut = "done" THEN "failed" ELSE "starting"
    /\ UNCHANGED <<conf, tasks, toClient, agreed, call, main, shut, serverVars, taskVars>>

\* Faulty variant: the notification follows at once, without the server's answer.
Mut_SendInitialize ==
    /\ phase = "starting"
    /\ CanRead
    /\ phase' = "asking"
    /\ tasks' = tasks \cup {[type |-> "initialize", v |-> conf.client], [type |-> "initialized"]}
    /\ UNCHANGED <<conf, toClient, agreed, call, main, shut, serverVars, taskVars>>

\* initialize_request sends the request: a second guard of the same lock.
SendInitialize ==
    /\ phase = "starting"
    /\ CanRead
    /\ phase' = "asking"
    /\ Write([type |-> "initialize", v |-> conf.client])
    /\ UNCHANGED <<conf, toClient, agreed, call, main, shut, serverVars, taskVars>>

\* ensure_server_protocole_compatibility: the client is not older.
Compatible(client, server) == client >= server

\* The answer to initialize reaches start(): refused by the server,
\* incompatible, or the server's details are kept.
InitializeAnswered(m) ==
    IF phase # "asking" THEN UNCHANGED <<phase, agreed>>
    ELSE IF m.type = "welcome" /\ Compatible(conf.client, m.v)
         THEN phase' = "accepted" /\ agreed' = m.v
         ELSE phase' = "failed" /\ UNCHANGED agreed

\* The server drops an initialize request it refuses: only the timer of the
\* request ends start().
InitializeTimesOut ==
    /\ phase = "asking"
    /\ phase' = "failed"
    /\ UNCHANGED <<conf, tasks, toClient, agreed, call, main, shut, serverVars, taskVars>>

\* The last step of start(): the Initialized notification.
SendInitialized ==
    /\ phase = "accepted"
    /\ CanRead
    /\ phase' = "ok"
    /\ Write([type |-> "initialized"])
    /\ UNCHANGED <<conf, toClient, agreed, call, main, shut, serverVars, taskVars>>

\* A caller asks for a request: any task of the program that has the client.
Call(c) ==
    /\ call[c].st = "none"
    /\ phase = "ok" \/ (conf.early /\ phase \notin {"idle", "starting"})
    /\ call' = [call EXCEPT ![c].st = "locking", ![c].late = (phase = "ok")]
    /\ UNCHANGED <<conf, tasks, toClient, phase, agreed, main, shut, serverVars, taskVars>>

\* send(): takes the guard and writes the request; fails once the transport is taken.
SendCall(c) ==
    /\ call[c].st = "locking"
    /\ CanRead
    /\ IF shut = "done"
       THEN call' = [call EXCEPT ![c].st = "failed"] /\ UNCHANGED tasks
       ELSE /\ call' = [call EXCEPT ![c].st = "waiting"]
            /\ Write([type |-> "call", id |-> c])
    /\ UNCHANGED <<conf, toClient, phase, agreed, main, shut, serverVars, taskVars>>

CallTimesOut(c) ==
    /\ call[c].st = "waiting"
    /\ call' = [call EXCEPT ![c].st = "timeout"]
    /\ UNCHANGED <<conf, tasks, toClient, phase, agreed, main, shut, serverVars, taskVars>>

\* request() and the typed wrappers: an error, or a result of another type
\* than the wrapper's, is an error of the call.
Outcome(m) == IF m.ok THEN "ok" ELSE "failed"

\* An answer finds the request that waits, or nobody.
CallAnswered(m) ==
    call' = IF call[m.id].st = "waiting" THEN [call EXCEPT ![m.id].st = Outcome(m)] ELSE call

-----------------------------------------------------------------------------
(* The client's main task: one message at a time.                            *)

\* The head of the stream: an answer goes to whoever waits, a notification and
\* a request to the handler.
MainReceives ==
    /\ main.st = "idle" /\ toClient # <<>>
    /\ toClient' = Tail(toClient)
    /\ LET m == Head(toClient)
       IN  \/ /\ m.type \in {"welcome", "refused"}
              /\ InitializeAnswered(m)
              /\ UNCHANGED <<call, main, note>>
           \/ /\ m.type = "answer"
              /\ CallAnswered(m)
              /\ UNCHANGED <<phase, agreed, main, note>>
           \/ /\ m.type = "note"
              /\ note' = [note EXCEPT ![m.id] = "seen"]
              /\ UNCHANGED <<phase, agreed, call, main>>
           \/ /\ m.type \in {"ask", "poll"}
              /\ main' = [st |-> "handling", msg |-> m]
              /\ UNCHANGED <<phase, agreed, call, note>>
    /\ UNCHANGED <<conf, tasks, shut, details, initialized, waiter, tools, ask, taskVars>>

\* handle_request of the client's two handlers: the core one leaves every
\* check to the user's, the other one looks at the capabilities first and at
\* the task store for a task-augmented request.
Accepts(m) ==
    \/ conf.clientCore
    \/ /\ ClientNeeds[m.kind] \subseteq conf.clientCaps
       /\ m.kind = "elicitTask" => conf.clientStore

\* The default handlers answer a ping and implement nothing else; the task of
\* a poll is looked up in the client's store.
ClientOutcomes(m) ==
    IF ~Accepts(m) THEN {FALSE}
    ELSE IF ~conf.clientCore /\ m.kind \notin conf.clientOwn THEN {m.kind = "ping"}
    ELSE IF m.type = "poll" THEN {m.task \in peerTasks}
    ELSE BOOLEAN

\* The handler's result, or its error, is the answer.  A task-augmented
\* request creates a task under an id of the client's own store.
MainAnswers(ok) ==
    /\ main.st = "handling"
    /\ ok \in ClientOutcomes(main.msg)
    /\ main' = Idle
    /\ LET m == main.msg
       IN  IF m.type = "poll"
           THEN Write([type |-> "polled", ok |-> ok]) /\ UNCHANGED peerTasks
           ELSE /\ Write([type |-> "reply", id |-> m.id, ok |-> ok])
                /\ peerTasks' = IF ok /\ m.kind = "elicitTask"
                                THEN peerTasks \cup {<<"client", m.id>>} ELSE peerTasks
    /\ UNCHANGED <<conf, toClient, phase, agreed, call, shut, serverVars, tracked, poll>>

\* The user's handler has the runtime, and may send a request before it returns.
HandlerCalls(c) ==
    /\ main.st = "handling" /\ main.msg.type = "ask" /\ TRUE \in ClientOutcomes(main.msg)
    /\ call[c].st = "none"
    /\ main' = [st |-> "calling", msg |-> main.msg, call |-> c]
    /\ call' = [call EXCEPT ![c].st = "locking", ![c].late = (phase = "ok")]
    /\ UNCHANGED <<conf, tasks, toClient, phase, agreed, shut, serverVars, taskVars>>

HandlerResumes ==
    /\ main.st = "calling" /\ call[main.call].st \in Ended
    /\ main' = [st |-> "handling", msg |-> main.msg]
    /\ UNCHANGED <<conf, tasks, toClient, phase, agreed, call, shut, serverVars, taskVars>>

\* shut_down(): asks for the write guard ...
ShutDown ==
    /\ conf.stops /\ shut = "no"
    /\ shut' = "waiting"
    /\ UNCHANGED <<conf, tasks, toClient, phase, agreed, call, main, serverVars, taskVars>>

\* ... and once it has it takes the transport, shuts it down and aborts the
\* tasks, also a handler in the middle of its work.
ShutDownTakes ==
    /\ shut = "waiting" /\ ~Guarded
    /\ shut' = "done"
    /\ main' = [st |-> "ended"]
    /\ UNCHANGED <<conf, tasks, toClient, phase, agreed, call, serverVars, taskVars>>

-----------------------------------------------------------------------------
(* The server.                                                               *)


\* handle_message: the handler's error is sent as an answer, but before the
\* client's details are known it is only logged.
ReplyOrDrop(c, ok) ==
    IF ok \/ details # 0 THEN Reply(Answer(c, ok)) ELSE UNCHANGED toClient

\* handle_initialize_request answers an older client with its own version
\* and refuses a newer one; the refusal is an error before initialization,
\* and is dropped.
HandleInitialize(m) ==
    /\ m.type = "initialize" /\ ~conf.serverCore
    /\ IF m.v > conf.server
       THEN UNCHANGED <<details, toClient>>
       ELSE details' = m.v /\ Reply([type |-> "welcome", v |-> m.v])
    /\ UNCHANGED <<initialized, tools, ask, tracked, poll>>

\* RuntimeCoreInternalHandler keeps the details of any client; the user's
\* handler then answers with the server's version or with an error.
HandleInitializeCore(m) ==
    /\ m.type = "initialize" /\ conf.serverCore
    /\ details' = m.v
    /\ \/ Reply([type |-> "welcome", v |-> conf.server])
       \/ Reply([type |-> "refused"])
    /\ UNCHANGED <<initialized, tools, ask, tracked, poll>>

\* Both handlers run on_initialized for the notification.
HandleInitialized(m) ==
    /\ m.type = "initialized"
    /\ initialized' = TRUE
    /\ UNCHANGED <<toClient, details, tools, ask, tracked, poll>>

\* handle_request: the checks before a request reaches the user's handler.
Serves(kind) ==
    \/ conf.serverCore
    \/ /\ ServerNeeds[kind] \subseteq conf.serverCaps
       /\ kind = "callToolTask" => "tasks" \in conf.serverCaps /\ conf.serverStore

\* The default handlers answer a ping, and a call of a tool they do not know
\* with a result; the others are errors.
ServerDefaults == {"ping", "callTool", "callToolTask"}

\* The user's handler answers or fails.
ServerOwn(kind) == conf.serverCore \/ kind \in conf.serverOwn
ServerOutcomes(kind) == IF ServerOwn(kind) THEN BOOLEAN ELSE {kind \in ServerDefaults}

\* A request is refused, answered by its handler, or starts a tool.
HandleCall(m) ==
    /\ m.type = "call"
    /\ LET kind == call[m.id].kind
       IN  \/ /\ ~Serves(kind)
              /\ ReplyOrDrop(m.id, FALSE)
              /\ UNCHANGED tools
           \/ /\ Serves(kind) /\ ~(ServerOwn(kind) /\ kind \in {"callTool", "callToolTask"})
              /\ \E ok \in ServerOutcomes(kind) : ReplyOrDrop(m.id, ok)
              /\ UNCHANGED tools
           \/ /\ Serves(kind) /\ ServerOwn(kind) /\ kind \in {"callTool", "callToolTask"}
              /\ tools' = tools \cup {m.id}
              /\ UNCHANGED toClient
    /\ UNCHANGED <<details, initialized, ask, tracked, poll>>

\* The typed requests of the server: an error, or a result of another type, fails.
AskOutcome(m) == IF m.ok THEN "answered" ELSE "failed"

\* request() enters a task the client has created in client_task_store, where
\* create_task generates an id of its own.
TasksToTrack(m) ==
    {t \in {<<"server", m.id>>} : m.ok /\ ask[m.id].kind = "elicitTask" /\ conf.serverTracks}

\* An answer of the client reaches the tool that waits, or nobody.
HandleReply(m) ==
    /\ m.type = "reply"
    /\ IF ask[m.id].st # "waiting" THEN UNCHANGED <<ask, tracked>>
       ELSE /\ ask' = [ask EXCEPT ![m.id].st = AskOutcome(m)]
            /\ tracked' = tracked \cup TasksToTrack(m)
    /\ UNCHANGED <<toClient, details, initialized, tools, poll>>

\* The answer to a poll: a task that has ended is no longer polled.
HandlePolled(m) ==
    /\ m.type = "polled"
    /\ poll' = Poll0
    /\ tracked' = IF m.ok THEN tracked \ {poll.task} ELSE tracked
    /\ UNCHANGED <<toClient, details, initialized, tools, ask>>


\* start(): every message has a task of its own, and the tasks run in any
\* order; what is still in the pipe is a task that has not run.
Handle(m) ==
    /\ m \in tasks
    /\ tasks' = tasks \ {m}
    /\ \/ HandleInitialize(m)
       \/ HandleInitializeCore(m)
       \/ HandleInitialized(m)
       \/ HandleCall(m)
       \/ HandleReply(m)
       \/ HandlePolled(m)
    /\ UNCHANGED <<conf, waiter, note, clientVars, peerTasks>>

\* A tool sends a request to the client and waits for the answer.
ToolAsks(c, kind) ==
    /\ c \in tools /\ ask[c].st = "none"
    /\ ask' = [ask EXCEPT ![c] = [st |-> "waiting", kind |-> kind]]
    /\ Reply([type |-> "ask", id |-> c, kind |-> kind])
    /\ UNCHANGED <<conf, details, initialized, waiter, tasks, tools, note, clientVars, taskVars>>

AskTimesOut(c) ==
    /\ ask[c].st = "waiting"
    /\ ask' = [ask EXCEPT ![c].st = "failed"]
    /\ UNCHANGED <<conf, toClient, details, initialized, waiter, tasks, tools, note,
                   clientVars, taskVars>>

\* The tool ends.  Its error is a result too, except for the core handler.
ToolReturns(c) ==
    /\ c \in tools /\ ask[c].st # "waiting"
    /\ tools' = tools \ {c}
    /\ \E ok \in BOOLEAN : (~ok => conf.serverCore) /\ ReplyOrDrop(c, ok)
    /\ UNCHANGED <<conf, details, initialized, waiter, tasks, note, ask, clientVars, taskVars>>

\* A tool sends a notification: it is written before the tool goes on.
ToolNotifies(c) ==
    /\ conf.notes /\ c \in tools /\ ask[c].st # "waiting" /\ note[c] = "none"
    /\ note' = [note EXCEPT ![c] = "sent"]
    /\ Reply([type |-> "note", id |-> c])
    /\ UNCHANGED <<conf, details, initialized, waiter, tasks, tools, ask, clientVars, taskVars>>

\* poll_task_status asks the client for a task by the id of the server's store.
PollTask(t) ==
    /\ t \in tracked /\ poll.st = "none"
    /\ poll' = [st |-> "waiting", task |-> t]
    /\ Reply([type |-> "poll", kind |-> "getTask", task |-> t])
    /\ UNCHANGED <<conf, tasks, clientVars, serverVars, peerTasks, tracked>>

-----------------------------------------------------------------------------
(* wait_for_initialization: looks at the details, then waits for a change    *)
(* with a clone of the receiver.                                             *)

WaiterChecks ==
    /\ waiter = "checks"
    /\ waiter' = IF details # 0 THEN "returned" ELSE "clones"
    /\ UNCHANGED <<conf, toClient, details, initialized, tasks, tools, note, ask,
                   clientVars, taskVars>>

\* The clone has seen what the runtime's own receiver has seen: nothing, it
\* is only borrowed.
WaiterClones ==
    /\ waiter = "clones"
    /\ waiter' = "waits"
    /\ UNCHANGED <<conf, toClient, details, initialized, tasks, tools, note, ask,
                   clientVars, taskVars>>

\* changed() returns once a value was sent that the clone has not seen.
WaiterWakes ==
    /\ waiter = "waits" /\ details # 0
    /\ waiter' = "checks"
    /\ UNCHANGED <<conf, toClient, details, initialized, tasks, tools, note, ask,
                   clientVars, taskVars>>

-----------------------------------------------------------------------------
Waiter == WaiterChecks \/ WaiterClones \/ WaiterWakes

Next ==
    \/ Start \/ SendInitialize \/ InitializeTimesOut \/ SendInitialized
    \/ \E c \in Calls : Call(c) \/ SendCall(c) \/ CallTimesOut(c) \/ HandlerCalls(c)
    \/ MainReceives
    \/ \E ok \in BOOLEAN : MainAnswers(ok)
    \/ HandlerResumes
    \/ ShutDown \/ ShutDownTakes
    \/ \E m \in tasks : Handle(m)
    \/ \E c \in Calls : AskTimesOut(c) \/ ToolReturns(c) \/ ToolNotifies(c)
    \/ \E c \in Calls, k \in conf.asks : ToolAsks(c, k)
    \/ \E t \in tracked : PollTask(t)
    \/ Waiter

\* A call whose answer may be lost or held up: one made before start() was
\* through, and any call while a handler of the main task waits for one.
NeedsTimer(c) == ~call[c].late \/ main.st = "calling"

\* Tasks run, handlers return.  Timers are relied on only for initialize and
\* for the calls that need one, never for a tool's request.
Fairness ==
    /\ WF_vars(SendInitialize) /\ WF_vars(InitializeTimesOut) /\ WF_vars(SendInitialized)
    /\ \A c \in Calls : /\ WF_vars(SendCall(c))
                        /\ WF_vars(NeedsTimer(c) /\ CallTimesOut(c))
                        /\ WF_vars(ToolReturns(c))
    /\ WF_vars(MainReceives) /\ WF_vars(\E ok \in BOOLEAN : MainAnswers(ok))
    /\ WF_vars(HandlerResumes) /\ WF_vars(ShutDownTakes)
    /\ \A type \in {"initialize", "initialized", "polled"} :
          WF_vars(\E m \in tasks : m.type = type /\ Handle(m))
    /\ \A c \in Calls :
          WF_vars(\E m \in tasks : m.type \in {"call", "reply"} /\ m.id = c /\ Handle(m))
    /\ WF_vars(Waiter)

Spec == Init /\ [][Next]_vars /\ Fairness

-----------------------------------------------------------------------------
(* What the handshake and the two loops promise.                             *)

\* The handshake: when start() has succeeded both sides have the other's
\* details, and the version in use is one the client knows; the server's own
\* handler also never agrees on a version newer than its own.
VersionAgreed ==
    phase = "ok" =>
        /\ details = conf.client
        /\ agreed # 0 /\ agreed <= conf.client
        /\ ~conf.serverCore => agreed <= conf.server

\* on_initialized: although the server handles messages in any order, the
\* user's callback finds the client's details, and the client has accepted
\* the server's.
InitializedLast == initialized => details # 0 /\ agreed # 0

Count(seq, m) == Cardinality({i \in DOMAIN seq : seq[i] = m})
One(b) == IF b THEN 1 ELSE 0



\* shut_down() returns when start() is not running, also when calls are under
\* way and when a handler waits for the lock behind it.
ShutDownReturns ==
    (shut = "waiting" /\ phase \in {"idle", "ok", "failed"}) ~> (shut = "done")

\* request() of the server: "we keep request tasks in client_task_store and
\* poll until task is in terminal status" (mcp_server.rs).  A poll must name a
\* task the client has.
PollNamesTask == poll.st = "waiting" => poll.task \in peerTasks

=============================================================================
