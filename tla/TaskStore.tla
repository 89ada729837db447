------------------------------ MODULE TaskStore ------------------------------
(***************************************************************************)
(* InMemoryTaskStore on the side that requested the tasks: create_task     *)
(* tracks a task the peer runs, the loop of start_task_polling asks the    *)
(* peer for its status (poll_task_status of the two runtimes), and         *)
(* wait_for_task_result hands the outcome to a caller.                     *)
(*                                                                         *)
(* One session is modelled: every map is keyed by the session first and no *)
(* operation touches the tasks of two.  Task ids are the values of the id  *)
(* generator, in order, and the peer is taken to know the task by the same *)
(* id.  Time is abstracted: a poll becomes due, and a TTL runs out, at any *)
(* moment after it was set.  The store's own record of a status is read by *)
(* its callers only and is left out, as are the notifications of its       *)
(* changes; of the peer's statuses it matters which are terminal.          *)
(***************************************************************************)
EXTENDS Naturals, Sequences, FiniteSets

CONSTANTS
    TaskCount,  \* bound on create_task: tasks of the session
    Waiters,    \* calls of wait_for_task_result
    NoWaiter,   \* result_tx is None
    PageSize    \* options.page_size

ASSUME TaskStoreAssumption ==
    /\ TaskCount \in Nat \ {0}
    /\ PageSize \in Nat \ {0}
    /\ NoWaiter \notin Waiters

VARIABLES
    created,    \* id_gen: the number of ids generated
    live,       \* tasks: the ids with an entry
    result,     \* whether the entry holds a result
    tx,         \* the waiter whose sender is in the entry's result_tx
    ordered,    \* ordered_task_ids, newest first
    ttl,        \* the cleanup task create_task spawned for an id
    schedule,   \* poll_schedule: entries of the heap for an id
    round,      \* tasks_to_poll: what is left of the vector
    again,      \* to_reschedule
    pc,         \* where the polling loop is
    cur,        \* the task it is polling, 0 for none
    remote,     \* the peer's task
    waiter,     \* what became of a call of wait_for_task_result
    page        \* a caller that walks the pages of list_tasks

loop == <<round, again, pc, cur>>

store == <<live, result, tx, ordered>>

vars == <<created, store, ttl, schedule, loop, remote, waiter, page>>

Ids == 1 .. TaskCount

StoreType ==
    /\ created \in 0 .. TaskCount
    /\ live \subseteq Ids
    /\ result \in [Ids -> BOOLEAN]
    /\ tx \in [Ids -> Waiters \cup {NoWaiter}]
    /\ ordered \in Seq(Ids)
    /\ ttl \in [Ids -> {"none", "armed", "fired"}]

LoopType ==
    /\ schedule \in [Ids -> Nat]
    /\ round \in [Ids -> Nat]
    /\ again \in [Ids -> Nat]
    /\ pc \in {"sleeping", "polling", "asking", "payload", "stored"}
    /\ cur \in Ids \cup {0}
    /\ (cur = 0) <=> (pc \in {"sleeping", "polling"})

CallersType ==
    /\ remote \in [Ids -> {"working", "ended"}]
    /\ waiter \in [Waiters -> {"idle", "waiting", "result", "bare", "failed"}]
    /\ page \in [at : Ids \cup {0}, state : {"idle", "walking", "done"},
                 owed : SUBSET Ids]

TypeOK == StoreType /\ LoopType /\ CallersType

NoTasks == [t \in Ids |-> 0]

Init ==
    /\ created = 0
    /\ live = {}
    /\ result = [t \in Ids |-> FALSE]
    /\ tx = [t \in Ids |-> NoWaiter]
    /\ ordered = <<>>
    /\ ttl = [t \in Ids |-> "none"]
    /\ schedule = NoTasks
    /\ round = NoTasks
    /\ again = NoTasks
    /\ pc = "sleeping"
    /\ cur = 0
    /\ remote = [t \in Ids |-> "working"]
    /\ waiter = [w \in Waiters |-> "idle"]
    /\ page = [at |-> 0, state |-> "idle", owed |-> {}]

-----------------------------------------------------------------------------
(***************************************************************************)
(* The store                                                               *)
(***************************************************************************)

\* The peer accepted a task-augmented request; create_task tracks it, puts it
\* in the heap and, if the task has a TTL, spawns the task that removes it.
CreateTask(expires) ==
    /\ created < TaskCount
    /\ LET t == created + 1
       IN  /\ created' = t
           /\ live' = live \cup {t}
           /\ ordered' = <<t>> \o ordered
           /\ ttl' = [ttl EXCEPT ![t] = IF expires THEN "armed" ELSE "none"]
           /\ schedule' = [schedule EXCEPT ![t] = @ + 1]
    /\ UNCHANGED <<result, tx, loop, remote, waiter, page>>

\* The entry of t leaves the map; its sender is dropped with it unless the
\* caller sends first, and a waiter whose sender is dropped gets an error.
RemoveEntry(t, outcome) ==
    /\ live' = live \ {t}
    /\ result' = [result EXCEPT ![t] = FALSE]
    /\ tx' = [tx EXCEPT ![t] = NoWaiter]
    /\ waiter' = [w \in Waiters |-> IF w = tx[t] /\ waiter[w] = "waiting"
                                    THEN outcome ELSE waiter[w]]

\* Where an id is in the list, 0 if it is not.
Position(t) ==
    IF \E i \in DOMAIN ordered : ordered[i] = t
    THEN CHOOSE i \in DOMAIN ordered : ordered[i] = t
    ELSE 0

\* Vec::remove
Without(p) == [i \in 1 .. Len(ordered) - 1 |-> IF i < p THEN ordered[i] ELSE ordered[i + 1]]

\* The TTL of t runs out, whatever the task's status.
Expire(t) ==
    /\ ttl[t] = "armed"
    /\ ttl' = [ttl EXCEPT ![t] = "fired"]
    /\ RemoveEntry(t, "failed")
    /\ ordered' = IF Position(t) = 0 THEN ordered ELSE Without(Position(t))
    /\ UNCHANGED <<created, schedule, loop, remote, page>>

\* subscribe_to_task: a new sender replaces, and drops, that of an earlier
\* waiter.
SubscribeToTask(w, t) ==
    /\ waiter' = [v \in Waiters |->
                    CASE v = w -> "waiting"
                      [] v = tx[t] /\ waiter[v] = "waiting" -> "failed"
                      [] OTHER -> waiter[v]]
    /\ tx' = [tx EXCEPT ![t] = w]

\* wait_for_task_result up to its await.
WaitForTaskResult(w, t) ==
    /\ waiter[w] = "idle"
    /\ \/ t \in live /\ SubscribeToTask(w, t)
       \/ t \notin live /\ waiter' = [waiter EXCEPT ![w] = "failed"] /\ UNCHANGED tx
    /\ UNCHANGED <<created, live, result, ordered, ttl, schedule, loop, remote, page>>

\* The caller drops the future of wait_for_task_result.
Abandon(w) ==
    /\ waiter[w] = "waiting"
    /\ waiter' = [waiter EXCEPT ![w] = "failed"]
    /\ UNCHANGED <<created, store, ttl, schedule, loop, remote, page>>

\* store_task_result: an entry that is there keeps the result.
StoreTaskResult(t) == result' = [result EXCEPT ![t] = t \in live]

-----------------------------------------------------------------------------
(***************************************************************************)
(* The polling loop: start_task_polling, with poll_task_status of the      *)
(* client's and the server's runtime as its callback                       *)
(***************************************************************************)

\* tasks_to_poll pops what is due.  A round in which nothing is due changes
\* nothing.
TasksToPoll(due) ==
    /\ pc = "sleeping"
    /\ due # {} /\ \A t \in due : schedule[t] > 0
    /\ schedule' = [t \in Ids |-> IF t \in due THEN schedule[t] - 1 ELSE schedule[t]]
    /\ round' = [t \in Ids |-> IF t \in due THEN 1 ELSE 0]
    /\ pc' = "polling"
    /\ UNCHANGED <<created, store, ttl, again, cur, remote, waiter, page>>

\* The callback sends tasks/get for the next task of the round.
RequestGetTask(t) ==
    /\ pc = "polling"
    /\ round[t] > 0
    /\ round' = [round EXCEPT ![t] = @ - 1]
    /\ cur' = t
    /\ pc' = "asking"
    /\ UNCHANGED <<created, store, ttl, schedule, again, remote, waiter, page>>

\* The loop is done with cur and goes on to the next task.
NextTask == pc' = "polling" /\ cur' = 0


\* The peer's answer.  A task that still runs is polled again, also one that
\* has left the store; for one that ended, tasks/result is sent.
GetTaskAnswered ==
    /\ pc = "asking"
    /\ \/ /\ remote[cur] = "working"
          /\ again' = [again EXCEPT ![cur] = @ + 1]
          /\ NextTask
       \/ /\ remote[cur] = "ended"
          /\ pc' = "payload"
          /\ UNCHANGED <<again, cur>>
    /\ UNCHANGED <<created, store, ttl, schedule, round, remote, waiter, page>>

\* The payload arrives and store_task_result keeps it.
PayloadAnswered ==
    /\ pc = "payload"
    /\ StoreTaskResult(cur)
    /\ pc' = "stored"
    /\ UNCHANGED <<created, live, tx, ordered, ttl, schedule, round, again, cur,
                   remote, waiter, page>>

\* Either request fails: the task is polled again if the store still has it.
PollFails ==
    /\ pc \in {"asking", "payload"}
    /\ again' = IF cur \in live THEN [again EXCEPT ![cur] = @ + 1] ELSE again
    /\ NextTask
    /\ UNCHANGED <<created, store, ttl, schedule, round, remote, waiter, page>>

\* The callback returned a terminal status: remove_task, and the status goes
\* to the waiter with the result the entry holds.
Finish ==
    /\ pc = "stored"
    /\ RemoveEntry(cur, IF result[cur] THEN "result" ELSE "bare")
    /\ NextTask
    /\ UNCHANGED <<created, ordered, ttl, schedule, round, again, remote, page>>

\* Faulty variant: to_reschedule is copied and not drained.
Mut_ReSchedule ==
    /\ schedule' = [t \in Ids |-> schedule[t] + again[t]]
    /\ UNCHANGED again

\* re_schedule drains to_reschedule into the heap.
ReSchedule ==
    /\ schedule' = [t \in Ids |-> schedule[t] + again[t]]
    /\ again' = NoTasks

RoundEnds ==
    /\ pc = "polling"
    /\ round = NoTasks
    /\ ReSchedule
    /\ pc' = "sleeping"
    /\ UNCHANGED <<created, store, ttl, round, cur, remote, waiter, page>>

\* The peer's task ends.
RemoteEnds(t) ==
    /\ t <= created
    /\ remote[t] = "working"
    /\ remote' = [remote EXCEPT ![t] = "ended"]
    /\ UNCHANGED <<created, store, ttl, schedule, loop, waiter, page>>

-----------------------------------------------------------------------------
(***************************************************************************)
(* Listing                                                                 *)
(***************************************************************************)

\* Faulty variant: the page starts after its cursor.
Mut_StartIndex(c) == Position(c) + 1

\* Where the page of a cursor starts; 0 is no cursor, and like one that has
\* left the list it means the start.
StartIndex(c) == IF Position(c) = 0 THEN 1 ELSE Position(c)

\* list_tasks of page.at, called until there is no next_cursor.  owed is what
\* was in the store when the walk began and has not been listed.
ListTasks ==
    /\ page.state # "done"
    /\ LET first == StartIndex(page.at)
           rest  == first + PageSize
           ids   == {ordered[i] : i \in {j \in DOMAIN ordered : first <= j /\ j < rest}}
           more  == rest <= Len(ordered)
       IN  page' = [at    |-> IF more THEN ordered[rest] ELSE 0,
                    state |-> IF more THEN "walking" ELSE "done",
                    owed  |-> (IF page.state = "idle" THEN live ELSE page.owed) \ ids]
    /\ UNCHANGED <<created, store, ttl, schedule, loop, remote, waiter>>

-----------------------------------------------------------------------------

Next ==
    \/ \E expires \in BOOLEAN : CreateTask(expires)
    \/ \E t \in Ids :
         \/ Expire(t)
         \/ \E w \in Waiters : WaitForTaskResult(w, t)
         \/ RequestGetTask(t)
         \/ RemoteEnds(t)
    \/ \E w \in Waiters : Abandon(w)
    \/ \E due \in SUBSET Ids : TasksToPoll(due)
    \/ GetTaskAnswered
    \/ PayloadAnswered
    \/ PollFails
    \/ Finish
    \/ RoundEnds
    \/ ListTasks

Spec == Init /\ [][Next]_vars

\* The loop runs on; the heap is ordered by time, so that each entry becomes
\* due and is then popped by the next round.
LoopFairness ==
    /\ \A t \in Ids : SF_vars(\E due \in SUBSET Ids : t \in due /\ TasksToPoll(due))
    /\ WF_vars(\E t \in Ids : RequestGetTask(t))
    /\ WF_vars(Finish)
    /\ WF_vars(RoundEnds)

\* An assumption on the peer: it does not fail every poll of a task.
PeerFairness ==
    \A t \in Ids : /\ SF_vars(cur = t /\ GetTaskAnswered)
                   /\ SF_vars(cur = t /\ PayloadAnswered)

FairSpec == Spec /\ LoopFairness /\ PeerFairness

-----------------------------------------------------------------------------
(***************************************************************************)
(* Properties                                                              *)
(***************************************************************************)

\* How often t is in the hands of the loop or waits for it.
Count(t) == schedule[t] + round[t] + again[t] + (IF cur = t THEN 1 ELSE 0)

\* start_task_polling: a task in the store is in the heap, in the running
\* round or among those to reschedule, once: it is never forgotten and never
\* polled twice over, whatever fails, expires or is created meanwhile.
PolledOnce ==
    \A t \in Ids : Count(t) <= 1 /\ (t \in live => Count(t) = 1)

\* wait_for_task_result never returns a status without the result: the poll
\* that ended the task stored the payload before the entry was removed.
NoBareResult == \A w \in Waiters : waiter[w] # "bare"

\* Whoever waits for a task has its sender in an entry of the store; a waiter
\* that was replaced, or whose task expired, was woken with an error.
WaiterReachable ==
    \A w \in Waiters : waiter[w] = "waiting" => \E t \in live : tx[t] = w

\* list_tasks: walking the pages to the end lists every task that was in the
\* store all along, although tasks are created, expire, or are removed by
\* the polling loop between two pages.
PagesComplete == page.state = "done" => page.owed \cap live = {}


=============================================================================
