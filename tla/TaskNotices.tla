---------------------------- MODULE TaskNotices ----------------------------
(***************************************************************************)
(* InMemoryTaskStore on the side that runs the tasks: the status it        *)
(* records for them, the broadcast channel that publishes the              *)
(* changes, and the tasks that forward them to the peer as                 *)
(* notifications/tasks/status (start of the client's runtime, new of the   *)
(* server's, and the servers over HTTP).                                   *)
(*                                                                         *)
(* Both operations hold the store's lock from the lookup to the last       *)
(* assignment, so each is one step.  Every task has a session of its own;  *)
(* a runtime over stdio forwards every notice, a server over HTTP those of *)
(* sessions it has.                                                        *)
(***************************************************************************)
EXTENDS Naturals, Sequences

CONSTANTS
    Tasks,        \* the ids create_task generates
    Statuses,     \* the statuses of a task, "working" among them
    Backlog,      \* options.broadcast_capacity
    MaxNotices    \* bound on the notices published

ASSUME TaskNoticesAssumption ==
    /\ "working" \in Statuses /\ Statuses \cap {"none", "gone"} = {}
    /\ Backlog \in Nat \ {0} /\ MaxNotices \in Nat

VARIABLES
    http,        \* the notices are forwarded by a server over HTTP
    record,      \* the status in the store's entry, "none" before and "gone" after it
    changed,     \* the operation that changed it last
    published,   \* the notices sent on the broadcast channel
    read,        \* how many of them the subscriber has received or skipped
    skipped,     \* the tasks of which it has skipped notices
    sessions,    \* the tasks whose session is in the session store
    unheard,     \* the tasks of which a notice found no session
    told         \* the last status given to notify_task_status, whose failure is ignored

entryVars == <<record, changed>>
channelVars == <<published, read, skipped>>
noticeVars == <<http, entryVars, channelVars, sessions, unheard, told>>

NoticesTypeOK ==
    /\ http \in BOOLEAN
    /\ record \in [Tasks -> Statuses \cup {"none", "gone"}]
    /\ changed \in [Tasks -> {"create", "result", "update"}]
    /\ published \in Seq([task : Tasks, status : Statuses])
    /\ read \in 0 .. Len(published)
    /\ skipped \subseteq Tasks /\ sessions \subseteq Tasks /\ unheard \subseteq Tasks
    /\ told \in [Tasks -> Statuses \cup {"none"}]

NoticesInit ==
    /\ http \in BOOLEAN
    /\ record = [t \in Tasks |-> "none"]
    /\ changed = [t \in Tasks |-> "create"]
    /\ published = <<>> /\ read = 0 /\ skipped = {}
    /\ sessions = Tasks /\ unheard = {}
    /\ told = [t \in Tasks |-> "none"]

-----------------------------------------------------------------------------

\* create_task of a receiver: nothing is published.
ReceiveTask(t) ==
    /\ record[t] = "none"
    /\ record' = [record EXCEPT ![t] = "working"]
    /\ UNCHANGED <<http, changed, channelVars, sessions, unheard, told>>

\* The entry's TTL runs out.
ForgetTask(t) ==
    /\ record[t] \in Statuses
    /\ record' = [record EXCEPT ![t] = "gone"]
    /\ UNCHANGED <<http, changed, channelVars, sessions, unheard, told>>

\* publish_status_change.
Publish(t, status) == published' = Append(published, [task |-> t, status |-> status])

\* notify_status_change, called when the new status differs from the entry's,
\* with what the entry holds at that moment.
NotifyStatusChange(t, status, holds, operation) ==
    IF record[t] = status THEN UNCHANGED <<published, changed>>
    ELSE /\ Len(published) < MaxNotices
         /\ Publish(t, holds)
         /\ changed' = [changed EXCEPT ![t] = operation]

\* Faulty variant: the notice is published before the assignment.
Mut_StoreResult(t, status) ==
    /\ record[t] \in Statuses
    /\ NotifyStatusChange(t, status, record[t], "result")
    /\ record' = [record EXCEPT ![t] = status]
    /\ UNCHANGED <<http, read, skipped, sessions, unheard, told>>

\* store_task_result assigns and then publishes.
StoreResult(t, status) ==
    /\ record[t] \in Statuses
    /\ NotifyStatusChange(t, status, status, "result")
    /\ record' = [record EXCEPT ![t] = status]
    /\ UNCHANGED <<http, read, skipped, sessions, unheard, told>>

\* update_task_status publishes, and then assigns.
UpdateTaskStatus(t, status) ==
    /\ record[t] \in Statuses
    /\ NotifyStatusChange(t, status, record[t], "update")
    /\ record' = [record EXCEPT ![t] = status]
    /\ UNCHANGED <<http, read, skipped, sessions, unheard, told>>

-----------------------------------------------------------------------------

\* The forwarding task finds the session of the notice.
Forwards(t) == ~http \/ t \in sessions

\* The subscriber receives the next notice and forwards it.
Forward ==
    /\ read < Len(published) /\ Len(published) - read <= Backlog
    /\ LET n == published[read + 1]
       IN  /\ told' = IF Forwards(n.task) THEN [told EXCEPT ![n.task] = n.status] ELSE told
           /\ unheard' = IF n.task \in sessions THEN unheard ELSE unheard \cup {n.task}
    /\ read' = read + 1
    /\ UNCHANGED <<http, entryVars, published, skipped, sessions>>

\* The channel has dropped the notices before the last Backlog: recv reports
\* Lagged, and the stream of subscribe goes on with the oldest it has.
Lagged ==
    /\ Len(published) - read > Backlog
    /\ read' = Len(published) - Backlog
    /\ skipped' = skipped \cup {published[i].task : i \in read + 1 .. read'}
    /\ UNCHANGED <<http, entryVars, published, sessions, unheard, told>>

\* The session is deleted.
SessionEnds(t) ==
    /\ http /\ t \in sessions
    /\ sessions' = sessions \ {t}
    /\ UNCHANGED <<http, entryVars, channelVars, unheard, told>>

NoticesNext ==
    \/ \E t \in Tasks : ReceiveTask(t) \/ ForgetTask(t) \/ SessionEnds(t)
    \/ \E t \in Tasks, status \in Statuses : StoreResult(t, status) \/ UpdateTaskStatus(t, status)
    \/ Forward
    \/ Lagged

NoticesSpec == NoticesInit /\ [][NoticesNext]_noticeVars

-----------------------------------------------------------------------------

\* store_task_result: when the subscriber has caught up, the peer knows the
\* status that came with a result, unless the entry had it before, or notices
\* of the task were skipped or found no session.
ResultTold ==
    \A t \in Tasks :
        /\ record[t] \in Statuses /\ changed[t] = "result" /\ read = Len(published)
        /\ t \notin skipped \cup unheard
        => told[t] = record[t]

\* The peer of a session that is gone is told nothing more (the forwarding
\* tasks of the servers over HTTP).
GoneNotTold == [][\A t \in Tasks : http /\ t \notin sessions => told'[t] = told[t]]_noticeVars

=============================================================================
