---------------------------- MODULE MCTaskStore ----------------------------
(***************************************************************************)
(* TaskStore and TaskNotices for TLC: the store of a side that asks for    *)
(* tasks, or of one that runs them.                                        *)
(***************************************************************************)
EXTENDS TaskStore, TaskNotices

VARIABLE part    \* the one that runs

suiteVars == <<part, vars, noticeVars>>

SuiteInit ==
    /\ part \in {"requestor", "receiver"}
    /\ Init /\ NoticesInit
    /\ part = "requestor" => ~http

SuiteNext ==
    \/ part = "requestor" /\ Next /\ UNCHANGED <<part, noticeVars>>
    \/ part = "receiver" /\ NoticesNext /\ UNCHANGED <<part, vars>>

SuiteSpec ==
    /\ SuiteInit /\ [][SuiteNext]_suiteVars
    /\ LoopFairness /\ PeerFairness

=============================================================================
