CONSTANTS
    TaskCount = 2
    Waiters = {w1, w2}
    NoWaiter = NoWaiter
    PageSize = 1
    Tasks = {t1, t2}
    Statuses = {"working", "completed"}
    Backlog = 1
    MaxNotices = 3
SPECIFICATION SuiteSpec
INVARIANTS PolledOnce PagesComplete ResultTold
 
CHECK_DEADLOCK FALSE
