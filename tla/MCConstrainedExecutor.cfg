CONSTANTS
    t1 = t1  t2 = t2  t3 = t3
    c1 = c1  c2 = c2
    w1 = w1  w2 = w2  w3 = w3
    NoTask = NoTask
    Tasks <- MCTasks
    Callers <- MCCallers
    Threads <- MCThreads
    MaxConcurrency = 2
    QueueSize = 2
    Serial = FALSE
SPECIFICATION Spec
INVARIANTS
    TypeOK
    WorkerAccounting
    ConcurrencyBound
    NoStrandedTask
PROPERTIES
    AcceptedTasksRun
    ImplementsPool
\* The system is done once every task was submitted and run.
CHECK_DEADLOCK FALSE
