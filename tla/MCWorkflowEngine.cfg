\* One client that waits for each answer; two workflows share an agent's queue.
SPECIFICATION Spec
CONSTANTS
    w1 = w1
    w2 = w2
    a1 = a1
    a2 = a2
    b1 = b1
    x1 = x1
    Workflows <- MCWorkflows
    Tasks <- MCTasks
    WfOf <- MCWfOf
    Rank <- MCRank
    Agents = {ann}
    Pool = {thread}
    Loop = loop
    NoTask = NoTask
    NoAgent = NoAgent
    Exclusive = TRUE
    MaxQueue = 2
    MaxJobs = 1
    MaxCrashes = 0
INVARIANTS
    TypeOK
    Sequential
PROPERTIES
    CompletesWhenDone
    QueueLosesOnlyStarted
    ImplementsSequentialWork
CHECK_DEADLOCK FALSE
