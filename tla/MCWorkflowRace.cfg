\* Two requests at a time: one on the loop, one on a pool thread.
SPECIFICATION Spec
CONSTANTS
    w1 = w1
    w2 = w2
    a1 = a1
    a2 = a2
    b1 = b1
    x1 = x1
    Workflows <- OneWorkflow
    Tasks <- TwoTasks
    WfOf <- TwoWfOf
    Rank <- TwoRank
    Agents = {ann}
    Pool = {thread}
    Loop = loop
    NoTask = NoTask
    NoAgent = NoAgent
    Exclusive = FALSE
    MaxQueue = 1
    MaxJobs = 1
    MaxCrashes = 0
INVARIANTS
    Sequential
CHECK_DEADLOCK FALSE
