\* One client that waits for each answer cancels a workflow and goes on.
SPECIFICATION Spec
CONSTANTS
    w1 = w1
    w2 = w2
    a1 = a1
    a2 = a2
    b1 = b1
    x1 = x1
    Workflows <- OneWorkflow
    Tasks <- TwoTasks
    WfOf <- TwoWfOf
    Rank <- TwoRank
    Agents = {ann}
    Pool = {thread}
    Loop = loop
    NoTask = NoTask
    NoAgent = NoAgent
    Exclusive = TRUE
    MaxQueue = 1
    MaxJobs = 1
    MaxCrashes = 0
PROPERTIES
    TerminalWorkflow
CHECK_DEADLOCK FALSE
