\* One request at a time; an operator moves the thread by hand once, and once everything is killed.
SPECIFICATION Spec
CONSTANTS
    ann = ann
    bob = bob
    Phases <- ReviewLoop
    Steps <- ReviewLoopSteps
    Branch <- ReviewLoopBranch
    Default <- NoDefault
    Required = {"plan", "build", "review", "decision"}
    Structured = {"plan", "build", "review", "decision"}
    Direct = {"plan", "build", "review"}
    Outcomes = {}
    Members <- Two
    MaxAuto = 2
    NoPhase = NoPhase
    NoAgent = NoAgent
    Pool = {thread1}
    Loop = loop
    Exclusive = TRUE
    MaxIndex = 2
    MaxInputs = 5
    MaxMoves = 1
    MaxCrashes = 1
INVARIANTS
    
    NoDuplicateDispatch
PROPERTIES
    
    StopSticks
    ClosedFrozen
CHECK_DEADLOCK FALSE
