\* A pool thread and the loop side by side; everything may be killed once.
SPECIFICATION Spec
CONSTANTS
    ann = ann
    bob = bob
    Phases <- ReviewLoop
    Steps <- ReviewLoopSteps
    Branch <- ReviewLoopBranch
    Default <- NoDefault
    Required = {"plan", "build", "review", "decision"}
    Structured = {"plan", "build", "review", "decision"}
    Direct = {"plan", "build", "review"}
    Outcomes = {}
    Members <- One
    MaxAuto = 2
    NoPhase = NoPhase
    NoAgent = NoAgent
    Pool = {thread1}
    Loop = loop
    Exclusive = FALSE
    MaxIndex = 1
    MaxInputs = 3
    MaxMoves = 0
    MaxCrashes = 1
INVARIANTS
    
    RunningWasDispatched
CHECK_DEADLOCK FALSE
