\* A stop of the CLI beside the server.
SPECIFICATION Spec
CONSTANTS
    ann = ann
    bob = bob
    Phases <- ReviewLoop
    Steps <- ReviewLoopSteps
    Branch <- ReviewLoopBranch
    Default <- NoDefault
    Required = {"plan", "build", "review", "decision"}
    Structured = {"plan", "build", "review", "decision"}
    Direct = {"plan", "build", "review"}
    Outcomes = {}
    Members <- Two
    MaxAuto = 2
    NoPhase = NoPhase
    NoAgent = NoAgent
    Pool = {thread1}
    Loop = loop
    Exclusive = FALSE
    MaxIndex = 2
    MaxInputs = 3
    MaxMoves = 0
    MaxCrashes = 0
PROPERTIES
    StopSticks
CHECK_DEADLOCK FALSE
