\* The protocol of the guide.
SPECIFICATION Spec
CONSTANTS
    ann = ann
    bob = bob
    Phases <- Guide
    Steps <- GuideSteps
    Branch <- GuideBranch
    Default <- NoDefault
    Required = {}
    Structured = {"review", "decision"}
    Direct = {"review"}
    Outcomes = {"retry", "accept"}
    Members <- Two
    MaxAuto = 2
    NoPhase = NoPhase
    NoAgent = NoAgent
    Pool = {thread1}
    Loop = loop
    Exclusive = TRUE
    MaxIndex = 2
    MaxInputs = 3
    MaxMoves = 0
    MaxCrashes = 0
INVARIANTS
    WaitingCanProceed
CHECK_DEADLOCK FALSE
