SPECIFICATION ClientsSpec
CONSTANTS
    ann = ann
    user = user
    Providers = {"codex", "claude"}
    MaxTurns = 3
    MaxFaults = 1
    Phases <- ShortLoop
    Steps <- ShortSteps
    Branch <- ShortBranch
    Default <- NoDefault
    Required = {"plan"}
    Structured = {"plan", "decision"}
    Direct = {}
    Outcomes = {}
    Members <- Two
    MaxAuto = 1
    NoPhase = NoPhase
    NoAgent = NoAgent
    Movers = {m}
    Others = {h}
    Modes = {"attached", "local"}
    Templated = {"plan", "decision"}
    DecidedByUser = {"decision"}
    User = user
    NoOutcome = NoOutcome
    MaxCycle = 2
    MaxSaid = 2
    MaxSteps = 3
    MaxKills = 1
    ThreadIds = {1, 2, 3}
    NoThread = NoThread
    MaxThreads = 3
    Shells = {a, b}
    Pids = {1, 2}
    NoPid = 0
    Seconds = {1}
    MaxStarted = 2
    MaxCut = 1
INVARIANTS
     
     LetGoMeansComplete 
    CloseIsConfirmed
    StopsOnlyItsOwn 
 
\* A program may be left alone, and the bounds end the others.
CHECK_DEADLOCK FALSE
