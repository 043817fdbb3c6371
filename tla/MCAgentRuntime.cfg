\* Two agents in a thread, ann's provider has a live transport; one pool thread beside loop and command.
CONSTANTS
    ann = ann
    bob = bob
    t1 = t1
    cli = cli
    loop = loop
    Agents = {ann, bob}
    Live = {ann}
    Recipients = {{ann}}
    AutoFallback = TRUE
    Slots <- MCSlots
    MaxMail = 2
    MaxEvents = 1
    MaxChain = 1
    MaxAttempts = 1
    Names = {"ann", "_conductor"}
    Conductor = "_conductor"
    Threads = {t1}
    Cli = cli
    Loop = loop
    Models = {"m"}
    Configured = {"m"}
    Skills = {"build", "review"}
    Stages <- BuildAndReview
    Settled <- Known
    Allowed <- Allowances
    MaxTerminals = 3
    MaxStops = 1

SPECIFICATION AgentsSpec

INVARIANTS
    OneTurn
    ClosedIsEmpty
    DispatchIsSound

PROPERTIES
    
    QueuedIsHeard
    
    QueueKept

CHECK_DEADLOCK FALSE
