SPECIFICATION StoresSpec
CONSTANTS
    ann = ann
    bob = bob
    user = user
    w1 = w1
    w2 = w2
    cli = cli
    RecordIds = {1}
    Payloads <- MCPayloads
    Places = {"own"}
    Receivers = {"bob"}
    Keys = {"k"}
    CacheSize = 2
    MaxItems = 1
    Notes = {1, 2}
    Outside = {1}
    MaxDocs = 1
    MaxVersion = 2
    MaxEvents = 2
    Processes = {"server", "cli"}
    Threads = {1}
    Documents <- Drafts
    ByHand <- Found
    Bundled <- Shipped
    NoName = "-"
    MaxSaves = 2
    MaxTorn = 1
    People = {ann, bob, user}
    Founders = {ann, user}
    Watcher = user
    Letters <- Mail
    Quotas <- MailQuotas
    MaxMail = 2
    Workers = {w1, w2}
    Command = cli
    Here = "here"
    Global = "there"
    RealPath <- Linked
    Scans <- Finds
    Shelf <- Lie
    Editors = {w1, cli}
    Budgets <- CatalogBudgets
    MaxWritten = 1
    MaxCuts = 1
INVARIANTS
    IntegrityIsTrue
    ReconcileHeals
    SavedReadsBack
    InboxIsUnacked
    ChatShowsInbox
    CatalogueHolds
    SavedIsOver
PROPERTIES
    ImplementsRecordBook
    
    ApprovedIsPublished
CHECK_DEADLOCK FALSE
