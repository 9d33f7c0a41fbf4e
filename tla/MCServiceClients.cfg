SPECIFICATION SpecClients
CONSTANTS
    Keys = {"gold"}
    Commits = {"buy", "sell"}
    Bindings = 2
    MaxRevision = 2
    MaxBindings = 2
    MaxSubscriptions = 2
    MaxPublishes = 1
    MaxEvents = 1
    QueueLimit = 1
    SubscriptionLimit = 1
    PendingLimit = 1
INVARIANTS
    EvidenceSound
    NoLostUpdate
    HonestOutcome
PROPERTIES
    CommitSettles
    Arrives
CHECK_DEADLOCK FALSE
