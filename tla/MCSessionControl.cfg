SPECIFICATION SpecSession
CONSTANTS
    Subsystems = {"game", "menu"}
    Initial = "game"
    MaxFrames = 3
    MaxDocuments = 2
    MaxRevision = 2
    map = map
    move = move
    l1 = l1
    l2 = l2
    Keys = {map}
    Target = map
    Channels = {move}
    Listeners = {l1, l2}
    MaxConnects = 2
    MaxGeneration = 1
    MaxAcquires = 2
    MaxActivations = 2
    MaxEmits = 2
    MaxMoves = 5
SYMMETRY ListenerSymmetry
INVARIANTS
    NoDivergence
    NoStrayContext
    OnlyCurrentSpeaks
PROPERTIES
    OnlyItsOwnLoss
    HandlersHonourLease
CHECK_DEADLOCK FALSE
