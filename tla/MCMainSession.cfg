SPECIFICATION SpecMain
CONSTANTS
    Subsystems = {"game", "menu"}
    Initial = "game"
    MaxFrames = 3
INVARIANTS
    NoAuthorityDivergence
    SettledAtRest
    NoOrphanContext
PROPERTIES
    FrozenAfterStop
    ImplementsCallStack
    ReturnSettles
    SupervisionSettles
CHECK_DEADLOCK FALSE
