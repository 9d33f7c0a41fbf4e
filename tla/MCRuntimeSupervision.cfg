SPECIFICATION Spec
CONSTANT
    NumRuntimes = 2
INVARIANTS
    BootstrapFailureEnds
    NoOrphanRuntime
    GracefulRuntimeIsSpared
PROPERTIES
    NoRequestAfterExit
CHECK_DEADLOCK FALSE
