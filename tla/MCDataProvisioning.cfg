SPECIFICATION Spec
CONSTANTS
    MaxRenderers = 2
    MaxCandidates = 2
    MaxFaults = 1
INVARIANTS
    NeverTooEarly
PROPERTIES
    Recovers
CHECK_DEADLOCK FALSE
