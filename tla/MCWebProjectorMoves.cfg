SPECIFICATION SpecProjector
CONSTANTS
    map = map
    hud = hud
    a = a
    b = b
    c = c
    d = d
    e = e
    Body = Body
    Subsystems <- MCSubsystems
    NodesOf <- MCNodesOf
    Unregistered = {e}
SYMMETRY Symmetry
INVARIANTS
    AlwaysProjected
CHECK_DEADLOCK FALSE
