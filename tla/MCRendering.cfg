SPECIFICATION SpecRendering
CONSTANTS
    map = map
    hud = hud
    na = na
    nb = nb
    nc = nc
    nd = nd
    ne = ne
    Body = Body
    Keys = {k1}
    MaxDomains = 2
    MaxOps = 2
    MaxConnections = 2
    MaxGeneration = 2
    MaxRevision = 9
    NodeKeys = {na, nb, nc, nd}
    Root = Root
    End = End
    Baselines <- MCBaselines
    MaxPatchOps = 2
    Subsystems <- MCSubsystems
    NodesOf <- MCNodesOf
    Unregistered = {ne}
SYMMETRY Symmetry
INVARIANTS
    NeverRefused
    EventSeesItsState
    LocationsExact
    ProjectedUnlessThrown
PROPERTIES
    ConvergesHere
CHECK_DEADLOCK FALSE
