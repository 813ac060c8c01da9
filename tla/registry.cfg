SPECIFICATION Spec
CONSTANTS
    replica = replica
    item = item
    pinned = pinned
    h = h
    Default = Default
    NoAlias = NoAlias
    Alias = {replica}
    Model = {item, pinned}
    Placement <- Placements
    Routing <- Routings
    r1 = r1
    r2 = r2
    Row = {r1, r2}
    Handle = {h}
    HandleAlias <- Handles
    Reentered = FALSE
    MaxDatabases = 3
    MaxDepth = 3
SYMMETRY Symmetry
CHECK_DEADLOCK FALSE
INVARIANT NoPoolIsLost UsingFollowsTheBlocks NothingCommitsAfterAFailure
PROPERTY WorkUnderUsingIsOne KeepsUnits
