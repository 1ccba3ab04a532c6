SPECIFICATION Spec
CONSTANTS
    Clients = {p1, p2, p3}
    Maps = {dungeon}
    Known = {dungeon}
    MatchSize = 2
    Workers = 2
    None = None
    MaxMatches = 2
    MaxPackets = 2
CHECK_DEADLOCK FALSE
SYMMETRY ClientSymmetry
INVARIANT ConfirmingMeansFull
