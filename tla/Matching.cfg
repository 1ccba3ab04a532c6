SPECIFICATION Spec
CONSTANTS
    Clients = {p1, p2, p3}
    Maps = {dungeon, nowhere}
    Known = {dungeon}
    MatchSize = 2
    Workers = 2
    None = None
    MaxMatches = 2
    MaxPackets = 2
CHECK_DEADLOCK FALSE
CONSTRAINT StrayFirst
SYMMETRY ClientSymmetry
INVARIANTS
    TypeOK
    OneMatchPerMap
    NoAbandonedMatch
    MovesFullParty
    MovedOnlyIfAccepted
