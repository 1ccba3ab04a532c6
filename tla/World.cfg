SPECIFICATION Spec
CONSTANTS
    dungeon1 = dungeon1
    dungeon2 = dungeon2
    Clients = {p1, p2}
    Maps = {town, dungeon1}
    Town = town
    NextMap <- MCNextMap
    PartySize = 2
    Workers = 2
    None = None
    MaxConfirms = 2
    MaxInstances = 1
    MaxMoves = 1
CHECK_DEADLOCK FALSE
SYMMETRY ClientSymmetry
INVARIANTS
    TypeOK
    OneZone
    Controllers
    GoneIsNowhere
