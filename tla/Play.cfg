CONSTANTS
    Clients = {c1, c2}
    Zones = {z1, z2}
    Nowhere = Nowhere
    Equips = {3300001}
    Etcs = {2000001}
    inventory_size = 3
    Loads <- MCLoads
    MobHp = 150
    ChrHp = 15
    MaxPackets = 3
    MaxMoves = 2
SPECIFICATION Spec
INVARIANTS
    TypeOK
    RightName
    HitsCount
PROPERTY ItemsKept
SYMMETRY Symmetry
CHECK_DEADLOCK FALSE
