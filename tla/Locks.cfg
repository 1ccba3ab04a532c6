SPECIFICATION Spec
CONSTANTS
    w1 = w1
    w2 = w2
    p1 = p1
    p2 = p2
    dungeon = dungeon
    party = party
    Workers = {w1, w2}
    Updater = updater
    Console = console
    Clients = {p1, p2}
    Zones = {dungeon}
    Matches = {party}
    Monsters = {mob}
    NoClient = NoClient
    Recipients <- MCRecipients
    Queues <- MCQueues
    Layouts <- MCLayouts
CHECK_DEADLOCK FALSE
SYMMETRY WorkerSymmetry
INVARIANTS
    TypeOK
    OnlyKnownDeadlocks
