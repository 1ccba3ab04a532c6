CONSTANTS
    Workers = {w1, w2}
    Main = main
    MaxConnection = 2
    MaxAccepts = 2
    MaxPackets = 2
    MayStop = TRUE
SPECIFICATION Spec
INVARIANTS
    TypeOK
    IdsConserved
    NoGhosts
    FreeIdsAreOffered
PROPERTY
    ImplementsConnections
SYMMETRY Symmetry
CHECK_DEADLOCK FALSE
