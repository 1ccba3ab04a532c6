CONSTANTS
    InternalLengths = {5, 9}
    RecvLength = 5
    MaxInPacket = 5
    HalfRange = 6
    AllocLength = 3
    WriteSizes = {1, 3}
    NameSizes = {1, 4}
    FirstName = 2
    NameGap = 2
    DeadLength = 5
    StaleHeads = {0, 3, 5, 9}
    ReadSizes = {0, 1}
    MaxLength = 13
    MaxSent = 2
SPECIFICATION FairSpec
INVARIANTS
    TypeOK
    InBounds
    WaitingIsSafe
PROPERTIES
    ImplementsChannel
    Delivered
CHECK_DEADLOCK FALSE
