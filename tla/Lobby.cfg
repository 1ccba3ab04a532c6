CONSTANTS
    Clients = {c1, c2}
    Holders = {c1, c2}
    Accounts = {1, 2}
    pool_alloc_size_ = 1
    slot_size = 2
    default_items = 2
    MaxCids = 2
    MaxGrants = 2
    MaxPackets = 5
    MaxFailures = 1
SPECIFICATION Spec
INVARIANTS
    TypeOK
    SlotsAgree
    PoolConserved
PROPERTY SelectedExists
SYMMETRY Symmetry
CHECK_DEADLOCK FALSE
