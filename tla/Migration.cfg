SPECIFICATION Spec
CONSTANTS
    u1 = u1
    u2 = u2
    a1 = a1
    ip1 = ip1
    ip2 = ip2
    c1 = c1
    Users = {u1, u2}
    Login = login
    Lobbies = {lobby}
    Zones = {zone}
    Accounts = {a1}
    AccountOf <- MCAccountOf
    AddressOf <- MCAddressOf
    Cids = {c1}
    NoInfo = NoInfo
    MaxClock = 3
    MaxLinks = 1
    MaxLosses = 0
    MaxVisits = 1
CHECK_DEADLOCK FALSE
INVARIANTS
    TypeOK
    AdmittedByRight
    AuthorityInOnePlace
    ToldAfterGrant
    SelectionsPerAdmission
PROPERTY ImplementsAdmission
