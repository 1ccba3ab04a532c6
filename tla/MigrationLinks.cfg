SPECIFICATION FairSpec
CONSTANTS
    u1 = u1
    u2 = u2
    a1 = a1
    ip1 = ip1
    ip2 = ip2
    c1 = c1
    Users = {u1}
    Login = login
    Lobbies = {lobby1, lobby2}
    Zones = {zone}
    Accounts = {a1}
    AccountOf <- MCAccountOf
    AddressOf <- MCAddressOf
    Cids = {c1}
    NoInfo = NoInfo
    MaxClock = 2
    MaxLinks = 2
    MaxLosses = 1
    MaxVisits = 1
CHECK_DEADLOCK FALSE
INVARIANTS
    RegisteredIsStored
PROPERTIES
    RequestsAreAnswered
