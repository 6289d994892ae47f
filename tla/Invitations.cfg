CONSTANTS
    Tenants = {"t1", "t2"}
    Invs = {"i1", "i2"}
    InvTenant <- EachItsTenant
    Sessions = {s1}
    Admins = {a1}
    s1 = s1
    a1 = a1
    NoInv = NoInv
    MaxFaults = 2
SPECIFICATION FairSpec
INVARIANTS
    AcceptedIsMember
    ActiveWasFlagged
PROPERTIES
    PendingDrains
    RevocationFinal
