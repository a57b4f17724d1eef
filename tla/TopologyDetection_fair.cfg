\* Requests under one key and a fair server: every accepted request returns.
SPECIFICATION FairSpec
CONSTANTS
    analyst = analyst
    surveyor = surveyor
    x1 = x1
    x2 = x2
    p1 = p1
    Users = {analyst, surveyor}
    RoleOf <- MCRoleOf
    Keys = {k1}
    NoKey = NoKey
    Parcels = {x1, x2}
    Proposals = {p1}
    ParcelOf <- MCParcelOf
    Tolerances = {t1}
    ConflictIds = {i1, i2, i3}
    Slots = {s1, s2}
    FindingCounts = {0, 1}
    MaxBoundary = 1
    SpareIds = 2
PROPERTY EveryCallReturns
