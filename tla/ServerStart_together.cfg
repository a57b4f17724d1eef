\* Two servers that migrate and one that does not, over an empty or an older database.
SPECIFICATION FairSpec
CONSTANTS
    Servers = {s1, s2, s3}
    Migrating = {s1, s2}
    TableOrder <- MCTableOrder
    AccountOrder <- MCAccountOrder
    SeedRole <- MCSeedRole
    LegacyRoles = {"surveyor", "admin"}
    MaxVersion = 2
    Patience = 2
    MaxStops = 1
INVARIANTS
    TypeOK
    SettledIsComplete
PROPERTIES
    StartKeepsAccounts
    EveryServerServes
