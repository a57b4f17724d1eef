\* Two detections race, under one key or two, with one request or two.
SPECIFICATION Spec
CONSTANTS
    analyst = analyst
    surveyor = surveyor
    x1 = x1
    x2 = x2
    p1 = p1
    Users = {analyst, surveyor}
    RoleOf <- MCRoleOf
    Keys = {k1, k2}
    NoKey = NoKey
    Parcels = {x1, x2}
    Proposals = {p1}
    ParcelOf <- MCParcelOf
    Tolerances = {t1, t2}
    ConflictIds = {i1, i2, i3}
    Slots = {s1, s2}
    FindingCounts = {0, 1}
    MaxBoundary = 2
    SpareIds = 2
SYMMETRY DetectionSymmetry
INVARIANTS
    OneRunPerKey
    AnswersComeFromTheRun
    NoOrphans
    InputsAreReal
PROPERTIES
    ImplementsIdempotentCall
