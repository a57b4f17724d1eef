\* Two creations race over two parcels and two observations being imported.
SPECIFICATION Spec
CONSTANTS
    surveyor = surveyor
    reviewer = reviewer
    admin = admin
    Users <- MCCreationUsers
    RoleOf <- MCCreationRoleOf
    NoUser = NoUser
    Parcels = {x1, x2}
    Observations = {o1, o2}
    NoParcel = NoParcel
    Proposals = {p1, p2}
    Movers = {}
    Creators = {c1, c2}
    ClaimedVersions = {1}
    MaxVersion = 2
    MaxParcelVersion = 2
SYMMETRY CreationSymmetry
INVARIANTS
    EvidenceOnParcel
    BaseVersionExisted
