\* Two appliers and a reviewer race on one conflict while its proposal and parcel move on.
SPECIFICATION Spec
CONSTANTS
    reviewer = reviewer
    admin = admin
    Users <- MCUsers
    RoleOf <- MCRoleOf
    NoUser = NoUser
    NoParcel = NoParcel
    NoProposal = NoProposal
    NoConflict = NoConflict
    Parcels = {x1}
    Proposals = {p1, p2, p3}
    Conflicts = {k1}
    Reviewers = {r1}
    Appliers = {a1, a2}
    MaxCreated = 1
    MaxVersion = 2
    MaxParcelVersion = 2
SYMMETRY RequestSymmetry
INVARIANTS
    TrailExplainsConflict
    ResolverOfRecord
    AppliedAtMostOnce
    AppliedIsDone
    DraftContinuesItsSource
PROPERTIES
    ImplementsLedger
