\* Two moves of one proposal race, through a revision round to its second review at version 9.
SPECIFICATION Spec
CONSTANTS
    surveyor = surveyor
    reviewer = reviewer
    admin = admin
    Users <- MCUsers
    RoleOf <- MCRoleOf
    NoUser = NoUser
    Parcels = {x1}
    Observations = {}
    NoParcel = NoParcel
    Proposals = {p1}
    Movers = {m1, m2}
    Creators = {c1}
    ClaimedVersions = {1}
    MaxVersion = 9
    MaxParcelVersion = 1
SYMMETRY MoverSymmetry
INVARIANTS
    IndependentReview
    TrailExplainsRow
    ReviewerOfRecord
    AcknowledgedIsRecorded
PROPERTIES
    DecisionFinal
    ImplementsLedger
