\* Two creations race for one code, then two updates for one parcel, with any version.
SPECIFICATION Spec
CONSTANTS
    Parcels = {x1, x2}
    Codes = {code1}
    Columns = {boundary, owner}
    Values = {old, new}
    Creators = {c1, c2}
    Updaters = {u1, u2}
    ClaimedVersions = {1, 2}
    MaxVersion = 2
SYMMETRY RequestSymmetry
INVARIANTS
    CodeUnique
    TrailCountsVersions
    ReplyWasTheRow
PROPERTY OnlyNamedColumns
