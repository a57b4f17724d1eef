\* Two supersessions cross.
SPECIFICATION Spec
CONSTANTS
    Parcels = {x1, x2}
    UnknownParcel = UnknownParcel
    Observations = {o1, o2}
    NoObservation = NoObservation
    Codes = {code1, code2}
    Importers = {i1}
    Movers = {m1, m2}
    ClaimedVersions = {1, 2, 3}
    MaxVersion = 4
SYMMETRY ObservationSymmetry
INVARIANT NotEachOther
