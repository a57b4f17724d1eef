\* Two addresses, requests that overtake each other, windows that roll over.
SPECIFICATION Spec
CONSTANTS
    Addresses = {a1, a2}
    Requests = {r1, r2}
    Limit = 2
    Window = 2
    MaxDelay = 1
    MaxTime = 6
SYMMETRY LimiterSymmetry
INVARIANTS
    AdmittedPerSpan
    RefusalEarned
PROPERTIES
    OpenWindowKept
