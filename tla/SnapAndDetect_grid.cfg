\* Every upright candidate on a grid of six by six, two neighbours out of six.
SPECIFICATION GeometrySpec
CONSTANTS
    Bases <- MCBases
    Neighbourhoods <- MCNeighbourhoods
    Candidates <- MCUpright
    SnapTolerances = {0, 1, 2}
    MaxRounds = 3
CHECK_DEADLOCK FALSE
INVARIANTS
    GeometryTypeOK
    SnapsToNearest
    SnappingSettles
    
