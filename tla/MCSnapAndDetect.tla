-------------------------- MODULE MCSnapAndDetect --------------------------
(* A small instance of SnapAndDetect for TLC. *)
EXTENDS SnapAndDetect

\* A parcel of two by two, and around it: neighbours that touch it along a side or
\* at a corner, one beyond a gap of one, one that overlaps it.
MCBases == {Rectangle(2, 2, 4, 4)}

MCNeighbours ==
    { Rectangle(0, 2, 2, 4), Rectangle(4, 1, 6, 5), Rectangle(5, 2, 6, 4),
      Rectangle(4, 4, 6, 6), Rectangle(2, 5, 4, 6), Rectangle(3, 0, 5, 3) }

MCNeighbourhoods == {<<r, s>> : r \in MCNeighbours, s \in MCNeighbours}

MCCandidates ==
    {Rectangle(x1, y1, x2, y2) : x1 \in 0 .. 3, y1 \in 0 .. 3, x2 \in 2 .. 6, y2 \in 2 .. 6}

MCUpright == {r \in MCCandidates : r.x1 < r.x2 /\ r.y1 < r.y2}
=============================================================================
