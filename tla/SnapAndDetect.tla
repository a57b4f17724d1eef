--------------------------- MODULE SnapAndDetect ---------------------------
(***************************************************************************)
(* The algorithms of internal/geometry as a detection runs them: a         *)
(* candidate boundary is snapped to the parcel's own boundary and its      *)
(* neighbours' (SnapToReferences), what it became is compared with each    *)
(* neighbour (DetectTopology), and applying the suggestion makes the       *)
(* snapped boundary the candidate of the next detection.                   *)
(*                                                                         *)
(* Geometry is on an integer grid.  Parcels are upright rectangles, so     *)
(* projections and crossings are grid points, areas and lengths integers,  *)
(* and distances are compared by their squares.  A candidate has four      *)
(* corners; once snapping has skewed it, it is snapped on but no longer    *)
(* compared.  The overlay library is modelled on rectangles by what        *)
(* DetectTopology asks of it.                                              *)
(***************************************************************************)
EXTENDS Integers, Sequences, FiniteSetsExt

CONSTANTS Bases,          \* boundaries of the parcel
          Neighbourhoods, \* its neighbours: sequences of rectangles, by parcel id
          Candidates,     \* proposed boundaries
          SnapTolerances, \* snap_tolerance_m
          MaxRounds       \* bound: how often a suggestion is applied

-----------------------------------------------------------------------------
(* Points, rectangles, rings. *)

Point(x, y) == [x |-> x, y |-> y]

Rectangle(x1, y1, x2, y2) == [x1 |-> x1, y1 |-> y1, x2 |-> x2, y2 |-> y2]

Rectangles == [x1 : Int, y1 : Int, x2 : Int, y2 : Int]

Upright(r) == r \in Rectangles /\ r.x1 < r.x2 /\ r.y1 < r.y2

ASSUME GridAssumption ==
    /\ \A r \in Bases \cup Candidates : Upright(r)
    /\ Neighbourhoods \subseteq Seq(Rectangles)
    /\ \A n \in Neighbourhoods : \A id \in 1 .. Len(n) : Upright(n[id])
    /\ SnapTolerances \subseteq 0 .. 99 /\ MaxRounds \in Nat

\* Counter-clockwise from the lower left, as ParsePolygon requires; not closed.
Ring(r) == <<Point(r.x1, r.y1), Point(r.x2, r.y1), Point(r.x2, r.y2), Point(r.x1, r.y2)>>

Closed(ring) == <<ring[1], ring[2], ring[3], ring[4], ring[1]>>

IsRectangle(ring) ==
    /\ ring[1].x < ring[2].x /\ ring[1].y < ring[4].y
    /\ ring = Ring(Rectangle(ring[1].x, ring[1].y, ring[3].x, ring[3].y))

RectangleOf(ring) == Rectangle(ring[1].x, ring[1].y, ring[3].x, ring[3].y)

\* signedArea, doubled.
SignedArea(ring) ==
    LET closed == Closed(ring)
        Term(i) == closed[i].x * closed[i + 1].y - closed[i + 1].x * closed[i].y
    IN  Term(1) + Term(2) + Term(3) + Term(4)

Turn(p, q, r) == (q.x - p.x) * (r.y - p.y) - (q.y - p.y) * (r.x - p.x)

Between(r, p, q) ==
    /\ Turn(p, q, r) = 0 /\ r \notin {p, q}
    /\ (p.x - r.x) * (q.x - r.x) <= 0 /\ (p.y - r.y) * (q.y - r.y) <= 0

Cross(p, q, r, s) ==
    /\ Turn(p, q, r) * Turn(p, q, s) < 0
    /\ Turn(r, s, p) * Turn(r, s, q) < 0

\* What Validate and ParsePolygon ask of a snapped ring: it neither crosses nor
\* touches itself, and it still turns counter-clockwise.
Valid(ring) ==
    LET closed == Closed(ring)
    IN  /\ SignedArea(ring) > 0
        /\ \A i, j \in DOMAIN ring : ~Between(ring[j], closed[i], closed[i + 1])
        /\ ~Cross(ring[1], ring[2], ring[3], ring[4])
        /\ ~Cross(ring[2], ring[3], ring[4], ring[1])

Distance2(p, q) == (p.x - q.x) * (p.x - q.x) + (p.y - q.y) * (p.y - q.y)

-----------------------------------------------------------------------------
(* SnapToReferences. *)

\* Vertices and segments of the references, in the order they were supplied: the
\* parcel's own boundary first.  A ring is closed, so its first vertex is there twice.
Vertices(references) ==
    [i \in 1 .. 5 * Len(references) |->
        Closed(Ring(references[((i - 1) \div 5) + 1]))[((i - 1) % 5) + 1]]

Segments(references) ==
    [i \in 1 .. 4 * Len(references) |->
        LET ring == Closed(Ring(references[((i - 1) \div 4) + 1]))
            j == ((i - 1) % 4) + 1
        IN  [start |-> ring[j], end |-> ring[j + 1]]]

Project(p, segment) ==
    LET dx == segment.end.x - segment.start.x
        dy == segment.end.y - segment.start.y
        length2 == dx * dx + dy * dy
        along == (p.x - segment.start.x) * dx + (p.y - segment.start.y) * dy
        clamped == Max({0, Min({length2, along})})
    IN  Point(segment.start.x + (clamped * dx) \div length2,
              segment.start.y + (clamped * dy) \div length2)

\* One pass of the loop: best is a sequence of at most one target.
Closer_Last(p, best, target, tolerance) ==
    IF Distance2(p, target) <= tolerance * tolerance THEN <<target>> ELSE best

Closer(p, best, target, tolerance) ==
    IF /\ Distance2(p, target) <= tolerance * tolerance
       /\ best = <<>> \/ Distance2(p, target) < Distance2(p, best[1])
    THEN <<target>> ELSE best

\* The first of the nearest targets within the tolerance, if any.
Nearest(p, targets, tolerance) ==
    LET best[i \in 0 .. Len(targets)] ==
            IF i = 0 THEN <<>> ELSE Closer(p, best[i - 1], targets[i], tolerance)
    IN  best[Len(targets)]

Projections(p, references) ==
    [i \in 1 .. 4 * Len(references) |-> Project(p, Segments(references)[i])]

\* nearestSnapTarget: a vertex within the tolerance, however far, before any edge.
SnapTarget_VertexOrEdge(p, references, tolerance) ==
    LET target == Nearest(p, Vertices(references) \o Projections(p, references), tolerance)
    IN  IF target = <<>> THEN p ELSE target[1]

SnapTarget(p, references, tolerance) ==
    LET vertex == Nearest(p, Vertices(references), tolerance)
        edge == Nearest(p, Projections(p, references), tolerance)
    IN  IF vertex # <<>> THEN vertex[1]
        ELSE IF edge # <<>> THEN edge[1]
        ELSE p

Snapped(ring, references, tolerance) ==
    IF tolerance = 0 THEN ring
    ELSE [i \in 1 .. 4 |-> SnapTarget(ring[i], references, tolerance)]

-----------------------------------------------------------------------------
(* What the overlay library answers about rectangles. *)

Intersection(r, s) ==
    Rectangle(Max({r.x1, s.x1}), Max({r.y1, s.y1}), Min({r.x2, s.x2}), Min({r.y2, s.y2}))

Area(r) == IF r.x1 < r.x2 /\ r.y1 < r.y2 THEN (r.x2 - r.x1) * (r.y2 - r.y1) ELSE 0

Separation(low1, high1, low2, high2) == Max({0, low2 - high1, low1 - high2})

RectangleDistance2(r, s) ==
    LET dx == Separation(r.x1, r.x2, s.x1, s.x2)
        dy == Separation(r.y1, r.y2, s.y1, s.y2)
    IN  dx * dx + dy * dy

\* A boundary as its grid points and its edges of length one.
BoundaryPoints(r) ==
    {Point(x, y) : x \in {r.x1, r.x2}, y \in r.y1 .. r.y2}
        \cup {Point(x, y) : x \in r.x1 .. r.x2, y \in {r.y1, r.y2}}

BoundaryEdges(r) ==
    {<<Point(x, y), Point(x, y + 1)>> : x \in {r.x1, r.x2}, y \in r.y1 .. (r.y2 - 1)}
        \cup {<<Point(x, y), Point(x + 1, y)>> : x \in r.x1 .. (r.x2 - 1), y \in {r.y1, r.y2}}

SharedBoundary(r, s) ==
    [points |-> BoundaryPoints(r) \cap BoundaryPoints(s),
     edges |-> BoundaryEdges(r) \cap BoundaryEdges(s)]

-----------------------------------------------------------------------------
(* DetectTopology. *)

\* areaThreshold is below every area of the grid for tolerances below 100.
Overlaps(candidate, neighbour) == Area(Intersection(candidate, neighbour)) > 0

Parts(base, candidate, neighbour, tolerance) ==
    /\ RectangleDistance2(base, neighbour) <= tolerance * tolerance
    /\ RectangleDistance2(candidate, neighbour) > tolerance * tolerance

Dangles(candidate, neighbour, tolerance) ==
    /\ RectangleDistance2(candidate, neighbour) <= tolerance * tolerance
    /\ Cardinality(SharedBoundary(candidate, neighbour).edges) <= tolerance

Finding(kind, geometry, parcel) == [kind |-> kind, geometry |-> geometry, parcel |-> parcel]

\* deduplicateFindings: a finding is kept unless an earlier one has its type and its
\* geometry.  The code goes over the findings once they are all there; here each is
\* kept or not as it is found.
SameKey_Type(f, g) == f.kind = g.kind

SameKey(f, g) == f.kind = g.kind /\ f.geometry = g.geometry

Noted(kept, found, finding) ==
    IF found /\ \A i \in 1 .. Len(kept) : ~SameKey(kept[i], finding)
    THEN Append(kept, finding) ELSE kept

\* One neighbour.  The evidence of a gap is the candidate's boundary, whichever the
\* neighbour.
Compared(kept, base, candidate, neighbour, id, tolerance) ==
    LET overlap == Noted(kept, Overlaps(candidate, neighbour),
                         Finding("overlap", Intersection(candidate, neighbour), id))
        gap == Noted(overlap, Parts(base, candidate, neighbour, tolerance),
                     Finding("gap", candidate, id))
    IN  Noted(gap, Dangles(candidate, neighbour, tolerance),
              Finding("dangling_edge", SharedBoundary(candidate, neighbour), id))

DetectTopology_ZeroBased(base, candidate, neighbours, tolerance) ==
    LET kept[id \in 0 .. Len(neighbours)] ==
            IF id = 0 THEN <<>>
            ELSE Compared(kept[id - 1], base, candidate, neighbours[id], id - 1, tolerance)
    IN  kept[Len(neighbours)]

DetectTopology(base, candidate, neighbours, tolerance) ==
    LET kept[id \in 0 .. Len(neighbours)] ==
            IF id = 0 THEN <<>>
            ELSE Compared(kept[id - 1], base, candidate, neighbours[id], id, tolerance)
    IN  kept[Len(neighbours)]

-----------------------------------------------------------------------------
VARIABLES base, neighbours, tolerance, \* the parcel, its neighbours, the request's tolerance
          proposed,                    \* history: the boundary first proposed
          candidate,                   \* the boundary under detection
          suggested,                   \* the boundary that snapping suggests
          findings,                    \* what the detection found
          rounds,                      \* suggestions applied so far
          phase

inputs == <<base, neighbours, tolerance, proposed>>
geometryVars == <<inputs, candidate, suggested, findings, rounds, phase>>

References == <<base>> \o neighbours

GeometryInit ==
    /\ base \in Bases
    /\ neighbours \in Neighbourhoods
    /\ tolerance \in SnapTolerances
    /\ proposed \in {Ring(r) : r \in Candidates}
    /\ candidate = proposed
    /\ suggested = proposed
    /\ findings = <<>>
    /\ rounds = 0
    /\ phase = "received"

\* A suggestion that is no longer a boundary is refused with 422.
Snap ==
    /\ phase = "received"
    /\ suggested' = Snapped(candidate, References, tolerance)
    /\ phase' = IF ~Valid(suggested') THEN "refused"
                ELSE IF IsRectangle(suggested') THEN "snapped"
                ELSE "skewed"
    /\ UNCHANGED <<inputs, candidate, findings, rounds>>

Detect ==
    /\ phase = "snapped"
    /\ findings' = DetectTopology(base, RectangleOf(suggested), neighbours, tolerance)
    /\ phase' = "detected"
    /\ UNCHANGED <<inputs, candidate, suggested, rounds>>

\* ApplyConflictSuggestion: the suggestion is the boundary of the next draft, and
\* that draft is submitted to detection in its turn.
ApplySuggestion ==
    /\ \/ phase = "detected" /\ findings # <<>>
       \/ phase = "skewed"
    /\ rounds < MaxRounds
    /\ candidate' = suggested
    /\ findings' = <<>>
    /\ rounds' = rounds + 1
    /\ phase' = "received"
    /\ UNCHANGED <<inputs, suggested>>

GeometryNext == Snap \/ Detect \/ ApplySuggestion

GeometrySpec == GeometryInit /\ [][GeometryNext]_geometryVars

-----------------------------------------------------------------------------
(* Properties. *)

IsPoint(p) == p.x \in Int /\ p.y \in Int

GeometryTypeOK ==
    /\ phase \in {"received", "snapped", "skewed", "refused", "detected"}
    /\ rounds \in 0 .. MaxRounds
    /\ Len(candidate) = 4 /\ Len(suggested) = 4
    /\ \A i \in 1 .. 4 : IsPoint(candidate[i]) /\ IsPoint(suggested[i])
    /\ \A i \in DOMAIN findings :
          findings[i].kind \in {"overlap", "gap", "dangling_edge"}
              /\ findings[i].parcel \in DOMAIN neighbours

\* The corner a point is moved to is nowhere nearer among the corners in reach; only
\* where no corner is in reach, among all the points of the reference boundaries in
\* reach; and a point with nothing in reach stays.
Reached(p, points) == {q \in points : Distance2(p, q) <= tolerance * tolerance}

IsNearest(q, p, points) == q \in points /\ \A o \in points : Distance2(p, q) <= Distance2(p, o)

ReferenceCorners == {Ring(References[i])[j] : i \in DOMAIN References, j \in 1 .. 4}

ReferenceBorder == UNION {BoundaryPoints(References[i]) : i \in DOMAIN References}

SnapsToNearest ==
    phase # "received" /\ tolerance > 0 =>
        \A i \in 1 .. 4 :
            IF Reached(candidate[i], ReferenceCorners) # {}
            THEN IsNearest(suggested[i], candidate[i], Reached(candidate[i], ReferenceCorners))
            ELSE IF Reached(candidate[i], ReferenceBorder) # {}
            THEN IsNearest(suggested[i], candidate[i], Reached(candidate[i], ReferenceBorder))
            ELSE suggested[i] = candidate[i]

\* Snapping again moves a corner at most once more, from an edge to a corner of the
\* reference: a suggestion applied twice is final, and no corner has gone further
\* than two tolerances from where it was proposed.
SnappingSettles ==
    phase # "received" =>
        /\ rounds >= 2 => suggested = candidate
        /\ \A i \in 1 .. 4 : Distance2(proposed[i], suggested[i]) <= 4 * tolerance * tolerance

\* Every trouble between candidate and neighbour is found, by what the words mean
\* counted out over cells and points of the grid, and nothing else is.  A finding
\* names the first neighbour its evidence fits: a later neighbour with the same
\* evidence is in no finding of that kind.
Cells(r) == {Point(x, y) : x \in r.x1 .. (r.x2 - 1), y \in r.y1 .. (r.y2 - 1)}

GridPoints(r) == {Point(x, y) : x \in r.x1 .. r.x2, y \in r.y1 .. r.y2}

Near(r, s) == \E p \in GridPoints(r), q \in GridPoints(s) :
                  Distance2(p, q) <= tolerance * tolerance

Trouble(kind, id) ==
    LET drawn == RectangleOf(suggested)
        neighbour == neighbours[id]
    IN  CASE kind = "overlap" -> Cells(drawn) \cap Cells(neighbour) # {}
          [] kind = "gap" -> Near(base, neighbour) /\ ~Near(drawn, neighbour)
          [] kind = "dangling_edge" ->
                 /\ Near(drawn, neighbour)
                 /\ Cardinality(BoundaryEdges(drawn) \cap BoundaryEdges(neighbour)) <= tolerance

SameEvidence(kind, id, other) ==
    LET drawn == RectangleOf(suggested)
    IN  CASE kind = "overlap" ->
                 Cells(drawn) \cap Cells(neighbours[id]) = Cells(drawn) \cap Cells(neighbours[other])
          [] kind = "gap" -> TRUE
          [] kind = "dangling_edge" ->
                 SharedBoundary(drawn, neighbours[id]) = SharedBoundary(drawn, neighbours[other])

FindingsExact ==
    phase = "detected" =>
        \A kind \in {"overlap", "gap", "dangling_edge"}, id \in DOMAIN neighbours :
            (\E i \in DOMAIN findings : findings[i].kind = kind /\ findings[i].parcel = id)
                <=> /\ Trouble(kind, id)
                    /\ \A other \in 1 .. (id - 1) :
                           ~(Trouble(kind, other) /\ SameEvidence(kind, id, other))
=============================================================================
