------------------------ MODULE MCTopologyDetection ------------------------
(* Small instances of TopologyDetection for TLC. *)
EXTENDS TopologyDetection, TLC

CONSTANTS analyst, surveyor, x1, x2, p1

\* One account that may detect and one that may not.
MCRoleOf == (analyst :> "gis_analyst") @@ (surveyor :> "surveyor")

\* The proposal is for x1; x2 is its neighbour.
MCParcelOf == (p1 :> x1)

DetectionSymmetry == Permutations(Slots) \cup Permutations(ConflictIds) \cup Permutations(Keys)
=============================================================================
