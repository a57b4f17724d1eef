---------------------------- MODULE MCLandParcel ----------------------------
(* Small instances of LandParcel for TLC. *)
EXTENDS LandParcel, TLC

RequestSymmetry ==
    Permutations(Creators) \cup Permutations(Updaters) \cup Permutations(Parcels)
=============================================================================
