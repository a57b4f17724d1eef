------------------------ MODULE MCSurveyObservation ------------------------
(* Small instances of SurveyObservation for TLC. *)
EXTENDS SurveyObservation, TLC

ObservationSymmetry ==
    Permutations(Observations) \cup Permutations(Codes) \cup Permutations(Importers)
        \cup Permutations(Movers) \cup Permutations(Parcels)
=============================================================================
