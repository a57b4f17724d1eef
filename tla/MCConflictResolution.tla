------------------------ MODULE MCConflictResolution ------------------------
(* Small instances of ConflictResolution for TLC. *)
EXTENDS ConflictResolution, TLC

CONSTANTS reviewer, admin

\* An account that only reviews, and one that may create, detect and review.
MCUsers == {reviewer, admin}
MCRoleOf == (reviewer :> "reviewer") @@ (admin :> "admin")

RequestSymmetry ==
    Permutations(Reviewers) \cup Permutations(Appliers) \cup Permutations(Proposals)
=============================================================================
