------------------------- MODULE MCBoundaryProposal -------------------------
(* Small instances of BoundaryProposal for TLC. *)
EXTENDS BoundaryProposal, TLC

CONSTANTS surveyor, reviewer, admin

\* One account of each of the three kinds of role that differ here: an author,
\* a reviewer, and an administrator, who may be either.
MCUsers == {surveyor, reviewer, admin}
MCRoleOf == (surveyor :> "surveyor") @@ (reviewer :> "reviewer") @@ (admin :> "admin")

\* Creation tells apart only who may create and who may derive proposals.
MCCreationUsers == {surveyor, reviewer}
MCCreationRoleOf == (surveyor :> "surveyor") @@ (reviewer :> "reviewer")

MoverSymmetry == Permutations(Movers)

CreationSymmetry ==
    Permutations(Creators) \cup Permutations(Parcels)
        \cup Permutations(Observations) \cup Permutations(Proposals)
=============================================================================
