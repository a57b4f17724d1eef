---------------------------- MODULE MCAdmission ----------------------------
(* A small instance of Admission for TLC. *)
EXTENDS Admission, TLC

CONSTANT analyst

\* One account, which may detect conflicts until it is made an auditor.
MCFirstRole == analyst :> "gis_analyst"

RequestSymmetry == Permutations(Requests)
=============================================================================
