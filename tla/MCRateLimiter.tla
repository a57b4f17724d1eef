--------------------------- MODULE MCRateLimiter ---------------------------
(* A small instance of RateLimiter for TLC. *)
EXTENDS RateLimiter, TLC

LimiterSymmetry == Permutations(Requests) \cup Permutations(Addresses)
=============================================================================
