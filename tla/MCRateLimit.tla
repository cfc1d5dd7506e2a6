---------------------------- MODULE MCRateLimit ----------------------------
(* Instances of the rate limiter for TLC. *)
EXTENDS RateLimit, TLC

\* Requests, workers and addresses are interchangeable.
Symmetry == Permutations(Requests) \cup Permutations(Workers) \cup Permutations(Addresses)
=============================================================================
