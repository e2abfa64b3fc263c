---------------------------- MODULE MCRateLimiter ----------------------------
(* RateLimiter for TLC: requests and limiters are interchangeable.         *)
EXTENDS RateLimiter, TLC

Symmetry == Permutations(Procs) \cup Permutations(Limiters)

=============================================================================
