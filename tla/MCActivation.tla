----------------------------- MODULE MCActivation -----------------------------
(* Activation for TLC: handlers and codes are interchangeable.             *)
EXTENDS Activation, TLC

Symmetry == Permutations(Procs) \cup Permutations(Codes)

=============================================================================
