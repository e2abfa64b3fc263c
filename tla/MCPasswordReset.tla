-------------------------- MODULE MCPasswordReset --------------------------
(* PasswordReset for TLC: handlers and reset tokens are interchangeable.   *)
EXTENDS PasswordReset, TLC

Symmetry == Permutations(Procs) \cup Permutations(Links)

=============================================================================
