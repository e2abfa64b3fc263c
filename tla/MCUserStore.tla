---------------------------- MODULE MCUserStore ----------------------------
(* Instances of UserStore for TLC. *)
EXTENDS UserStore, TLC

\* Handlers and users are interchangeable.
Symmetry == Permutations(Procs) \cup Permutations(Users)

=============================================================================
