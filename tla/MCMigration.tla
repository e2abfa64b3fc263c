----------------------------- MODULE MCMigration -----------------------------
(* Migration for TLC: the runners are interchangeable.                     *)
EXTENDS Migration, TLC

Symmetry == Permutations(Runners)

=============================================================================
