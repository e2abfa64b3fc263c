--------------------------- MODULE MCAccessTokens ---------------------------
(* AccessTokens for TLC: password changes are interchangeable.             *)
EXTENDS AccessTokens, TLC

Symmetry == Permutations(Changers)

=============================================================================
