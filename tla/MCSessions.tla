----------------------------- MODULE MCSessions -----------------------------
(* Sessions for TLC: handlers and jtis are interchangeable.                *)
EXTENDS Sessions, TLC

Symmetry == Permutations(Procs) \cup Permutations(Tokens)

\* late and tries decide no step, and the properties ask for them only as long as
\* no call has failed: states that differ in nothing else afterwards are one.
View == <<kv, volatile, slipped, now, rows, at, tok, ver, new, stamp, minted, sent, known,
          parent, pwd, crossed, fate>> \o IF slipped THEN <<>> ELSE <<late, tries>>

=============================================================================
