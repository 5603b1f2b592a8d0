---------------------------- MODULE MCBackOffice ----------------------------
(* Instances of BackOffice for TLC. *)
EXTENDS BackOffice, TLC

CONSTANTS i1, i2, i3, n1, n2, n3, r1, r2, t1, t2, h1, h2

\* Of the tokens one is single-use: they are not interchangeable.
Symmetry == Permutations({i1, i2, i3}) \cup Permutations({n1, n2, n3})
              \cup Permutations({r1, r2})
=============================================================================
