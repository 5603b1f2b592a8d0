----------------------------- MODULE MCSessions -----------------------------
(* Instances of Sessions and its refinement for TLC. *)
EXTENDS SessionsRefinement, TLC

CONSTANTS p1, p2, s1, s2, j1, j2, j3, c1, c2

\* Handlers, refresh ids, sessions and clients are interchangeable.
Symmetry == Permutations({p1, p2}) \cup Permutations({j1, j2, j3})
              \cup Permutations({s1, s2}) \cup Permutations({c1, c2})
=============================================================================
