------------------------------ MODULE MCGrants ------------------------------
(* Instances of Grants for TLC. *)
EXTENDS Grants

CONSTANTS e1, e2, f1, f2, a1, d1, d2

\* The seeded system scope, a business scope that is seeded and one that the
\* company knows but nobody has defined yet.
MCNames == {"offline", "orders", "extra"}
MCSeeded == [offline |-> "system", orders |-> "business", extra |-> "absent"]
MCOwned == [alice |-> {"orders", "extra"}, bob |-> {}]

World(what, moves, who) == [what |-> what, moves |-> moves, who |-> who]
MCWorlds ==
  { World("authorize", {"definitions"}, {e1, f1, d1}),
    World("authorize", {"client"}, {e1, e2, f1, f2, d1}),
    World("device", {"definitions", "client"}, {d1}),
    World("machine", {"definitions", "client"}, {d1, d2}),
    World("issue", {"definitions"}, {d1}) }
=============================================================================
