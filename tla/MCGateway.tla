------------------------------ MODULE MCGateway ------------------------------
(* The instance of Gateway for TLC. *)
EXTENDS Gateway

CONSTANTS h1, h2, s1, k1, k2, w1

\* Keys rotate under a machine's session, policies are written under one that
\* may read orders only, and a session is revoked that may do less at the company
\* than it says: it got "orders:read" while that was a system scope.
World(user, scope, system, moves) == [user |-> user, scope |-> scope, system |-> system, moves |-> moves]
MCWorlds ==
  { World(None, {}, {}, "keys"),
    World("carol", {"orders:read", "offline_access"}, {"offline_access"}, "policies"),
    World("erin", {"admin", "orders:read", "offline_access"}, {"orders:read", "offline_access"}, "session") }

\* A seeded base, under its prefix, refused by every seeded policy, another scope's.
MCRequests ==
  { OrdersList,
    [method |-> "GET", path |-> "/api/orders/:id"],
    [method |-> "POST", path |-> "/api/orders"],
    [method |-> "GET", path |-> "/api/admin/users"] }

\* Looser than the seeded policy of the same path.
MCCreatable ==
  { [base |-> "/api/orders", star |-> TRUE, scope |-> None, method |-> None] }
=============================================================================
