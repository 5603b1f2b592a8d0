------------------------------ MODULE RateLimit ------------------------------
(***************************************************************************)
(* One counter of the fixed-window rate limiter (middleware/rateLimit.ts). *)
(* The Lua script increments it and, when it has just begun, sets its TTL; *)
(* Redis runs the script as one step.                                      *)
(***************************************************************************)
EXTENDS Naturals

CONSTANT Limit

LimitAssumption == Limit \in Nat \ {0}

VARIABLES
  count,   \* the key's value, 0 when there is no key
  ttl      \* whether the key has a TTL

\* Bound: a count over the limit is as good as any other.
Over == Limit + 1

TypeOK == count \in 0 .. Over /\ ttl \in BOOLEAN

Init == count = 0 /\ ttl = FALSE

Incr == count' = IF count < Over THEN count + 1 ELSE Over
Allowed == count' <= Limit

\* Mutant: INCR and EXPIRE are two commands and the process may die in between
\* (what the comment of the script says it was written against).
EvalInTwo ==
  /\ Incr
  /\ ttl' \in {ttl, ttl \/ count = 0}

\* enforceRateLimit: the script; `Allowed' is its answer.
Eval ==
  /\ Incr
  /\ ttl' = (ttl \/ count = 0)

\* The window is over.
WindowEnds ==
  /\ ttl
  /\ count' = 0 /\ ttl' = FALSE

(***************************************************************************)
(* Properties.                                                             *)
(***************************************************************************)
\* Whoever is over the limit is let in again some time: no crash, however it
\* falls, leaves a counter that is never reset (the comment of RATELIMIT_LUA).
NobodyLockedOut == count > Limit ~> count = 0
=============================================================================
