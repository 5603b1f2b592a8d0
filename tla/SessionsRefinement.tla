-------------------------- MODULE SessionsRefinement --------------------------
(***************************************************************************)
(* Sessions implements TokenFamily.  A row is a family; its retired ids    *)
(* are those refresh_token_history has under it, but for the one that is   *)
(* still current: it has been recorded and is about to be rotated away.    *)
(* Handlers, the Redis copies and the grace window map to nothing.         *)
(***************************************************************************)
EXTENDS Sessions

RetiredOf(s) == {j \in Jtis : history[j] = s /\ j # row[s].cur}

Family(s) ==
  IF row[s] = None THEN None
  ELSE [live |-> ~row[s].revoked, cur |-> row[s].cur, retired |-> RetiredOf(s)]

Families == [s \in Sids |-> Family(s)]

F == INSTANCE TokenFamily WITH fam <- Families, held <- delivered

ASSUME NoFamilyAssumption == None \notin F!FamilySet

\* Whatever the handlers, the stale copies, the failures and the grace window
\* do, seen through the tables every step of the server (sessionRepo.ts,
\* token.ts) is a login, a rotation, a revocation or an answer of TokenFamily:
\* no id of one family turns up in another, none is lost between current and
\* retired, a revoked family never moves, and a token that is handed out names a
\* session and an id of that session's own.
ImplementsTokenFamily == F!Spec
=============================================================================
