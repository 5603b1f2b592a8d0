----------------------------- MODULE TokenFamily -----------------------------
(***************************************************************************)
(* What a refresh-token chain promises, without caches, histories, windows *)
(* or handlers: a session is the family of the refresh ids it was given.   *)
(* One of them is current, the others are retired, and no id belongs to    *)
(* two families.  A live family moves on by retiring its current id; a     *)
(* revoked one never moves again.                                          *)
(*                                                                         *)
(* SessionsRefinement shows that Sessions implements this.                 *)
(***************************************************************************)
EXTENDS FiniteSets

CONSTANTS Sids, Jtis, None

VARIABLES
  fam,    \* the families, None before the login
  held    \* the tokens that have reached a client: <<session, id>>

vars == <<fam, held>>

\* A family: whether it may move on, its current id and the earlier ones.
FamilySet == [live : BOOLEAN, cur : Jtis, retired : SUBSET Jtis]

Members(f) == IF f = None THEN {} ELSE {f.cur} \cup f.retired
Drawn == UNION {Members(fam[s]) : s \in Sids}

Init ==
  /\ fam = [s \in Sids |-> None]
  /\ held = {}

\* A login: the family starts with an id nobody has had.
Born(s, j) ==
  /\ fam[s] = None /\ j \notin Drawn
  /\ fam' = [fam EXCEPT ![s] = [live |-> TRUE, cur |-> j, retired |-> {}]]
  /\ UNCHANGED held

\* A refresh: the current id retires in favour of a new one.
Rotate(s, j) ==
  /\ fam[s] # None /\ fam[s].live /\ j \notin Drawn
  /\ fam' = [fam EXCEPT ![s] = [live |-> TRUE, cur |-> j, retired |-> Members(fam[s])]]
  /\ UNCHANGED held

\* By the user, an administrator or reuse detection; of one or of many.
Revoke(S) ==
  /\ \A s \in S : fam[s] # None
  /\ fam' = [s \in Sids |->
       IF s \in S THEN [live |-> FALSE, cur |-> fam[s].cur, retired |-> fam[s].retired]
                  ELSE fam[s]]
  /\ UNCHANGED held

\* An answer reaches its client: the id in it is one of the family it is signed
\* for, though not always the current one (the grace path may answer from an old
\* copy).
HandOut(s, j) ==
  /\ j \in Members(fam[s])
  /\ held' = held \cup {<<s, j>>}
  /\ UNCHANGED fam

Next ==
  \/ \E s \in Sids, j \in Jtis : Born(s, j) \/ Rotate(s, j) \/ HandOut(s, j)
  \/ \E S \in SUBSET Sids : Revoke(S)

Spec == Init /\ [][Next]_vars
=============================================================================
