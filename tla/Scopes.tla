-------------------------------- MODULE Scopes --------------------------------
(***************************************************************************)
(* The scope definitions: the table scopes, this process' copy of it       *)
(* (repos/scopeRepo.ts), the administrators' writes (routes/adminWeb.ts),  *)
(* and the three layers that decide what a grant may contain: the global   *)
(* definitions (1), the user's permissions (2), the client's list (3).     *)
(* The fourth layer, at the gateway, is RoutePolicies.                     *)
(***************************************************************************)
EXTENDS Naturals

CONSTANTS Names,      \* scope names
          Seeded,     \* what seed.ts defined, name by name: see `kind'
          AllowedEnv, \* ALLOWED_SCOPES and SYSTEM_SCOPES, which stand in
          SystemEnv,  \*   while the table has no names, no system names
          Readers,    \* handlers of this process that may need the copy
          Writers,    \* administrators' writes in progress in this process
          MaxWrites,  \* bound: writes of the table
          CanFail,    \* whether a statement's answer may be lost
          None

Kinds == {"absent", "business", "system"}

NamesAssumption ==
  /\ Seeded \in [Names -> Kinds]
  /\ AllowedEnv \subseteq Names /\ SystemEnv \subseteq Names
  /\ MaxWrites \in Nat /\ CanFail \in BOOLEAN

VARIABLES
  kind,    \* the table, by name: no row, a row, a row with is_system
  copy, fill, writing,  \* see LocalCopy
  writes   \* bound

C == INSTANCE LocalCopy WITH table <- kind

TypeOK == C!TypeOK([Names -> Kinds]) /\ writes \in 0 .. MaxWrites

Init == kind = Seeded /\ writes = 0 /\ C!Init

(***************************************************************************)
(* getSets, and what is decided with its answer.                           *)
(***************************************************************************)
NamesOf(rows) == {n \in Names : rows[n] # "absent"}
SystemNames(rows) == {n \in Names : rows[n] = "system"}

GlobalAllowed(rows) == IF NamesOf(rows) # {} THEN NamesOf(rows) ELSE AllowedEnv
SystemSet(rows) == IF SystemNames(rows) # {} THEN SystemNames(rows) ELSE SystemEnv

\* Layers 1 and 3: what a client with this list may ask for.  An empty list
\* allows everything that is defined; system scopes need not be listed.
MayAsk(rows, list) ==
  {n \in GlobalAllowed(rows) : list = {} \/ n \in list \cup SystemSet(rows)}

\* Mutant: every defined scope is exempt, not only the system's.
WithinNames(rows, asked, owned) == asked \subseteq owned \cup GlobalAllowed(rows)

\* Layer 2, narrowScope: all or nothing.
Within(rows, asked, owned) == asked \subseteq owned \cup SystemSet(rows)

Select(r) == C!Select(r) /\ UNCHANGED <<kind, writes>>
Store(r) == C!Store(r) /\ UNCHANGED <<kind, writes>>
Drop(r) == C!Drop(r) /\ UNCHANGED <<kind, writes>>
CopyExpire == C!Expire /\ UNCHANGED <<kind, writes>>

(***************************************************************************)
(* POST and DELETE /scopes.                                                *)
(***************************************************************************)
Define(n, k) == kind[n] = "absent" /\ kind' = [kind EXCEPT ![n] = k]

\* A row keeps its isSystem, so reading it first and deleting by id is one step.
Undefine(n) == kind[n] = "business" /\ kind' = [kind EXCEPT ![n] = "absent"]

Change ==
  /\ writes < MaxWrites /\ writes' = writes + 1
  /\ \E n \in Names : Define(n, "business") \/ Define(n, "system") \/ Undefine(n)

CreateOrDelete(w) == Change /\ C!Commit(w)
Written(w) == C!InvalidateCache(w) /\ UNCHANGED <<kind, writes>>
AnswerLost(w) == CanFail /\ C!LoseAnswer(w) /\ UNCHANGED <<kind, writes>>
WriteElsewhere == Change /\ C!WriteElsewhere
=============================================================================
