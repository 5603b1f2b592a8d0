----------------------------- MODULE Registration -----------------------------
(***************************************************************************)
(* Registration tokens (repos/tokenRepo.ts) and the POST /register         *)
(* handlers that spend them on clients (routes/register.ts), several at    *)
(* once, while an admin revokes tokens and time runs out on them.          *)
(***************************************************************************)
EXTENDS Naturals, FiniteSets

CONSTANTS Tokens,     \* registration tokens an admin has issued
          SingleUse,  \* those created with singleUse = true
          Handlers,   \* POST /register handlers in progress at once
          None,
          MaxUses,    \* bound: uses of a token that is not single-use
          CanFail     \* whether a statement may fail, a process die

TokensAssumption ==
  SingleUse \subseteq Tokens /\ None \notin Tokens /\ IsFiniteSet(Handlers)
BoundAssumption == MaxUses \in Nat /\ CanFail \in BOOLEAN

VARIABLES
  row,      \* registration_tokens: revoked, used, useCount
  expired,  \* tokens past their expires_at
  reg,      \* the handlers: where, and the token each has spent
  clients   \* apps rows created from each token (created_from_token_id)

vars == <<row, expired, reg, clients>>

Row == [revoked : BOOLEAN, used : BOOLEAN, useCount : Nat]
Handler == [at : {"idle", "metadata", "insert"}, token : Tokens \cup {None}]
Idle == [at |-> "idle", token |-> None]

TypeOK ==
  /\ row \in [Tokens -> Row]
  /\ expired \subseteq Tokens
  /\ reg \in [Handlers -> Handler]
  /\ clients \in [Tokens -> Nat]

Init ==
  /\ row = [t \in Tokens |-> [revoked |-> FALSE, used |-> FALSE, useCount |-> 0]]
  /\ expired = {}
  /\ reg = [h \in Handlers |-> Idle]
  /\ clients = [t \in Tokens |-> 0]

Goto(h, pc, t) == reg' = [reg EXCEPT ![h] = [at |-> pc, token |-> t]]
Answer(h) == reg' = [reg EXCEPT ![h] = Idle]

\* Mutant: the WHERE clause leaves out `used', as verify() followed by
\* recordUse() would between its two statements.
UsableAgain(t) == ~row[t].revoked /\ t \notin expired

\* Mutant: the WHERE clause leaves out `revoked'.
UsableRevoked(t) ==
  /\ t \notin expired
  /\ t \in SingleUse => ~row[t].used

\* The WHERE clause of consumeSingleUse.
Usable(t) ==
  /\ ~row[t].revoked /\ t \notin expired
  /\ t \in SingleUse => ~row[t].used

\* Mutant: use_count is not incremented.
ConsumeUncounted(h, t) ==
  /\ reg[h].at = "idle"
  /\ Usable(t) /\ row[t].useCount < MaxUses
  /\ row' = [row EXCEPT ![t].used = (t \in SingleUse) \/ row[t].used]
  /\ Goto(h, "metadata", t)
  /\ UNCHANGED <<expired, clients>>

\* consumeSingleUse: one UPDATE ... RETURNING; no row is a 401.
Consume(h, t) ==
  /\ reg[h].at = "idle"
  /\ Usable(t) /\ row[t].useCount < MaxUses
  /\ row' = [row EXCEPT ![t] = [revoked |-> row[t].revoked,
                                used |-> (t \in SingleUse) \/ row[t].used,
                                useCount |-> row[t].useCount + 1]]
  /\ Goto(h, "metadata", t)
  /\ UNCHANGED <<expired, clients>>

\* client_name and redirect_uris are checked only now; a 400 gives nothing
\* back.
Validate(h) ==
  /\ reg[h].at = "metadata"
  /\ Goto(h, "insert", reg[h].token) \/ Answer(h)
  /\ UNCHANGED <<row, expired, clients>>

CreateApp(h) ==
  /\ reg[h].at = "insert"
  /\ clients' = [clients EXCEPT ![reg[h].token] = @ + 1]
  /\ Answer(h)
  /\ UNCHANGED <<row, expired>>

Fail(h) ==
  /\ CanFail /\ reg[h].at # "idle"
  /\ Answer(h)
  /\ UNCHANGED <<row, expired, clients>>

\* DELETE /admin-api/tokens/:id, at any moment.
Revoke(t) ==
  /\ row' = [row EXCEPT ![t].revoked = TRUE]
  /\ UNCHANGED <<expired, reg, clients>>

Expire(t) ==
  /\ t \notin expired
  /\ expired' = expired \cup {t}
  /\ UNCHANGED <<row, reg, clients>>

Register(h) ==
  \/ \E t \in Tokens : Consume(h, t)
  \/ Validate(h)
  \/ CreateApp(h)
  \/ Fail(h)

(***************************************************************************)
(* Properties.                                                             *)
(***************************************************************************)
Holding(t) == {h \in Handlers : reg[h].token = t}
Credit(t) == clients[t] + Cardinality(Holding(t))

\* However many handlers race for a single-use token, it makes one client
\* (security.token-toctou.test.ts).
OneClientPerSingleUse == \A t \in SingleUse : Credit(t) <= 1

\* No client without a counted use, so use_count and created_from_token_id
\* account for every client.
EveryClientCounted == \A t \in Tokens : Credit(t) <= row[t].useCount

\* Once a token is revoked, nothing new is started with it; what is already
\* past consumeSingleUse may finish.
RevocationStopsUse ==
  [][\A t \in Tokens : row[t].revoked => Credit(t)' <= Credit(t)]_vars
=============================================================================
