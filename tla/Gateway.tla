------------------------------- MODULE Gateway -------------------------------
(***************************************************************************)
(* /proxy/* (routes/gateway.ts): the requests of one session, with one     *)
(* access token, that several handlers of one process forward to the       *)
(* company application.  A handler verifies the token, finds the session,  *)
(* counts the request, takes the company token (which looks the session up *)
(* once more, see CompanyRefresher), and asks the route policies; every    *)
(* one of these waits for something that can change meanwhile.             *)
(*                                                                         *)
(* Composed of SigningKeys, RateLimit, RoutePolicies and CompanyApp.  Of   *)
(* the session only what Sessions shows of it is kept: whether its row is  *)
(* active, and that cached copies let it be found for some time after.     *)
(***************************************************************************)
EXTENDS Naturals, Sequences

CONSTANTS Handlers, Signers, Keys, SeededKey, None,
          Requests,  \* [method, path]
          Limit, PageMax, PageDefault, MaxOrders,
          Creatable, Deletable, Writers, MaxWrites, CanFail,
          Worlds     \* bound: whose session it is, with user None for a machine's,
                     \* its scope, which names were system scopes when that was
                     \* narrowed, and which part moves: [user, scope, system, moves]

VARIABLES
  status, active, signer, signed, jwks, loading,    \* SigningKeys
  table, nextId, copy, fill, writing, writes,       \* RoutePolicies
  count, ttl,                                       \* RateLimit
  world,    \* one of Worlds; the parts that do not move keep still
  session,  \* "live", "fading" (revoked, still in the cache), "dead"
  at,       \* what each handler waits for
  kid,      \* the key of the token each handler verifies
  sent      \* what each handler has forwarded: [r, by], or None

keyVars == <<status, active, signer, signed, jwks, loading>>
policyVars == <<table, nextId, copy, fill, writing, writes>>
limitVars == <<count, ttl>>
sessionVars == <<world, session>>
vars == <<keyVars, policyVars, limitVars, sessionVars, at, kid, sent>>

Co == INSTANCE CompanyApp
K == INSTANCE SigningKeys WITH Readers <- Handlers
P == INSTANCE RoutePolicies WITH Readers <- Handlers, StartsWith <- Co!StartsWith
L == INSTANCE RateLimit

ASSUME KeysAssumption == K!KeysAssumption
ASSUME BoundAssumption == P!BoundAssumption
ASSUME LimitAssumption == L!LimitAssumption
ASSUME PageAssumption == Co!PageAssumption
\* A user's session holds scopes the company grants that user, and system scopes,
\* offline_access among them (NothingBeyondTheUser of Grants).
ASSUME WorldsAssumption ==
  \A x \in Worlds : x.user # None => x.scope \subseteq Co!ScopesOf[x.user] \cup x.system
\* Whatever stands for null is none of the values that may be there instead.
ASSUME NoneAssumption ==
  /\ None \notin [rows : SUBSET Keys, late : BOOLEAN]
  /\ None \notin [rows : Seq(P!Row), late : BOOLEAN]
  /\ None \notin [r : Requests, by : P!Row]
  /\ None # "GET"

TypeOK ==
  /\ K!TypeOK /\ P!TypeOK /\ L!TypeOK
  /\ world \in Worlds /\ session \in {"live", "fading", "dead"}
  /\ at \in [Handlers ->
       {"idle", "keys", "session", "limit", "company", "policies", "rows", "forward"}]
  /\ \A h \in Handlers :
       /\ (at[h] = "keys") = (loading[h] # None)
       /\ (at[h] = "rows") = (fill[h] # None)
       /\ (at[h] = "forward") = (sent[h] # None)

Init ==
  /\ K!Init /\ P!Init /\ L!Init
  /\ world \in Worlds /\ session = "live"
  /\ at = [h \in Handlers |-> "idle"]
  /\ kid = [h \in Handlers |-> None]
  /\ sent = [h \in Handlers |-> None]

Goto(h, a) == at' = [at EXCEPT ![h] = a]

(***************************************************************************)
(* One handler.  An answer of the gateway's own (401, 403, 429, 500) is a  *)
(* step back to "idle".                                                    *)
(***************************************************************************)
\* jwtVerify against a set of public keys.
Verify(h, k, rows) ==
  /\ Goto(h, IF k \in rows THEN "session" ELSE "idle")
  /\ kid' = [kid EXCEPT ![h] = None]

Begin(h) ==
  /\ at[h] = "idle"
  /\ \E k \in signed :
       \/ /\ jwks # None
          /\ Verify(h, k, jwks.rows)
          /\ UNCHANGED keyVars
       \/ /\ K!ListVerifiers(h)
          /\ Goto(h, "keys")
          /\ kid' = [kid EXCEPT ![h] = k]
  /\ UNCHANGED <<policyVars, limitVars, sessionVars, sent>>

Verified(h) ==
  /\ at[h] = "keys"
  /\ K!StoreVerifiers(h)
  /\ Verify(h, kid[h], loading[h].rows)
  /\ UNCHANGED <<policyVars, limitVars, sessionVars, sent>>

\* Mutant: a valid token is enough.
FoundAlways == TRUE

\* findSessionBySessionId: a revoked session is found until its cached copies
\* are gone (RevocationTakesEffect of Sessions).
Found == session # "dead"

FindSession(h) ==
  /\ at[h] = "session"
  /\ Goto(h, IF Found THEN "limit" ELSE "idle")
  /\ UNCHANGED <<keyVars, policyVars, limitVars, sessionVars, kid, sent>>

\* enforceRateLimit, then hasCompanyToken.
EnforceRateLimit(h) ==
  /\ at[h] = "limit"
  /\ L!Eval
  /\ Goto(h, IF L!Allowed /\ world.user # None THEN "company" ELSE "idle")
  /\ UNCHANGED <<keyVars, policyVars, sessionVars, kid, sent>>

\* ensureFresh finds the session again.
EnsureFresh(h) ==
  /\ at[h] = "company"
  /\ Goto(h, IF Found THEN "policies" ELSE "idle")
  /\ UNCHANGED <<keyVars, policyVars, limitVars, sessionVars, kid, sent>>

\* Mutant: a policy's scope is not looked at.
PermitsUnscoped(policy) == policy # None

\* Default deny; the policy's scope must be among the token's.
Permits(policy) ==
  /\ policy # None
  /\ policy.scope = None \/ policy.scope \in world.scope

\* The policies `rows' decide about a request.
Decide(h, rows) ==
  \E r \in Requests :
    LET found  == P!FindMatchingPolicy(rows, r)
        policy == IF found = None THEN None ELSE found.policy
    IN IF Permits(policy)
       THEN Goto(h, "forward") /\ sent' = [sent EXCEPT ![h] = [r |-> r, by |-> found]]
       ELSE Goto(h, "idle") /\ UNCHANGED sent

GetPolicies(h) ==
  /\ at[h] = "policies"
  /\ \/ copy # None /\ Decide(h, copy.rows) /\ UNCHANGED policyVars
     \/ P!SelectPolicies(h) /\ Goto(h, "rows") /\ UNCHANGED sent
  /\ UNCHANGED <<keyVars, limitVars, sessionVars, kid>>

RowsArrive(h) ==
  /\ at[h] = "rows"
  /\ P!StorePolicies(h)
  /\ Decide(h, fill[h].rows)
  /\ UNCHANGED <<keyVars, limitVars, sessionVars, kid>>

\* The company answers, whatever it answers.
Forwarded(h) ==
  /\ at[h] = "forward"
  /\ Goto(h, "idle")
  /\ sent' = [sent EXCEPT ![h] = None]
  /\ UNCHANGED <<keyVars, policyVars, limitVars, sessionVars, kid>>

\* An await of the handler throws, ensureFresh's CompanyAuthError included.
Fail(h) ==
  /\ CanFail /\ at[h] # "idle"
  /\ Goto(h, "idle")
  /\ kid' = [kid EXCEPT ![h] = None]
  /\ sent' = [sent EXCEPT ![h] = None]
  /\ IF at[h] = "keys" THEN K!DropVerifiers(h) ELSE UNCHANGED keyVars
  /\ IF at[h] = "rows" THEN P!DropPolicies(h) ELSE UNCHANGED policyVars
  /\ UNCHANGED <<limitVars, sessionVars>>

(***************************************************************************)
(* Everything else that happens.                                           *)
(***************************************************************************)
Signing(s) ==
  /\ world.moves = "keys"
  /\ K!GetCached(s) \/ K!SelectActive(s) \/ K!CacheSetActive(s)
  /\ UNCHANGED <<policyVars, limitVars, sessionVars, at, kid, sent>>

ActiveExpire ==
  /\ K!ActiveExpire
  /\ UNCHANGED <<policyVars, limitVars, sessionVars, at, kid, sent>>

JwksExpire ==
  /\ world.moves = "keys"
  /\ K!JwksExpire
  /\ UNCHANGED <<policyVars, limitVars, sessionVars, at, kid, sent>>

PolicyCopyExpire ==
  /\ world.moves = "policies"
  /\ P!CopyExpire
  /\ UNCHANGED <<keyVars, limitVars, sessionVars, at, kid, sent>>

WindowEnds ==
  /\ L!WindowEnds
  /\ UNCHANGED <<keyVars, policyVars, sessionVars, at, kid, sent>>

RotateKeys ==
  /\ world.moves = "keys"
  /\ \E k \in Keys : K!AddKey(k) \/ K!Retire(k)
  /\ UNCHANGED <<policyVars, limitVars, sessionVars, at, kid, sent>>

WritePolicies(w) ==
  /\ world.moves = "policies"
  /\ P!CreateOrDelete(w)
  /\ UNCHANGED <<keyVars, limitVars, sessionVars, at, kid, sent>>

PoliciesWritten(w) ==
  /\ P!Invalidate(w) \/ P!LoseAnswer(w)
  /\ UNCHANGED <<keyVars, limitVars, sessionVars, at, kid, sent>>

WritePoliciesElsewhere ==
  /\ world.moves = "policies"
  /\ P!WriteElsewhere
  /\ UNCHANGED <<keyVars, limitVars, sessionVars, at, kid, sent>>

Revoke ==
  /\ world.moves = "session" /\ session = "live"
  /\ session' = "fading"
  /\ UNCHANGED <<keyVars, policyVars, limitVars, world, at, kid, sent>>

FadeOut ==
  /\ session = "fading"
  /\ session' = "dead"
  /\ UNCHANGED <<keyVars, policyVars, limitVars, world, at, kid, sent>>

HandlerStep(h) ==
  \/ Verified(h) \/ FindSession(h) \/ EnforceRateLimit(h) \/ EnsureFresh(h)
  \/ GetPolicies(h) \/ RowsArrive(h) \/ Forwarded(h)

Next ==
  \/ \E h \in Handlers : Begin(h) \/ HandlerStep(h) \/ Fail(h)
  \/ \E s \in Signers : Signing(s)
  \/ \E w \in Writers : WritePolicies(w) \/ PoliciesWritten(w)
  \/ ActiveExpire \/ JwksExpire \/ PolicyCopyExpire \/ WindowEnds
  \/ RotateKeys \/ WritePoliciesElsewhere \/ Revoke \/ FadeOut

\* Every await answers or throws, every TTL runs out, and so do the cached
\* copies of a revoked session.
Fairness ==
  /\ \A h \in Handlers : WF_vars(HandlerStep(h))
  /\ \A s \in Signers : WF_vars(Signing(s))
  /\ \A w \in Writers : WF_vars(PoliciesWritten(w))
  /\ WF_vars(ActiveExpire) /\ WF_vars(JwksExpire) /\ WF_vars(PolicyCopyExpire)
  /\ WF_vars(WindowEnds) /\ WF_vars(FadeOut)

Spec == Init /\ [][Next]_vars /\ Fairness

(***************************************************************************)
(* Properties; the rest are the components' own.                           *)
(***************************************************************************)
PolicyCopyCurrent == P!CopyCurrent
AppendKeepsDecisions == P!AppendKeepsDecisions
DeletedPolicyForgotten == P!DeletedPolicyForgotten
RetiredKeyForgotten == K!RetiredKeyForgotten
NobodyLockedOut == L!NobodyLockedOut

\* The seeded policies are no looser than the company application itself
\* (gateway.ts:89): what is forwarded under one of them is served, not refused
\* for want of a scope; unless an administrator had made a system scope of the
\* name the policy asks for, which every session may hold then.
CompanyAgrees ==
  \A h \in Handlers :
    /\ sent[h] # None /\ sent[h].by.id \in DOMAIN P!Seeded
    /\ sent[h].by.policy.scope \notin world.system
    => Co!Served(world.user, sent[h].r)

\* Who is let through to the list of orders gets the whole of it by following
\* nextCursor (data.ts:204), with any limit in the request but one between 0 and
\* 1, which gets an empty page and no cursor to go on with.
OrdersList == [method |-> "GET", path |-> "/api/orders"]
PagingComplete ==
  (\E h \in Handlers : sent[h] # None /\ sent[h].r = OrdersList) => Co!PagingComplete

\* A revoked session stops being forwarded for good, although a handler may
\* have found it just before and still be on its way.
RevokedStops == session # "live" ~> [](\A h \in Handlers : sent[h] = None)
=============================================================================
