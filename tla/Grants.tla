-------------------------------- MODULE Grants --------------------------------
(***************************************************************************)
(* Who gets which scopes: the requests for grants of one client, against   *)
(* scope definitions that administrators change and that each process      *)
(* keeps a copy of, and against the client's own row, whose list of scopes *)
(* is changed and which is deleted while they run.                         *)
(*                                                                         *)
(* Composed of Scopes and AuthCode.  A request ("ask") is one of           *)
(*   authorize  GET /authorize, which issues the code of AuthCode,         *)
(*   device     POST /device_authorization, and POST /token with a device  *)
(*              code: the one code's own story is in DeviceFlow,           *)
(*   machine    POST /token, grant_type client_credentials,                *)
(*   issue      POST /admin-api/issue-token, for a user the admin names.   *)
(***************************************************************************)
EXTENDS Naturals

CONSTANTS Names, Seeded, AllowedEnv, SystemEnv, MaxWrites,  \* of Scopes
          Exchanges, Confirms, Users,                       \* of AuthCode
          Owned,    \* the scopes the company grants each user
          Offline,  \* "offline_access"
          Wishes,   \* sets of scopes that are asked for
          Asks,     \* requests for grants in progress at once in this process
          Admins,   \* administrators' requests in progress at once in it
          Worlds,   \* bound: the kind of the requests, what moves beside them and
                    \* the other handlers there are: [what, moves, who]
          Lists,    \* bound: the lists an administrator gives the client
          None, CanFail

Readers == Asks \cup Exchanges \cup Admins

\* offline_access is added to whatever is asked for.
Final(wish) == wish \cup {Offline}
Asked == {Final(w) : w \in Wishes}

VARIABLES
  kind, copy, fill, writing, writes,                          \* Scopes
  rec, asked, expired, xchg, confirm, created, spent, overlap,  \* AuthCode
  app,    \* the client's allowed_scopes, None without a row
  ask,    \* the requests: [at, list, rows, user, scope], see Idle
  admin,  \* the administrators' requests: [at, list]
  devices,  \* the scopes of the device codes the client has outstanding
  world   \* one of Worlds

scopeVars == <<kind, copy, fill, writing, writes>>
codeVars == <<rec, asked, expired, xchg, confirm, created, spent, overlap>>
vars == <<scopeVars, codeVars, app, ask, admin, devices, world>>

S == INSTANCE Scopes WITH Writers <- Admins
A == INSTANCE AuthCode

ASSUME NamesAssumption == S!NamesAssumption
ASSUME CodeAssumption == A!UsersAssumption /\ A!SwitchAssumption
ASSUME OwnedAssumption == Owned \in [Users -> SUBSET Names] /\ Offline \in Names
\* seed.ts defines offline_access, and it is a system scope.
ASSUME SeedAssumption == Seeded[Offline] = "system"
ASSUME RequestsAssumption ==
  /\ Wishes \subseteq SUBSET Names /\ Lists \subseteq SUBSET Names
  /\ Asks \cap (Exchanges \cup Admins) = {}
\* Whatever stands for null is none of the values that may be there instead.
ASSUME NoneAssumption ==
  /\ \A scope \in SUBSET Names : scope # None
  /\ None \notin A!Record
  /\ None \notin [rows : [Names -> S!Kinds], late : BOOLEAN]

\* `list' is the client's when it was read, `rows' the definitions when they
\* were, `user' the one the grant is for.
Idle == [at |-> "idle", list |-> {}, rows |-> None, user |-> None, scope |-> {}]
AdminIdle == [at |-> "idle", list |-> {}]

TypeOK ==
  /\ S!TypeOK /\ A!TypeOK
  /\ app \in {None} \cup SUBSET Names
  /\ devices \subseteq Asked
  /\ \A a \in Asks :
       /\ ask[a].at \in {"idle", "sets", "rows", "client", "create"}
       /\ ask[a].scope \subseteq Names /\ ask[a].list \subseteq Names
       /\ (ask[a].at = "rows") = (fill[a] # None)
       /\ ask[a].at \in {"sets", "rows"} /\ world.what = "issue" => ask[a].user \in Users
  /\ \A d \in Admins :
       admin[d].at \in {"idle", "sets", "rows", "update", "delete", "write"}

Init ==
  /\ S!Init /\ A!Init
  /\ app = {}
  /\ ask = [a \in Asks |-> Idle]
  /\ admin = [d \in Admins |-> AdminIdle]
  /\ devices = {}
  /\ world \in Worlds

(***************************************************************************)
(* The requests for a grant.                                               *)
(***************************************************************************)
\* Mutant: client authentication does not look the client up.
KnownAlways == TRUE

\* verifyClient, or findByClientId in GET /authorize.
Known == app # None

\* AUTHORIZE keeps the row it found; ISSUE needs no client, and the company has
\* answered with the user's scopes.
BeginAsk(a) ==
  /\ ask[a].at = "idle"
  /\ \/ /\ world.what # "issue" /\ Known
        /\ ask' = [ask EXCEPT ![a] = [Idle EXCEPT
                     !.at = "sets",
                     !.list = IF world.what = "authorize" /\ app # None THEN app ELSE {}]]
     \/ /\ world.what = "issue"
        /\ \E u \in Users : ask' = [ask EXCEPT ![a] = [Idle EXCEPT !.at = "sets", !.user = u]]
  /\ UNCHANGED <<scopeVars, codeVars, app, admin, devices, world>>

\* POST /token with a device code that some user has authorized: whoever polls
\* is authenticated as a client, but not compared with the client of the code.
BeginPoll(a) ==
  /\ world.what = "device" /\ ask[a].at = "idle"
  /\ \E scope \in devices, u \in Users :
       ask' = [ask EXCEPT ![a] = [Idle EXCEPT !.at = "sets", !.scope = scope, !.user = u]]
  /\ UNCHANGED <<scopeVars, codeVars, app, admin, devices, world>>

Polls(a) == world.what = "device" /\ ask[a].user # None

\* narrowScope of the device grant: the scope of the code, or nothing.
NarrowPoll(a, rows) ==
  ask' = [ask EXCEPT ![a] = IF S!Within(rows, ask[a].scope, Owned[ask[a].user])
                            THEN [Idle EXCEPT !.at = "create", !.scope = ask[a].scope, !.user = ask[a].user]
                            ELSE Idle]

\* The layers allow the whole of a wish, or nothing (invalid_scope).  ISSUE asks
\* getSets twice and the second time gets the rows of the first; while the table
\* is empty it lets everything pass where the others take ALLOWED_SCOPES.
Decide(a, rows, list) ==
  \E w \in Wishes :
    LET granted ==
          IF world.what = "issue"
          THEN /\ S!NamesOf(rows) # {} => w \subseteq S!NamesOf(rows)
               /\ S!Within(rows, w, Owned[ask[a].user])
          ELSE w \subseteq S!MayAsk(rows, list)
    IN ask' = [ask EXCEPT ![a] =
                 IF granted THEN [Idle EXCEPT !.at = "create", !.scope = Final(w), !.user = ask[a].user]
                            ELSE Idle]

\* getSets has answered: DEVICE and MACHINE look the client up once more.
HaveRows(a, rows) ==
  \/ Polls(a) /\ NarrowPoll(a, rows)
  \/ /\ ~Polls(a) /\ world.what \in {"device", "machine"}
     /\ ask' = [ask EXCEPT ![a].at = "client", ![a].rows = rows]
  \/ world.what \notin {"device", "machine"} /\ Decide(a, rows, ask[a].list)

GetSets(a) ==
  /\ ask[a].at = "sets"
  /\ \/ copy # None /\ HaveRows(a, copy.rows) /\ UNCHANGED scopeVars
     \/ S!Select(a) /\ ask' = [ask EXCEPT ![a].at = "rows"]
  /\ UNCHANGED <<codeVars, app, admin, devices, world>>

SetsArrive(a) ==
  /\ ask[a].at = "rows"
  /\ S!Store(a)
  /\ HaveRows(a, fill[a].rows)
  /\ UNCHANGED <<codeVars, app, admin, devices, world>>

\* findByClientId: a client deleted since then counts as one without a list.
FindClient(a) ==
  /\ ask[a].at = "client"
  /\ Decide(a, ask[a].rows, IF app = None THEN {} ELSE app)
  /\ UNCHANGED <<scopeVars, codeVars, app, admin, devices, world>>

\* createAuthCode, createDeviceCode, createMachineSession or createSession.  Of
\* the client's authorization codes AuthCode follows any one.
CreateGrant(a) ==
  /\ ask[a].at = "create"
  /\ ask' = [ask EXCEPT ![a] = Idle]
  /\ \/ world.what = "authorize" /\ A!Create(ask[a].scope)
     \/ UNCHANGED codeVars
  /\ devices' = IF world.what = "device" /\ ~Polls(a) THEN devices \cup {ask[a].scope} ELSE devices
  /\ UNCHANGED <<scopeVars, app, admin, world>>

\* A device code is past its expiresAt.  Until then it counts as outstanding:
\* a stale copy of the record may bring back even one that was consumed
\* (DeviceFlow).
DeviceOver(scope) ==
  /\ scope \in devices
  /\ devices' = devices \ {scope}
  /\ UNCHANGED <<scopeVars, codeVars, app, ask, admin, world>>

FailAsk(a) ==
  /\ CanFail /\ ask[a].at # "idle"
  /\ ask' = [ask EXCEPT ![a] = Idle]
  /\ IF ask[a].at = "rows" THEN S!Drop(a) ELSE UNCHANGED scopeVars
  /\ UNCHANGED <<codeVars, app, admin, devices, world>>

(***************************************************************************)
(* The exchanges, with narrowScope; the confirmations.                     *)
(***************************************************************************)
Narrowed(e, rows) == A!Narrowed(e, S!Within(rows, asked, Owned[xchg[e].user]))

Narrow(e) ==
  /\ xchg[e].at = "narrow"
  /\ \/ copy # None /\ Narrowed(e, copy.rows) /\ UNCHANGED scopeVars
     \/ S!Select(e) /\ A!AwaitRows(e)
  /\ UNCHANGED <<app, ask, admin, devices, world>>

NarrowRows(e) ==
  /\ xchg[e].at = "rows"
  /\ S!Store(e)
  /\ Narrowed(e, fill[e].rows)
  /\ UNCHANGED <<app, ask, admin, devices, world>>

FailExchange(e) ==
  /\ A!Fail(e)
  /\ IF xchg[e].at = "rows" THEN S!Drop(e) ELSE UNCHANGED scopeVars
  /\ UNCHANGED <<app, ask, admin, devices, world>>

ExchangeNext(e) ==
  /\ A!ConsumeGet(e) \/ A!ConsumeSet(e) \/ A!CreateSession(e) \/ A!Issue(e)
  /\ UNCHANGED <<scopeVars, app, ask, admin, devices, world>>

CodeExpire ==
  /\ A!Expire
  /\ UNCHANGED <<scopeVars, app, ask, admin, devices, world>>

Code ==
  /\ \/ \E e \in Exchanges \cap world.who : A!Begin(e)
     \/ \E f \in Confirms \cap world.who : A!AuthorizeGet(f) \/ A!AuthorizeSet(f)
     \/ A!KeyExpire
  /\ UNCHANGED <<scopeVars, app, ask, admin, devices, world>>

(***************************************************************************)
(* The administrators: POST /apps/:id/scopes, DELETE /apps/:id, POST and   *)
(* DELETE /scopes.                                                         *)
(***************************************************************************)
AdminAt(d, at) == admin' = [admin EXCEPT ![d].at = at]

\* findById; the deletion revokes the client's sessions next (Sessions).
BeginAdmin(d) ==
  /\ "client" \in world.moves
  /\ admin[d].at = "idle" /\ app # None
  /\ AdminAt(d, "sets") \/ AdminAt(d, "delete")
  /\ UNCHANGED <<scopeVars, codeVars, app, ask, devices, world>>

\* Every scope of the list must be defined, while any is.
ListAgainst(d, rows) ==
  \E list \in Lists :
    admin' = [admin EXCEPT ![d] =
                IF S!NamesOf(rows) # {} => list \subseteq S!NamesOf(rows)
                THEN [at |-> "update", list |-> list] ELSE AdminIdle]

AdminSets(d) ==
  /\ \/ /\ admin[d].at = "sets" /\ copy # None
        /\ ListAgainst(d, copy.rows) /\ UNCHANGED scopeVars
     \/ admin[d].at = "sets" /\ S!Select(d) /\ AdminAt(d, "rows")
     \/ admin[d].at = "rows" /\ S!Store(d) /\ ListAgainst(d, fill[d].rows)
  /\ UNCHANGED <<codeVars, app, ask, devices, world>>

\* Mutant: the list is stored by INSERT ... ON CONFLICT DO UPDATE.
SetOrInsert(d) ==
  /\ admin[d].at = "update"
  /\ app' = admin[d].list
  /\ admin' = [admin EXCEPT ![d] = AdminIdle]
  /\ UNCHANGED <<scopeVars, codeVars, ask, devices, world>>

\* UPDATE ... WHERE id.
SetAllowedScopes(d) ==
  /\ admin[d].at = "update"
  /\ app' = IF app = None THEN None ELSE admin[d].list
  /\ admin' = [admin EXCEPT ![d] = AdminIdle]
  /\ UNCHANGED <<scopeVars, codeVars, ask, devices, world>>

DeleteApp(d) ==
  /\ admin[d].at = "delete"
  /\ app' = None
  /\ admin' = [admin EXCEPT ![d] = AdminIdle]
  /\ UNCHANGED <<scopeVars, codeVars, ask, devices, world>>

\* Mutant: a definition that goes is taken out of the client's list as well.
WriteScopesPruning(d) ==
  /\ "definitions" \in world.moves
  /\ admin[d].at = "idle"
  /\ S!CreateOrDelete(d)
  /\ AdminAt(d, "write")
  /\ app' = IF app = None THEN None ELSE {n \in app : kind'[n] # "absent"}
  /\ UNCHANGED <<codeVars, ask, devices, world>>

WriteScopes(d) ==
  /\ "definitions" \in world.moves
  /\ admin[d].at = "idle"
  /\ S!CreateOrDelete(d)
  /\ AdminAt(d, "write")
  /\ UNCHANGED <<codeVars, app, ask, devices, world>>

ScopesWritten(d) ==
  /\ admin[d].at = "write"
  /\ S!Written(d) \/ S!AnswerLost(d)
  /\ AdminAt(d, "idle")
  /\ UNCHANGED <<codeVars, app, ask, devices, world>>

ScopesElsewhere ==
  /\ "definitions" \in world.moves
  /\ S!WriteElsewhere \/ S!CopyExpire
  /\ UNCHANGED <<codeVars, app, ask, admin, devices, world>>

AskNext(a) == GetSets(a) \/ SetsArrive(a) \/ FindClient(a) \/ CreateGrant(a)

Next ==
  \/ \E a \in Asks : BeginAsk(a) \/ BeginPoll(a) \/ AskNext(a) \/ FailAsk(a)
  \/ \E scope \in Asked : DeviceOver(scope)
  \/ \E e \in Exchanges : Narrow(e) \/ NarrowRows(e) \/ ExchangeNext(e) \/ FailExchange(e)
  \/ Code \/ CodeExpire
  \/ \E d \in Admins \cap world.who :
       \/ BeginAdmin(d) \/ AdminSets(d) \/ SetAllowedScopes(d) \/ DeleteApp(d)
       \/ WriteScopes(d) \/ ScopesWritten(d)
  \/ ScopesElsewhere

Spec == Init /\ [][Next]_vars

\* Handlers run to their end, and the codes to theirs.
Fairness ==
  /\ \A a \in Asks : WF_vars(AskNext(a))
  /\ \A e \in Exchanges : WF_vars(Narrow(e) \/ NarrowRows(e) \/ ExchangeNext(e))
  /\ \A scope \in Asked : WF_vars(DeviceOver(scope))
  /\ WF_vars(CodeExpire)

FairSpec == Spec /\ Fairness

(***************************************************************************)
(* Properties; PaidFor, TwiceOnlyByOverlap and ConsumedIsFinal are those   *)
(* of AuthCode.                                                            *)
(***************************************************************************)
PaidFor == A!PaidFor
TwiceOnlyByOverlap == A!TwiceOnlyByOverlap
ConsumedIsFinal == A!ConsumedIsFinal

\* What a session for a user is about to be created with: [user, scope].
Granted ==
  {[user |-> xchg[e].user, scope |-> asked] : e \in {x \in Exchanges : xchg[x].at = "session"}}
  \cup
  {[user |-> ask[a].user, scope |-> ask[a].scope] :
     a \in {x \in Asks : ask[x].at = "create" /\ ask[x].user # None}}

\* No session for a user holds a business scope that the company does not grant
\* that user (narrowScope): however old the definitions it was narrowed with,
\* whatever is not the user's is a system scope to this day.
NothingBeyondTheUser ==
  \A g \in Granted : g.scope \subseteq Owned[g.user] \cup S!SystemNames(kind) \cup {Offline}

\* Deleting a definition never lets a client ask for more, although an empty
\* list, and a table without names, both stand for "everything".
NeverWidened ==
  [][(\A n \in Names : kind'[n] \in {kind[n], "absent"}) /\ kind' # kind /\ app # None
       => app' # None /\ S!MayAsk(kind', app') \subseteq S!MayAsk(kind, app)]_vars

\* Nothing is left of a client by which anybody could get a code or a session
\* as that client: no request under way, no device code (which is exchanged
\* under the credentials of any client), no authorization code that is not
\* over.  The sessions it has already are revoked one by one (Sessions), and
\* issue-token, which is for a user and names no client, goes on.
Settled ==
  /\ \A e \in Exchanges : xchg[e].at = "idle"
  /\ \A a \in Asks : ask[a].at = "idle"
  /\ devices = {}
  /\ \/ asked = None \/ expired
     \/ A!Is("consumed") /\ \A f \in Confirms : confirm[f].at = "idle"

Deleted == world.what # "issue" /\ app = None

\* Once a deleted client (adminWeb.ts:201) has nothing left, it gets nothing
\* any more: the last of its codes and requests leaves none behind.
DeletionIsFinal == [][Deleted /\ Settled => (Deleted /\ Settled)']_vars

\* Every deletion takes effect in the end, for good: whatever the requests did
\* that had passed the authentication, an administrator who was changing the
\* list of the client, and the codes that were not redeemed.
DeletionTakesEffect == Deleted ~> []Settled
=============================================================================
