# Verification of auth-proxy

TLA+ models of the authentication proxy in `src/`: its server
(`apps/server`), which logs command-line clients in with a company account and
forwards their requests, and the company application as it behaves towards
the server (`apps/company-mock`). Paths below are relative to `src/`;
`server/` stands for `apps/server/src/`.

## 1. Inventory

Several instances of the server share one Postgres and one Redis. Postgres is
the authority for everything durable, Redis holds copies with a TTL, short-lived
records, a lock and counters. The server is JavaScript: between two `await`s a
handler runs alone in its process, at each `await` any other handler of this or
another instance may run. There are hardly any transactions; a handler is a
sequence of independent statements and commands, and may stop after any of them.

| Component | State it keeps | Operations | What makes it correct |
| --- | --- | --- | --- |
| Sessions (`server/repos/sessionRepo.ts`, `sessionStore.ts`, `routes/token.ts`, `revoke.ts`, `userInfo.ts`) | `sessions`, `refresh_token_history`, `session:<sid>` (300 s) | login, refresh with rotation and reuse detection, access, revocation by token, client or reuse | a refresh id rotates once; reuse is recognised and never presumed; a revoked session stays revoked |
| Company token refresher (`companyTokenRefresher.ts`, `companyAuth.ts`) | `sessions.company_*`, its cached copy, `refresh-lock:<sid>` (30 s) | `ensureFresh`, `waitForRefresh` | one-time refresh tokens are never lost or reused; nobody waits for ever |
| Device flow (`deviceCodeStore.ts`, `repos/deviceCodeRepo.ts`, `routes/verify.ts`, `token.ts`) | `devcode:<code>`, `devcode-user:<user code>` | create, poll, log in, redeem | one session per code; an authorization reaches the CLI |
| Authorization code flow (`authCodeStore.ts`, `repos/authCodeRepo.ts`, `routes/authorize.ts`, `token.ts`) | `authcode:<code>` | create, confirm, exchange | one session per code |
| Registration (`repos/tokenRepo.ts`, `routes/register.ts`) | `registration_tokens`, `apps` | issue, consume, revoke, register | a single-use token makes one client |
| Administrators (`repos/adminRepo.ts`, `middleware/adminSession.ts`, `routes/adminWeb.ts`) | `admins`, signed cookies | login, create, delete, rename, password | somebody can always log in |
| Clients (`repos/appRepo.ts`, `adminWeb.ts`) | `apps` | authenticate, restrict, kick, delete | a deleted client, once what it had under way is over, gets nothing any more |
| Gateway (`routes/gateway.ts`) | none | verify, find the session, rate-limit, refresh, policy, forward | default deny; what is revoked, deleted or retired stops counting in the end |
| Scopes (`repos/scopeRepo.ts`, `token.ts`, `authorize.ts`, `deviceAuthorization.ts`) | `scopes`, a per-process copy (60 s) | define, delete, check, narrow | what is granted is defined, allowed to the client and owned by the user |
| Route policies (`repos/routePolicyRepo.ts`) | `route_policies`, a per-process copy (60 s) | create, delete, first match | deny unless a policy matches |
| Signing keys (`repos/signingKeyRepo.ts`, `jwt.ts`) | `signing_keys`, copies in Redis (600 s) and in the process (60 s) | sign, verify, rotate | what is signed can be verified |
| Rate limits (`middleware/rateLimit.ts`) | counters with a TTL | count and expire | at most the limit per window |
| Company application (`apps/company-mock/src`) | its tokens; accounts and orders are constant | login, refresh, revoke, list | one-time refresh tokens; its scopes are those the gateway asks for |
| Audit log, configuration, start-up, metadata, admin UI, migrations | see `PROJECT.json` | | |

How they meet: every grant of `POST /token` ends in *Sessions*; the gateway
and `/user_info` read a session through its cache; the gateway asks the
*refresher* for a company token, which reads sessions through the same cache
and empties it; the back office revokes the sessions of a client, manages
registration tokens and administrators; `POST /register` turns a token into a
client.

What is hard: a copy filled from a row that was read before an `await`; checks
and writes of one record in two commands; handlers that stop half-way; a lock
that may outlive its holder or be outlived by it; retries that look like
theft. `PROJECT.json` lists each of these at its line under `hazards`.

## 2. Plan

Done:

1. `Sessions`, `CompanyRefresher`, `DeviceFlow`, `AuthCode`, `Registration`,
   `Admins`, and `BackOffice`, which composes the last two.
2. `TokenFamily`, what a chain of refresh tokens promises, and
   `SessionsRefinement`, which shows that `Sessions` implements it.
3. `LocalCopy`, the copy of a table that a process keeps, and its three users
   `RoutePolicies`, `Scopes` and `SigningKeys`; `RateLimit`; `CompanyApp`.
4. `Gateway`, which composes keys, policies, limiter and company application;
   `Grants`, which composes scopes, the authorization code and the client's row.
5. Theorems: every safety invariant and every action property that a passing run
   checks, the refinement of `TokenFamily` by `Sessions`, and that the copies of
   the policies, of the scopes and of the public keys implement `LocalCopy`.

Left:

- The client's row of `Grants` and the sessions of `Sessions` in one module, so
  that deleting a client while one of its grants creates a session is one run
  (`adminWeb.ts:208`); today each half is a module of its own. The theorems
  about both halves would carry over.

## 3. The modules

In all of them an action is one statement on Postgres or one command on Redis
with the code around it up to the next `await`; `at` is where a handler is.
Failing actions (`Fail`, `Throw`, `Crash`, `Abort`) stop a handler at any
`await`: the statement threw (`app.onError` answers 500) or the process died.
Real time appears only as the expiry the code compares with. Random values are
fresh. Signatures of tokens are taken to be sound: a client presents only what
it was given. Operators named `Mutant` in their comment are faulty versions of
the definition that follows them; no specification uses them, they are there to
show which property notices which fault.

**Sessions.** `row` is the table `sessions` (of a row: the refresh id, `revoked`
and the client), `history` is `refresh_token_history`, `cache` the Redis
copies. `window` holds the ids recorded within the last
`REFRESH_REUSE_GRACE_SEC`, oldest first: `GraceLapse` drops the oldest, so all orders of
lapses and requests occur that a clock allows. `owner` is the `sub` signed into the
refresh token of an id, `delivered` what has reached a client: refresh ids, each with
the session of the tokens it came with.
`Create..CreateFill..Reply` is a login by any grant,
`FindByRefresh..FindFill..RecordRefreshRotation..RotateRefresh|RotateMiss..
RotateFill..Reply` the refresh grant, `FindRefreshHistory` and what follows
`handleGraceOrReuse`, `Access..CacheGet..SelectBySession..SessionFill`
`findBySession`, `RevokeRows..CacheInvalidate` every revocation. The SELECT of
the user that `hydrate` makes is folded into the statement before it, since
nothing here depends on users.

**TokenFamily, SessionsRefinement.** The abstract specification knows neither
caches nor handlers: a session is a family of refresh ids, one current and the
others retired, no id in two families; a live family moves on by retiring its
current id, a revoked one never moves. The mapping reads only tables: `fam` is the
row with the ids `refresh_token_history` has under its session, leaving out
the current one, which is recorded before it is rotated away; `held` is
`delivered`, so an id is handed out as one of the session it was drawn for.
Cache, window and handlers map to nothing, so every step on them is a
stutter, and the step that records is one too.

**CompanyRefresher.** One session. The company numbers its pairs; only the last
one's refresh token works, once. `pg` and `cache` are the pair in the row and in
the copy, `aged` says which pairs need a refresh, `lost` and `overrun` record
that a pair was lost by a failure and that the lock ran out under a holder.

**DeviceFlow.** One device code; `rec` and `byUser` are its two keys, `expired`
whether `Date.now()` is past `expiresAt` (the keys vanish later, since every
poll gives the record a full TTL again). `poll` and `login` are the handlers with
the copy of the record they hold.

**AuthCode.** One authorization code. `authorizeAuthCode` is exported by
`authCodeStore.ts` and called by no route of this version, so the flow cannot be
completed although `README.md:144-146` and the metadata advertise it; the model
runs it as the store defines it, for the login page that is to call it. It is
checked as a part of `Grants`, whose `GET /authorize` creates the code.

**LocalCopy.** `cache` of `routePolicyRepo.ts` and `scopeRepo.ts` (the two are
the same code) and `jwksCache` of `jwt.ts`: a reader that finds no copy SELECTs
and assigns the variable when the rows arrive; a writer of the same process clears
it when its statement has answered; other processes write without telling. The
table is a variable of the instantiating module. `late` is history: these rows were
overtaken by a write and will not be, or were not, cleared for it.

**RoutePolicies.** The table in the order of its ids, the seeded policies, first
match (`findMatchingPolicy`), `POST` and `DELETE` of the back office here and in
another process. A path is a name; `StartsWith` says which is a prefix of which.

**SigningKeys.** `status` is the table, `active` the kid in Redis, `jwks` the
process' public keys. Rotation is an operator's: insert a key, retire the old
one. The three places are refreshed at different times, so a key may sign that
a process does not know yet, and a retired one may go on signing for a while.

**RateLimit.** One counter. The Lua script is one step of Redis, and that is the
point: its mutant sets the TTL in a second command.

**CompanyApp.** Pure definitions: the accounts and their scopes, what each route asks
for, and the pages of the orders list. The list is walked by following cursors
(`Follow`), a recursive function over the number of requests; limits come in as the query
string gives them: absent, negative, zero, fractional, too large.

**Gateway.** A handler of `/proxy/*` verifies, finds the session, counts, takes the
company token, asks the policies, forwards. A session is `live`, `fading`
(revoked, but found in the cache or in a late fill of it) or `dead`; that fading
ends is what `sessions_live` shows of `Sessions`. `world` fixes the user of the session,
its scopes, and which of them were system scopes when the token was signed
(`world.system`): `narrowScope` lets those pass for everybody. What happens inside
`ensureFresh` is `CompanyRefresher`; here it finds the session once more. `sent` is
what a handler has forwarded and under which policy.

**Scopes.** `kind` is the table (a name is absent, business or system), with the
process' copy of it; operators for the global layer, the user's (`narrowScope`)
and the client's list, and `POST` and `DELETE /scopes`.

**Grants.** Requests of one client that ask for scopes, step by step: `GET
/authorize`, `POST /device_authorization`, `client_credentials` and the
administrator's `issue-token`; all read the client's row, then the definitions, and
create when both are known, with administrators changing either in between. `app` is
the row, `None` once deleted. What `POST /device_authorization` issues goes to
`devices`, by its scopes, until it expires; a poll that finds such a code authorized
(`BeginPoll`, `NarrowPoll`) needs no row, since `POST /token` does not hand the client it
authenticated to `handleDeviceCodeGrant`. Of the authorization codes of the client the
module follows one, and any one: the code that `AuthCode` has may be whichever of them.
`Settled` says that nothing is left of a client that could still end in a code or a
session.

**Registration, Admins, BackOffice.** The first two are components with their
own state; `BackOffice` composes them: revoking a token needs an
administrator's cookie, registering needs none. A cookie is good until it
expires, also when its administrator was deleted (`requireAdminSession` looks
only at the signature and the time), so `Create` and `CheckDelete` ask for a cookie,
not for a row. A rename writes the row and leaves cookies with the old name, which `renamed`
remembers; changing one's own password looks the old one up by the name in
the cookie and sets it by the id, with `proof` the row whose password was compared.

## 4. The runs

| Run | Bounds | Shows |
| --- | --- | --- |
| `sessions` | 2 handlers, 2 sessions, 2 clients, 3 refresh ids, failures | `RetiredInHistory`, `OneRotationPerToken`, `ReuseOnlyOfRetired`, `NoResurrection`, and that `Sessions` implements `TokenFamily` |
| `sessions_live` | 2 handlers, 1 session, 3 refresh ids, failures | `RevocationTakesEffect` under fairness |
| `sessions_kick` | 2 handlers, 1 session, 1 refresh id (so no rotation), no failures, under fairness | **violated:** clients hold the access token, the session is revoked and its cached copy deleted, and `findBySession` fills the cache with the row it read before: a revocation is not immediate (`adminWeb.ts:191`) |
| `sessions_grace` | as `sessions_live` | **violated:** recording and rotating are not independent (`sessionRepo.ts:245`) |
| `refresher` | 2 handlers, 3 pairs, 2 failures | safety and liveness of the refresher |
| `refresher_relogin` | the same, no failures | **violated:** a spent refresh token is presented although nothing failed (`companyTokenRefresher.ts:11-14`) |
| `device` | 2 polls, 2 logins, 2 users, 1 failure, expiry | what a code can and cannot be turned into |
| `device_lost` | 1 poll, 1 login, nothing fails or expires | **violated:** the success page is shown and the login is lost (`verify.ts:229`) |
| `grants` | 2 exchanges, 2 confirmations, 1 request of each kind, 2 administrators, 3 names, 2 users, 2 writes, failures, 5 worlds (below) | a code buys a second session only through an overlap; nobody gets more than the user has; deleting a definition widens nothing; deleting a client takes effect in the end, under fairness, and is final from then on |
| `gateway` | 2 handlers, 1 signer, 2 keys, 1 writer here and one elsewhere, 2 writes, limit 1, pages of 2 and 4 over up to 7 orders, failures, 3 worlds | stale policies, keys and sessions all end, nobody is locked out, the seeded policies fit the company application, paging is complete |
| `back_office` | 3 administrators, 2 requests, 2 tokens, 2 registrations, failures | `LastAdminKept`, `OldPasswordIsOwn` and the accounting of registrations |
| `admins_race` | the same, no failures | **violated:** two administrators delete each other (`adminWeb.ts:640`) |

Why the bounds are enough to be interesting: two handlers are what every race of
this code takes, one that holds a stale value and one that changes it, and the
environment (TTLs, failures, the company) is a third actor in every module;
three refresh ids give a session two rotations, so that a replayed id can be one or two
generations old and another session can hold the third. Three pairs give two
refreshes, so a handler may hold a pair one or two refreshes old. Two exchanges
are a race; the retry after it starts from the states the race leaves, since an
exchange that ended may begin again. Two writes of a table are one that a late
fill misses and one that a copy is stale for. Seven orders over pages of two and four
leave a full last page and a short one. The proofs of section 6 remove the bounds for
the modules they are about.

Bounds that live in guards: `HasSpare` (Sessions: a handler on its way to
rotate keeps a refresh id in reserve, so it is never blocked by the bound), `MaxPair`
and `MaxFails` (CompanyRefresher), `Many` and `MaxFails` (DeviceFlow: sessions
are counted up to two), `Many` (AuthCode), `MaxUses` (Registration), `MaxWrites`
(RoutePolicies, Scopes), `Deletable` (RoutePolicies: the ids that are ever
deleted), `Over` (RateLimit: a count over the limit is as good as any other),
`Lists` and `Wishes` (Grants: the lists a client is given, the scopes asked for).

Bounds that keep parts apart: `Worlds` of `Gateway` and `Grants` and `Moves` of
`BackOffice` choose, in the initial state, which part changes; the others keep still
in the states that part can be in. In `Gateway` keys, policies and session share no
variable, so that only a request ties them together. In `Grants` a world also says which
exchanges, confirmations and administrators there are (`who`):

- `authorize` against definitions that change, with one exchange, one confirmation, one
  administrator; and against a client that changes, with two exchanges, two
  confirmations, one administrator. What two exchanges do to each other
  does not depend on definitions;
- `device` against both at once, with one administrator: requests for codes and polls;
- `machine` against both at once, with two administrators, so that one stores the list of
  the client that the other deletes;
- `issue` against definitions, the only thing it reads.

`grants` and `back_office` are checked without deadlock detection: both may really
come to an end, when the code has expired, the client is deleted and the writes are
used up, and when every token has expired and no administrator is left or logged in.

## 5. Fairness

`sessions_live`: a handler that was accepted runs on unless it fails
(`WF Step`), and Redis honours its TTLs (`WF CacheExpire`). No request is
assumed to arrive.

`refresher`: the same for its steps, the lock's TTL and the cache's.
`GiveUp` is strongly fair because a waiter leaves and re-enters the waiting
state with every poll while its deadline (`LOCK_WAIT_TIMEOUT_MS`) runs on.
`SessionRecovers` in addition assumes that requests keep coming, and says so in
the property.

`device`: handlers run on, and the CLI polls until it has its tokens, as
RFC 8628 asks of it and the client library does. Nobody is obliged to log in.

`sessions_kick` has the fairness of `sessions_live`, so that its counterexample is not a
handler that stood still.

`grants`: requests and exchanges that are under way run on or fail (`AskNext`,
`ExchangeNext`, `Narrow`, `NarrowRows`), and codes expire (`DeviceOver`, `CodeExpire`,
which are clocks). No request, failure, confirmation or administrator's step is assumed
to happen: `DeletionTakesEffect` has to hold even if an administrator who was storing
the client's list never goes on, or goes on much later.

`gateway`: whatever a handler awaits answers or throws (`WF HandlerStep`, which
includes failing), and so does what a signer and a writer await (`Signing`,
`PoliciesWritten`); TTLs run out (`ActiveExpire`, `JwksExpire`,
`PolicyCopyExpire`, `WindowEnds`); a revoked session fades (`FadeOut`), which is
`RevocationTakesEffect` of `sessions_live`. No request, rotation, write or
revocation is assumed to happen.

## 6. The theorems

Each holds for any number of sessions, refresh ids, clients, scopes, users, keys,
administrators and handlers, and for any bounds. They rest on the assumptions the
modules name, all of which TLC evaluates in the runs:

- bounds are naturals, and the sets that are counted are finite (`BackOffice`:
  `IdsAssumption`, `TokensAssumption`);
- `None` is none of the values that may be there in its place (`NoneAssumption`,
  `NoFamilyAssumption`);
- `SeedAssumption`: the scope `offline_access` is seeded as a system scope, as `seed.ts` does.
  Without it the table could become empty of system names, and `config.systemScopes` would
  take its place: a scope exempt yesterday would not be today;
- `RequestsAssumption`: requests for scopes are other handlers than exchanges and
  administrators, and what clients ask for, and are given, are names of scopes;
- `WorldsAssumption` (`Gateway`): each scope of a session is one the company grants its user, or
  was a system scope when it was granted. This is what `GrantsWithinTheUser` says of the grants:
  `offline_access`, which every token holds, is one of the latter.

`SessionsProofs`: `IInv` strengthens the three invariants. A row's current id was
drawn for it (`RowOwnsCur`), so two rows never share one; an id is recorded only
under the session it was signed for (`HistoryOwned`); and each `await` leaves in a
handler what the next statement relies on (`HandlerOK`): about to rotate, it has
recorded the id; in the grace path, the id it holds is past; after a rotation, the
id it holds is retired. None of the three properties is inductive without these.
From `IInv` follow `TypeCorrect`, `ReuseDetectable`, `OneWinner`,
`NoFalseAccusation`, and `RevocationIsFinal`, the action property
`NoResurrection`: every action keeps a dead session dead, because all snapshots of
it that are still about are revoked and no row comes back from `revoked`.

`CompanyRefresherProofs`: the invariant behind `NoPairStranded` says how old a
pair any handler or cache can hold, and that only one handler can hold the pair the
company issued last, on its way to the row. `OneRefresher` needs the lock:
while no lock ran out under its holder, a holder implies `locked`, and there is at most one.

The same module proves `Refinement`, that `Sessions` implements `TokenFamily`. On top
of `IInv` it needs that the members of a family are just the ids signed for its session
(`OwnedIsMember`), so that an id nobody owns is one `TokenFamily` has not drawn. One
lemma per statement that writes a table; `SameTables` covers the rest.

`DeviceFlowProofs`: all safety that `device` checks. `Inv` adds to the types what a
handler holds between its two accesses to the record: past `createSession` there is a
session (`PollOK`), which gives `SpentCodeHasSession` although the grant may fail half
way any number of times. `OnlyStaleCopiesGoBack` follows from the same: every write of
the record says which status it was decided from. `CodeIsOneTime` needs `OnceInv`: as
long as one poll and one login run at a time and nothing failed, no login is about to
authorize a code that was authorized, and once there is a session, or a poll is creating
it, no handler holds the code as pending (`NoWayBack`).

`GrantsProofs`: all that `grants` checks, in three parts, as `Grants` is composed.
`ScopesInv` says of every copy, and of rows on their way to one, that their system names
still are system names; no statement undefines one. `CodeInv` counts: an exchange at
`createSession` has written `consumed` and not had its session yet (`Paid`), which gives
`SessionsPaidFor`; while nothing overlapped the code only goes forward (`OneWay`), which
gives `TwoSessionsOverlapped` and `UsedStaysUsed`. `RequestsInv` relates them: what a
request or an exchange is about to create is the user's or a system scope *by now*,
whatever copy it was decided with, and `GrantsWithinTheUser` follows.
`DeletionNeverWidens` and `DeletedStaysOut` are action properties proved from the same
invariant; the second says that a deleted client of which nothing is left (`Settled`: no
request under way, no device code, no authorization code that could be exchanged) stays
deleted and settled. That it comes to this is `DeletionTakesEffect`, which is
model-checked. `GrantsKeepScopeCopy`: every step of `Grants` is one of `LocalCopy` for the
scopes, or leaves their copy alone.

`GatewayProofs` begins with `CopyStaysCurrent`, about `LocalCopy` alone. The invariant
`CopyInv` says of the copy and of the rows on their way to a reader that they are the
table's, unless marked late or unless a writer has yet to clear them; nothing in its
proof depends on the table. Each step of the gateway is a step of `LocalCopy` or leaves
the copy alone, for the policies (`GatewayKeepsLocalCopy`, hence
`PolicyCopyStaysCurrent`) and for the public keys (`GatewayKeepsKeyCopy`).

`PoliciesInv`, in the same module, says that an id stands for one policy for ever: ids
are drawn in order and no statement updates a row. Hence an id tells what its row
permits in any copy, however old, and `ForwardedIsServed`: what is forwarded under a
seeded policy, by whatever copy, is what the company application serves that user, unless
the name the policy asks for was a system scope when the session got it (section 7). This
rests on the two lists in `seed.ts` and `company-mock/src/index.ts`, which the proof
goes through row by row. `Inv` adds what a handler holds (`HandlersInv`), for
`GatewayTyped`. `NewPoliciesComeLast` needs only that a new row has the last id.

`OrdersComeWhole` is the one result about a computation of any length: for any page
sizes, any number of orders and each of the limits, following the cursors collects every
order once. What has to hold after `k` requests is `Collected`: the first `c` orders,
with the cursor at the `c`-th, and `c >= k` unless the walk has ended. It is shown by
the least counterexample (`Least`, from the well-founded order of the naturals), since
the library's rule of induction takes an operator that the provers cannot instantiate;
the recursive definition of the walk is unfolded one request at a time (`WalkIs`,
`FollowIs`).

`BackOfficeProofs`: all that `back_office` checks. `AdminsInv` is inductive with
`CookiesKnown` (a cookie names whoever had its name, unless renamed), `PasswordsOwn`
(the row compared is the row written) and `OthersRemain` (a deletion that passed
the count leaves somebody, unless two did). `RegistrationInv` adds that an idle
handler holds no token, and counts *credit*: the clients made from a token and
the handlers on their way to one, which together never exceed one for a single-use
token, nor its counted uses otherwise. Each is proved in its component's module;
`BackOfficeProofs` puts them together. Since INSTANCE copies every definition, the
lemmas `SameAdmins` and `SameRegistration` say that the copies inside the
proof modules and those of `BackOffice` are the same.

Only model-checked: liveness (`RevocationTakesEffect`, `RequestsEnd`,
`SessionRecovers`, `AuthorizationReachesCLI`, `DeletionTakesEffect`, `DeletedPolicyForgotten`, `RetiredKeyForgotten`, `NobodyLockedOut`, `RevokedStops`),
which the prover does not handle under fairness.

## 7. What the models show without a run of their own

- `token.ts:419`: the grace path answers from the cache. A copy older than the last
  rotation makes it return the refresh id that was presented.
- `companyTokenRefresher.ts:51`: `finally` deletes the lock unconditionally. After
  an overrun it deletes the lock of the next holder; hence `overrun` in
  `SingleFlight`.
- `token.ts:329-334`: the device grant creates the session before it consumes the
  code and ignores that consuming failed; hence `overlap` and `fails` in
  `SequentialOnce`.
- `authCodeStore.ts:64-67`: two overlapping exchanges of a code both get a session;
  hence `overlap` in `TwiceOnlyByOverlap`.
- `register.ts:63`: a token is used up, and its use counted, also when the
  metadata is refused; `EveryClientCounted` is therefore an inequality, while
  `packages/db/src/schema.ts:197` calls the column the number of successful uses.
- `company-mock/src/data.ts:220-234`: a limit strictly between 0 and 1 is cut down to
  no element, so the page is empty, says `hasMore` and has no cursor to go on with;
  `PagingComplete` leaves those limits out.
- `adminWeb.ts:402`: while the scope table is empty, `issue-token` lets every name
  pass, where the other requests fall back to `ALLOWED_SCOPES`.
- `token.ts:186`: a client that is deleted between its authentication and the second
  look at its row is taken for one without a list, which lifts the client's layer
  for this one grant.
- `adminWeb.ts:208`: a deleted client's outstanding codes stay redeemable until they
  expire. The exchange of an authorization code (`token.ts:122`) does not look the client
  up; a device code is redeemed by whoever authenticates as any client
  (`token.ts:148-150` drops the client it authenticated), and the session is created
  for the client of the code (`token.ts:329-333`). Hence `Settled` in
  `DeletionIsFinal`. And the deletion revokes the client's sessions before it deletes the
  row, so a session created between the two statements, or from such a code later, is
  not revoked by it.
- `token.ts:260-262`: a system scope passes `narrowScope` whatever the user has. A
  business name of the company that is deleted and defined again as a system scope
  passes for everybody; the gateway's policy then lets the request through and the
  company application refuses it. Hence `world.system` in `CompanyAgrees`.
- `adminWeb.ts:567`: the old password is looked up by the name in the cookie. After
  a rename, and somebody else taking the name, it is that other password that
  is asked for; hence `renamed` in `OldPasswordIsOwn`.
- `routePolicyRepo.ts`: the first match in the order of ids decides, so a stricter
  policy added for a path that has one has no effect (`AppendKeepsDecisions`).

## 8. Not modelled

- Claims, expiry and cryptography of JWTs, hashing, PKCE arithmetic: signatures are
  taken to be sound, expiry to be a step of the environment.
- CSRF and other validation of input, which only decides whether a request counts.
- The audit log: fire-and-forget inserts that nothing reads back but the page that
  lists them.
- Configuration, start-up and metadata: read once or constant; what they decide
  is a CONSTANT of the modules.
- The admin UI, which keeps no state of the system; migrations, which are generated;
  the company application's sample data and its other lists.
- `setRevoked`, `touchLastUsed` (`appRepo.ts`), `verify` and `recordUse`
  (`tokenRepo.ts`), which no route calls; `upsertUser`, since no step depends on users.
- `Clients` composed with `Sessions` (section 2).
