------------------------------ MODULE DeviceFlow ------------------------------
(***************************************************************************)
(* One device code from /device_authorization to the tokens: the record in *)
(* Redis (repos/deviceCodeRepo.ts), the CLI's polls of POST /token (the    *)
(* device grant of routes/token.ts) and the browser's POST /verify/login.  *)
(* Every change of the record is a GET, a decision in the process and a    *)
(* SET of the whole record, with nothing that notices a change in between. *)
(***************************************************************************)
EXTENDS Naturals

CONSTANTS Pollers,   \* POST /token handlers in progress at once
          Browsers,  \* POST /verify/login handlers in progress at once
          Users,     \* company users who may log in
          Entitled,  \* those whose scopes cover the requested ones
          None,
          CanExpire, \* whether the code's lifetime runs out
          MaxFails   \* bound: statements and calls that fail, processes that die

ASSUME UsersAssumption == Entitled \subseteq Users /\ None \notin Users
ASSUME SwitchAssumption == CanExpire \in BOOLEAN /\ MaxFails \in Nat

VARIABLES
  rec,       \* devcode:<deviceCode>, None once Redis dropped the key
  byUser,    \* whether devcode-user:<userCode> still leads to it
  expired,   \* whether Date.now() is past its expiresAt
  poll,      \* the polls
  login,     \* the logins
  sessions,  \* sessions created from this code, counted up to Many
  welcomed,  \* history: the users who saw the success page
  overlap,   \* history: two polls, or two logins, were ever under way at once
  fails      \* failures so far

vars == <<rec, byUser, expired, poll, login, sessions, welcomed, overlap, fails>>

Many == 2    \* bound: two sessions are as wrong as more of them

Record == [status : {"pending", "authorized", "consumed"}, user : Users \cup {None}]
PollPCs == {"idle", "write", "session", "reread", "consume", "issue"}
LoginPCs == {"idle", "record", "company", "key", "check", "authorize", "page"}

Poll(pc, r) == [at |-> pc, copy |-> r]
Login(pc, u) == [at |-> pc, user |-> u]

TypeOK ==
  /\ rec \in Record \cup {None}
  /\ byUser \in BOOLEAN
  /\ expired \in BOOLEAN
  /\ poll \in [Pollers -> [at : PollPCs, copy : Record \cup {None}]]
  /\ login \in [Browsers -> [at : LoginPCs, user : Users \cup {None}]]
  /\ sessions \in [Users -> 0 .. Many]
  /\ welcomed \subseteq Users
  /\ overlap \in BOOLEAN
  /\ fails \in 0 .. MaxFails

\* createDeviceCode has answered: both keys are set, with the same TTL.
Init ==
  /\ rec = [status |-> "pending", user |-> None]
  /\ byUser = TRUE
  /\ expired = FALSE
  /\ poll = [p \in Pollers |-> Poll("idle", None)]
  /\ login = [b \in Browsers |-> Login("idle", None)]
  /\ sessions = [u \in Users |-> 0]
  /\ welcomed = {}
  /\ overlap = FALSE
  /\ fails = 0

SetPoll(p, pc, r) == poll' = [poll EXCEPT ![p] = Poll(pc, r)]
SetLogin(b, pc, u) == login' = [login EXCEPT ![b] = Login(pc, u)]
Answer(p) == SetPoll(p, "idle", None)
Page(b) == SetLogin(b, "idle", None)
Is(status) == rec # None /\ rec.status = status

(***************************************************************************)
(* POST /token, grant_type device_code.                                    *)
(***************************************************************************)
\* Mutant: a code whose user lacks the scopes is given back for another login.
PollGivesBack(p) ==
  /\ poll[p].at = "idle"
  /\ \/ (rec = None \/ expired \/ Is("consumed")) /\ UNCHANGED rec
     \/ /\ Is("authorized") /\ rec.user \notin Entitled
        /\ rec' = [status |-> "pending", user |-> None]
  /\ UNCHANGED <<byUser, expired, poll, login, sessions, welcomed, overlap, fails>>

\* findDeviceCodeByDevice: GET, then refreshExpiry on the copy; the answer
\* for a code that is gone, expired, used or out of the user's scopes.
PollRejected(p) ==
  /\ poll[p].at = "idle"
  /\ \/ rec = None
     \/ expired
     \/ Is("consumed")
     \/ Is("authorized") /\ rec.user \notin Entitled
  /\ UNCHANGED vars

Polling == \E p \in Pollers : poll[p].at # "idle"

PollPending(p) ==
  /\ poll[p].at = "idle" /\ Is("pending") /\ ~expired
  /\ SetPoll(p, "write", rec)
  /\ overlap' = (overlap \/ Polling)
  /\ UNCHANGED <<rec, byUser, expired, login, sessions, welcomed, fails>>
\* Mutant: the code is consumed first, and createSession never reached.
PollAuthorizedNoSession(p) ==
  /\ poll[p].at = "idle" /\ Is("authorized") /\ ~expired /\ rec.user \in Entitled
  /\ SetPoll(p, "reread", None)
  /\ overlap' = (overlap \/ Polling)
  /\ UNCHANGED <<rec, byUser, expired, login, sessions, welcomed, fails>>

PollAuthorized(p) ==
  /\ poll[p].at = "idle" /\ Is("authorized") /\ ~expired /\ rec.user \in Entitled
  /\ SetPoll(p, "session", rec)
  /\ overlap' = (overlap \/ Polling)
  /\ UNCHANGED <<rec, byUser, expired, login, sessions, welcomed, fails>>

\* updateDeviceCode: lastPollAt goes back with the rest of the copy, and the
\* key lives for a whole TTL again.  Both slow_down and
\* authorization_pending answer after it.
UpdateDeviceCode(p) ==
  /\ poll[p].at = "write"
  /\ rec' = poll[p].copy
  /\ Answer(p)
  /\ UNCHANGED <<byUser, expired, login, sessions, welcomed, overlap, fails>>
\* Mutant: the insert is not awaited and lost.
CreateNothing(p) ==
  /\ poll[p].at = "session"
  /\ SetPoll(p, "reread", None)
  /\ UNCHANGED <<rec, byUser, expired, login, sessions, welcomed, overlap, fails>>

CreateSession(p) ==
  /\ poll[p].at = "session"
  /\ LET u == poll[p].copy.user
     IN sessions' = [sessions EXCEPT ![u] = IF @ < Many THEN @ + 1 ELSE @]
  /\ SetPoll(p, "reread", None)
  /\ UNCHANGED <<rec, byUser, expired, login, welcomed, overlap, fails>>

\* consumeDeviceCode: GET; the grant ignores whether it returned null.
ConsumeGet(p) ==
  /\ poll[p].at = "reread"
  /\ \/ Is("authorized") /\ SetPoll(p, "consume", rec)
     \/ ~Is("authorized") /\ SetPoll(p, "issue", None)
  /\ UNCHANGED <<rec, byUser, expired, login, sessions, welcomed, overlap, fails>>
\* Mutant: consumeDeviceCode writes its copy back without the new status.
ConsumeUnchanged(p) ==
  /\ poll[p].at = "consume"
  /\ rec' = poll[p].copy
  /\ SetPoll(p, "issue", None)
  /\ UNCHANGED <<byUser, expired, login, sessions, welcomed, overlap, fails>>

ConsumeSet(p) ==
  /\ poll[p].at = "consume"
  /\ rec' = [status |-> "consumed", user |-> poll[p].copy.user]
  /\ SetPoll(p, "issue", None)
  /\ UNCHANGED <<byUser, expired, login, sessions, welcomed, overlap, fails>>

\* issueTokenResponse signs the tokens and answers.
Issue(p) ==
  /\ poll[p].at = "issue"
  /\ Answer(p)
  /\ UNCHANGED <<rec, byUser, expired, login, sessions, welcomed, overlap, fails>>

(***************************************************************************)
(* POST /verify/login.                                                     *)
(***************************************************************************)
\* findDeviceCodeByUser reads the reverse key, then the record; unlike the
\* poll it does not look at expiresAt.
Submit(b) ==
  /\ login[b].at = "idle" /\ byUser
  /\ SetLogin(b, "record", None)
  /\ overlap' = (overlap \/ \E c \in Browsers : login[c].at # "idle")
  /\ UNCHANGED <<rec, byUser, expired, poll, sessions, welcomed, fails>>

CheckPending(b) ==
  /\ login[b].at = "record"
  /\ \/ Is("pending") /\ SetLogin(b, "company", None)
     \/ ~Is("pending") /\ Page(b)
  /\ UNCHANGED <<rec, byUser, expired, poll, sessions, welcomed, overlap, fails>>

\* loginWithCompany: somebody's password is right, or the form comes back.
LoginWithCompany(b) ==
  /\ login[b].at = "company"
  /\ \/ \E u \in Users : SetLogin(b, "key", u)
     \/ Page(b)
  /\ UNCHANGED <<rec, byUser, expired, poll, sessions, welcomed, overlap, fails>>

\* authorizeDeviceCode looks both keys up again and may return null; the
\* route shows the success page all the same.
AuthorizeKey(b) ==
  /\ login[b].at = "key"
  /\ SetLogin(b, IF byUser THEN "check" ELSE "page", login[b].user)
  /\ UNCHANGED <<rec, byUser, expired, poll, sessions, welcomed, overlap, fails>>

AuthorizeCheck(b) ==
  /\ login[b].at = "check"
  /\ SetLogin(b, IF Is("pending") THEN "authorize" ELSE "page", login[b].user)
  /\ UNCHANGED <<rec, byUser, expired, poll, sessions, welcomed, overlap, fails>>
\* Mutant: the record is authorized without the user it is authorized for.
AuthorizeNobody(b) ==
  /\ login[b].at = "authorize"
  /\ rec' = [status |-> "authorized"]
  /\ SetLogin(b, "page", login[b].user)
  /\ UNCHANGED <<byUser, expired, poll, sessions, welcomed, overlap, fails>>

AuthorizeSet(b) ==
  /\ login[b].at = "authorize"
  /\ rec' = [status |-> "authorized", user |-> login[b].user]
  /\ SetLogin(b, "page", login[b].user)
  /\ UNCHANGED <<byUser, expired, poll, sessions, welcomed, overlap, fails>>

SuccessPage(b) ==
  /\ login[b].at = "page"
  /\ welcomed' = welcomed \cup {login[b].user}
  /\ Page(b)
  /\ UNCHANGED <<rec, byUser, expired, poll, sessions, overlap, fails>>

(***************************************************************************)
(* The environment.                                                        *)
(***************************************************************************)
Fail ==
  /\ fails < MaxFails
  /\ \/ \E p \in Pollers : poll[p].at # "idle" /\ Answer(p) /\ UNCHANGED login
     \/ \E b \in Browsers : login[b].at # "idle" /\ Page(b) /\ UNCHANGED poll
  /\ fails' = fails + 1
  /\ UNCHANGED <<rec, byUser, expired, sessions, welcomed, overlap>>

Expire ==
  /\ CanExpire /\ ~expired
  /\ expired' = TRUE
  /\ UNCHANGED <<rec, byUser, poll, login, sessions, welcomed, overlap, fails>>

\* The TTLs of the keys: the record's may have been set anew by an update.
KeyExpire ==
  /\ expired
  /\ \/ rec # None /\ rec' = None /\ byUser' = byUser
     \/ byUser /\ byUser' = FALSE /\ rec' = rec
  /\ UNCHANGED <<expired, poll, login, sessions, welcomed, overlap, fails>>

PollNext(p) == PollPending(p) \/ PollAuthorized(p)
PollStep(p) == UpdateDeviceCode(p) \/ CreateSession(p) \/ ConsumeGet(p) \/ ConsumeSet(p) \/ Issue(p)
LoginStep(b) == \/ CheckPending(b) \/ LoginWithCompany(b) \/ AuthorizeKey(b)
                \/ AuthorizeCheck(b) \/ AuthorizeSet(b) \/ SuccessPage(b)

Next ==
  \/ \E p \in Pollers : PollRejected(p) \/ PollNext(p) \/ PollStep(p)
  \/ \E b \in Browsers : Submit(b) \/ LoginStep(b)
  \/ Fail \/ Expire \/ KeyExpire

Spec == Init /\ [][Next]_vars

\* Handlers run to their end, and the CLI polls until it gets its tokens.
Fairness ==
  /\ \A p \in Pollers : WF_vars(PollNext(p) \/ PollStep(p))
  /\ \A b \in Browsers : WF_vars(LoginStep(b))

FairSpec == Spec /\ Fairness

(***************************************************************************)
(* Properties.                                                             *)
(***************************************************************************)
Redeemed == \E u \in Users : sessions[u] > 0
Rank == [pending |-> 0, authorized |-> 1, consumed |-> 2]

\* A code gives one login one session (a used code answers "device_code
\* already used"), as long as the CLI and the user do one thing at a time and
\* nothing fails: consumeDeviceCode comes after createSession, so a poll that
\* fails in between, or overlaps with another, is paid for with a session
\* that nobody holds.
SequentialOnce ==
  \/ overlap
  \/ fails > 0
  \/ /\ \A u \in Users : sessions[u] < Many
     /\ \A u, v \in Users : sessions[u] > 0 /\ sessions[v] > 0 => u = v

\* The status of the record only advances (header of deviceCodeStore.ts), but
\* for two ways back: a poll that read it as pending puts that back, or a login
\* that checked it before it was used authorizes it once more.
BackwardsOnlyByStaleCopy ==
  [][rec # None /\ rec' # None /\ Rank[rec'.status] < Rank[rec.status] =>
       \/ rec'.status = "pending" /\ \E p \in Pollers : poll[p].at = "write" /\ poll'[p].at = "idle"
       \/ rec'.status = "authorized" /\ \E b \in Browsers : login[b].at = "authorize" /\ login'[b].at = "page"]_vars

\* A code is never spent without a session, even when the grant fails half
\* way: the CLI may poll again.
SpentMeansSession == Is("consumed") => Redeemed

\* An authorization that no stale poll or second login is about to overwrite
\* reaches the CLI, unless the code expires first.
AuthorizationReachesCLI ==
  /\ Is("authorized") /\ rec.user \in Entitled
  /\ \A p \in Pollers : poll[p].at # "write"
  /\ \A b \in Browsers : login[b].at # "authorize"
  ~> Redeemed \/ expired

\* The success page of verify.ts: whoever sees it need only go back to the
\* command line, where the CLI completes the login by itself.
WelcomeMeansLogin == \A u \in Entitled : u \in welcomed ~> Redeemed
=============================================================================
