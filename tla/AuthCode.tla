------------------------------- MODULE AuthCode -------------------------------
(***************************************************************************)
(* One authorization code from GET /authorize to the tokens: the record in *)
(* Redis (authCodeStore.ts, repos/authCodeRepo.ts) and the exchanges of    *)
(* POST /token (handleAuthCodeGrant in routes/token.ts).  Who may ask for  *)
(* which scopes, and the changes to scopes and clients meanwhile, are in   *)
(* Grants, which this module is a part of.                                 *)
(*                                                                         *)
(* Unlike the device grant this one consumes the code BEFORE it creates    *)
(* the session, and stops when consumeAuthCode returns null; but consuming *)
(* is again a GET, a decision and a SET.  authorizeAuthCode, which binds   *)
(* the user to the code, is exported by the store and called by no route   *)
(* yet: its action stands for the login page that is to call it.           *)
(***************************************************************************)
EXTENDS Naturals

CONSTANTS Exchanges,  \* POST /token handlers in progress at once
          Confirms,   \* calls of authorizeAuthCode in progress at once
          Users,      \* company users who may log in
          Asked,      \* sets of scopes a code may be asked for
          None,
          CanFail     \* whether a statement or call may fail, a process die

UsersAssumption == None \notin Users
SwitchAssumption == CanFail \in BOOLEAN

VARIABLES
  rec,      \* authcode:<code>, None before it is issued and once Redis dropped it
  asked,    \* the scope it was issued for, None before that
  expired,  \* whether Date.now() is past its expiresAt
  xchg,     \* the exchanges
  confirm,  \* the confirmations
  created,  \* sessions created from this code, counted up to Many
  spent,    \* history: how often the code was consumed, up to Many
  overlap   \* history: two exchanges, or two confirmations, raced for the code

vars == <<rec, asked, expired, xchg, confirm, created, spent, overlap>>

Many == 2    \* bound: two are as wrong as more of them
Inc(n) == IF n < Many THEN n + 1 ELSE n

Record == [status : {"pending", "authorized", "consumed"}, user : Users \cup {None}]

\* What an exchange holds: the user of the copy it read, None before that.
Exchange == [at : {"idle", "narrow", "rows", "reread", "consume", "session", "issue"},
             user : Users \cup {None}]
Confirm == [at : {"idle", "authorize"}, user : Users \cup {None}]

TypeOK ==
  /\ rec \in Record \cup {None}
  /\ asked \in Asked \cup {None}
  /\ expired \in BOOLEAN
  /\ xchg \in [Exchanges -> Exchange]
  /\ confirm \in [Confirms -> Confirm]
  /\ created \in 0 .. Many
  /\ spent \in 0 .. Many
  /\ overlap \in BOOLEAN

Init ==
  /\ rec = None /\ asked = None
  /\ expired = FALSE
  /\ xchg = [e \in Exchanges |-> [at |-> "idle", user |-> None]]
  /\ confirm = [f \in Confirms |-> [at |-> "idle", user |-> None]]
  /\ created = 0
  /\ spent = 0
  /\ overlap = FALSE

Goto(e, pc) == xchg' = [xchg EXCEPT ![e].at = pc]
Answer(e) == xchg' = [xchg EXCEPT ![e] = [at |-> "idle", user |-> None]]
Is(status) == rec # None /\ rec.status = status

\* createAuthCode.
Create(scope) ==
  /\ asked = None
  /\ rec' = [status |-> "pending", user |-> None]
  /\ asked' = scope
  /\ UNCHANGED <<expired, xchg, confirm, created, spent, overlap>>

(***************************************************************************)
(* POST /token, grant_type authorization_code.                             *)
(***************************************************************************)
\* findAuthCode and the checks on its copy.  `proper' is whether client_id,
\* redirect_uri and code_verifier are the ones the code was issued for.
Accepted == Is("authorized") /\ ~expired

Busy == \E e \in Exchanges : xchg[e].at \in {"narrow", "rows", "reread", "consume"}

Begin(e) ==
  /\ xchg[e].at = "idle"
  /\ \E proper \in BOOLEAN :
       \/ /\ proper /\ Accepted
          /\ xchg' = [xchg EXCEPT ![e] = [at |-> "narrow", user |-> rec.user]]
          /\ overlap' = (overlap \/ Busy)
       \/ (~proper \/ ~Accepted) /\ Answer(e) /\ UNCHANGED overlap
  /\ UNCHANGED <<rec, asked, expired, confirm, created, spent>>

\* narrowScope has to SELECT the definitions.
AwaitRows(e) ==
  /\ xchg[e].at = "narrow"
  /\ Goto(e, "rows")
  /\ UNCHANGED <<rec, asked, expired, confirm, created, spent, overlap>>

\* narrowScope has answered.
Narrowed(e, granted) ==
  /\ IF granted THEN Goto(e, "reread") ELSE Answer(e)
  /\ UNCHANGED <<rec, asked, expired, confirm, created, spent, overlap>>

\* Mutant: the exchange goes on when consumeAuthCode returned null.
ConsumeGetIgnored(e) ==
  /\ xchg[e].at = "reread"
  /\ Goto(e, IF Is("authorized") THEN "consume" ELSE "session")
  /\ UNCHANGED <<rec, asked, expired, confirm, created, spent, overlap>>

\* consumeAuthCode: it looks at the status again, not at expiresAt.
ConsumeGet(e) ==
  /\ xchg[e].at = "reread"
  /\ \/ Is("authorized") /\ Goto(e, "consume")
     \/ ~Is("authorized") /\ Answer(e)    \* "code already consumed"
  /\ UNCHANGED <<rec, asked, expired, confirm, created, spent, overlap>>

\* Mutant: consumeAuthCode checks but does not write.
ConsumeNothing(e) ==
  /\ xchg[e].at = "consume"
  /\ spent' = Inc(spent)
  /\ Goto(e, "session")
  /\ UNCHANGED <<rec, asked, expired, confirm, created, overlap>>

ConsumeSet(e) ==
  /\ xchg[e].at = "consume"
  /\ rec' = [status |-> "consumed", user |-> None]    \* nobody reads it any more
  /\ spent' = Inc(spent)
  /\ Goto(e, "session")
  /\ UNCHANGED <<asked, expired, confirm, created, overlap>>

CreateSession(e) ==
  /\ xchg[e].at = "session"
  /\ created' = Inc(created)
  /\ Goto(e, "issue")
  /\ UNCHANGED <<rec, asked, expired, confirm, spent, overlap>>

Issue(e) ==
  /\ xchg[e].at = "issue"
  /\ Answer(e)
  /\ UNCHANGED <<rec, asked, expired, confirm, created, spent, overlap>>

(***************************************************************************)
(* authorizeAuthCode, after a login with the company.                      *)
(***************************************************************************)
Confirming == \E f \in Confirms : confirm[f].at = "authorize"

\* Mutant: authorizeAuthCode does not look at the status.
AuthorizeAny(f) ==
  /\ confirm[f].at = "idle" /\ rec # None
  /\ \E u \in Users : confirm' = [confirm EXCEPT ![f] = [at |-> "authorize", user |-> u]]
  /\ overlap' = (overlap \/ Confirming)
  /\ UNCHANGED <<rec, asked, expired, xchg, created, spent>>

AuthorizeGet(f) ==
  /\ confirm[f].at = "idle" /\ Is("pending")
  /\ \E u \in Users : confirm' = [confirm EXCEPT ![f] = [at |-> "authorize", user |-> u]]
  /\ overlap' = (overlap \/ Confirming)
  /\ UNCHANGED <<rec, asked, expired, xchg, created, spent>>

\* Mutant: the record is authorized without the user it is authorized for.
AuthorizeNobody(f) ==
  /\ confirm[f].at = "authorize"
  /\ rec' = [status |-> "authorized"]
  /\ confirm' = [confirm EXCEPT ![f] = [at |-> "idle", user |-> None]]
  /\ UNCHANGED <<asked, expired, xchg, created, spent, overlap>>

AuthorizeSet(f) ==
  /\ confirm[f].at = "authorize"
  /\ rec' = [status |-> "authorized", user |-> confirm[f].user]
  /\ confirm' = [confirm EXCEPT ![f] = [at |-> "idle", user |-> None]]
  /\ UNCHANGED <<asked, expired, xchg, created, spent, overlap>>

(***************************************************************************)
(* The environment.                                                        *)
(***************************************************************************)
Fail(e) ==
  /\ CanFail /\ xchg[e].at # "idle"
  /\ Answer(e)
  /\ UNCHANGED <<rec, asked, expired, confirm, created, spent, overlap>>

Expire ==
  /\ asked # None /\ ~expired
  /\ expired' = TRUE
  /\ UNCHANGED <<rec, asked, xchg, confirm, created, spent, overlap>>

KeyExpire ==
  /\ expired /\ rec # None
  /\ rec' = None
  /\ UNCHANGED <<asked, expired, xchg, confirm, created, spent, overlap>>

(***************************************************************************)
(* Properties.                                                             *)
(***************************************************************************)
\* token.ts:94 calls the code one-time.  It buys a second session only when two
\* exchanges were between finding the code authorized and writing it consumed,
\* or two confirmations were under way at once; never because of a retry after
\* a failure, at whatever step that failed.
TwiceOnlyByOverlap == created = Many => overlap

\* Every session was paid for: an exchange that finds the code used, or
\* fails before it has written that down, leaves no session behind.
PaidFor == created <= spent

\* A used code stays used: no exchange or confirmation, however late, puts an
\* earlier status back, but for a confirmation that overlapped with another and
\* writes what it decided before the first one was exchanged.
ConsumedIsFinal ==
  [][Is("consumed") => overlap \/ rec' = None \/ rec'.status = "consumed"]_vars
=============================================================================
